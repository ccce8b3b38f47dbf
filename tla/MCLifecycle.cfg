\* Two uploads and a recovered order, one worker; the process is started and shut down.
SPECIFICATION LiveSpec
CONSTANTS
  Uploads = {u1, u2}
  Recoveries = {r1}
  Second = 3
  MaxDelay = 7
  Half = 16
  RetryAfters <- MCRetryAfters
  Workers = 1
  QueueSize = 1
  ServerTimeout = 4
  ProcessTimeout = 6
INVARIANTS
  TypeOK
  CancelledPollsStop
  NothingAbandoned
  NobodyCutUnlessLate
PROPERTIES
  CallsAsAsked
  LateOnlyForPool
  ShutdownAdvances
  ShutdownEnds
CHECK_DEADLOCK FALSE
