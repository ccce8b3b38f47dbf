\* Three calls of Add, two workers, a channel of one; Start and Stop race.
SPECIFICATION LiveSpec
CONSTANTS
  Tasks = {t1, t2, t3}
  Workers = {w1, w2}
  QueueSize = 1
  None = None
INVARIANTS
  TypeOK
  TasksCounted
  StopWaitsForSomebody
PROPERTIES
  ImplementsPool
  AcceptedRuns
  StopReturns
CHECK_DEADLOCK FALSE
