\* One worker, one order that is awarded no points; nothing fails.
SPECIFICATION Spec
CONSTANTS
  Users = {u1}
  Orders = {n1}
  Requests = {r1}
  Workers = {w1}
  MaxTx = 2
  QueueSize = 1
  AccrualValue <- MCNoAward
  MaxFailures = 0
  MaxRestarts = 0
  MaxSeconds = 0
  None = None
INVARIANTS
  SettledOrderIsServed
CHECK_DEADLOCK FALSE
