\* One crash; nothing else fails.
SPECIFICATION Spec
CONSTANTS
  Users = {u1}
  Orders = {n1}
  Requests = {r1}
  Workers = {w1}
  MaxTx = 1
  QueueSize = 1
  AccrualValue <- MCAccrualValue
  MaxFailures = 0
  MaxRestarts = 1
  MaxSeconds = 0
  None = None
INVARIANTS
  ProcessedIsCredited
CHECK_DEADLOCK FALSE
