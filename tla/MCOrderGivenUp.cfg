\* One worker, one order; one statement or one call of the accrual system fails.
SPECIFICATION Spec
CONSTANTS
  Users = {u1}
  Orders = {n1}
  Requests = {r1}
  Workers = {w1}
  MaxTx = 2
  QueueSize = 1
  AccrualValue <- MCAccrualValue
  MaxFailures = 1
  MaxRestarts = 0
  MaxSeconds = 0
  None = None
INVARIANTS
  InvalidIsRefused
CHECK_DEADLOCK FALSE
