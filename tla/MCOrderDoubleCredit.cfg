\* Two workers on one order; nothing fails.
SPECIFICATION Spec
CONSTANTS
  Users = {u1}
  Orders = {n1}
  Requests = {r1}
  Workers = {w1, w2}
  MaxTx = 2
  QueueSize = 1
  AccrualValue <- MCAccrualValue
  MaxFailures = 0
  MaxRestarts = 0
  MaxSeconds = 0
  None = None
INVARIANTS
  CreditedAtMostOnce
CHECK_DEADLOCK FALSE
