\* The accrual system never decides one of two orders; nothing fails.
SPECIFICATION BacklogSpec
CONSTANTS
  Users = {u1}
  Orders = {n1, n2}
  Requests = {}
  Workers = {w1, w2}
  MaxTx = 2
  QueueSize = 1
  AccrualValue <- MCAccrualValue
  MaxFailures = 0
  MaxRestarts = 0
  MaxSeconds = 0
  None = None
PROPERTIES
  NewIsPickedUp
CHECK_DEADLOCK FALSE
