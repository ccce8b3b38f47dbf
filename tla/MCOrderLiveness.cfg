\* One worker, two orders, a queue of one task.
SPECIFICATION BacklogLiveSpec
CONSTANTS
  Users = {u1}
  Orders = {n1, n2}
  Requests = {}
  Workers = {w1}
  MaxTx = 5
  QueueSize = 1
  AccrualValue <- MCAccrualValue
  MaxFailures = 1
  MaxRestarts = 1
  MaxSeconds = 0
  None = None
PROPERTIES
  OrderSettles
CHECK_DEADLOCK FALSE
