\* Two workers on one order, one failed or lost statement, one crash or shutdown.
SPECIFICATION Spec
CONSTANTS
  Users = {u1, u2}
  Orders = {n1}
  Requests = {r1, r2}
  Workers = {w1, w2}
  MaxTx = 2
  QueueSize = 1
  AccrualValue <- MCAccrualValue
  MaxFailures = 1
  MaxRestarts = 1
  MaxSeconds = 0
  None = None
SYMMETRY Symmetry
INVARIANTS
  TypeOK
  AnswersAgreeWithOwner
  BalanceMatchesLedger
  CreditsAreAwarded
  UncontendedCreditedOnce
  UncontendedPlannedOnce
  AwardsArePaid
PROPERTIES
  ApprovedFinal
  ShownIsFinal
  ImplementsBook
CHECK_DEADLOCK FALSE
