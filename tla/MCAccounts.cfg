\* Two of three withdrawals, two accruals, one reader; a new user without an account row.
SPECIFICATION MCLiveSpec
CONSTANTS
  u1 = u1 a1 = a1 a2 = a2 w1 = w1 w2 = w2 w3 = w3 r1 = r1 n1 = n1
  None = None
  Users = {u1}
  Withdrawals = {w1, w2, w3}
  Accruals = {a1, a2}
  Readers = {r1}
  Opened = {}
  MaxFailures = 1
  Owner <- MCOwner
  OrderNum <- MCOrderNum
  Asked <- MCAsked
INVARIANTS
  TypeOK
  NeverOverdrawn
  BalanceIsHistory
  AnswerTellsOutcome
  FiguresWereTrue
  LocksAreOrdered
PROPERTIES
  ImplementsAccount
  TransactionsEnd
CHECK_DEADLOCK FALSE
