-------------------------- MODULE MCOrderProcessing --------------------------
(***************************************************************************)
(* Small instances of OrderProcessing for TLC.                             *)
(***************************************************************************)
EXTENDS OrderProcessing, OrderNumber, TLC

\* The numbers of the unit test.
ASSUME ExampleNumbers ==
  /\ OrderNumValidation(<<7, 9, 9, 2, 7, 3, 9, 8, 7, 1, 3>>)
  /\ ~OrderNumValidation(<<7, 9, 9, 2, 7, 3, 9, 8, 7, 1, 4>>)
  /\ ~OrderNumValidation(<<NonDigit>>) /\ ~OrderNumValidation(<<>>)

\* The code's loop decides as Luhn's algorithm does, with other bytes in any
\* place.
ASSUME ValidationIsLuhn ==
  \A number \in UNION {[1..k -> Digits \cup {NonDigit}] : k \in 0..3} :
    OrderNumValidation(number) <=> Luhn(number)

\* What the check digit is for: a wrong digit makes a valid number invalid, and
\* so do two different neighbours exchanged, unless they are 0 and 9.
ASSUME MistypedIsRefused ==
  \A number \in {n \in UNION {[1..k -> Digits] : k \in 1..3} : OrderNumValidation(n)} :
    \A i \in DOMAIN number :
      /\ \A d \in Digits \ {number[i]} : ~OrderNumValidation([number EXCEPT ![i] = d])
      /\ i < Len(number) =>
           (OrderNumValidation([number EXCEPT ![i] = number[i + 1], ![i + 1] = number[i]])
              <=> number[i] = number[i + 1] \/ {number[i], number[i + 1]} = {0, 9})

\* One point for every order: enough to tell a credit from none and from two.
MCAccrualValue == [n \in Orders |-> 1]
\* An award of nothing, which the accrual system may answer as well.
MCNoAward == [n \in Orders |-> 0]

\* Users, requests and workers are interchangeable in the runs that check no
\* liveness.
Symmetry == Permutations(Users) \cup Permutations(Requests) \cup Permutations(Workers)

\* Liveness starts where the uploads have ended: every order is accepted, the
\* task of the first is in the channel and the others' were dropped as the
\* channel was full.  Init leads here with one request per order.
FirstOrder == CHOOSE n \in Orders : TRUE
BacklogInit ==
  /\ order = [n \in Orders |-> OrderRecord(CHOOSE u \in Users : TRUE, "NEW", 0)]
  /\ queue = <<[number |-> FirstOrder, recovery |-> FALSE]>>
  /\ tx = [t \in TxIds |-> None]
  /\ balance = [u \in Users |-> 0]
  /\ service = [n \in Orders |-> "PENDING"]
  /\ pc = [w \in Workers |-> "idle"]
  /\ task = [w \in Workers |-> None]
  /\ copy = [w \in Workers |-> None]
  /\ txid = [w \in Workers |-> 0]
  /\ request = [r \in Requests |-> RequestRecord("getByNumber", None, None, 0)]
  /\ listed = {}
  /\ phase = "running"
  /\ failures = 0 /\ restarts = 0 /\ contended = {}

BacklogSpec == BacklogInit /\ [][Next]_vars /\ SystemFairness /\ AnswerFairness
BacklogLiveSpec == BacklogSpec /\ DecisionFairness
=============================================================================
