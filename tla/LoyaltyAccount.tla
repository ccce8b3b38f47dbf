---------------------------- MODULE LoyaltyAccount ----------------------------
(***************************************************************************)
(* What the loyalty account promises (SPECIFICATION.md, "Запрос на         *)
(* списание средств"): every withdrawal and every accrual takes effect at  *)
(* one instant and at most once; a withdrawal takes effect exactly when    *)
(* the points suffice at that instant, and is refused when they do not.    *)
(* A client that fails before that instant leaves no trace.                *)
(***************************************************************************)
EXTENDS Naturals

CONSTANTS Users, Withdrawals, Accruals, Owner, Amount

Clients == Withdrawals \cup Accruals

VARIABLES points, outcome
avars == <<points, outcome>>

AInit ==
  /\ points = [u \in Users |-> 0]
  /\ outcome = [c \in Clients |-> "open"]

Debit(c) ==
  /\ c \in Withdrawals /\ outcome[c] = "open"
  /\ points[Owner[c]] >= Amount[c]
  /\ points' = [points EXCEPT ![Owner[c]] = @ - Amount[c]]
  /\ outcome' = [outcome EXCEPT ![c] = "paid"]

Refuse(c) ==
  /\ c \in Withdrawals /\ outcome[c] = "open"
  /\ points[Owner[c]] < Amount[c]
  /\ outcome' = [outcome EXCEPT ![c] = "refused"]
  /\ UNCHANGED points

Credit(c) ==
  /\ c \in Accruals /\ outcome[c] = "open"
  /\ points' = [points EXCEPT ![Owner[c]] = @ + Amount[c]]
  /\ outcome' = [outcome EXCEPT ![c] = "paid"]

ANext == \E c \in Clients : Debit(c) \/ Refuse(c) \/ Credit(c)

ASpec == AInit /\ [][ANext]_avars
=============================================================================
