------------------------------- MODULE OrderBook -------------------------------
(***************************************************************************)
(* An order book.  Most of it is what SPECIFICATION.md promises ("Загрузка *)
(* номера заказа" and "Взаимодействие с системой расчёта начислений"): a   *)
(* number is claimed once, for good; it is settled once, refused or        *)
(* awarded as the accrual system has decided; an award is paid at most     *)
(* once, in full, to the one who claimed it.  Nothing else moves points.   *)
(*                                                                         *)
(* Two actions are the code's own and depart from the document.  GiveUp:   *)
(* once there has been an error or an interruption an order may be         *)
(* refused that the accrual system has not refused.  Contest: an order     *)
(* that two workers have held at once keeps its owner, and what is paid    *)
(* for it is still an award of its own, but it may be paid again.          *)
(***************************************************************************)
EXTENDS Naturals

CONSTANTS Users, Orders, AccrualValue, None

VARIABLES
  owner,       \* order -> who has claimed it, or None
  stage,       \* order -> absent, open, refused, awarded, paid or contested
  verdict,     \* order -> what the accrual system has decided
  points,      \* user -> points received
  trouble      \* a statement or call has failed, or the process was ended
book  == <<owner, stage, verdict, points>>
bvars == <<book, trouble>>

BInit ==
  /\ owner = [n \in Orders |-> None]
  /\ stage = [n \in Orders |-> "absent"]
  /\ verdict = [n \in Orders |-> "PENDING"]
  /\ points = [u \in Users |-> 0]
  /\ trouble = FALSE

Move(n, from, to) == stage[n] = from /\ stage' = [stage EXCEPT ![n] = to]
PayOwner(n) == points' = [points EXCEPT ![owner[n]] = @ + AccrualValue[n]]

Claim(n) ==
  /\ Move(n, "absent", "open")
  /\ \E u \in Users : owner' = [owner EXCEPT ![n] = u]
  /\ UNCHANGED <<verdict, points>>

Decide(n) ==
  /\ verdict[n] = "PENDING"
  /\ \E v \in {"INVALID", "PROCESSED"} : verdict' = [verdict EXCEPT ![n] = v]
  /\ UNCHANGED <<owner, stage, points>>

Refuse(n) ==
  /\ verdict[n] = "INVALID"
  /\ Move(n, "open", "refused")
  /\ UNCHANGED <<owner, verdict, points>>

\* The accrual system, or the database, could not be asked.
GiveUp(n) ==
  /\ trouble
  /\ Move(n, "open", "refused")
  /\ UNCHANGED <<owner, verdict, points>>

Award(n) ==
  /\ verdict[n] = "PROCESSED"
  /\ Move(n, "open", "awarded")
  /\ UNCHANGED <<owner, verdict, points>>

Pay(n) ==
  /\ verdict[n] = "PROCESSED"
  /\ Move(n, "awarded", "paid")
  /\ PayOwner(n)
  /\ UNCHANGED <<owner, verdict>>

Contest(n) ==
  /\ stage[n] # "absent"
  /\ stage' = [stage EXCEPT ![n] = "contested"]
  /\ UNCHANGED <<owner, verdict, points>>

PayContested(n) ==
  /\ verdict[n] = "PROCESSED" /\ stage[n] = "contested"
  /\ PayOwner(n)
  /\ UNCHANGED <<owner, stage, verdict>>

BStep == \E n \in Orders :
  \/ Claim(n) \/ Decide(n) \/ Refuse(n) \/ Award(n) \/ Pay(n)
  \/ GiveUp(n) \/ Contest(n) \/ PayContested(n)

\* Trouble may come at any time, and is not forgotten.
BNext ==
  /\ BStep \/ UNCHANGED book
  /\ trouble' \in {trouble, TRUE}

BSpec == BInit /\ [][BNext]_bvars
=============================================================================
