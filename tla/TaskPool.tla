------------------------------- MODULE TaskPool -------------------------------
(***************************************************************************)
(* What the worker pool promises its users: Add accepts a task or refuses  *)
(* it, an accepted task runs once, and when Stop has returned nothing that *)
(* was accepted is left and nothing more is accepted.                      *)
(***************************************************************************)
CONSTANT Tasks

VARIABLES outcome, pool
avars == <<outcome, pool>>

AInit == outcome = [t \in Tasks |-> "none"] /\ pool = "open"

Accept(t) ==
  /\ pool = "open" /\ outcome[t] = "none"
  /\ outcome' = [outcome EXCEPT ![t] = "accepted"] /\ UNCHANGED pool

Refuse(t) ==
  /\ outcome[t] = "none"
  /\ outcome' = [outcome EXCEPT ![t] = "refused"] /\ UNCHANGED pool

Run(t) ==
  /\ pool = "open" /\ outcome[t] = "accepted"
  /\ outcome' = [outcome EXCEPT ![t] = "ran"] /\ UNCHANGED pool

Drain ==
  /\ pool = "open" /\ \A t \in Tasks : outcome[t] # "accepted"
  /\ pool' = "drained" /\ UNCHANGED outcome

ANext == Drain \/ \E t \in Tasks : Accept(t) \/ Refuse(t) \/ Run(t)

ASpec == AInit /\ [][ANext]_avars
=============================================================================
