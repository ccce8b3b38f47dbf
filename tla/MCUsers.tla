------------------------------- MODULE MCUsers -------------------------------
(***************************************************************************)
(* Small instances of Users for TLC: two registrations of one login with   *)
(* different passwords, a third of another login whose password is too     *)
(* long for bcrypt, and a login call with the password of the first.       *)
(***************************************************************************)
EXTENDS Users

CONSTANTS r1, r2, r3, l1, alice, bob

MCLogin    == [r \in Requests |-> IF r = r3 THEN bob ELSE alice]
MCPassword == [r \in Requests |-> IF r \in {r1, l1} THEN 1 ELSE 2]
=============================================================================
