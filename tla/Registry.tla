------------------------------- MODULE Registry -------------------------------
(***************************************************************************)
(* What registration and login promise (SPECIFICATION.md, "Регистрация     *)
(* пользователя" and "Аутентификация пользователя"): a login is claimed at *)
(* one instant by one registration and for good; a registration is         *)
(* confirmed only to the one that holds the login and refused only to      *)
(* another; a login call is let in with the holder's password and only     *)
(* then.  A request that fails may have claimed its login all the same.    *)
(***************************************************************************)
CONSTANTS Registrations, LoginCalls, Logins, Login, Password, None

Requests == Registrations \cup LoginCalls

VARIABLES
  holder,      \* login -> the registration that has claimed it, or None
  reply        \* request -> HTTP code, or None
rvars == <<holder, reply>>

RInit ==
  /\ holder = [l \in Logins |-> None]
  /\ reply = [r \in Requests |-> None]

Claim(r) ==
  /\ r \in Registrations /\ holder[Login[r]] = None
  /\ holder' = [holder EXCEPT ![Login[r]] = r]
  /\ UNCHANGED reply

\* The claim is made, and its maker is told of an error.
ClaimUnheard(r) ==
  /\ r \in Registrations /\ holder[Login[r]] = None /\ reply[r] = None
  /\ holder' = [holder EXCEPT ![Login[r]] = r]
  /\ reply' = [reply EXCEPT ![r] = 500]

Answer(r, code) ==
  /\ reply[r] = None
  /\ reply' = [reply EXCEPT ![r] = code]
  /\ UNCHANGED holder

HolderHasPassword(r) ==
  holder[Login[r]] # None /\ Password[holder[Login[r]]] = Password[r]

Confirm(r) == r \in Registrations /\ holder[Login[r]] = r /\ Answer(r, 200)
Refuse(r)  == r \in Registrations /\ holder[Login[r]] \notin {None, r} /\ Answer(r, 409)
LetIn(r)   == r \in LoginCalls /\ HolderHasPassword(r) /\ Answer(r, 200)
TurnAway(r) == r \in LoginCalls /\ ~HolderHasPassword(r) /\ Answer(r, 401)
Fail(r)    == Answer(r, 500)

RNext == \E r \in Requests :
  Claim(r) \/ ClaimUnheard(r) \/ Confirm(r) \/ Refuse(r)
  \/ LetIn(r) \/ TurnAway(r) \/ Fail(r)

RSpec == RInit /\ [][RNext]_rvars
=============================================================================
