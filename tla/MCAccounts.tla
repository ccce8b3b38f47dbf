------------------------------ MODULE MCAccounts ------------------------------
(***************************************************************************)
(* Small instances of Accounts for TLC: two withdrawals that round to 2    *)
(* compete for accruals of 3 and 1; a third asks for less than the columns *)
(* can hold.  All name one order number, so that every cancellation finds  *)
(* the rows of the others.  A behaviour has the calls of one cast.         *)
(***************************************************************************)
EXTENDS Accounts

CONSTANTS u1, a1, a2, w1, w2, w3, r1, n1

\* Every client is a client of one user: rows of different users share nothing.
MCOwner    == [c \in Clients \cup Readers |-> u1]
MCOrderNum == [c \in Clients |-> n1]
MCAsked    == [c \in Clients |-> CASE c = w1 -> 24 [] c = w2 -> 15 [] c = w3 -> 4
                                   [] c = a1 -> 30 [] c = a2 -> 10]

\* Two tasks of one order against both withdrawals; or fewer of them, watched.
MCCasts == {{a1, a2, w1, w2}, {a1, w1, w2, r1}, {a1, a2, w3, r1}}

\* Init with the calls of one cast; the others are not made.
MCInit == \E cast \in MCCasts :
  /\ account = [u \in Users |-> IF u \in Opened THEN 0 ELSE None]
  /\ status = [c \in Clients |-> None]
  /\ rowLock = [c \in Clients |-> None]
  /\ scan = [c \in Clients |-> <<>>]
  /\ accLock = [u \in Users |-> None]
  /\ pending = [c \in Clients |-> None]
  /\ verdict = [c \in Clients |-> None]
  /\ pc = [c \in Clients |-> IF c \notin cast THEN "aborted"
                             ELSE IF c \in Accruals THEN "cancelPlanned" ELSE "register"]
  /\ answer = [c \in Clients |-> None]
  /\ reader = [r \in Readers |->
        ReaderRecord(IF r \in cast THEN "readCurrent" ELSE "aborted", None, None)]
  /\ seen = [r \in Readers |-> {}]
  /\ failures = 0

MCLiveSpec == MCInit /\ [][Next]_vars /\ LockFairness
=============================================================================
