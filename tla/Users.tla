--------------------------------- MODULE Users ---------------------------------
(***************************************************************************)
(* POST /api/user/register and POST /api/user/login, and the tokens that   *)
(* the middleware of every other request looks up.                         *)
(*                                                                         *)
(* Grain.  One action is one SQL statement, which commits by itself: the   *)
(* service uses no transaction.  RegisterUser runs under a mutex of its    *)
(* process; several processes may share the database.                      *)
(*                                                                         *)
(* A user row is named after the request that inserts it and a token after *)
(* the request that is given it, as both are drawn afresh.  Each statement *)
(* ends "ok", "fail" (not applied) or "lost" (applied, but the caller sees *)
(* an error); the last two, and crashes, draw on MaxFailures.              *)
(***************************************************************************)
EXTENDS Naturals

CONSTANTS
  Registrations,   \* calls of the registration handler
  LoginCalls,      \* calls of the login handler
  Processes,       \* processes of the server, one UserService each
  Logins,
  Login,           \* request -> login in its body
  Password,        \* request -> password in its body
  TooLong,         \* registrations whose password bcrypt refuses (over 72 bytes)
  MaxFailures,     \* bound: statements that end in an error, and crashes
  None             \* no row, no holder, no answer

Requests == Registrations \cup LoginCalls

ASSUME UsersAssumption ==
  /\ Registrations \cap LoginCalls = {} /\ TooLong \subseteq Registrations
  /\ Login \in [Requests -> Logins]
  /\ MaxFailures \in Nat
  /\ None \notin Requests /\ None \notin Processes /\ None \notin Nat

VARIABLES
  user,        \* table "user": the registrations whose row is there
  account,     \* table "account": the user rows that have one
  auth,        \* table "auth": request -> user its token was issued for, or None
  expired,     \* tokens whose expired_at has passed
  mutex,       \* process -> request inside RegisterUser, or None
  pc,          \* request -> the statement it does next
  process,     \* request -> the process that serves it, or None
  found,       \* request -> userID that Authenticate has read, or None
  answer,      \* request -> HTTP code, or None
  known,       \* history: login calls that began when their credentials were registered
  failures

tables == <<user, account, auth, expired>>
vars   == <<tables, mutex, pc, process, found, answer, known, failures>>

Init ==
  /\ user = {} /\ account = {}
  /\ auth = [r \in Requests |-> None] /\ expired = {}
  /\ mutex = [p \in Processes |-> None]
  /\ pc = [r \in Requests |-> "start"]
  /\ process = [r \in Requests |-> None]
  /\ found = [r \in Requests |-> None]
  /\ answer = [r \in Requests |-> None]
  /\ known = {} /\ failures = 0

\* The statements RegisterUser does while it holds the mutex.
Critical  == {"checkLogin", "insertUser", "insertAccount"}
RequestPCs == {"start", "lock", "done", "aborted", "findUser", "insertToken"} \cup Critical
-----------------------------------------------------------------------------
(* What every statement shares.                                            *)

Results == {"ok", "fail", "lost"}
DbResult(res) ==
  \/ res = "ok" /\ UNCHANGED failures
  \/ /\ res \in {"fail", "lost"}
     /\ failures < MaxFailures /\ failures' = failures + 1

Goto(r, p) == pc' = [pc EXCEPT ![r] = p]
Reply(r, code) == Goto(r, "done") /\ answer' = [answer EXCEPT ![r] = code]

\* defer us.mutex.Unlock().  Faulty variant: a return without it.
KeepMutex(r) == UNCHANGED mutex
Unlock(r) == mutex' = [mutex EXCEPT ![process[r]] = None]

\* RegisterUser returns an error, and the handler answers.
RegisterFails(r, code) == Reply(r, code) /\ Unlock(r)

\* Rows with the login of r, and those whose password is that of r.
Namesakes(r) == {u \in user : Login[u] = Login[r]}
Matching(r) == {u \in Namesakes(r) : Password[u] = Password[r]}

-----------------------------------------------------------------------------
(* RegisterUser.                                                           *)

Begin(r) ==
  /\ pc[r] = "start"
  /\ \E p \in Processes : process' = [process EXCEPT ![r] = p]
  /\ Goto(r, IF r \in Registrations THEN "lock" ELSE "findUser")
  /\ known' = IF r \in LoginCalls /\ Matching(r) # {} THEN known \cup {r} ELSE known
  /\ UNCHANGED <<tables, mutex, found, answer, failures>>

\* us.mutex.Lock().  Faulty variant: nobody waits for it.
MutexIgnored(r) == TRUE
MutexFree(r) == mutex[process[r]] = None

Lock(r) ==
  /\ pc[r] = "lock" /\ MutexFree(r)
  /\ mutex' = [mutex EXCEPT ![process[r]] = r]
  /\ Goto(r, "checkLogin")
  /\ UNCHANGED <<tables, process, found, answer, known, failures>>

\* assertUserExists, then the hash of the password.
CheckLogin(r) ==
  /\ pc[r] = "checkLogin"
  /\ \E res \in {"ok", "fail"} :
       /\ DbResult(res)
       /\ \/ res = "fail" /\ RegisterFails(r, 500)
          \/ res = "ok" /\ Namesakes(r) # {} /\ RegisterFails(r, 409)
          \/ res = "ok" /\ Namesakes(r) = {} /\ r \in TooLong /\ RegisterFails(r, 500)
          \/ /\ res = "ok" /\ Namesakes(r) = {} /\ r \notin TooLong
             /\ Goto(r, "insertUser") /\ UNCHANGED <<mutex, answer>>
  /\ UNCHANGED <<tables, process, found, known>>

\* INSERT ... ON CONFLICT (login) DO NOTHING, on UNIQUE (login).  Faulty
\* variants: the constraint is missing; the conflict updates the row.
AnyLogin(r) == FALSE
Conflicts(r) == Namesakes(r) # {}
Overwrite(r) == user' = (user \ Namesakes(r)) \cup {r}
InsertRow(r) == user' = IF Conflicts(r) THEN user ELSE user \cup {r}

InsertUser(r) ==
  /\ pc[r] = "insertUser"
  /\ \E res \in Results :
       /\ DbResult(res)
       /\ IF res = "fail" THEN UNCHANGED user ELSE InsertRow(r)
       /\ \/ res # "ok" /\ RegisterFails(r, 500)
          \/ res = "ok" /\ Conflicts(r) /\ RegisterFails(r, 409)
          \/ /\ res = "ok" /\ ~Conflicts(r)
             /\ Goto(r, "insertAccount") /\ UNCHANGED <<mutex, answer>>
  /\ UNCHANGED <<account, auth, expired, process, found, known>>

\* Faulty variant: the error is only logged.
InsertAccountLogged(r) ==
  /\ pc[r] = "insertAccount"
  /\ \E res \in Results :
       /\ DbResult(res)
       /\ account' = IF res = "fail" THEN account ELSE account \cup {r}
       /\ Goto(r, "findUser") /\ Unlock(r) /\ UNCHANGED answer
  /\ UNCHANGED <<user, auth, expired, process, found, known>>

\* The error of the INSERT is the error of RegisterUser.
InsertAccount(r) ==
  /\ pc[r] = "insertAccount"
  /\ \E res \in Results :
       /\ DbResult(res)
       /\ account' = IF res = "fail" THEN account ELSE account \cup {r}
       /\ \/ res # "ok" /\ RegisterFails(r, 500)
          \/ res = "ok" /\ Goto(r, "findUser") /\ Unlock(r) /\ UNCHANGED answer
  /\ UNCHANGED <<user, auth, expired, process, found, known>>

-----------------------------------------------------------------------------
(* Authenticate, for both handlers.                                        *)

\* ErrInvalidCredentials: only the login handler knows it.
Invalid(r) == IF r \in LoginCalls THEN 401 ELSE 500

\* PasswordVerify.  Faulty variant: the password is not compared.
VerifyAny(r, u) == TRUE
PasswordVerify(r, u) == Password[u] = Password[r]

\* The SELECT by login takes one row; then PasswordVerify.
FindUser(r) ==
  /\ pc[r] = "findUser"
  /\ \E res \in {"ok", "fail"} :
       /\ DbResult(res)
       /\ \/ res = "fail" /\ Reply(r, 500) /\ UNCHANGED found
          \/ res = "ok" /\ Namesakes(r) = {} /\ Reply(r, Invalid(r)) /\ UNCHANGED found
          \/ /\ res = "ok"
             /\ \E u \in Namesakes(r) :
                  \/ ~PasswordVerify(r, u) /\ Reply(r, Invalid(r)) /\ UNCHANGED found
                  \/ /\ PasswordVerify(r, u)
                     /\ found' = [found EXCEPT ![r] = u]
                     /\ Goto(r, "insertToken") /\ UNCHANGED answer
  /\ UNCHANGED <<tables, mutex, process, known>>

InsertToken(r) ==
  /\ pc[r] = "insertToken"
  /\ \E res \in Results :
       /\ DbResult(res)
       /\ auth' = IF res = "fail" THEN auth ELSE [auth EXCEPT ![r] = found[r]]
       /\ Reply(r, IF res = "ok" THEN 200 ELSE 500)
  /\ UNCHANGED <<user, account, expired, mutex, process, found, known>>

-----------------------------------------------------------------------------
(* The middleware: one SELECT per request, a view of the table.            *)

Expire(r) ==
  /\ auth[r] # None /\ r \notin expired
  /\ expired' = expired \cup {r}
  /\ UNCHANGED <<user, account, auth, mutex, pc, process, found, answer, known, failures>>

\* GetUserID: the user of a token whose expired_at has not passed.
GetUserID(t) == IF t \in expired THEN None ELSE auth[t]

-----------------------------------------------------------------------------
\* A process dies and comes back: its requests are gone, and its mutex is a
\* new one.
Crash(p) ==
  /\ failures < MaxFailures /\ failures' = failures + 1
  /\ mutex' = [mutex EXCEPT ![p] = None]
  /\ pc' = [r \in Requests |-> IF process[r] = p /\ pc[r] # "done" THEN "aborted" ELSE pc[r]]
  /\ UNCHANGED <<tables, process, found, answer, known>>

RegisterUser(r) == Lock(r) \/ CheckLogin(r) \/ InsertUser(r) \/ InsertAccount(r)
Authenticate(r) == FindUser(r) \/ InsertToken(r)
Serve(r) == RegisterUser(r) \/ Authenticate(r)

Next ==
  \/ \E r \in Requests : Begin(r) \/ Serve(r) \/ Expire(r)
  \/ \E p \in Processes : Crash(p)

Spec == Init /\ [][Next]_vars

\* The goroutine of a request runs, and PostgreSQL answers.
LiveSpec == Spec /\ \A r \in Requests : WF_vars(Serve(r))
-----------------------------------------------------------------------------
(* Properties.                                                             *)

\* Tables, mutexes and locals have the shapes of their SQL and Go types; who
\* holds a mutex is inside RegisterUser of that process.
TypeOK ==
  /\ user \subseteq Registrations /\ account \subseteq user
  /\ auth \in [Requests -> user \cup {None}]
  /\ expired \subseteq Requests
  /\ mutex \in [Processes -> Requests \cup {None}]
  /\ \A p \in Processes : mutex[p] # None =>
       pc[mutex[p]] \in Critical /\ process[mutex[p]] = p
  /\ pc \in [Requests -> RequestPCs]
  /\ process \in [Requests -> Processes \cup {None}]
  /\ found \in [Requests -> user \cup {None}]
  /\ answer \in [Requests -> {200, 401, 409, 500, None}]
  /\ known \subseteq LoginCalls
  /\ failures \in 0..MaxFailures

\* Inside one process the check is enough: between its SELECT and its INSERT a
\* registration can lose its login only to another process (RegisterUser holds
\* the mutex over both, and every return releases it).
LostOnlyElsewhere ==
  \A r \in Requests : pc[r] = "insertUser" =>
    \A u \in Namesakes(r) : process[u] # process[r]

\* A token that the middleware accepts speaks for the login and the password
\* that were presented for it, after a registration as after a login: no race
\* of registrations leaves a client with the token of another's account.
TokensProvePassword ==
  \A t \in Requests : GetUserID(t) # None =>
    GetUserID(t) \in Matching(t)

\* What a registration was told is so, through failures, lost replies and
\* crashes: 200, and its user row, its account and its own token are there
\* (four statements, no transaction); 409, and somebody else has the login.
RegistrationAnswers ==
  \A r \in Registrations :
    /\ answer[r] = 200 => r \in user /\ r \in account /\ auth[r] = r
    /\ answer[r] = 409 => r \notin user /\ Namesakes(r) # {}

\* Who has registered can log in: a login call that begins once its login and
\* password are in the table is never answered 401, whatever registrations of
\* the same login, failures and crashes come before and after.
RegisteredCanLogin == \A r \in known : answer[r] # 401

\* Every request is answered or dies with its process: every return of
\* RegisterUser releases the mutex the next registration waits for.
RequestsEnd ==
  \A r \in Requests : (pc[r] \notin {"start", "done"}) ~> (pc[r] \in {"done", "aborted"})

\* The tables implement the registry that SPECIFICATION.md promises: a login
\* is claimed by one INSERT, and the answers agree with who holds it.
Holder(l) == IF \E u \in user : Login[u] = l
             THEN CHOOSE u \in user : Login[u] = l ELSE None

LoginRegistry == INSTANCE Registry WITH
  holder <- [l \in Logins |-> Holder(l)], reply <- answer

ImplementsRegistry == LoginRegistry!RSpec
=============================================================================
