------------------------------ MODULE UsersProofs ------------------------------
(***************************************************************************)
(* Proofs about Users, for every number of requests and processes, every   *)
(* choice of logins and passwords, and every number of failures and        *)
(* crashes.                                                                *)
(*                                                                         *)
(* The argument.  Rows are never removed and ON CONFLICT keeps one row per *)
(* login, so the row a request has found is still the one row of its login *)
(* when it inserts the token (RequestInv).  A request between its check    *)
(* and its INSERT holds the mutex of its process, so a row that appears    *)
(* meanwhile comes from another process.                                   *)
(***************************************************************************)
EXTENDS Users, TLAPS

LoginUnique == \A u, v \in user : Login[u] = Login[v] => u = v

\* What is so of one request, wherever it stands.
RequestInv(q) ==
  /\ pc[q] \in {"start", "lock", "checkLogin", "insertUser"} => q \notin user
  /\ pc[q] \in {"lock"} \cup Critical => q \in Registrations /\ process[q] \in Processes
  /\ pc[q] \in Critical => mutex[process[q]] = q
  /\ pc[q] = "insertUser" => \A u \in Namesakes(q) : process[u] # process[q]
  /\ pc[q] = "insertAccount" => q \in user
  /\ pc[q] \in {"findUser", "insertToken"} /\ q \in Registrations => q \in account
  /\ pc[q] = "insertToken" => found[q] \in Matching(q)
  /\ auth[q] # None => auth[q] \in Matching(q)
  /\ pc[q] # "done" => answer[q] = None
  /\ q \in Registrations =>
       /\ answer[q] = 200 => q \in account /\ auth[q] = q
       /\ answer[q] = 409 => q \notin user /\ Namesakes(q) # {}
  /\ q \in known => q \in LoginCalls /\ Matching(q) # {} /\ answer[q] # 401

IInv == TypeOK /\ LoginUnique /\ \A q \in Requests : RequestInv(q)
-----------------------------------------------------------------------------
(* What a step of r leaves to the other requests.                          *)

Frame(r) ==
  /\ user \subseteq user' /\ account \subseteq account'
  /\ user' = user \/ (user' = user \cup {r} /\ pc[r] = "insertUser")
  /\ \A q \in Requests \ {r} :
       /\ pc'[q] = pc[q] /\ process'[q] = process[q] /\ found'[q] = found[q]
       /\ answer'[q] = answer[q] /\ auth'[q] = auth[q] /\ (q \in known' => q \in known)
       /\ pc[q] \in Critical => mutex'[process[q]] = mutex[process[q]]
  /\ pc[r] # "start" => process'[r] = process[r]

\* What is to be shown of every step of a request r.
StepOK(r) == TypeOK' /\ LoginUnique' /\ Frame(r) /\ RequestInv(r)'

LEMMA Kinds ==
  ASSUME NEW r \in Requests
  PROVE  /\ r # None /\ (r \in Registrations <=> r \notin LoginCalls)
         /\ Login[r] \in Logins
         /\ None \notin {200, 401, 409, 500}
BY UsersAssumption DEF Requests

\* A request that holds no mutex leaves every mutex alone, or takes a free one.
LEMMA OtherRequest ==
  ASSUME NEW r \in Requests, NEW q \in Requests \ {r}, IInv, Frame(r)
  PROVE  RequestInv(q)'
<1>1. RequestInv(q) /\ RequestInv(r) /\ user \subseteq Registrations
  BY DEF IInv, TypeOK
<1>2. /\ user \subseteq user' /\ account \subseteq account' /\ (q \in user' => q \in user)
      /\ pc'[q] = pc[q] /\ process'[q] = process[q] /\ found'[q] = found[q]
      /\ answer'[q] = answer[q] /\ auth'[q] = auth[q] /\ (q \in known' => q \in known)
      /\ pc[q] \in Critical => mutex'[process[q]] = mutex[process[q]]
  BY DEF Frame
<1>3. Namesakes(q) \subseteq Namesakes(q)' /\ Matching(q) \subseteq Matching(q)'
  BY <1>2 DEF Namesakes, Matching
<1>4. ASSUME pc[q] = "insertUser", NEW u \in Namesakes(q)' PROVE process'[u] # process'[q]
  <2>1. CASE u = r
    <3>1. r \in user \/ pc[r] = "insertUser"
      BY <1>4, <2>1 DEF Frame, Namesakes
    <3>2. CASE r \in user
      <4>1. pc[r] # "start" /\ r \in Namesakes(q)
        BY <1>1, <1>4, <2>1, <3>2 DEF RequestInv, Namesakes
      <4> QED BY <1>1, <1>2, <1>4, <2>1, <4>1 DEF Frame, RequestInv
    <3>3. CASE pc[r] = "insertUser"
      BY <1>1, <1>2, <1>4, <2>1, <3>3 DEF Frame, RequestInv, Critical
    <3> QED BY <3>1, <3>2, <3>3
  <2>2. CASE u # r
    <3>1. u \in Namesakes(q) /\ u \in Requests \ {r}
      BY <1>1, <1>4, <2>2 DEF Frame, Namesakes, Requests
    <3> QED BY <1>1, <1>2, <1>4, <3>1 DEF Frame, RequestInv
  <2> QED BY <2>1, <2>2
<1> QED BY <1>1, <1>2, <1>3, <1>4 DEF RequestInv

LEMMA StepPreserves ==
  ASSUME IInv, NEW r \in Requests, StepOK(r)
  PROVE  IInv'
BY OtherRequest DEF IInv, StepOK
-----------------------------------------------------------------------------
(* The statements.                                                         *)

LEMMA DbTypes ==
  ASSUME NEW res, DbResult(res), failures \in 0..MaxFailures
  PROVE  failures' \in 0..MaxFailures
BY UsersAssumption DEF DbResult

\* A step of r that changes neither the tables nor anything of another request.
LEMMA QuietStep ==
  ASSUME IInv, NEW r \in Requests, NEW p \in RequestPCs, Goto(r, p),
         UNCHANGED <<user, account, auth, known>>
  PROVE  /\ pc' \in [Requests -> RequestPCs] /\ pc'[r] = p
         /\ \A q \in Requests \ {r} : pc'[q] = pc[q]
         /\ LoginUnique'
         /\ Namesakes(r)' = Namesakes(r) /\ Matching(r)' = Matching(r)
BY DEF IInv, TypeOK, LoginUnique, Goto, Namesakes, Matching

LEMMA ReplyTypes ==
  ASSUME IInv, NEW r \in Requests, NEW code \in {200, 401, 409, 500}, Reply(r, code)
  PROVE  /\ Goto(r, "done") /\ pc'[r] = "done" /\ pc' \in [Requests -> RequestPCs]
         /\ \A q \in Requests \ {r} : pc'[q] = pc[q] /\ answer'[q] = answer[q]
         /\ answer'[r] = code
         /\ answer' \in [Requests -> {200, 401, 409, 500, None}]
BY DEF IInv, TypeOK, Reply, Goto, RequestPCs

\* Leaving RegisterUser frees one mutex, and no one else's.
LEMMA UnlockTypes ==
  ASSUME IInv, NEW r \in Requests, pc[r] \in Critical, Unlock(r),
         \A q \in Requests \ {r} : pc'[q] = pc[q],
         UNCHANGED process
  PROVE  /\ mutex' \in [Processes -> Requests \cup {None}]
         /\ \A p \in Processes : mutex'[p] # None =>
              pc'[mutex'[p]] \in Critical /\ process'[mutex'[p]] = p
         /\ \A q \in Requests \ {r} :
              pc[q] \in Critical => mutex'[process[q]] = mutex[process[q]]
<1>1. /\ process[r] \in Processes /\ mutex[process[r]] = r
      /\ mutex \in [Processes -> Requests \cup {None}]
      /\ mutex' = [mutex EXCEPT ![process[r]] = None]
  BY DEF IInv, TypeOK, RequestInv, Unlock
<1>2. ASSUME NEW p \in Processes, mutex'[p] # None
      PROVE  pc'[mutex'[p]] \in Critical /\ process'[mutex'[p]] = p
  <2>1. p # process[r] /\ mutex'[p] = mutex[p] /\ mutex[p] # None
    BY <1>1, <1>2
  <2>2. pc[mutex[p]] \in Critical /\ process[mutex[p]] = p /\ mutex[p] \in Requests
    BY <1>1, <2>1 DEF IInv, TypeOK
  <2> QED BY <2>1, <2>2
<1>3. ASSUME NEW q \in Requests \ {r}, pc[q] \in Critical
      PROVE  mutex'[process[q]] = mutex[process[q]]
  <2>1. process[q] \in Processes /\ mutex[process[q]] = q
    BY <1>3 DEF IInv, RequestInv
  <2> QED BY <1>1, <1>3, <2>1
<1> QED BY <1>1, <1>2, <1>3

\* RegisterUser returns an error: the tables may have changed, r has not.
LEMMA RegisterFailsOK ==
  ASSUME IInv, NEW r \in Requests, pc[r] \in Critical,
         NEW code \in {409, 500}, RegisterFails(r, code),
         UNCHANGED <<auth, expired, process, found, known>>,
         failures' \in 0..MaxFailures,
         user' = user \/ (user' = user \cup {r} /\ pc[r] = "insertUser" /\ Namesakes(r) = {}),
         account' = account \/ (account' = account \cup {r} /\ pc[r] = "insertAccount"),
         code = 409 => Namesakes(r) # {} /\ user' = user /\ pc[r] # "insertAccount"
  PROVE  StepOK(r)
<1>1. TypeOK /\ LoginUnique /\ RequestInv(r)
  BY DEF IInv
<1>2. /\ Reply(r, code) /\ Unlock(r)
  BY DEF RegisterFails
<1>3. /\ pc'[r] = "done" /\ pc' \in [Requests -> RequestPCs] /\ answer'[r] = code
      /\ answer' \in [Requests -> {200, 401, 409, 500, None}]
      /\ \A q \in Requests \ {r} : pc'[q] = pc[q] /\ answer'[q] = answer[q]
  BY <1>2, ReplyTypes
<1>4. r \in Registrations /\ r \notin LoginCalls
  BY <1>1, Kinds DEF RequestInv
<1>5. /\ user \subseteq user' /\ account \subseteq account'
      /\ user' \subseteq Registrations /\ account' \subseteq user'
  BY <1>1, <1>4 DEF TypeOK, RequestInv
<1>6. TypeOK'
  <2>1. auth' \in [Requests -> user' \cup {None}] /\ found' \in [Requests -> user' \cup {None}]
    BY <1>1, <1>5 DEF TypeOK
  <2> QED BY <1>1, <1>2, <1>3, <1>5, <2>1, UnlockTypes DEF TypeOK
<1>7. LoginUnique'
  BY <1>1, <1>4 DEF LoginUnique, Namesakes
<1>8. Frame(r)
  BY <1>2, <1>3, <1>5, UnlockTypes DEF Frame
<1>9. RequestInv(r)'
  <2>1. Namesakes(r) \subseteq Namesakes(r)' /\ Matching(r) \subseteq Matching(r)'
    BY <1>5 DEF Namesakes, Matching
  <2>2. code = 409 => r \notin user'
    BY <1>1 DEF RequestInv, Critical
  <2>3. r \notin known
    BY <1>1, <1>4 DEF TypeOK
  <2> QED BY <1>1, <1>3, <2>1, <2>2, <2>3 DEF RequestInv, Critical
<1> QED BY <1>6, <1>7, <1>8, <1>9 DEF StepOK

\* A step of r outside RegisterUser that leaves the tables of users alone.
LEMMA OutsideOK ==
  ASSUME IInv, NEW r \in Requests, NEW p \in RequestPCs \ Critical, Goto(r, p),
         pc[r] \notin Critical,
         UNCHANGED <<user, account, expired, mutex>>,
         process' \in [Requests -> Processes \cup {None}],
         found' \in [Requests -> user \cup {None}],
         auth' \in [Requests -> user \cup {None}],
         answer' \in [Requests -> {200, 401, 409, 500, None}],
         known' \subseteq LoginCalls, failures' \in 0..MaxFailures,
         \A q \in Requests \ {r} :
           /\ process'[q] = process[q] /\ found'[q] = found[q]
           /\ answer'[q] = answer[q] /\ auth'[q] = auth[q] /\ (q \in known' => q \in known),
         pc[r] # "start" => process'[r] = process[r],
         RequestInv(r)'
  PROVE  StepOK(r)
<1>1. TypeOK /\ LoginUnique
  BY DEF IInv
<1>2. /\ pc' \in [Requests -> RequestPCs] /\ pc'[r] = p
      /\ \A q \in Requests \ {r} : pc'[q] = pc[q]
  BY <1>1 DEF TypeOK, Goto
<1>3. \A c \in Processes : mutex'[c] # None =>
        pc'[mutex'[c]] \in Critical /\ process'[mutex'[c]] = c
  BY <1>1, <1>2 DEF TypeOK
<1>4. TypeOK'
  BY <1>1, <1>2, <1>3 DEF TypeOK
<1>5. LoginUnique'
  BY <1>1 DEF LoginUnique
<1>6. Frame(r)
  BY <1>2 DEF Frame
<1> QED BY <1>4, <1>5, <1>6 DEF StepOK

LEMMA BeginOK == ASSUME IInv, NEW r \in Requests, Begin(r) PROVE StepOK(r)
<1>1. TypeOK /\ RequestInv(r)
  BY DEF IInv
<1>2. PICK c \in Processes : process' = [process EXCEPT ![r] = c]
  BY DEF Begin
<1> DEFINE p == IF r \in Registrations THEN "lock" ELSE "findUser"
<1>3. /\ pc[r] = "start" /\ Goto(r, p)
      /\ known' = IF r \in LoginCalls /\ Matching(r) # {} THEN known \cup {r} ELSE known
      /\ UNCHANGED <<tables, mutex, found, answer, failures>>
  BY DEF Begin
<1>4. p \in RequestPCs \ Critical /\ pc[r] \notin Critical
  BY <1>3 DEF RequestPCs, Critical
<1>5. /\ process' \in [Requests -> Processes \cup {None}] /\ process'[r] = c
      /\ \A q \in Requests \ {r} : process'[q] = process[q]
  BY <1>1, <1>2 DEF TypeOK
<1>6. known' \subseteq LoginCalls /\ \A q \in Requests \ {r} : q \in known' => q \in known
  BY <1>1, <1>3 DEF TypeOK
<1>7. pc'[r] = p
  BY <1>1, <1>3 DEF TypeOK, Goto
<1>8. RequestInv(r)'
  <2>1. /\ UNCHANGED <<user, account, auth, answer>>
        /\ Namesakes(r)' = Namesakes(r) /\ Matching(r)' = Matching(r)
    BY <1>3 DEF tables, Namesakes, Matching
  <2>2. r \in known' => r \in LoginCalls /\ Matching(r) # {} /\ answer[r] # 401
    BY <1>1, <1>3, Kinds DEF RequestInv
  <2> QED BY <1>1, <1>3, <1>5, <1>7, <2>1, <2>2, Kinds DEF RequestInv, Critical
<1> HIDE DEF p
<1> QED BY <1>1, <1>3, <1>4, <1>5, <1>6, <1>8, OutsideOK DEF TypeOK, tables

LEMMA LockOK == ASSUME IInv, NEW r \in Requests, Lock(r) PROVE StepOK(r)
<1>1. TypeOK /\ RequestInv(r) /\ LoginUnique
  BY DEF IInv
<1>2. /\ pc[r] = "lock" /\ mutex[process[r]] = None /\ Goto(r, "checkLogin")
      /\ mutex' = [mutex EXCEPT ![process[r]] = r]
      /\ UNCHANGED <<tables, process, found, answer, known, failures>>
  BY DEF Lock, MutexFree
<1>3. r \in Registrations /\ process[r] \in Processes
  BY <1>1, <1>2 DEF RequestInv
<1>4. /\ pc' \in [Requests -> RequestPCs] /\ pc'[r] = "checkLogin"
      /\ \A q \in Requests \ {r} : pc'[q] = pc[q]
  BY <1>1, <1>2 DEF TypeOK, Goto, RequestPCs, Critical
<1>5. mutex' \in [Processes -> Requests \cup {None}] /\ mutex'[process[r]] = r
  BY <1>1, <1>2, <1>3 DEF TypeOK
<1>6. ASSUME NEW c \in Processes, mutex'[c] # None
      PROVE  pc'[mutex'[c]] \in Critical /\ process'[mutex'[c]] = c
  <2>1. CASE c = process[r]
    BY <1>2, <1>4, <1>5, <2>1 DEF Critical
  <2>2. CASE c # process[r]
    <3>1. mutex'[c] = mutex[c] /\ mutex[c] # None /\ mutex[c] \in Requests
      BY <1>1, <1>2, <1>6, <2>2 DEF TypeOK
    <3>2. pc[mutex[c]] \in Critical /\ process[mutex[c]] = c
      BY <1>1, <3>1 DEF TypeOK
    <3>3. mutex[c] # r
      BY <1>2, <3>2 DEF Critical
    <3> QED BY <1>2, <1>4, <3>1, <3>2, <3>3
  <2> QED BY <2>1, <2>2
<1>7. TypeOK'
  BY <1>1, <1>2, <1>4, <1>5, <1>6 DEF TypeOK, tables
<1>8. Frame(r)
  <2>1. ASSUME NEW q \in Requests \ {r}, pc[q] \in Critical
        PROVE  mutex'[process[q]] = mutex[process[q]]
    <3>1. process[q] \in Processes /\ mutex[process[q]] = q
      BY <2>1 DEF IInv, RequestInv
    <3>2. process[q] # process[r]
      BY <1>2, <3>1, Kinds
    <3> QED BY <1>1, <1>2, <3>1, <3>2 DEF TypeOK
  <2> QED BY <1>2, <1>4, <2>1 DEF Frame, tables
<1>9. RequestInv(r)'
  <2>1. Namesakes(r)' = Namesakes(r) /\ Matching(r)' = Matching(r)
    BY <1>2 DEF tables, Namesakes, Matching
  <2> QED BY <1>1, <1>2, <1>3, <1>4, <1>5, <2>1 DEF RequestInv, Critical, tables
<1>10. LoginUnique'
  BY <1>1, <1>2 DEF LoginUnique, tables
<1> QED BY <1>7, <1>8, <1>9, <1>10 DEF StepOK

\* A step from one statement under the mutex to the next.
LEMMA InsideOK ==
  ASSUME IInv, NEW r \in Requests, pc[r] \in Critical, NEW p \in Critical, Goto(r, p),
         UNCHANGED <<auth, expired, mutex, process, found, answer, known>>,
         failures' \in 0..MaxFailures, account' = account,
         user' = user \/ (user' = user \cup {r} /\ pc[r] = "insertUser" /\ Namesakes(r) = {}),
         RequestInv(r)'
  PROVE  StepOK(r)
<1>1. TypeOK /\ LoginUnique /\ RequestInv(r)
  BY DEF IInv
<1>2. /\ pc' \in [Requests -> RequestPCs] /\ pc'[r] = p
      /\ \A q \in Requests \ {r} : pc'[q] = pc[q]
  BY <1>1 DEF TypeOK, Goto, RequestPCs
<1>3. user \subseteq user' /\ user' \subseteq Registrations
  BY <1>1 DEF TypeOK, RequestInv
<1>4. TypeOK'
  <2>1. auth' \in [Requests -> user' \cup {None}] /\ found' \in [Requests -> user' \cup {None}]
    BY <1>1, <1>3 DEF TypeOK
  <2>2. \A c \in Processes : mutex'[c] # None =>
          pc'[mutex'[c]] \in Critical /\ process'[mutex'[c]] = c
    BY <1>1, <1>2 DEF TypeOK
  <2> QED BY <1>1, <1>2, <1>3, <2>1, <2>2 DEF TypeOK
<1>5. LoginUnique'
  BY <1>1 DEF LoginUnique, Namesakes
<1>6. Frame(r)
  BY <1>2, <1>3 DEF Frame
<1> QED BY <1>4, <1>5, <1>6 DEF StepOK

LEMMA CheckLoginOK == ASSUME IInv, NEW r \in Requests, CheckLogin(r) PROVE StepOK(r)
<1>1. TypeOK /\ RequestInv(r) /\ pc[r] = "checkLogin" /\ "checkLogin" \in Critical
  BY DEF IInv, CheckLogin, Critical
<1>2. PICK res \in {"ok", "fail"} :
        /\ DbResult(res)
        /\ \/ RegisterFails(r, 500)
           \/ Namesakes(r) # {} /\ RegisterFails(r, 409)
           \/ Namesakes(r) = {} /\ Goto(r, "insertUser") /\ UNCHANGED <<mutex, answer>>
  BY DEF CheckLogin
<1>3. /\ failures' \in 0..MaxFailures
      /\ UNCHANGED <<user, account, auth, expired, process, found, known>>
  BY <1>1, <1>2, DbTypes DEF CheckLogin, tables, TypeOK
<1>4. CASE RegisterFails(r, 500)
  BY <1>1, <1>3, <1>4, RegisterFailsOK
<1>5. CASE Namesakes(r) # {} /\ RegisterFails(r, 409)
  BY <1>1, <1>3, <1>5, RegisterFailsOK
<1>6. CASE Namesakes(r) = {} /\ Goto(r, "insertUser") /\ UNCHANGED <<mutex, answer>>
  <2>1. pc'[r] = "insertUser"
    BY <1>1, <1>6 DEF TypeOK, Goto
  <2>2. Namesakes(r)' = {} /\ Matching(r)' = Matching(r)
    BY <1>3, <1>6 DEF Namesakes, Matching
  <2>3. RequestInv(r)'
    BY <1>1, <1>3, <1>6, <2>1, <2>2 DEF RequestInv, Critical
  <2> QED BY <1>1, <1>3, <1>6, <2>3, InsideOK DEF Critical
<1> QED BY <1>2, <1>4, <1>5, <1>6

LEMMA InsertUserOK == ASSUME IInv, NEW r \in Requests, InsertUser(r) PROVE StepOK(r)
<1>1. TypeOK /\ RequestInv(r) /\ pc[r] = "insertUser" /\ "insertUser" \in Critical
  BY DEF IInv, InsertUser, Critical
<1>2. PICK res \in Results :
        /\ DbResult(res)
        /\ IF res = "fail" THEN UNCHANGED user ELSE InsertRow(r)
        /\ \/ RegisterFails(r, 500)
           \/ res = "ok" /\ Conflicts(r) /\ RegisterFails(r, 409)
           \/ /\ res = "ok" /\ ~Conflicts(r)
              /\ Goto(r, "insertAccount") /\ UNCHANGED <<mutex, answer>>
  BY DEF InsertUser
<1>3. /\ failures' \in 0..MaxFailures
      /\ UNCHANGED <<account, auth, expired, process, found, known>>
  BY <1>1, <1>2, DbTypes DEF InsertUser, TypeOK
<1>4. /\ user' = user \/ (user' = user \cup {r} /\ Namesakes(r) = {})
      /\ Conflicts(r) => user' = user
      /\ res = "ok" /\ ~Conflicts(r) => user' = user \cup {r} /\ Namesakes(r) = {}
  BY <1>2 DEF InsertRow, Conflicts, Results
<1>5. CASE RegisterFails(r, 500)
  BY <1>1, <1>3, <1>4, <1>5, RegisterFailsOK
<1>6. CASE Conflicts(r) /\ RegisterFails(r, 409)
  BY <1>1, <1>3, <1>4, <1>6, RegisterFailsOK DEF Conflicts
<1>7. CASE /\ res = "ok" /\ ~Conflicts(r)
           /\ Goto(r, "insertAccount") /\ UNCHANGED <<mutex, answer>>
  <2>1. pc'[r] = "insertAccount"
    BY <1>1, <1>7 DEF TypeOK, Goto
  <2>2. Namesakes(r) \subseteq Namesakes(r)' /\ Matching(r) \subseteq Matching(r)' /\ r \in user'
    BY <1>4, <1>7 DEF Namesakes, Matching
  <2>3. RequestInv(r)'
    BY <1>1, <1>3, <1>7, <2>1, <2>2, Kinds DEF RequestInv, Critical
  <2> QED BY <1>1, <1>3, <1>4, <1>7, <2>3, InsideOK DEF Critical
<1> QED BY <1>2, <1>5, <1>6, <1>7

LEMMA InsertAccountOK ==
  ASSUME IInv, NEW r \in Requests, InsertAccount(r) PROVE StepOK(r)
<1>1. TypeOK /\ LoginUnique /\ RequestInv(r)
      /\ pc[r] = "insertAccount" /\ "insertAccount" \in Critical
  BY DEF IInv, InsertAccount, Critical
<1>2. PICK res \in Results :
        /\ DbResult(res)
        /\ account' = IF res = "fail" THEN account ELSE account \cup {r}
        /\ \/ RegisterFails(r, 500)
           \/ res = "ok" /\ Goto(r, "findUser") /\ Unlock(r) /\ UNCHANGED answer
  BY DEF InsertAccount
<1>3. /\ failures' \in 0..MaxFailures
      /\ UNCHANGED <<user, auth, expired, process, found, known>>
  BY <1>1, <1>2, DbTypes DEF InsertAccount, TypeOK
<1>4. CASE RegisterFails(r, 500)
  BY <1>1, <1>2, <1>3, <1>4, RegisterFailsOK
<1>5. CASE res = "ok" /\ Goto(r, "findUser") /\ Unlock(r) /\ UNCHANGED answer
  <2>1. /\ pc' \in [Requests -> RequestPCs] /\ pc'[r] = "findUser"
        /\ \A q \in Requests \ {r} : pc'[q] = pc[q]
    BY <1>1, <1>5 DEF TypeOK, Goto, RequestPCs
  <2>2. r \in user /\ account' = account \cup {r} /\ account' \subseteq user'
    BY <1>1, <1>2, <1>3, <1>5 DEF TypeOK, RequestInv
  <2>3. TypeOK'
    BY <1>1, <1>3, <1>5, <2>1, <2>2, UnlockTypes DEF TypeOK
  <2>4. LoginUnique'
    BY <1>1, <1>3 DEF LoginUnique
  <2>5. Frame(r)
    BY <1>1, <1>3, <1>5, <2>1, <2>2, UnlockTypes DEF Frame
  <2>6. Namesakes(r)' = Namesakes(r) /\ Matching(r)' = Matching(r)
    BY <1>3 DEF Namesakes, Matching
  <2>7. RequestInv(r)'
    BY <1>1, <1>3, <1>5, <2>1, <2>2, <2>6 DEF RequestInv, Critical
  <2> QED BY <2>3, <2>4, <2>5, <2>7 DEF StepOK
<1> QED BY <1>2, <1>4, <1>5

\* With one row per login, a row that matches is the row the SELECT takes.
LEMMA OneRow ==
  ASSUME IInv, NEW r \in Requests, NEW u \in Namesakes(r), NEW v \in Namesakes(r)
  PROVE  u = v
BY DEF IInv, LoginUnique, Namesakes

LEMMA FindUserOK == ASSUME IInv, NEW r \in Requests, FindUser(r) PROVE StepOK(r)
<1>1. TypeOK /\ RequestInv(r) /\ pc[r] = "findUser" /\ pc[r] \notin Critical
  BY DEF IInv, FindUser, Critical
<1>2. PICK res \in {"ok", "fail"} :
        /\ DbResult(res)
        /\ \/ Reply(r, 500) /\ UNCHANGED found
           \/ Namesakes(r) = {} /\ Reply(r, Invalid(r)) /\ UNCHANGED found
           \/ \E u \in Namesakes(r) :
                \/ ~PasswordVerify(r, u) /\ Reply(r, Invalid(r)) /\ UNCHANGED found
                \/ /\ PasswordVerify(r, u)
                   /\ found' = [found EXCEPT ![r] = u]
                   /\ Goto(r, "insertToken") /\ UNCHANGED answer
  BY DEF FindUser
<1>3. /\ failures' \in 0..MaxFailures
      /\ UNCHANGED <<user, account, auth, expired, mutex, process, known>>
  BY <1>1, <1>2, DbTypes DEF FindUser, TypeOK, tables
<1>4. Namesakes(r)' = Namesakes(r) /\ Matching(r)' = Matching(r)
  BY <1>3 DEF Namesakes, Matching
<1>5. "done" \in RequestPCs \ Critical /\ "insertToken" \in RequestPCs \ Critical
  BY DEF RequestPCs, Critical
<1>6. ASSUME NEW code \in {401, 500}, Reply(r, code), UNCHANGED found,
             code = 401 => r \in LoginCalls /\ Matching(r) = {}
      PROVE  StepOK(r)
  <2>1. /\ Goto(r, "done") /\ pc'[r] = "done" /\ answer'[r] = code
        /\ answer' \in [Requests -> {200, 401, 409, 500, None}]
        /\ \A q \in Requests \ {r} : answer'[q] = answer[q]
    BY <1>6, ReplyTypes
  <2>2. RequestInv(r)'
    BY <1>1, <1>3, <1>4, <1>6, <2>1 DEF RequestInv, Critical
  <2> QED BY <1>1, <1>3, <1>5, <1>6, <2>1, <2>2, OutsideOK DEF TypeOK
<1>7. Invalid(r) \in {401, 500} /\ (Invalid(r) = 401 => r \in LoginCalls)
  BY DEF Invalid
<1>8. CASE Namesakes(r) = {} /\ Reply(r, Invalid(r)) /\ UNCHANGED found
  BY <1>6, <1>7, <1>8 DEF Matching
<1>9. ASSUME NEW u \in Namesakes(r), ~PasswordVerify(r, u), Reply(r, Invalid(r)), UNCHANGED found
      PROVE  StepOK(r)
  <2>1. Matching(r) = {}
    BY <1>9, OneRow DEF Matching, PasswordVerify
  <2> QED BY <1>6, <1>7, <1>9, <2>1
<1>10. ASSUME NEW u \in Namesakes(r), PasswordVerify(r, u), found' = [found EXCEPT ![r] = u],
              Goto(r, "insertToken"), UNCHANGED answer
       PROVE  StepOK(r)
  <2>1. pc'[r] = "insertToken" /\ u \in Matching(r) /\ u \in user
    BY <1>1, <1>10 DEF TypeOK, Goto, Matching, PasswordVerify, Namesakes
  <2>2. /\ found' \in [Requests -> user \cup {None}] /\ found'[r] = u
        /\ \A q \in Requests \ {r} : found'[q] = found[q]
    BY <1>1, <1>10, <2>1 DEF TypeOK
  <2>3. RequestInv(r)'
    BY <1>1, <1>3, <1>4, <1>10, <2>1, <2>2 DEF RequestInv, Critical
  <2> QED BY <1>1, <1>3, <1>5, <1>10, <2>2, <2>3, OutsideOK DEF TypeOK
<1> QED BY <1>2, <1>6, <1>8, <1>9, <1>10

LEMMA InsertTokenOK == ASSUME IInv, NEW r \in Requests, InsertToken(r) PROVE StepOK(r)
<1>1. TypeOK /\ RequestInv(r) /\ pc[r] = "insertToken" /\ pc[r] \notin Critical
  BY DEF IInv, InsertToken, Critical
<1>2. PICK res \in Results :
        /\ DbResult(res)
        /\ auth' = IF res = "fail" THEN auth ELSE [auth EXCEPT ![r] = found[r]]
        /\ Reply(r, IF res = "ok" THEN 200 ELSE 500)
  BY DEF InsertToken
<1>3. /\ failures' \in 0..MaxFailures
      /\ UNCHANGED <<user, account, expired, mutex, process, found, known>>
  BY <1>1, <1>2, DbTypes DEF InsertToken, TypeOK
<1>4. Namesakes(r)' = Namesakes(r) /\ Matching(r)' = Matching(r)
  BY <1>3 DEF Namesakes, Matching
<1>5. "done" \in RequestPCs \ Critical
  BY DEF RequestPCs, Critical
<1>6. found[r] \in Matching(r) /\ found[r] \in user
  BY <1>1 DEF RequestInv, Matching, Namesakes
<1>7. /\ auth' \in [Requests -> user \cup {None}]
      /\ auth'[r] = IF res = "fail" THEN auth[r] ELSE found[r]
      /\ \A q \in Requests \ {r} : auth'[q] = auth[q]
  BY <1>1, <1>2, <1>6 DEF TypeOK
<1>8. PICK code \in {200, 500} : Reply(r, code) /\ (code = 200 => res = "ok")
  BY <1>2
<1>9. /\ Goto(r, "done") /\ pc'[r] = "done" /\ answer'[r] = code
      /\ answer' \in [Requests -> {200, 401, 409, 500, None}]
      /\ \A q \in Requests \ {r} : answer'[q] = answer[q]
  BY <1>8, ReplyTypes
<1>10. r \in Registrations => r \in account /\ found[r] = r
  <2>1. r \in Registrations => r \in account /\ r \in Namesakes(r)
    BY <1>1 DEF RequestInv, TypeOK, Namesakes
  <2> QED BY <1>6, <2>1, OneRow DEF Matching
<1>11. RequestInv(r)'
  BY <1>1, <1>3, <1>4, <1>6, <1>7, <1>8, <1>9, <1>10 DEF RequestInv, Critical
<1> QED BY <1>1, <1>3, <1>5, <1>7, <1>9, <1>11, OutsideOK DEF TypeOK

LEMMA ExpireInv == ASSUME IInv, NEW r \in Requests, Expire(r) PROVE IInv'
<1>1. UNCHANGED <<user, account, auth, mutex, pc, process, found, answer, known, failures>>
      /\ expired' = expired \cup {r}
  BY DEF Expire
<1>2. TypeOK' /\ LoginUnique'
  BY <1>1 DEF IInv, TypeOK, LoginUnique
<1>3. ASSUME NEW q \in Requests PROVE RequestInv(q)'
  BY <1>1 DEF IInv, RequestInv, Namesakes, Matching
<1> QED BY <1>2, <1>3 DEF IInv

LEMMA CrashInv == ASSUME IInv, NEW p \in Processes, Crash(p) PROVE IInv'
<1>1. TypeOK /\ MaxFailures \in Nat
  BY UsersAssumption DEF IInv
<1>2. /\ UNCHANGED <<user, account, auth, expired, process, found, answer, known>>
      /\ \A q \in Requests :
           pc'[q] = IF process[q] = p /\ pc[q] # "done" THEN "aborted" ELSE pc[q]
      /\ \A c \in Processes : mutex'[c] = IF c = p THEN None ELSE mutex[c]
  BY <1>1 DEF Crash, tables, TypeOK
<1>3. /\ mutex' \in [Processes -> Requests \cup {None}] /\ pc' \in [Requests -> RequestPCs]
      /\ failures' \in 0..MaxFailures
  BY <1>1 DEF Crash, TypeOK, RequestPCs
<1>4. \A c \in Processes : mutex'[c] # None =>
        pc'[mutex'[c]] \in Critical /\ process'[mutex'[c]] = c
  BY <1>1, <1>2 DEF TypeOK
<1>5. TypeOK' /\ LoginUnique'
  BY <1>1, <1>2, <1>3, <1>4 DEF IInv, TypeOK, LoginUnique
<1>6. ASSUME NEW q \in Requests PROVE RequestInv(q)'
  <2>1. RequestInv(q) /\ Namesakes(q)' = Namesakes(q) /\ Matching(q)' = Matching(q)
    BY <1>2 DEF IInv, Namesakes, Matching
  <2> QED BY <1>2, <2>1 DEF RequestInv, Critical
<1> QED BY <1>5, <1>6 DEF IInv
-----------------------------------------------------------------------------
(* The inductive invariant.                                                *)

LEMMA InitInv == Init => IInv
<1> SUFFICES ASSUME Init PROVE IInv
  OBVIOUS
<1>1. TypeOK
  BY UsersAssumption DEF Init, TypeOK, RequestPCs
<1>2. \A q \in Requests : RequestInv(q)
  BY Kinds DEF Init, RequestInv, Critical
<1> QED BY <1>1, <1>2 DEF IInv, Init, LoginUnique

LEMMA RequestStepOK ==
  ASSUME IInv, NEW r \in Requests, Begin(r) \/ Serve(r)
  PROVE  StepOK(r)
BY BeginOK, LockOK, CheckLoginOK, InsertUserOK, InsertAccountOK, FindUserOK, InsertTokenOK
   DEF Serve, RegisterUser, Authenticate

LEMMA StepInv == IInv /\ [Next]_vars => IInv'
<1> SUFFICES ASSUME IInv, [Next]_vars PROVE IInv'
  OBVIOUS
<1>1. CASE UNCHANGED vars
  BY <1>1 DEF vars, tables, IInv, TypeOK, LoginUnique, RequestInv, Namesakes, Matching
<1>2. ASSUME NEW r \in Requests, Begin(r) \/ Serve(r) PROVE IInv'
  BY <1>2, RequestStepOK, StepPreserves
<1> QED BY <1>1, <1>2, ExpireInv, CrashInv DEF Next

\* In every behaviour of the two handlers the invariant holds.
THEOREM Invariance == Spec => []IInv
BY InitInv, StepInv, PTL DEF Spec

\* Tables, mutexes and locals keep their types; whoever holds a mutex is inside
\* RegisterUser of that process (its deferred Unlock).
THEOREM TypeCorrect == Spec => []TypeOK
<1>1. IInv => TypeOK
  BY DEF IInv
<1> QED BY <1>1, Invariance, PTL

\* Between the check and the INSERT of RegisterUser a login is lost only to
\* another process (the mutex of the service).
THEOREM MutexSuffices == Spec => []LostOnlyElsewhere
<1>1. IInv => LostOnlyElsewhere
  BY DEF IInv, RequestInv, LostOnlyElsewhere
<1> QED BY <1>1, Invariance, PTL

\* Every token the middleware accepts speaks for the credentials presented for
\* it (Authenticate after RegisterUser as in the login handler).
THEOREM TokensProve == Spec => []TokensProvePassword
<1>1. IInv => TokensProvePassword
  BY DEF IInv, RequestInv, TokensProvePassword, GetUserID
<1> QED BY <1>1, Invariance, PTL

\* What the registration handler answered is so.
THEOREM RegistrationTells == Spec => []RegistrationAnswers
<1>1. IInv => RegistrationAnswers
  BY DEF IInv, TypeOK, RequestInv, RegistrationAnswers, Requests
<1> QED BY <1>1, Invariance, PTL

\* A login call with registered credentials is never answered 401.
THEOREM RegisteredLogIn == Spec => []RegisteredCanLogin
<1>1. IInv => RegisteredCanLogin
  BY DEF IInv, TypeOK, RequestInv, RegisteredCanLogin, Requests
<1> QED BY <1>1, Invariance, PTL
-----------------------------------------------------------------------------
(* The handlers implement the registry.                                    *)

\* Who holds a login is whose row it is.
LEMMA HolderIs ==
  ASSUME IInv, NEW r \in Requests
  PROVE  /\ \A u \in Namesakes(r) : Holder(Login[r]) = u
         /\ Namesakes(r) = {} => Holder(Login[r]) = None
<1>1. ASSUME NEW u \in Namesakes(r) PROVE Holder(Login[r]) = u
  <2>1. \A v \in user : Login[v] = Login[r] => v = u
    BY <1>1 DEF IInv, LoginUnique, Namesakes
  <2> QED BY <1>1, <2>1 DEF Holder, Namesakes
<1> QED BY <1>1 DEF Holder, Namesakes

LEMMA HolderKept ==
  ASSUME user' = user, NEW l \in Logins PROVE Holder(l)' = Holder(l)
BY DEF Holder

\* A reply that leaves the user table alone.
LEMMA ReplyRefines ==
  ASSUME IInv, NEW r \in Requests, NEW code \in {200, 401, 409, 500}, Reply(r, code),
         pc[r] # "done", user' = user
  PROVE  LoginRegistry!Answer(r, code)
<1>1. answer[r] = None /\ answer' = [answer EXCEPT ![r] = code]
  BY DEF IInv, RequestInv, Reply
<1>2. \A l \in Logins : Holder(l)' = Holder(l)
  BY HolderKept
<1> QED BY <1>1, <1>2 DEF LoginRegistry!Answer

LEMMA FailRefines ==
  ASSUME IInv, NEW r \in Requests, Reply(r, 500), pc[r] # "done", user' = user
  PROVE  LoginRegistry!RNext
BY ReplyRefines DEF LoginRegistry!RNext, LoginRegistry!Fail, LoginRegistry!Requests, Requests

LEMMA RefuseRefines ==
  ASSUME IInv, NEW r \in Requests, Reply(r, 409), user' = user,
         pc[r] \in {"checkLogin", "insertUser"}, Namesakes(r) # {}
  PROVE  LoginRegistry!RNext
<1>1. r \in Registrations /\ r \notin user
  BY DEF IInv, RequestInv, Critical
<1>2. PICK u \in Namesakes(r) : TRUE
  OBVIOUS
<1>3. u # r /\ u # None /\ Holder(Login[r]) = u
  BY <1>1, <1>2, HolderIs, UsersAssumption DEF Namesakes, IInv, TypeOK, Requests
<1>4. LoginRegistry!Answer(r, 409)
  BY ReplyRefines
<1>5. LoginRegistry!Refuse(r)
  BY <1>1, <1>3, <1>4, Kinds DEF LoginRegistry!Refuse
<1> QED BY <1>5 DEF LoginRegistry!RNext, LoginRegistry!Requests, Requests

\* The INSERT that takes effect is the claim.
LEMMA ClaimRefines ==
  ASSUME IInv, NEW r \in Requests, InsertUser(r), user' = user \cup {r}, Namesakes(r) = {}
  PROVE  LoginRegistry!RNext
<1>1. r \in Registrations /\ pc[r] = "insertUser" /\ Login[r] \in Logins /\ answer[r] = None
  BY Kinds DEF InsertUser, IInv, RequestInv, Critical
<1>2. Holder(Login[r]) = None
  BY HolderIs
<1>3. Holder(Login[r])' = r
  <2>1. \A v \in user' : Login[v] = Login[r] => v = r
    BY DEF Namesakes
  <2> QED BY <2>1 DEF Holder
<1>4. \A l \in Logins \ {Login[r]} : Holder(l)' = Holder(l)
  <2> SUFFICES ASSUME NEW l \in Logins \ {Login[r]} PROVE Holder(l)' = Holder(l)
    OBVIOUS
  <2>1. \A v : (v \in user' /\ Login[v] = l) <=> (v \in user /\ Login[v] = l)
    OBVIOUS
  <2> QED BY <2>1 DEF Holder
<1>5. [l \in Logins |-> Holder(l)'] =
        [[l \in Logins |-> Holder(l)] EXCEPT ![Login[r]] = r]
  BY <1>1, <1>3, <1>4
<1>6. Reply(r, 500) \/ UNCHANGED answer
  BY DEF InsertUser, RegisterFails, Conflicts
<1>7. CASE Reply(r, 500)
  BY <1>1, <1>2, <1>5, <1>7
     DEF Reply, LoginRegistry!ClaimUnheard, LoginRegistry!RNext, LoginRegistry!Requests, Requests
<1>8. CASE UNCHANGED answer
  BY <1>1, <1>2, <1>5, <1>8
     DEF LoginRegistry!Claim, LoginRegistry!RNext, LoginRegistry!Requests, Requests
<1> QED BY <1>6, <1>7, <1>8

LEMMA FindUserRefines ==
  ASSUME IInv, NEW r \in Requests, FindUser(r)
  PROVE  LoginRegistry!RNext \/ UNCHANGED LoginRegistry!rvars
<1>1. pc[r] = "findUser" /\ user' = user
  BY DEF FindUser, tables
<1>2. \/ Reply(r, 500)
      \/ Reply(r, Invalid(r)) /\ (Namesakes(r) = {} \/ \E u \in Namesakes(r) : ~PasswordVerify(r, u))
      \/ UNCHANGED answer
  BY DEF FindUser
<1>3. CASE Reply(r, 500)
  BY <1>1, <1>3, FailRefines
<1>4. CASE /\ Reply(r, Invalid(r)) /\ Invalid(r) = 401
           /\ Namesakes(r) = {} \/ \E u \in Namesakes(r) : ~PasswordVerify(r, u)
  <2>1. r \in LoginCalls
    BY <1>4 DEF Invalid
  <2>2. LoginRegistry!Answer(r, 401)
    BY <1>1, <1>4, ReplyRefines
  <2>3. ~LoginRegistry!HolderHasPassword(r)
    BY <1>4, HolderIs, Kinds DEF LoginRegistry!HolderHasPassword, PasswordVerify
  <2> QED BY <2>1, <2>2, <2>3
          DEF LoginRegistry!TurnAway, LoginRegistry!RNext, LoginRegistry!Requests, Requests
<1>5. CASE UNCHANGED answer
  BY <1>1, <1>5, HolderKept DEF LoginRegistry!rvars
<1>6. Invalid(r) \in {401, 500}
  BY DEF Invalid
<1> QED BY <1>2, <1>3, <1>4, <1>5, <1>6

LEMMA InsertTokenRefines ==
  ASSUME IInv, NEW r \in Requests, InsertToken(r)
  PROVE  LoginRegistry!RNext
<1>1. pc[r] = "insertToken" /\ user' = user /\ (Reply(r, 500) \/ Reply(r, 200))
  BY DEF InsertToken
<1>2. CASE Reply(r, 500)
  BY <1>1, <1>2, FailRefines
<1>3. CASE Reply(r, 200)
  <2>1. LoginRegistry!Answer(r, 200)
    BY <1>1, <1>3, ReplyRefines
  <2>2. found[r] \in Matching(r) /\ found[r] \in Namesakes(r) /\ found[r] \in Registrations
    BY <1>1 DEF IInv, TypeOK, RequestInv, Matching, Namesakes
  <2>3. Holder(Login[r]) = found[r] /\ found[r] # None /\ Password[found[r]] = Password[r]
    BY <2>2, HolderIs, UsersAssumption DEF Matching, Requests
  <2>4. CASE r \in Registrations
    <3>1. r \in Namesakes(r)
      BY <1>1, <2>4 DEF IInv, TypeOK, RequestInv, Namesakes
    <3>2. Holder(Login[r]) = r
      BY <3>1, HolderIs
    <3> QED BY <2>1, <2>4, <3>2, Kinds
            DEF LoginRegistry!Confirm, LoginRegistry!RNext, LoginRegistry!Requests, Requests
  <2>5. CASE r \in LoginCalls
    BY <2>1, <2>3, <2>5, Kinds
       DEF LoginRegistry!LetIn, LoginRegistry!HolderHasPassword, LoginRegistry!RNext,
           LoginRegistry!Requests, Requests
  <2> QED BY <2>4, <2>5 DEF Requests
<1> QED BY <1>1, <1>2, <1>3

LEMMA InsertUserRefines ==
  ASSUME IInv, NEW r \in Requests, InsertUser(r)
  PROVE  LoginRegistry!RNext \/ UNCHANGED LoginRegistry!rvars
<1>1. pc[r] = "insertUser"
  BY DEF InsertUser
<1>2. \/ user' = user \cup {r} /\ Namesakes(r) = {}
      \/ user' = user /\ (Reply(r, 500) \/ (Namesakes(r) # {} /\ Reply(r, 409)))
  BY DEF InsertUser, InsertRow, Conflicts, RegisterFails, Results
<1> QED BY <1>1, <1>2, ClaimRefines, FailRefines, RefuseRefines

LEMMA StepRefines == IInv /\ [Next]_vars => [LoginRegistry!RNext]_LoginRegistry!rvars
<1> SUFFICES ASSUME IInv, [Next]_vars
             PROVE  LoginRegistry!RNext \/ UNCHANGED LoginRegistry!rvars
  OBVIOUS
<1>1. CASE UNCHANGED <<user, answer>>
  BY <1>1, HolderKept DEF LoginRegistry!rvars
<1>2. ASSUME NEW r \in Requests, CheckLogin(r) \/ InsertAccount(r)
      PROVE  LoginRegistry!RNext \/ UNCHANGED <<user, answer>>
  <2>1. /\ pc[r] # "done" /\ user' = user
        /\ \/ Reply(r, 500) \/ UNCHANGED answer
           \/ pc[r] = "checkLogin" /\ Namesakes(r) # {} /\ Reply(r, 409)
    BY <1>2 DEF CheckLogin, InsertAccount, RegisterFails, tables
  <2> QED BY <2>1, FailRefines, RefuseRefines
<1>3. ASSUME NEW r \in Requests, Begin(r) \/ Lock(r) \/ Expire(r)
      PROVE  UNCHANGED <<user, answer>>
  BY <1>3 DEF Begin, Lock, Expire, tables
<1>4. ASSUME NEW p \in Processes, Crash(p) PROVE UNCHANGED <<user, answer>>
  BY <1>4 DEF Crash, tables
<1> QED BY <1>1, <1>2, <1>3, <1>4, FindUserRefines, InsertTokenRefines, InsertUserRefines
        DEF Next, Serve, RegisterUser, Authenticate, vars, tables

LEMMA InitRefines == Init => LoginRegistry!RInit
BY DEF Init, Holder, LoginRegistry!RInit, LoginRegistry!Requests, Requests

\* The statements of the two handlers, their failures, lost replies and crashes
\* implement a registry in which a login is claimed once (ImplementsRegistry).
THEOREM RegistryImplemented == Spec => ImplementsRegistry
<1>1. Spec => LoginRegistry!RSpec
  BY InitRefines, StepRefines, Invariance, PTL DEF Spec, LoginRegistry!RSpec
<1> QED BY <1>1 DEF ImplementsRegistry
=============================================================================
