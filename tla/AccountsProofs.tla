---------------------------- MODULE AccountsProofs ----------------------------
(***************************************************************************)
(* Proofs about Accounts, for every number of users, withdrawals, accruals *)
(* and readers, every sum (those that round to zero included), and every   *)
(* number of failures and crashes.                                         *)
(*                                                                         *)
(* The argument.  A client that has written the account row holds its lock *)
(* until its transaction ends (LockInv), and only a holder's Commit moves  *)
(* the committed balance.  So what a client has computed from the balance  *)
(* is still right when it commits (DecisionInv), refusals included.        *)
(***************************************************************************)
EXTENDS Accounts, SetSums, SequenceTheorems, TLAPS

Held(c) == accLock[Owner[c]] = c

\* What c has written to the account row is at most the empty row that
\* EnsureAccount inserted.
Fresh(c) == pending[c] # None => pending[c] = 0 /\ account[Owner[c]] = None

\* c sees an account row.
HasAccount(c) == account[Owner[c]] # None \/ pending[c] # None

\* Locks are held where they must be, uncommitted writes are of open transactions.
LockInv(c) ==
  /\ pc[c] \in InApprove => rowLock[c] = c
  /\ pc[c] \notin InApprove => pending[c] = None /\ verdict[c] = None
  /\ pending[c] # None => Held(c)

\* c moves nothing: its sum was rounded to zero, or is zero.
MovesNothing(c) == Amount[c] = 0 /\ Fresh(c)

Paying(c) ==
  /\ verdict[c] = "PROCESSED"
  /\ \/ /\ Held(c)
        /\ Current(Owner[c]) >= Amount[c]
        /\ pending[c] = Current(Owner[c]) - Amount[c]
     \/ MovesNothing(c)

Refusing(c) ==
  /\ verdict[c] = Refused /\ Held(c)
  /\ Current(Owner[c]) < Amount[c]
  /\ Fresh(c)

Crediting(c) ==
  /\ verdict[c] = "PROCESSED"
  /\ \/ Held(c) /\ pending[c] = Current(Owner[c]) + Amount[c]
     \/ MovesNothing(c)

\* What c has decided agrees with the committed balance until it commits.
DecisionInv(c) ==
  /\ pc[c] = "ensureAccount" => pending[c] = None /\ verdict[c] = None
  /\ pc[c] \in {"lockAccount", "debit"} => c \in Withdrawals
  /\ pc[c] = "credit" => c \in Accruals
  /\ pc[c] \in {"lockAccount", "debit", "credit"} =>
       verdict[c] = None /\ Fresh(c) /\ HasAccount(c)
  /\ pc[c] = "debit" => Held(c)
  /\ pc[c] \in {"settle", "commit"} =>
       IF c \in Withdrawals THEN Paying(c) \/ Refusing(c) ELSE Crediting(c)

ClientInv(c) == LockInv(c) /\ DecisionInv(c)

\* A row is open until its own call commits, and what was answered stays true.
StatusInv(c) ==
  /\ pc[c] \in {"cancelPlanned", "cancelRows", "register"} => status[c] = None
  /\ pc[c] \in {"lockRow"} \cup InApprove => status[c] \in {"PLANNED", "CANCELED"}
  /\ pc[c] \notin {"done", "aborted"} => answer[c] = None
  /\ c \in Withdrawals =>
       /\ answer[c] = 200 => status[c] = "PROCESSED"
       /\ answer[c] = 402 => status[c] = Refused

IInv ==
  /\ TypeOK
  /\ NeverOverdrawn
  /\ \A c \in Clients : ClientInv(c) /\ StatusInv(c)
-----------------------------------------------------------------------------
(* What a step of c leaves to the other clients.                           *)

\* A step of c keeps the locks of the others, and what they protect.
Frame(c) ==
  \A d \in Clients \ {c} :
    /\ pc'[d] = pc[d] /\ pending'[d] = pending[d] /\ verdict'[d] = verdict[d]
    /\ rowLock[d] = d => rowLock'[d] = d
    /\ Held(d) => Held(d)' /\ account'[Owner[d]] = account[Owner[d]]
    /\ account[Owner[d]] # None => account'[Owner[d]] # None

\* What is to be shown of every step of a client c.
StepOK(c) ==
  /\ TypeOK' /\ NeverOverdrawn' /\ Frame(c) /\ ClientInv(c)'
  /\ \A d \in Clients : StatusInv(d)'

LEMMA ClientTypes ==
  ASSUME NEW c \in Clients
  PROVE  /\ Owner[c] \in Users /\ c # None
         /\ Asked[c] \in Nat /\ Amount[c] \in Nat
         /\ Asked[c] = 0 => Amount[c] = 0
         /\ Asked[c] >= 5 => Amount[c] > 0
         /\ c \in Withdrawals => c \notin Accruals
         /\ c \notin Withdrawals => c \in Accruals
<1>1. Asked[c] \in Nat /\ Amount[c] = (Asked[c] + 5) \div 10
  BY AccountsAssumption DEF Clients, Amount
<1>2. /\ Amount[c] \in Nat
      /\ Asked[c] = 0 => Amount[c] = 0
      /\ Asked[c] >= 5 => Amount[c] > 0
  BY <1>1
<1> QED BY <1>1, <1>2, AccountsAssumption DEF Clients

LEMMA OtherClient ==
  ASSUME NEW c, NEW d \in Clients \ {c}, Frame(c), ClientInv(d)
  PROVE  ClientInv(d)'
<1>1. LockInv(d)'
  BY DEF Frame, ClientInv, LockInv
<1>2. Fresh(d) => Fresh(d)'
  BY DEF Frame, ClientInv, LockInv, Fresh
<1>3. HasAccount(d) => HasAccount(d)'
  BY DEF Frame, HasAccount
<1>4. Paying(d) => Paying(d)'
  BY <1>2 DEF Frame, Paying, MovesNothing, Current
<1>5. Refusing(d) => Refusing(d)'
  BY <1>2 DEF Frame, Refusing, Current
<1>6. Crediting(d) => Crediting(d)'
  BY <1>2 DEF Frame, Crediting, MovesNothing, Current
<1>7. DecisionInv(d)'
  BY <1>2, <1>3, <1>4, <1>5, <1>6 DEF Frame, ClientInv, DecisionInv
<1> QED BY <1>1, <1>7 DEF ClientInv

\* The statements of ApproveTransaction before its commit, and its first lock.
LEMMA StatusKept ==
  ASSUME IInv, NEW c \in Clients, pc[c] \in {"lockRow"} \cup InApprove,
         NEW p \in InApprove, Goto(c, p), UNCHANGED <<status, answer>>
  PROVE  \A d \in Clients : StatusInv(d)'
<1> SUFFICES ASSUME NEW d \in Clients PROVE StatusInv(d)'
  OBVIOUS
<1>1. StatusInv(d)
  BY DEF IInv
<1>2. pc \in [Clients -> ClientPCs]
  BY DEF IInv, TypeOK
<1>3. CASE d = c
  BY <1>1, <1>2, <1>3 DEF StatusInv, Goto, InApprove
<1>4. CASE d # c
  BY <1>1, <1>2, <1>4 DEF StatusInv, Goto
<1> QED BY <1>3, <1>4

\* A client outside a transaction holds no lock.
LEMMA NoLock ==
  ASSUME IInv, NEW c \in Clients, pc[c] \notin InTransaction
  PROVE  /\ \A r \in Clients : rowLock[r] # c
         /\ \A u \in Users : accLock[u] # c
BY ClientTypes DEF IInv, TypeOK, InTransaction

\* Who is let in finds the account row free, or has locked it already.
AccountFree(c) == accLock[Owner[c]] \in {None, c}

LEMMA GrantedFree ==
  ASSUME IInv, NEW c \in Clients, Granted(c), NeedsAccount(c)
  PROVE  AccountFree(c)
<1>1. Owner[c] \in Users /\ accLock[Owner[c]] \in Clients \cup {None}
  BY ClientTypes DEF IInv, TypeOK
<1>2. \A d \in Clients \ {c} : accLock[Owner[c]] # d
  BY DEF Granted, WaitsFor
<1> QED BY <1>1, <1>2 DEF AccountFree

LEMMA StatementTypes ==
  /\ InApprove \subseteq InTransaction /\ InTransaction \subseteq ClientPCs
  /\ {"cancelPlanned", "register", "lockRow", "done", "aborted"} \subseteq ClientPCs
  /\ {"cancelPlanned", "register", "lockRow", "done", "aborted"} \cap InTransaction = {}
  /\ "cancelRows" \in InTransaction \ InApprove
BY DEF InTransaction, InApprove, ClientPCs
-----------------------------------------------------------------------------
(* The statements, one lemma each.                                         *)

\* A step of a client that holds no lock and takes none.
LEMMA OutsideStep ==
  ASSUME IInv, NEW c \in Clients, pc[c] \notin InTransaction,
         NEW p \in ClientPCs \ InApprove, Goto(c, p),
         status' \in [Clients -> Statuses \cup {None}],
         scan' \in [Clients -> Seq(Clients)],
         answer' \in [Clients -> {200, 402, 500, None}],
         failures' \in 0..MaxFailures,
         UNCHANGED <<account, rowLock, accLock, pending, verdict>>
  PROVE  TypeOK' /\ NeverOverdrawn' /\ Frame(c) /\ ClientInv(c)'
<1>1. (\A r \in Clients : rowLock[r] # c) /\ \A u \in Users : accLock[u] # c
  BY NoLock
<1>2. TypeOK /\ NeverOverdrawn /\ ClientInv(c) /\ pc[c] \notin InApprove
  BY StatementTypes DEF IInv
<1>3. pc' \in [Clients -> ClientPCs] /\ pc'[c] = p /\ \A d \in Clients \ {c} : pc'[d] = pc[d]
  BY <1>2 DEF TypeOK, Goto
<1>4. rowLock' \in [Clients -> {d \in Clients : pc'[d] \in InTransaction} \cup {None}]
  BY <1>1, <1>2, <1>3 DEF TypeOK
<1>5. accLock' \in [Users -> {d \in Clients : pc'[d] \in InApprove} \cup {None}]
  BY <1>1, <1>2, <1>3 DEF TypeOK
<1>6. TypeOK'
  BY <1>2, <1>3, <1>4, <1>5 DEF TypeOK
<1>7. NeverOverdrawn' /\ Frame(c)
  BY <1>2, <1>3 DEF NeverOverdrawn, Frame, Held
<1>8. ClientInv(c)'
  BY <1>2, <1>3 DEF ClientInv, LockInv, DecisionInv, InApprove, ClientPCs, Held
<1> QED BY <1>6, <1>7, <1>8

\* A statement that was applied leads on to p, or to the answer 500.
LEMMA ProceedTypes ==
  ASSUME IInv, NEW c \in Clients, NEW p \in {"register", "lockRow", "done"}, Proceed(c, p)
  PROVE  /\ \E q \in {p, "done"} :
              /\ Goto(c, q)
              /\ answer' = answer \/ (q = "done" /\ answer' = [answer EXCEPT ![c] = 500])
         /\ answer' \in [Clients -> {200, 402, 500, None}]
         /\ failures' \in 0..MaxFailures
<1>1. answer \in [Clients -> {200, 402, 500, None}] /\ failures \in 0..MaxFailures
  BY DEF IInv, TypeOK
<1>2. MaxFailures \in Nat
  BY AccountsAssumption
<1>3. CASE Goto(c, p) /\ UNCHANGED <<answer, failures>>
  BY <1>1, <1>3
<1>4. CASE failures < MaxFailures /\ failures' = failures + 1 /\ Reply(c, 500)
  BY <1>1, <1>2, <1>4 DEF Reply
<1> QED BY <1>3, <1>4 DEF Proceed

\* An UPDATE that has nothing to do, or has to lock these rows.
LEMMA RowsAreClients ==
  ASSUME NEW S \in SUBSET Clients, NEW rows \in SetToSeqs(S)
  PROVE  rows \in Seq(Clients)
<1>1. Cardinality(S) \in Nat
  BY RowsAssumption, FS_Subset, FS_CardinalityType
<1>2. rows \in [1..Cardinality(S) -> Clients]
  BY DEF SetToSeqs
<1> QED BY <1>1, <1>2

LEMMA CancelScanOK ==
  ASSUME IInv, NEW c \in Clients, CancelScan(c)
  PROVE  StepOK(c)
<1>1. /\ pc[c] = "cancelPlanned" /\ Goto(c, "cancelRows")
      /\ UNCHANGED <<account, status, rowLock, accLock, pending, verdict, answer, failures>>
  BY DEF CancelScan
<1>2. TypeOK
  BY DEF IInv
<1>3. scan' \in [Clients -> Seq(Clients)]
  <2>1. PICK rows \in SetToSeqs({d \in Clients : Selected(c, d)}) :
          scan' = [scan EXCEPT ![c] = rows]
    BY DEF CancelScan
  <2>2. rows \in Seq(Clients)
    BY RowsAreClients
  <2> QED BY <1>2, <2>1, <2>2 DEF TypeOK
<1>4. ASSUME NEW d \in Clients PROVE StatusInv(d)'
  <2>1. StatusInv(d)
    BY DEF IInv
  <2> QED BY <1>1, <1>2, <2>1 DEF StatusInv, Goto, InApprove, TypeOK
<1>5. pc[c] \notin InTransaction /\ "cancelRows" \in ClientPCs \ InApprove
  BY <1>1, StatementTypes
<1>6. /\ status' \in [Clients -> Statuses \cup {None}]
      /\ answer' \in [Clients -> {200, 402, 500, None}]
      /\ failures' \in 0..MaxFailures
  BY <1>1, <1>2 DEF TypeOK
<1> QED BY <1>1, <1>3, <1>4, <1>5, <1>6, OutsideStep DEF StepOK

LEMMA CancelRowOK ==
  ASSUME IInv, NEW c \in Clients, CancelRow(c)
  PROVE  StepOK(c)
<1> DEFINE r == Head(scan[c])
<1>1. /\ pc[c] = "cancelRows" /\ rowLock' = [rowLock EXCEPT ![r] = c]
      /\ scan' = [scan EXCEPT ![c] = Tail(@)] /\ scan[c] # <<>>
      /\ UNCHANGED <<account, status, accLock, pending, verdict, pc, answer, failures>>
  BY DEF CancelRow, LockTx
<1>2. TypeOK /\ NeverOverdrawn /\ ClientInv(c) /\ pc[c] \in InTransaction
  BY <1>1, StatementTypes DEF IInv
<1>3. r \in Clients /\ Tail(scan[c]) \in Seq(Clients)
  BY <1>1, <1>2, HeadTailProperties DEF TypeOK
<1>4. rowLock[r] \in {None, c}
  <2>1. r \in RowsWanted(c)
    BY <1>1 DEF RowsWanted
  <2>2. \A d \in Clients \ {c} : rowLock[r] # d
    BY <2>1 DEF CancelRow, Granted, WaitsFor
  <2> QED BY <1>2, <1>3, <2>2 DEF TypeOK
<1>5. TypeOK'
  <2>1. scan' \in [Clients -> Seq(Clients)]
    BY <1>1, <1>2, <1>3 DEF TypeOK
  <2>2. rowLock' \in [Clients -> {d \in Clients : pc'[d] \in InTransaction} \cup {None}]
    BY <1>1, <1>2 DEF TypeOK
  <2> QED BY <1>1, <1>2, <2>1, <2>2 DEF TypeOK
<1>6. NeverOverdrawn' /\ Frame(c)
  <2>1. \A d \in Clients \ {c} : rowLock[d] = d => rowLock'[d] = d
    BY <1>1, <1>2, <1>4, ClientTypes DEF TypeOK
  <2> QED BY <1>1, <1>2, <2>1 DEF NeverOverdrawn, Frame, Held
<1>7. ClientInv(c)'
  BY <1>1, <1>2 DEF ClientInv, LockInv, DecisionInv, InApprove, Held
<1>8. ASSUME NEW d \in Clients PROVE StatusInv(d)'
  BY <1>1 DEF IInv, StatusInv
<1> QED BY <1>5, <1>6, <1>7, <1>8 DEF StepOK

\* A transaction is over: what c held is free.
LEMMA EndTypes ==
  ASSUME IInv, NEW c \in Clients, EndTransaction(c), NEW p \in {"register", "done"},
         Goto(c, p), failures' \in 0..MaxFailures,
         answer' \in [Clients -> {200, 402, 500, None}],
         account' \in [Users -> Int \cup {None}],
         status' \in [Clients -> Statuses \cup {None}]
  PROVE  /\ TypeOK' /\ ClientInv(c)' /\ pc'[c] = p
         /\ \A d \in Clients \ {c} :
              /\ pc'[d] = pc[d] /\ pending'[d] = pending[d] /\ verdict'[d] = verdict[d]
              /\ rowLock[d] = d => rowLock'[d] = d
              /\ Held(d) => Held(d)'
<1>1. TypeOK
  BY DEF IInv
<1>2. /\ pc' \in [Clients -> ClientPCs] /\ pc'[c] = p
      /\ \A d \in Clients \ {c} : pc'[d] = pc[d]
  BY <1>1, StatementTypes DEF TypeOK, Goto
<1>3. rowLock' = [d \in Clients |-> IF rowLock[d] = c THEN None ELSE rowLock[d]]
  BY DEF EndTransaction
<1>4. /\ rowLock' \in [Clients -> {d \in Clients : pc'[d] \in InTransaction} \cup {None}]
      /\ \A d \in Clients \ {c} : rowLock[d] = d => rowLock'[d] = d
  BY <1>1, <1>2, <1>3 DEF TypeOK
<1>5. accLock' = [u \in Users |-> IF accLock[u] = c THEN None ELSE accLock[u]]
  BY DEF EndTransaction, Release
<1>6. accLock' \in [Users -> {d \in Clients : pc'[d] \in InApprove} \cup {None}]
  BY <1>1, <1>2, <1>5 DEF TypeOK
<1>7. /\ pending' \in [Clients -> Int \cup {None}] /\ pending'[c] = None
      /\ \A d \in Clients \ {c} : pending'[d] = pending[d]
  BY <1>1 DEF TypeOK, EndTransaction
<1>8. /\ verdict' \in [Clients -> {"PROCESSED", Refused, None}] /\ verdict'[c] = None
      /\ \A d \in Clients \ {c} : verdict'[d] = verdict[d]
  BY <1>1 DEF TypeOK, EndTransaction
<1>9. scan' \in [Clients -> Seq(Clients)]
  <2>1. <<>> \in Seq(Clients)
    OBVIOUS
  <2> QED BY <1>1, <2>1 DEF TypeOK, EndTransaction
<1>10. TypeOK'
  BY <1>2, <1>4, <1>6, <1>7, <1>8, <1>9 DEF TypeOK
<1>11. ClientInv(c)'
  BY <1>2, <1>7, <1>8 DEF ClientInv, LockInv, DecisionInv, InApprove
<1>12. ASSUME NEW d \in Clients \ {c}, Held(d) PROVE Held(d)'
  BY <1>5, <1>12, ClientTypes DEF Held
<1> QED BY <1>2, <1>4, <1>7, <1>8, <1>10, <1>11, <1>12

\* What an answer leaves to the others.
LEMMA ReplyTypes ==
  ASSUME IInv, NEW c \in Clients, NEW a \in {200, 402, 500}, Reply(c, a)
  PROVE  /\ Goto(c, "done")
         /\ answer' \in [Clients -> {200, 402, 500, None}]
         /\ answer'[c] = IF c \in Withdrawals THEN a ELSE answer[c]
         /\ \A d \in Clients \ {c} : answer'[d] = answer[d]
BY DEF IInv, TypeOK, Reply

LEMMA CancelCommitOK ==
  ASSUME IInv, NEW c \in Clients, CancelCommit(c)
  PROVE  StepOK(c)
<1>1. /\ pc[c] = "cancelRows" /\ EndTransaction(c) /\ account' = account
      /\ status' = [d \in Clients |->
                      IF rowLock[d] = c /\ Selected(c, d) THEN "CANCELED" ELSE status[d]]
  BY DEF CancelCommit
<1>2. PICK q \in {"register", "done"} :
         /\ Goto(c, q)
         /\ answer' = answer \/ (q = "done" /\ answer' = [answer EXCEPT ![c] = 500])
  BY ProceedTypes DEF CancelCommit
<1>3. answer' \in [Clients -> {200, 402, 500, None}] /\ failures' \in 0..MaxFailures
  BY ProceedTypes DEF CancelCommit
<1>4. TypeOK /\ NeverOverdrawn
  BY DEF IInv
<1>5. status' \in [Clients -> Statuses \cup {None}]
  BY <1>1, <1>4 DEF TypeOK, Statuses
<1>6. /\ TypeOK' /\ ClientInv(c)' /\ pc'[c] = q
      /\ \A d \in Clients \ {c} :
           /\ pc'[d] = pc[d] /\ pending'[d] = pending[d] /\ verdict'[d] = verdict[d]
           /\ rowLock[d] = d => rowLock'[d] = d
           /\ Held(d) => Held(d)'
  <2>1. account' \in [Users -> Int \cup {None}]
    BY <1>1, <1>4 DEF TypeOK
  <2> QED BY <1>1, <1>2, <1>3, <1>5, <2>1, EndTypes
<1>7. NeverOverdrawn' /\ Frame(c)
  BY <1>1, <1>4, <1>6 DEF NeverOverdrawn, Frame
<1>8. ASSUME NEW d \in Clients PROVE StatusInv(d)'
  <2>1. StatusInv(d)
    BY DEF IInv
  <2>2. status'[d] = status[d] \/ (status[d] = "PLANNED" /\ status'[d] = "CANCELED")
    BY <1>1 DEF Selected
  <2>3. "PLANNED" # None
    BY NoneAssumption DEF Statuses
  <2>4. CASE d # c
    <3>1. answer'[d] = answer[d] /\ pc'[d] = pc[d]
      BY <1>2, <1>4, <1>6, <2>4 DEF TypeOK
    <3> QED BY <2>1, <2>2, <2>3, <3>1 DEF StatusInv, InApprove, Refused
  <2>5. CASE d = c
    <3>1. status'[c] = None
      BY <1>1, <2>1, <2>2, <2>3, <2>5 DEF StatusInv
    <3>2. pc'[c] = q /\ (answer'[c] = None \/ (q = "done" /\ answer'[c] \notin {200, 402}))
      BY <1>1, <1>2, <1>4, <1>6, <2>1, <2>5 DEF StatusInv, TypeOK
    <3>3. None # 200 /\ None # 402
      BY AccountsAssumption
    <3> QED BY <3>1, <3>2, <3>3, <2>5 DEF StatusInv, InApprove
  <2> QED BY <2>4, <2>5
<1> QED BY <1>6, <1>7, <1>8 DEF StepOK

LEMMA RegisterOK ==
  ASSUME IInv, NEW c \in Clients, RegisterTransaction(c)
  PROVE  StepOK(c)
<1>1. pc[c] \notin InTransaction /\ pc[c] = "register"
  BY StatementTypes DEF RegisterTransaction
<1>2. PICK q \in {"lockRow", "done"} :
         /\ Goto(c, q)
         /\ answer' = answer \/ (q = "done" /\ answer' = [answer EXCEPT ![c] = 500])
  BY ProceedTypes DEF RegisterTransaction
<1>3. /\ answer' \in [Clients -> {200, 402, 500, None}] /\ failures' \in 0..MaxFailures
      /\ UNCHANGED <<account, rowLock, scan, accLock, pending, verdict>>
  BY ProceedTypes DEF RegisterTransaction, approval
<1>4. /\ status \in [Clients -> Statuses \cup {None}] /\ pc \in [Clients -> ClientPCs]
      /\ answer \in [Clients -> {200, 402, 500, None}] /\ scan \in [Clients -> Seq(Clients)]
  BY DEF IInv, TypeOK
<1>5. status' = [status EXCEPT ![c] = "PLANNED"]
  BY DEF RegisterTransaction
<1>6. status' \in [Clients -> Statuses \cup {None}]
  BY <1>4, <1>5 DEF Statuses
<1>7. q \in ClientPCs \ InApprove
  BY StatementTypes
<1>8. ASSUME NEW d \in Clients PROVE StatusInv(d)'
  <2>1. StatusInv(d)
    BY DEF IInv
  <2>2. CASE d # c
    BY <1>2, <1>4, <1>5, <2>1, <2>2 DEF StatusInv, Goto
  <2>3. CASE d = c
    <3>1. pc'[c] = q /\ (answer'[c] = None \/ (q = "done" /\ answer'[c] \notin {200, 402}))
      BY <1>1, <1>2, <1>4, <2>1, <2>3 DEF StatusInv, Goto
    <3>2. None # 200 /\ None # 402 /\ status'[c] = "PLANNED"
      BY <1>4, <1>5, AccountsAssumption
    <3> QED BY <3>1, <3>2, <2>3 DEF StatusInv, InApprove
  <2> QED BY <2>2, <2>3
<1> QED BY <1>1, <1>2, <1>3, <1>4, <1>6, <1>7, <1>8, OutsideStep DEF StepOK

LEMMA CancelTransactionOK ==
  ASSUME IInv, NEW c \in Clients, CancelTransaction(c)
  PROVE  StepOK(c)
<1>1. pc[c] \notin InTransaction /\ pc[c] = "lockRow" /\ c \in Accruals
  BY StatementTypes DEF CancelTransaction
<1>2. PICK q \in {"done"} :
         /\ Goto(c, q)
         /\ answer' = answer \/ (q = "done" /\ answer' = [answer EXCEPT ![c] = 500])
  BY ProceedTypes DEF CancelTransaction
<1>3. /\ answer' \in [Clients -> {200, 402, 500, None}] /\ failures' \in 0..MaxFailures
      /\ UNCHANGED <<account, rowLock, scan, accLock, pending, verdict>>
  BY ProceedTypes DEF CancelTransaction, approval
<1>4. /\ status \in [Clients -> Statuses \cup {None}] /\ pc \in [Clients -> ClientPCs]
      /\ answer \in [Clients -> {200, 402, 500, None}] /\ scan \in [Clients -> Seq(Clients)]
  BY DEF IInv, TypeOK
<1>5. status' = [status EXCEPT ![c] = "CANCELED"]
  BY DEF CancelTransaction
<1>6. status' \in [Clients -> Statuses \cup {None}]
  BY <1>4, <1>5 DEF Statuses
<1>7. q \in ClientPCs \ InApprove
  BY StatementTypes
<1>8. ASSUME NEW d \in Clients PROVE StatusInv(d)'
  <2>1. StatusInv(d)
    BY DEF IInv
  <2>2. CASE d # c
    BY <1>2, <1>4, <1>5, <2>1, <2>2 DEF StatusInv, Goto
  <2>3. CASE d = c
    <3>1. pc'[c] = q /\ (answer'[c] = None \/ (q = "done" /\ answer'[c] \notin {200, 402}))
      BY <1>1, <1>2, <1>4, <2>1, <2>3 DEF StatusInv, Goto
    <3>2. None # 200 /\ None # 402 /\ status'[c] = "CANCELED"
      BY <1>4, <1>5, AccountsAssumption
    <3> QED BY <3>1, <3>2, <2>3 DEF StatusInv, InApprove
  <2> QED BY <2>2, <2>3
<1> QED BY <1>1, <1>2, <1>3, <1>4, <1>6, <1>7, <1>8, OutsideStep DEF StepOK

\* A step from one statement of ApproveTransaction to another, the first included.
LEMMA InsideTypes ==
  ASSUME IInv, NEW c \in Clients, pc[c] \in {"lockRow"} \cup InApprove,
         NEW p \in InApprove, Goto(c, p),
         rowLock' = rowLock \/ LockTx(c, c),
         pending' \in [Clients -> Int \cup {None}],
         verdict' \in [Clients -> {"PROCESSED", Refused, None}],
         accLock' = accLock \/ (AccountFree(c) /\ Lock(c, Owner[c])),
         UNCHANGED <<account, status, scan, answer, failures>>
  PROVE  /\ TypeOK' /\ NeverOverdrawn'
         /\ pc'[c] = p /\ \A d \in Clients \ {c} : pc'[d] = pc[d]
         /\ \A d \in Clients \ {c} : rowLock[d] = d => rowLock'[d] = d
         /\ \A d \in Clients \ {c} : Held(d) => Held(d)'
         /\ Held(c) => Held(c)'
         /\ AccountFree(c) /\ Lock(c, Owner[c]) => Held(c)'
         /\ rowLock[c] = c \/ LockTx(c, c) => rowLock'[c] = c
<1>1. TypeOK /\ NeverOverdrawn
  BY DEF IInv
<1>2. pc' \in [Clients -> ClientPCs] /\ pc'[c] = p /\ \A d \in Clients \ {c} : pc'[d] = pc[d]
  BY <1>1, StatementTypes DEF TypeOK, Goto
<1>3. rowLock' \in [Clients -> {d \in Clients : pc'[d] \in InTransaction} \cup {None}]
  <2>1. rowLock \in [Clients -> {d \in Clients : pc[d] \in InTransaction} \cup {None}]
    BY <1>1 DEF TypeOK
  <2>2. c \in {d \in Clients : pc'[d] \in InTransaction}
    BY <1>2, StatementTypes
  <2>3. {d \in Clients : pc[d] \in InTransaction} \subseteq {d \in Clients : pc'[d] \in InTransaction}
    BY <1>2, <2>2
  <2> QED BY <2>1, <2>2, <2>3 DEF LockTx
<1>4. Owner[c] \in Users /\ c # None
  BY ClientTypes
<1>5. accLock' \in [Users -> {d \in Clients : pc'[d] \in InApprove} \cup {None}]
  <2>1. accLock \in [Users -> {d \in Clients : pc[d] \in InApprove} \cup {None}]
    BY <1>1 DEF TypeOK
  <2>2. {d \in Clients : pc[d] \in InApprove} \subseteq {d \in Clients : pc'[d] \in InApprove}
    BY <1>2
  <2>3. c \in {d \in Clients : pc'[d] \in InApprove}
    BY <1>2
  <2> QED BY <1>4, <2>1, <2>2, <2>3 DEF Lock
<1>6. TypeOK'
  BY <1>1, <1>2, <1>3, <1>5 DEF TypeOK
<1>7. NeverOverdrawn'
  BY <1>1 DEF NeverOverdrawn
<1>8. ASSUME NEW d \in Clients \ {c}, Held(d) PROVE Held(d)'
  <2>1. Owner[d] \in Users /\ d # None
    BY ClientTypes
  <2> QED BY <1>1, <1>4, <1>8, <2>1 DEF Held, TypeOK, Lock, AccountFree
<1>9. (Held(c) => Held(c)') /\ (AccountFree(c) /\ Lock(c, Owner[c]) => Held(c)')
  BY <1>1, <1>4 DEF Held, TypeOK, Lock
<1>10. /\ \A d \in Clients \ {c} : rowLock[d] = d => rowLock'[d] = d
       /\ rowLock[c] = c \/ LockTx(c, c) => rowLock'[c] = c
  BY <1>1 DEF TypeOK, LockTx
<1> QED BY <1>2, <1>6, <1>7, <1>8, <1>9, <1>10

LEMMA LockRowOK ==
  ASSUME IInv, NEW c \in Clients, LockRow(c)
  PROVE  StepOK(c)
<1>1. TypeOK /\ ClientInv(c)
  BY DEF IInv
<1>2. /\ pc[c] = "lockRow" /\ LockTx(c, c) /\ Goto(c, "ensureAccount")
      /\ UNCHANGED <<account, status, scan, accLock, pending, verdict, answer, failures>>
  BY DEF LockRow
<1>3. "ensureAccount" \in InApprove /\ "lockRow" \notin InApprove
  BY DEF InApprove
<1>4. /\ TypeOK' /\ NeverOverdrawn' /\ pc'[c] = "ensureAccount" /\ rowLock'[c] = c
      /\ \A d \in Clients \ {c} : pc'[d] = pc[d] /\ (rowLock[d] = d => rowLock'[d] = d)
  BY <1>1, <1>2, <1>3, InsideTypes DEF TypeOK
<1>5. Frame(c)
  BY <1>2, <1>4 DEF Frame, Held
<1>6. ClientInv(c)'
  BY <1>1, <1>2, <1>3, <1>4 DEF ClientInv, LockInv, DecisionInv, Held
<1>7. \A d \in Clients : StatusInv(d)'
  BY <1>2, <1>3, StatusKept
<1> QED BY <1>4, <1>5, <1>6, <1>7 DEF StepOK

LEMMA LockAccountOK ==
  ASSUME IInv, NEW c \in Clients, LockAccount(c)
  PROVE  StepOK(c)
<1>1. TypeOK /\ ClientInv(c)
  BY DEF IInv
<1>2. /\ pc[c] = "lockAccount" /\ AccountFree(c) /\ Lock(c, Owner[c])
      /\ Goto(c, "debit")
      /\ UNCHANGED <<account, status, rowLock, scan, pending, verdict, answer, failures>>
  BY GrantedFree DEF LockAccount, NeedsAccount
<1>3. "debit" \in InApprove /\ "lockAccount" \in InApprove
  BY DEF InApprove
<1>4. /\ TypeOK' /\ NeverOverdrawn' /\ pc'[c] = "debit" /\ Held(c)'
      /\ \A d \in Clients \ {c} : pc'[d] = pc[d] /\ (Held(d) => Held(d)')
  BY <1>1, <1>2, <1>3, InsideTypes DEF TypeOK
<1>5. Frame(c)
  BY <1>2, <1>4 DEF Frame
<1>6. ClientInv(c)'
  BY <1>1, <1>2, <1>3, <1>4 DEF ClientInv, LockInv, DecisionInv, Fresh, HasAccount
<1>7. \A d \in Clients : StatusInv(d)'
  BY <1>2, <1>3, StatusKept
<1> QED BY <1>4, <1>5, <1>6, <1>7 DEF StepOK

LEMMA SettleOK ==
  ASSUME IInv, NEW c \in Clients, Settle(c)
  PROVE  StepOK(c)
<1>1. TypeOK /\ ClientInv(c)
  BY DEF IInv
<1>2. /\ pc[c] = "settle" /\ LockTx(c, c) /\ Goto(c, "commit")
      /\ UNCHANGED <<account, status, scan, accLock, pending, verdict, answer, failures>>
  BY DEF Settle
<1>3. "commit" \in InApprove /\ "settle" \in InApprove
  BY DEF InApprove
<1>4. /\ TypeOK' /\ NeverOverdrawn' /\ pc'[c] = "commit" /\ rowLock'[c] = c
      /\ \A d \in Clients \ {c} : pc'[d] = pc[d] /\ (rowLock[d] = d => rowLock'[d] = d)
  <2>1. /\ pending' \in [Clients -> Int \cup {None}]
        /\ verdict' \in [Clients -> {"PROCESSED", Refused, None}]
    BY <1>1, <1>2 DEF TypeOK
  <2> QED BY <1>2, <1>3, <2>1, InsideTypes
<1>5. Frame(c)
  BY <1>2, <1>4 DEF Frame, Held
<1>6. ClientInv(c)'
  BY <1>1, <1>2, <1>3, <1>4
     DEF ClientInv, LockInv, DecisionInv, Paying, Refusing, Crediting, MovesNothing, Fresh, Current, Held
<1>7. \A d \in Clients : StatusInv(d)'
  BY <1>2, <1>3, StatusKept
<1> QED BY <1>4, <1>5, <1>6, <1>7 DEF StepOK

LEMMA EnsureAccountOK ==
  ASSUME IInv, NEW c \in Clients, EnsureAccount(c)
  PROVE  StepOK(c)
<1> DEFINE u == Owner[c]
           p == Branch(c)
<1>1. TypeOK /\ ClientInv(c) /\ u \in Users /\ Amount[c] \in Nat
  BY ClientTypes DEF IInv
<1>2. /\ pc[c] = "ensureAccount" /\ Goto(c, p)
      /\ UNCHANGED <<account, status, rowLock, scan, answer, failures>>
      /\ verdict' = IF p = "settle"
                    THEN [verdict EXCEPT ![c] = "PROCESSED"] ELSE verdict
  BY DEF EnsureAccount
<1>3. \/ /\ account[u] = None /\ AccountFree(c) /\ Lock(c, u)
         /\ pending' = [pending EXCEPT ![c] = 0]
      \/ account[u] # None /\ UNCHANGED <<accLock, pending>>
  BY GrantedFree DEF EnsureAccount, NeedsAccount
<1>4. p \in InApprove /\ "ensureAccount" \in InApprove
  BY DEF InApprove, Branch
<1>5. /\ verdict' \in [Clients -> {"PROCESSED", Refused, None}]
      /\ verdict'[c] = IF p = "settle" THEN "PROCESSED" ELSE None
      /\ \A d \in Clients \ {c} : verdict'[d] = verdict[d]
  BY <1>1, <1>2 DEF TypeOK, ClientInv, DecisionInv
<1>6. /\ pending' \in [Clients -> Int \cup {None}]
      /\ \A d \in Clients \ {c} : pending'[d] = pending[d]
      /\ pending'[c] = IF account[u] = None THEN 0 ELSE None
  <2>1. pending \in [Clients -> Int \cup {None}] /\ pending[c] = None
    BY <1>1, <1>2 DEF TypeOK, ClientInv, DecisionInv
  <2> QED BY <1>3, <2>1
<1>7. /\ TypeOK' /\ NeverOverdrawn' /\ pc'[c] = p
      /\ account[u] = None => Held(c)'
      /\ \A d \in Clients \ {c} : pc'[d] = pc[d] /\ (Held(d) => Held(d)')
  <2>1. accLock' = accLock \/ (AccountFree(c) /\ Lock(c, u))
    BY <1>3
  <2>2. rowLock' = rowLock
    BY <1>2
  <2> HIDE DEF p
  <2> QED BY <1>2, <1>3, <1>4, <1>5, <1>6, <2>1, <2>2, InsideTypes
<1>8. Frame(c)
  BY <1>2, <1>5, <1>6, <1>7 DEF Frame
<1>9. Fresh(c)' /\ HasAccount(c)'
  <2>1. 0 # None
    BY AccountsAssumption
  <2> QED BY <1>2, <1>6, <2>1 DEF Fresh, HasAccount
<1>10. LockInv(c)'
  BY <1>1, <1>2, <1>4, <1>6, <1>7 DEF ClientInv, LockInv
<1>11. DecisionInv(c)'
  <2>1. /\ p \in {"lockAccount", "credit", "settle"}
        /\ p = "lockAccount" => c \in Withdrawals
        /\ p = "credit" => c \in Accruals
        /\ p = "settle" => Amount[c] = 0
    BY <1>1, ClientTypes DEF Branch
  <2>2. p = "settle" => Paying(c)' /\ Crediting(c)'
    BY <1>5, <1>9, <2>1 DEF Paying, Crediting, MovesNothing
  <2> QED BY <1>5, <1>7, <1>9, <2>1, <2>2 DEF DecisionInv
<1>12. \A d \in Clients : StatusInv(d)'
  BY <1>2, <1>4, StatusKept
<1> QED BY <1>7, <1>8, <1>10, <1>11, <1>12 DEF StepOK, ClientInv

LEMMA VisibleIsCurrent ==
  ASSUME IInv, NEW c \in Clients, Fresh(c), HasAccount(c)
  PROVE  Visible(c) = Current(Owner[c]) /\ Visible(c) \in Nat
<1>1. Owner[c] \in Users
  BY ClientTypes
<1>2. account[Owner[c]] # None => account[Owner[c]] \in Int /\ account[Owner[c]] >= 0
  BY <1>1 DEF IInv, TypeOK, NeverOverdrawn
<1> QED BY <1>2 DEF Fresh, HasAccount, Visible, Current

LEMMA DebitOK ==
  ASSUME IInv, NEW c \in Clients, Debit(c)
  PROVE  StepOK(c)
<1> DEFINE u == Owner[c]
<1>1. TypeOK /\ ClientInv(c) /\ u \in Users /\ Amount[c] \in Nat
  BY ClientTypes DEF IInv
<1>2. /\ pc[c] = "debit" /\ AccountFree(c) /\ Goto(c, "settle")
      /\ UNCHANGED <<account, status, rowLock, scan, answer, failures>>
      /\ \/ /\ Suffices(c) /\ Lock(c, u)
            /\ pending' = [pending EXCEPT ![c] = Visible(c) - Amount[c]]
            /\ verdict' = [verdict EXCEPT ![c] = "PROCESSED"]
         \/ /\ ~Suffices(c)
            /\ verdict' = [verdict EXCEPT ![c] = Refused]
            /\ UNCHANGED <<accLock, pending>>
  BY GrantedFree DEF Debit, NeedsAccount
<1>3. "settle" \in InApprove /\ "debit" \in InApprove
  BY DEF InApprove
<1>4. Fresh(c) /\ HasAccount(c) /\ Held(c) /\ c \in Withdrawals
  BY <1>1, <1>2 DEF ClientInv, DecisionInv
<1>5. Visible(c) = Current(u) /\ Visible(c) \in Nat
  BY <1>4, VisibleIsCurrent
<1>6. /\ pending' \in [Clients -> Int \cup {None}]
      /\ \A d \in Clients \ {c} : pending'[d] = pending[d]
  <2>1. pending \in [Clients -> Int \cup {None}] /\ Visible(c) - Amount[c] \in Int
    BY <1>1, <1>5 DEF TypeOK
  <2> QED BY <1>2, <2>1
<1>7. /\ verdict' \in [Clients -> {"PROCESSED", Refused, None}]
      /\ \A d \in Clients \ {c} : verdict'[d] = verdict[d]
  <2>1. verdict \in [Clients -> {"PROCESSED", Refused, None}]
    BY <1>1 DEF TypeOK
  <2> QED BY <1>2, <2>1
<1>8. /\ TypeOK' /\ NeverOverdrawn' /\ pc'[c] = "settle" /\ Held(c)'
      /\ \A d \in Clients \ {c} : pc'[d] = pc[d] /\ (Held(d) => Held(d)')
  <2>1. accLock' = accLock \/ (AccountFree(c) /\ Lock(c, u))
    BY <1>2
  <2>2. rowLock' = rowLock
    BY <1>2
  <2> QED BY <1>2, <1>3, <1>4, <1>6, <1>7, <2>1, <2>2, InsideTypes
<1>9. Frame(c)
  BY <1>2, <1>6, <1>7, <1>8 DEF Frame
<1>10. Paying(c)' \/ Refusing(c)'
  <2>1. CASE Suffices(c)
    <3>1. pending'[c] = Visible(c) - Amount[c] /\ verdict'[c] = "PROCESSED"
      BY <1>1, <1>2, <2>1 DEF TypeOK
    <3> QED BY <1>1, <1>2, <1>5, <1>8, <2>1, <3>1 DEF Paying, Suffices, Current
  <2>2. CASE ~Suffices(c)
    <3>1. pending' = pending /\ verdict'[c] = Refused
      BY <1>1, <1>2, <2>2 DEF TypeOK
    <3>2. Fresh(c)'
      BY <1>2, <1>4, <3>1 DEF Fresh
    <3> QED BY <1>1, <1>2, <1>5, <1>8, <2>2, <3>1, <3>2 DEF Refusing, Suffices, Current
  <2> QED BY <2>1, <2>2
<1>11. LockInv(c)'
  BY <1>1, <1>2, <1>3, <1>8 DEF ClientInv, LockInv
<1>12. DecisionInv(c)'
  BY <1>4, <1>8, <1>10 DEF DecisionInv
<1>13. \A d \in Clients : StatusInv(d)'
  BY <1>2, <1>3, StatusKept
<1> QED BY <1>8, <1>9, <1>11, <1>12, <1>13 DEF StepOK, ClientInv

LEMMA CreditOK ==
  ASSUME IInv, NEW c \in Clients, Credit(c)
  PROVE  StepOK(c)
<1> DEFINE u == Owner[c]
<1>1. TypeOK /\ ClientInv(c) /\ u \in Users /\ Amount[c] \in Nat
  BY ClientTypes DEF IInv
<1>2. /\ pc[c] = "credit" /\ AccountFree(c) /\ Lock(c, u) /\ Goto(c, "settle")
      /\ UNCHANGED <<account, status, rowLock, scan, answer, failures>>
      /\ pending' = [pending EXCEPT ![c] = Credited(c)]
      /\ verdict' = [verdict EXCEPT ![c] = "PROCESSED"]
  BY GrantedFree DEF Credit, NeedsAccount
<1>3. "settle" \in InApprove /\ "credit" \in InApprove
  BY DEF InApprove
<1>4. Fresh(c) /\ HasAccount(c) /\ c \notin Withdrawals
  BY <1>1, <1>2, ClientTypes DEF ClientInv, DecisionInv
<1>5. Visible(c) = Current(u) /\ Credited(c) = Current(u) + Amount[c] /\ Credited(c) \in Int
  BY <1>1, <1>4, VisibleIsCurrent DEF Credited
<1>6. /\ pending' \in [Clients -> Int \cup {None}]
      /\ \A d \in Clients \ {c} : pending'[d] = pending[d]
      /\ pending'[c] = Credited(c)
  BY <1>1, <1>2, <1>5 DEF TypeOK
<1>7. /\ verdict' \in [Clients -> {"PROCESSED", Refused, None}]
      /\ \A d \in Clients \ {c} : verdict'[d] = verdict[d]
      /\ verdict'[c] = "PROCESSED"
  BY <1>1, <1>2 DEF TypeOK
<1>8. /\ TypeOK' /\ NeverOverdrawn' /\ pc'[c] = "settle" /\ Held(c)'
      /\ \A d \in Clients \ {c} : pc'[d] = pc[d] /\ (Held(d) => Held(d)')
  BY <1>2, <1>3, <1>6, <1>7, InsideTypes
<1>9. Frame(c)
  BY <1>2, <1>6, <1>7, <1>8 DEF Frame
<1>10. Crediting(c)'
  BY <1>2, <1>5, <1>6, <1>7, <1>8 DEF Crediting, Current
<1>11. LockInv(c)'
  BY <1>1, <1>2, <1>3, <1>8 DEF ClientInv, LockInv
<1>12. DecisionInv(c)'
  BY <1>4, <1>8, <1>10 DEF DecisionInv
<1>13. \A d \in Clients : StatusInv(d)'
  BY <1>2, <1>3, StatusKept
<1> QED BY <1>8, <1>9, <1>11, <1>12, <1>13 DEF StepOK, ClientInv

\* ROLLBACK, and the call gives up: a statement failed, or was chosen by
\* PostgreSQL to break a deadlock.
LEMMA AbortOK ==
  ASSUME IInv, NEW c \in Clients, EndTransaction(c), Reply(c, 500),
         failures' \in 0..MaxFailures, UNCHANGED <<account, status>>
  PROVE  StepOK(c)
<1>1. TypeOK /\ NeverOverdrawn
  BY DEF IInv
<1>2. /\ Goto(c, "done") /\ answer' \in [Clients -> {200, 402, 500, None}]
      /\ answer'[c] = IF c \in Withdrawals THEN 500 ELSE answer[c]
      /\ \A d \in Clients \ {c} : answer'[d] = answer[d]
  BY ReplyTypes
<1>3. /\ TypeOK' /\ ClientInv(c)' /\ pc'[c] = "done"
      /\ \A d \in Clients \ {c} :
           /\ pc'[d] = pc[d] /\ pending'[d] = pending[d] /\ verdict'[d] = verdict[d]
           /\ rowLock[d] = d => rowLock'[d] = d
           /\ Held(d) => Held(d)'
  BY <1>1, <1>2, EndTypes DEF TypeOK
<1>4. NeverOverdrawn' /\ Frame(c)
  BY <1>1, <1>3 DEF NeverOverdrawn, Frame
<1>5. ASSUME NEW d \in Clients PROVE StatusInv(d)'
  <2>1. StatusInv(d)
    BY DEF IInv
  <2> QED BY <1>2, <1>3, <2>1 DEF StatusInv, InApprove
<1> QED BY <1>3, <1>4, <1>5 DEF StepOK

LEMMA FailOK ==
  ASSUME IInv, NEW c \in Clients, Fail(c) \/ DeadlockError(c)
  PROVE  StepOK(c)
<1>1. failures \in 0..MaxFailures /\ MaxFailures \in Nat
  BY AccountsAssumption DEF IInv, TypeOK
<1>2. EndTransaction(c) /\ Reply(c, 500) /\ UNCHANGED <<account, status>>
  BY DEF Fail, DeadlockError
<1>3. failures' \in 0..MaxFailures
  BY <1>1 DEF Fail, DeadlockError
<1> QED BY <1>2, <1>3, AbortOK

\* What Commit does to the balance: the decision of c, and nothing else.
Decided(c) ==
  LET u == Owner[c] IN
  \/ /\ c \in Withdrawals /\ verdict[c] = "PROCESSED"
     /\ Current(u) >= Amount[c] /\ Current(u)' = Current(u) - Amount[c]
  \/ /\ c \in Withdrawals /\ verdict[c] = Refused
     /\ Current(u) < Amount[c] /\ Current(u)' = Current(u)
  \/ /\ c \in Accruals /\ verdict[c] = "PROCESSED"
     /\ Current(u)' = Current(u) + Amount[c]

LEMMA CommitBalance ==
  ASSUME IInv, NEW c \in Clients, Commit(c)
  PROVE  /\ Decided(c)
         /\ account' \in [Users -> Int \cup {None}] /\ NeverOverdrawn'
         /\ \A u \in Users \ {Owner[c]} : account'[u] = account[u]
         /\ \A u \in Users : account[u] # None => account'[u] # None
         /\ \A d \in Clients \ {c} : Held(d) => account'[Owner[d]] = account[Owner[d]]
<1> DEFINE u == Owner[c]
<1>1. TypeOK /\ NeverOverdrawn /\ ClientInv(c) /\ u \in Users /\ Amount[c] \in Nat
  BY ClientTypes DEF IInv
<1>2. /\ pc[c] = "commit"
      /\ account' = IF pending[c] = None THEN account
                    ELSE [account EXCEPT ![u] = pending[c]]
  BY DEF Commit, Install
<1>3. /\ IF c \in Withdrawals THEN Paying(c) \/ Refusing(c) ELSE Crediting(c)
      /\ pending[c] # None => Held(c)
  BY <1>1, <1>2 DEF ClientInv, LockInv, DecisionInv
<1>4. /\ pending[c] \in Int \cup {None} /\ None \notin Int
      /\ account \in [Users -> Int \cup {None}]
      /\ account[u] # None => account[u] >= 0
  BY <1>1, AccountsAssumption DEF TypeOK, NeverOverdrawn
<1>5. account' \in [Users -> Int \cup {None}]
  BY <1>2, <1>4
<1>6. account'[u] = IF pending[c] = None THEN account[u] ELSE pending[c]
  BY <1>1, <1>2, <1>4
<1>7. \A v \in Users \ {u} : account'[v] = account[v]
  BY <1>2, <1>4
<1>8. \A v \in Users : account[v] # None => account'[v] # None
  BY <1>6, <1>7
<1>9. Current(u) \in Nat
  BY <1>1, <1>4 DEF Current
<1>10. Decided(c) /\ (account'[u] # None => account'[u] >= 0)
  <2>1. CASE c \in Withdrawals /\ Paying(c)
    BY <1>1, <1>4, <1>6, <1>9, <2>1 DEF Paying, MovesNothing, Fresh, Decided, Current
  <2>2. CASE c \in Withdrawals /\ Refusing(c)
    BY <1>1, <1>4, <1>6, <1>9, <2>2 DEF Refusing, Fresh, Decided, Current
  <2>3. CASE c \notin Withdrawals /\ Crediting(c)
    BY <1>1, <1>4, <1>6, <1>9, <2>3, ClientTypes
       DEF Crediting, MovesNothing, Fresh, Decided, Current
  <2> QED BY <1>3, <2>1, <2>2, <2>3
<1>11. NeverOverdrawn'
  BY <1>1, <1>7, <1>10 DEF NeverOverdrawn
<1>12. ASSUME NEW d \in Clients \ {c}, Held(d) PROVE account'[Owner[d]] = account[Owner[d]]
  BY <1>2, <1>3, <1>7, <1>12, ClientTypes DEF Held
<1> QED BY <1>5, <1>7, <1>8, <1>10, <1>11, <1>12

LEMMA CommitOK ==
  ASSUME IInv, NEW c \in Clients, Commit(c)
  PROVE  StepOK(c)
<1>1. TypeOK /\ ClientInv(c) /\ StatusInv(c) /\ MaxFailures \in Nat
  BY AccountsAssumption DEF IInv
<1>2. /\ pc[c] = "commit" /\ EndTransaction(c)
      /\ status' = [status EXCEPT ![c] = verdict[c]]
  BY DEF Commit, Install
<1>3. verdict[c] \in {"PROCESSED", Refused}
  BY CommitBalance DEF Decided
<1>4. PICK a \in {200, 402, 500} : Reply(c, a) /\ a \in {500, AnswerOf(c)}
  BY DEF Commit, AnswerOf
<1>5. failures' \in 0..MaxFailures
  BY <1>1 DEF Commit, TypeOK
<1>6. status' \in [Clients -> Statuses \cup {None}] /\ status'[c] = verdict[c]
  BY <1>1, <1>2, <1>3 DEF TypeOK, Statuses
<1>7. /\ Goto(c, "done") /\ answer' \in [Clients -> {200, 402, 500, None}]
      /\ answer'[c] = IF c \in Withdrawals THEN a ELSE answer[c]
      /\ \A d \in Clients \ {c} : answer'[d] = answer[d]
  BY <1>4, ReplyTypes
<1>8. /\ TypeOK' /\ ClientInv(c)' /\ pc'[c] = "done"
       /\ \A d \in Clients \ {c} :
            /\ pc'[d] = pc[d] /\ pending'[d] = pending[d] /\ verdict'[d] = verdict[d]
            /\ rowLock[d] = d => rowLock'[d] = d
            /\ Held(d) => Held(d)'
  BY <1>2, <1>5, <1>6, <1>7, CommitBalance, EndTypes
<1>9. NeverOverdrawn' /\ Frame(c)
  BY <1>8, CommitBalance, ClientTypes DEF Frame
<1>10. ASSUME NEW d \in Clients PROVE StatusInv(d)'
  <2>1. CASE d = c
    BY <1>3, <1>4, <1>6, <1>7, <1>8, <2>1 DEF StatusInv, AnswerOf, Refused, InApprove
  <2>2. CASE d # c
    <3>1. StatusInv(d) /\ status'[d] = status[d]
      BY <1>1, <1>2, <2>2 DEF IInv, TypeOK
    <3> QED BY <1>7, <1>8, <2>2, <3>1 DEF StatusInv
  <2> QED BY <2>1, <2>2
<1> QED BY <1>8, <1>9, <1>10 DEF StepOK

-----------------------------------------------------------------------------
(* The inductive invariant.                                                *)

LEMMA ClientStepOK ==
  ASSUME IInv, NEW c \in Clients, ClientStep(c)
  PROVE  StepOK(c)
BY CancelScanOK, CancelRowOK, CancelCommitOK, RegisterOK, CancelTransactionOK, LockRowOK, EnsureAccountOK, LockAccountOK, DebitOK,
   CreditOK, SettleOK, CommitOK, FailOK
   DEF ClientStep, CancelPlannedTransactionsByOrder, ApproveTransaction

LEMMA CrashInv == ASSUME IInv, Crash PROVE IInv'
<1>1. TypeOK /\ NeverOverdrawn /\ MaxFailures \in Nat
  BY AccountsAssumption DEF IInv
<1>2. \A c \in Clients : pc'[c] = IF pc[c] = "done" THEN "done" ELSE "aborted"
  BY DEF Crash
<1>3. TypeOK'
  BY <1>1 DEF Crash, TypeOK, ClientPCs
<1>4. NeverOverdrawn'
  BY <1>1 DEF Crash, NeverOverdrawn
<1>5. ASSUME NEW c \in Clients PROVE ClientInv(c)' /\ StatusInv(c)'
  <2>1. StatusInv(c) /\ pending'[c] = None /\ verdict'[c] = None
        /\ status' = status /\ answer' = answer
    BY DEF IInv, Crash
  <2>2. ClientInv(c)'
    BY <1>2, <2>1 DEF ClientInv, LockInv, DecisionInv, InApprove
  <2>3. StatusInv(c)'
    BY <1>2, <2>1 DEF StatusInv, InApprove
  <2> QED BY <2>2, <2>3
<1> QED BY <1>3, <1>4, <1>5 DEF IInv

\* Readers, and stuttering, touch nothing the invariant is about.
LEMMA QuietInv ==
  ASSUME IInv, UNCHANGED <<account, status, approval, pc, answer, failures>>
  PROVE  IInv'
<1>1. TypeOK' /\ NeverOverdrawn'
  BY DEF IInv, TypeOK, NeverOverdrawn, approval
<1>2. \A c \in Clients : ClientInv(c)' /\ StatusInv(c)'
  BY DEF IInv, ClientInv, LockInv, DecisionInv, Paying, Refusing, Crediting, MovesNothing, Fresh,
         HasAccount, Held, Current, StatusInv, approval
<1> QED BY <1>1, <1>2 DEF IInv

LEMMA InitInv == Init => IInv
<1> SUFFICES ASSUME Init PROVE IInv
  OBVIOUS
<1>1. TypeOK
  BY AccountsAssumption DEF Init, TypeOK, ClientPCs
<1>2. NeverOverdrawn
  BY DEF Init, NeverOverdrawn
<1>3. \A c \in Clients : ClientInv(c) /\ StatusInv(c)
  BY AccountsAssumption DEF Init, ClientInv, LockInv, DecisionInv, StatusInv, InApprove
<1> QED BY <1>1, <1>2, <1>3 DEF IInv

LEMMA StepInv == IInv /\ [Next]_vars => IInv'
<1> SUFFICES ASSUME IInv, [Next]_vars PROVE IInv'
  OBVIOUS
<1>1. ASSUME NEW c \in Clients, ClientStep(c) PROVE IInv'
  <2>1. StepOK(c)
    BY <1>1, ClientStepOK
  <2>2. \A d \in Clients : ClientInv(d)'
    BY <2>1, OtherClient DEF IInv, StepOK
  <2> QED BY <2>1, <2>2 DEF IInv, StepOK
<1>2. ASSUME NEW r \in Readers, GetBalance(r) PROVE IInv'
  BY <1>2, QuietInv DEF GetBalance, ReadCurrent, ReadHistory, ReadWithdrawn
<1>3. CASE Crash
  BY <1>3, CrashInv
<1>4. CASE UNCHANGED vars
  BY <1>4, QuietInv DEF vars
<1> QED BY <1>1, <1>2, <1>3, <1>4 DEF Next

\* The inductive invariant: what every open transaction holds and has decided.
THEOREM Invariance == Spec => []IInv
BY InitInv, StepInv, PTL DEF Spec

\* Rows, locks and answers keep their types, and only open transactions hold
\* locks (TypeOK).
THEOREM TypeCorrect == Spec => []TypeOK
<1>1. IInv => TypeOK
  BY DEF IInv
<1> QED BY <1>1, Invariance, PTL

\* No interleaving of withdrawals, accruals, failures and crashes overdraws an
\* account, though the table has no CHECK (NeverOverdrawn).
THEOREM NoOverdraft == Spec => []NeverOverdrawn
<1>1. IInv => NeverOverdrawn
  BY DEF IInv
<1> QED BY <1>1, Invariance, PTL

\* What the withdrawal handler answered is what happened, and what
\* GET /api/user/withdrawals lists (AnswerTellsOutcome).
THEOREM AnswersTell == Spec => []AnswerTellsOutcome
<1>1. IInv => AnswerTellsOutcome
  BY ClientTypes
     DEF IInv, StatusInv, AnswerTellsOutcome, ListWithdrawals, PaidBy, Refused, Clients
<1> QED BY <1>1, Invariance, PTL

-----------------------------------------------------------------------------
(* What a step does to the outcome of a call.                              *)

Final == {"PROCESSED", Refused}

\* Only Commit makes a call's outcome final, or touches a balance.
LEMMA OpenStep ==
  ASSUME IInv, NEW c \in Clients, ClientStep(c), ~Commit(c)
  PROVE  /\ account' = account
         /\ \A d \in Clients : status'[d] = status[d]
                               \/ (status[d] \notin Final /\ status'[d] \notin Final)
<1>1. TypeOK /\ StatusInv(c) /\ None \notin Statuses
  BY NoneAssumption DEF IInv
<1>2. CASE CancelPlannedTransactionsByOrder(c)
  BY <1>1, <1>2 DEF CancelPlannedTransactionsByOrder, CancelScan, CancelRow, CancelCommit,
                    Selected, Final, Refused
<1>3. CASE RegisterTransaction(c)
  <2>1. status' = [status EXCEPT ![c] = "PLANNED"] /\ status[c] = None
    BY <1>1, <1>3 DEF RegisterTransaction, StatusInv
  <2> QED BY <1>1, <1>3, <2>1 DEF RegisterTransaction, TypeOK, Final, Refused, Statuses
<1>4. CASE CancelTransaction(c)
  <2>1. status' = [status EXCEPT ![c] = "CANCELED"] /\ status[c] \in {"PLANNED", "CANCELED"}
    BY <1>1, <1>4 DEF CancelTransaction, StatusInv
  <2> QED BY <1>1, <1>4, <2>1 DEF CancelTransaction, TypeOK, Final, Refused, Statuses
<1>5. CASE ApproveTransaction(c) \/ DeadlockError(c) \/ Fail(c)
  BY <1>5 DEF ApproveTransaction, LockRow, EnsureAccount, LockAccount, Debit, Credit,
              Settle, DeadlockError, Fail
<1> QED BY <1>2, <1>3, <1>4, <1>5 DEF ClientStep

LEMMA CommitStep ==
  ASSUME IInv, NEW c \in Clients, Commit(c)
  PROVE  /\ status[c] \notin Final /\ status'[c] = verdict[c]
         /\ \A d \in Clients \ {c} : status'[d] = status[d]
<1>1. status \in [Clients -> Statuses \cup {None}] /\ StatusInv(c)
  BY DEF IInv, TypeOK
<1> QED BY <1>1 DEF Commit, Install, StatusInv, InApprove, Final, Refused

\* A withdrawal or accrual that was decided is never revoked, by the worker that
\* cancels the planned rows of the same number or by anyone else (DecidedIsFinal).
THEOREM DecisionsAreFinal == Spec => DecidedIsFinal
<1> DEFINE Kept == \A c \in Clients : status[c] \in Final => status'[c] = status[c]
<1>1. IInv /\ [Next]_vars => Kept
  <2> SUFFICES ASSUME IInv, [Next]_vars PROVE Kept
    OBVIOUS
  <2>1. ASSUME NEW c \in Clients, ClientStep(c) PROVE Kept
    BY <2>1, OpenStep, CommitStep
  <2>2. CASE UNCHANGED status
    BY <2>2
  <2> QED BY <2>1, <2>2 DEF Next, GetBalance, ReadCurrent, ReadHistory, ReadWithdrawn,
                          Crash, vars
<1>2. IInv /\ [Next]_vars =>
        [\A c \in Clients : status[c] \in {"PROCESSED", Refused} => status'[c] = status[c]]_vars
  BY <1>1 DEF Final
<1> QED BY <1>2, Invariance, PTL DEF Spec, DecidedIsFinal

-----------------------------------------------------------------------------
(* The tables implement the account of LoyaltyAccount.                     *)

LEMMA InitRefines == Init => Account!AInit
BY NoneAssumption DEF Init, Account!AInit, Current, Outcome, Account!Clients, Clients,
   Statuses

\* An outcome that is not final is open.
LEMMA OutcomeOpen ==
  ASSUME NEW c \in Clients
  PROVE  /\ status[c] \notin Final => Outcome(c) = "open"
         /\ status[c] = "PROCESSED" => Outcome(c) = "paid"
         /\ status[c] = Refused => Outcome(c) = "refused"
BY DEF Outcome, Final, Refused

\* A step that is no Commit is a stuttering step of the abstract account.
LEMMA StepStutters ==
  ASSUME account' = account,
         \A d \in Clients : status'[d] = status[d]
                            \/ (status[d] \notin Final /\ status'[d] \notin Final)
  PROVE  UNCHANGED Account!avars
<1>1. ASSUME NEW d \in Clients PROVE Outcome(d)' = Outcome(d)
  BY <1>1 DEF Outcome, Final
<1>2. \A u \in Users : Current(u)' = Current(u)
  BY DEF Current
<1> QED BY <1>1, <1>2 DEF Account!avars

\* Commit is the instant at which the call takes effect.
LEMMA CommitRefines ==
  ASSUME IInv, NEW c \in Clients, Commit(c)
  PROVE  Account!Debit(c) \/ Account!Refuse(c) \/ Account!Credit(c)
<1> DEFINE u == Owner[c]
           points == [v \in Users |-> Current(v)]
           outcome == [d \in Clients |-> Outcome(d)]
<1>1. u \in Users /\ Decided(c)
  BY ClientTypes, CommitBalance
<1>2. \A v \in Users \ {u} : Current(v)' = Current(v)
  BY CommitBalance DEF Current
<1>3. status[c] \notin Final /\ status'[c] = verdict[c]
      /\ \A d \in Clients \ {c} : status'[d] = status[d]
  BY CommitStep
<1>4. outcome[c] = "open" /\ \A d \in Clients \ {c} : outcome'[d] = outcome[d]
  BY <1>3, OutcomeOpen DEF Outcome
<1>5. CASE c \in Withdrawals /\ verdict[c] = "PROCESSED" /\ Current(u) >= Amount[c]
           /\ Current(u)' = Current(u) - Amount[c]
  <2>1. outcome' = [outcome EXCEPT ![c] = "paid"]
    BY <1>3, <1>4, <1>5 DEF Outcome, Refused
  <2>2. points' = [points EXCEPT ![u] = @ - Amount[c]]
    BY <1>1, <1>2, <1>5
  <2> QED BY <1>1, <1>4, <1>5, <2>1, <2>2 DEF Account!Debit
<1>6. CASE c \in Withdrawals /\ verdict[c] = Refused /\ Current(u) < Amount[c]
           /\ Current(u)' = Current(u)
  <2>1. outcome' = [outcome EXCEPT ![c] = "refused"]
    BY <1>3, <1>4, <1>6 DEF Outcome, Refused
  <2>2. points' = points
    BY <1>1, <1>2, <1>6
  <2> QED BY <1>1, <1>4, <1>6, <2>1, <2>2 DEF Account!Refuse
<1>7. CASE c \in Accruals /\ verdict[c] = "PROCESSED" /\ Current(u)' = Current(u) + Amount[c]
  <2>1. outcome' = [outcome EXCEPT ![c] = "paid"]
    BY <1>3, <1>4, <1>7 DEF Outcome, Refused
  <2>2. points' = [points EXCEPT ![u] = @ + Amount[c]]
    BY <1>1, <1>2, <1>7
  <2> QED BY <1>1, <1>4, <1>7, <2>1, <2>2 DEF Account!Credit
<1> QED BY <1>1, <1>5, <1>6, <1>7 DEF Decided

LEMMA StepRefines == IInv /\ [Next]_vars => [Account!ANext]_Account!avars
<1> SUFFICES ASSUME IInv, [Next]_vars PROVE Account!ANext \/ UNCHANGED Account!avars
  OBVIOUS
<1>1. ASSUME NEW c \in Clients, Commit(c) PROVE Account!ANext
  BY <1>1, CommitRefines DEF Account!ANext, Account!Clients, Clients
<1>2. ASSUME NEW c \in Clients, ClientStep(c), ~Commit(c) PROVE UNCHANGED Account!avars
  BY <1>2, OpenStep, StepStutters
<1>3. CASE UNCHANGED <<account, status>>
  BY <1>3, StepStutters
<1> QED BY <1>1, <1>2, <1>3
        DEF Next, GetBalance, ReadCurrent, ReadHistory, ReadWithdrawn, Crash, vars

\* The statements of every call, their locks and their failures implement an
\* account on which each call takes effect at one instant (ImplementsAccount).
THEOREM AccountImplemented == Spec => ImplementsAccount
<1>1. Spec => Account!ASpec
  BY InitRefines, StepRefines, Invariance, PTL DEF Spec, Account!ASpec
<1> QED BY <1>1 DEF ImplementsAccount
-----------------------------------------------------------------------------
(* The ledger: what is kept is what the rows add up to.                    *)

LEMMA SumIsTotal == \A S : Sum(S) = Total(Amount, S)
  BY DEF Sum, Total

LEMMA SumWith ==
  ASSUME NEW S \in SUBSET Clients, NEW c \in Clients \ S
  PROVE  Sum(S) \in Nat /\ Sum(S \cup {c}) = Sum(S) + Amount[c]
<1>1. IsFiniteSet(S)
  BY RowsAssumption, FS_Subset
<1>2. \A d \in S \cup {c} : Amount[d] \in Nat
  BY ClientTypes
<1>3. Total(Amount, S) \in Nat
  BY <1>1, <1>2, TotalNat
<1>4. Total(Amount, S \cup {c}) = Total(Amount, S) + Amount[c]
  BY <1>1, <1>2, TotalWith
<1> QED BY <1>3, <1>4, SumIsTotal

LEMMA SumNat ==
  ASSUME NEW S \in SUBSET Clients
  PROVE  Sum(S) \in Nat
<1>1. IsFiniteSet(S)
  BY RowsAssumption, FS_Subset
<1>2. \A d \in S : Amount[d] \in Nat
  BY ClientTypes
<1> QED BY <1>1, <1>2, TotalNat, SumIsTotal

\* What the client steps but Commit, and the other steps, leave to the ledger.
OutcomesKept ==
  /\ account' = account
  /\ \A d \in Clients : status'[d] = status[d]
                        \/ (status[d] \notin Final /\ status'[d] \notin Final)

LEMMA TruthKept ==
  ASSUME OutcomesKept, NEW u \in Users
  PROVE  Current(u)' = Current(u) /\ Truth(u)' = Truth(u) /\ History(u)' = History(u)
<1>1. \A kind \in SUBSET Clients : PaidBy(u, kind)' = PaidBy(u, kind)
  BY DEF OutcomesKept, PaidBy, Final
<1>2. Withdrawals \in SUBSET Clients /\ Accruals \in SUBSET Clients
  BY DEF Clients
<1>3. Withdrawn(u)' = Withdrawn(u) /\ Sum(PaidBy(u, Accruals))' = Sum(PaidBy(u, Accruals))
  BY <1>1, <1>2 DEF Withdrawn, Sum, MapThenSumSet, MapThenFoldSet
<1>4. Current(u)' = Current(u)
  BY DEF OutcomesKept, Current
<1> QED BY <1>3, <1>4 DEF Truth, History

\* Commit adds the row of c to the paid ones, if c is paid.
LEMMA CommitPaid ==
  ASSUME IInv, NEW c \in Clients, Commit(c), NEW u \in Users, NEW kind \in SUBSET Clients
  PROVE  /\ c \notin PaidBy(u, kind)
         /\ PaidBy(u, kind)' = IF verdict[c] = "PROCESSED" /\ Owner[c] = u /\ c \in kind
                               THEN PaidBy(u, kind) \cup {c} ELSE PaidBy(u, kind)
BY CommitStep DEF PaidBy, Final

LEMMA CommitSum ==
  ASSUME IInv, NEW c \in Clients, Commit(c), NEW u \in Users, NEW kind \in SUBSET Clients
  PROVE  /\ Sum(PaidBy(u, kind)) \in Nat
         /\ Sum(PaidBy(u, kind))' =
              IF verdict[c] = "PROCESSED" /\ Owner[c] = u /\ c \in kind
              THEN Sum(PaidBy(u, kind)) + Amount[c] ELSE Sum(PaidBy(u, kind))
<1> DEFINE P == PaidBy(u, kind)
           paid == verdict[c] = "PROCESSED" /\ Owner[c] = u /\ c \in kind
<1>1. P \in SUBSET Clients /\ c \in Clients \ P
  BY CommitPaid DEF PaidBy
<1>2. P' = IF paid THEN P \cup {c} ELSE P
  BY CommitPaid
<1>3. Sum(P)' = Sum(P')
  BY DEF Sum, MapThenSumSet, MapThenFoldSet
<1> HIDE DEF P, paid
<1>4. Sum(P) \in Nat /\ Sum(P \cup {c}) = Sum(P) + Amount[c]
  BY <1>1, SumWith
<1>5. Sum(P') = IF paid THEN Sum(P) + Amount[c] ELSE Sum(P)
  BY <1>2, <1>4
<1> QED BY <1>3, <1>4, <1>5 DEF P, paid

LEMMA CommitLedger ==
  ASSUME IInv, BalanceIsHistory, NEW c \in Clients, Commit(c)
  PROVE  BalanceIsHistory'
<1> SUFFICES ASSUME NEW u \in Users PROVE Current(u)' = History(u)'
  BY DEF BalanceIsHistory
<1>1. /\ Withdrawals \in SUBSET Clients /\ Accruals \in SUBSET Clients
      /\ Amount[c] \in Nat /\ (c \in Withdrawals <=> c \notin Accruals)
  BY ClientTypes DEF Clients
<1> DEFINE A == Sum(PaidBy(u, Accruals))
           W == Sum(PaidBy(u, Withdrawals))
<1>2. Current(u) = A - W
  BY DEF BalanceIsHistory, History, Withdrawn
<1>3. History(u)' = A' - W'
  BY DEF History, Withdrawn
<1>4. /\ A \in Nat
      /\ A' = IF verdict[c] = "PROCESSED" /\ Owner[c] = u /\ c \in Accruals
              THEN A + Amount[c] ELSE A
  BY <1>1, CommitSum
<1>5. /\ W \in Nat
      /\ W' = IF verdict[c] = "PROCESSED" /\ Owner[c] = u /\ c \in Withdrawals
              THEN W + Amount[c] ELSE W
  BY <1>1, CommitSum
<1>6. Current(u)' = A' - W'
  <2> HIDE DEF A, W
  <2>1. CASE Owner[c] # u
    <3>1. Current(u)' = Current(u)
      BY <2>1, CommitBalance DEF Current
    <3> QED BY <1>2, <1>4, <1>5, <2>1, <3>1
  <2>2. CASE Owner[c] = u
    <3>1. Decided(c) /\ Refused # "PROCESSED"
      BY CommitBalance DEF Refused
    <3>2. CASE c \in Withdrawals /\ verdict[c] = "PROCESSED" /\ Current(u)' = Current(u) - Amount[c]
      BY <1>1, <1>2, <1>4, <1>5, <2>2, <3>2
    <3>3. CASE c \in Withdrawals /\ verdict[c] = Refused /\ Current(u)' = Current(u)
      BY <1>1, <1>2, <1>4, <1>5, <2>2, <3>1, <3>3
    <3>4. CASE c \in Accruals /\ verdict[c] = "PROCESSED" /\ Current(u)' = Current(u) + Amount[c]
      BY <1>1, <1>2, <1>4, <1>5, <2>2, <3>4
    <3> QED BY <2>2, <3>1, <3>2, <3>3, <3>4 DEF Decided
  <2> QED BY <2>1, <2>2
<1> QED BY <1>3, <1>6

LEMMA InitLedger == Init => BalanceIsHistory
<1> SUFFICES ASSUME Init, NEW u \in Users PROVE Current(u) = History(u)
  BY DEF BalanceIsHistory
<1>1. \A kind \in SUBSET Clients : PaidBy(u, kind) = {}
  BY NoneAssumption DEF Init, PaidBy, Statuses
<1>2. Withdrawals \in SUBSET Clients /\ Accruals \in SUBSET Clients
  BY DEF Clients
<1>3. Sum({}) = 0
  BY SumIsTotal, TotalPick, FS_EmptySet
<1>4. History(u) = 0
  BY <1>1, <1>2, <1>3 DEF History, Withdrawn
<1>5. Current(u) = 0
  BY DEF Init, Current
<1> QED BY <1>4, <1>5

\* Every step is a Commit or leaves the ledger as it is.
LEMMA LedgerSteps ==
  ASSUME IInv, [Next]_vars
  PROVE  (\E c \in Clients : Commit(c)) \/ OutcomesKept
<1>1. ASSUME NEW c \in Clients, ClientStep(c), ~Commit(c) PROVE OutcomesKept
  BY <1>1, OpenStep DEF OutcomesKept
<1>2. CASE UNCHANGED <<account, status>>
  BY <1>2 DEF OutcomesKept
<1> QED BY <1>1, <1>2 DEF Next, GetBalance, ReadCurrent, ReadHistory, ReadWithdrawn, Crash, vars

LEMMA LedgerStep == IInv /\ BalanceIsHistory /\ [Next]_vars => BalanceIsHistory'
<1> SUFFICES ASSUME IInv, BalanceIsHistory, [Next]_vars PROVE BalanceIsHistory'
  OBVIOUS
<1>1. CASE OutcomesKept
  BY <1>1, TruthKept DEF BalanceIsHistory
<1>2. CASE \E c \in Clients : Commit(c)
  BY <1>2, CommitLedger
<1> QED BY <1>1, <1>2, LedgerSteps

\* The balance that is kept is what the approved rows add up to, so GetBalance
\* may answer from either (BalanceIsHistory).
THEOREM LedgerBalances == Spec => []BalanceIsHistory
BY InitLedger, LedgerStep, Invariance, PTL DEF Spec
-----------------------------------------------------------------------------
(* GetBalance.                                                             *)

\* A reader in the middle of its call has seen the present truth, and each
\* figure it has read was one of those it saw.
ReaderInv(r) ==
  /\ reader[r].pc \in {"readHistory", "readWithdrawn"} => Truth(Owner[r]) \in seen[r]
  /\ reader[r].pc \in {"readWithdrawn", "done"} =>
       \E t \in seen[r] : t[1] = reader[r].current
  /\ reader[r].pc = "done" => \E t \in seen[r] : t[2] = reader[r].withdrawn

ReadersInv ==
  /\ reader = [r \in Readers |-> reader[r]] /\ seen = [r \in Readers |-> seen[r]]
  /\ \A r \in Readers : ReaderInv(r)

LEMMA TruthIs ==
  ASSUME NEW u
  PROVE  Truth(u)[1] = Current(u) /\ Truth(u)[2] = Withdrawn(u)
BY DEF Truth

LEMMA OwnerOf == \A r \in Readers : Owner[r] \in Users
BY AccountsAssumption

\* Commit shows the new truth to every reader in the middle of its call.
LEMMA CommitReaders ==
  ASSUME ReadersInv, NEW c \in Clients, Commit(c)
  PROVE  ReadersInv'
<1>1. /\ reader' = reader
      /\ seen' = [r \in Readers |->
                    IF reader[r].pc \in {"readHistory", "readWithdrawn"}
                    THEN seen[r] \cup {Truth(Owner[r])'} ELSE seen[r]]
  BY DEF Commit, Observe
<1>2. ASSUME NEW r \in Readers PROVE ReaderInv(r)'
  <2>1. ReaderInv(r) /\ seen[r] \subseteq seen'[r]
    BY <1>1 DEF ReadersInv
  <2>2. reader[r].pc \in {"readHistory", "readWithdrawn"} => Truth(Owner[r])' \in seen'[r]
    BY <1>1
  <2> QED BY <1>1, <2>1, <2>2 DEF ReaderInv
<1> QED BY <1>1, <1>2 DEF ReadersInv

\* The other steps of clients, and a crash, leave the truth and what was seen.
LEMMA QuietReaders ==
  ASSUME ReadersInv, OutcomesKept, seen' = seen,
         \/ reader' = reader
         \/ reader' = [r \in Readers |-> IF reader[r].pc = "done" THEN reader[r]
                                         ELSE ReaderRecord("aborted", None, None)]
  PROVE  ReadersInv'
<1>1. ASSUME NEW r \in Readers PROVE ReaderInv(r)'
  <2>1. ReaderInv(r)
    BY DEF ReadersInv
  <2>2. Truth(Owner[r])' = Truth(Owner[r])
    BY TruthKept, OwnerOf
  <2>3. CASE reader'[r] = reader[r]
    BY <2>1, <2>2, <2>3 DEF ReaderInv
  <2>4. CASE reader'[r].pc = "aborted"
    BY <2>4 DEF ReaderInv
  <2> QED BY <2>3, <2>4 DEF ReaderRecord
<1>2. reader' = [r \in Readers |-> reader'[r]] /\ seen' = [r \in Readers |-> seen'[r]]
  BY DEF ReadersInv
<1> QED BY <1>1, <1>2 DEF ReadersInv

LEMMA ReaderSteps ==
  ASSUME ReadersInv, BalanceIsHistory, NEW r \in Readers, GetBalance(r)
  PROVE  ReadersInv'
<1> DEFINE u == Owner[r]
<1>1. ReaderInv(r) /\ u \in Users /\ Current(u) = History(u)
  BY OwnerOf DEF ReadersInv, BalanceIsHistory
<1>2. \A q \in Readers : Truth(Owner[q])' = Truth(Owner[q])
  <2>1. OutcomesKept
    BY DEF GetBalance, ReadCurrent, ReadHistory, ReadWithdrawn, OutcomesKept
  <2> QED BY <2>1, TruthKept, OwnerOf
<1>3. ASSUME NEW q \in Readers \ {r}, reader'[q] = reader[q], seen'[q] = seen[q]
      PROVE  ReaderInv(q)'
  BY <1>2, <1>3 DEF ReadersInv, ReaderInv
<1>4. CASE ReadCurrent(r)
  <2>1. /\ seen' = [seen EXCEPT ![r] = {Truth(u)}]
        /\ reader' = [reader EXCEPT ![r] =
             IF Current(u) = 0 THEN ReaderRecord("readHistory", None, None)
                               ELSE ReaderRecord("readWithdrawn", Current(u), None)]
    BY <1>4 DEF ReadCurrent
  <2>2. ReaderInv(r)'
    <3>1. Truth(u)' \in seen'[r] /\ Truth(u)[1] = Current(u)
      BY <1>2, <2>1, TruthIs DEF ReadersInv
    <3>2. \/ reader'[r].pc = "readHistory"
          \/ reader'[r].pc = "readWithdrawn" /\ reader'[r].current = Current(u)
      BY <2>1 DEF ReadersInv, ReaderRecord
    <3> QED BY <1>2, <3>1, <3>2 DEF ReaderInv
  <2> QED BY <1>3, <2>1, <2>2 DEF ReadersInv
<1>5. CASE ReadHistory(r)
  <2>1. /\ seen' = seen /\ reader[r].pc = "readHistory"
        /\ reader' = [reader EXCEPT ![r] = ReaderRecord("readWithdrawn", History(u), None)]
    BY <1>5 DEF ReadHistory, HistorySum
  <2>2. ReaderInv(r)'
    <3>1. Truth(u)' \in seen'[r] /\ Truth(u)[1] = Current(u)
      BY <1>1, <1>2, <2>1, TruthIs DEF ReaderInv
    <3>2. reader'[r].pc = "readWithdrawn" /\ reader'[r].current = Current(u)
      BY <1>1, <2>1 DEF ReadersInv, ReaderRecord
    <3> QED BY <1>2, <3>1, <3>2 DEF ReaderInv
  <2> QED BY <1>3, <2>1, <2>2 DEF ReadersInv
<1>6. CASE ReadWithdrawn(r)
  <2>1. /\ seen' = seen /\ reader[r].pc = "readWithdrawn"
        /\ reader' = [reader EXCEPT ![r] =
                        ReaderRecord("done", reader[r].current, Withdrawn(u))]
    BY <1>6 DEF ReadWithdrawn
  <2>2. ReaderInv(r)'
    <3>1. Truth(u) \in seen'[r] /\ Truth(u)[2] = Withdrawn(u)
          /\ \E t \in seen'[r] : t[1] = reader[r].current
      BY <1>1, <2>1, TruthIs DEF ReaderInv
    <3>2. /\ reader'[r].pc = "done" /\ reader'[r].current = reader[r].current
          /\ reader'[r].withdrawn = Withdrawn(u)
      BY <2>1 DEF ReadersInv, ReaderRecord
    <3> QED BY <3>1, <3>2 DEF ReaderInv
  <2> QED BY <1>3, <2>1, <2>2 DEF ReadersInv
<1> QED BY <1>4, <1>5, <1>6 DEF GetBalance

LEMMA ReadersStep ==
  IInv /\ BalanceIsHistory /\ ReadersInv /\ [Next]_vars => ReadersInv'
<1> SUFFICES ASSUME IInv, BalanceIsHistory, ReadersInv, [Next]_vars PROVE ReadersInv'
  OBVIOUS
<1>1. ASSUME NEW c \in Clients, Commit(c) PROVE ReadersInv'
  BY <1>1, CommitReaders
<1>2. ASSUME NEW c \in Clients, ClientStep(c), ~Commit(c) PROVE ReadersInv'
  <2>1. OutcomesKept
    BY <1>2, OpenStep DEF OutcomesKept
  <2>2. reader' = reader /\ seen' = seen
    BY <1>2 DEF ClientStep, CancelPlannedTransactionsByOrder, CancelScan, CancelRow,
       CancelCommit, RegisterTransaction, CancelTransaction, DeadlockError, Fail,
       ApproveTransaction, LockRow, EnsureAccount, LockAccount, Debit, Credit, Settle, reading
  <2> QED BY <2>1, <2>2, QuietReaders
<1>3. ASSUME NEW r \in Readers, GetBalance(r) PROVE ReadersInv'
  BY <1>3, ReaderSteps
<1>4. CASE Crash
  <2>1. OutcomesKept
    BY <1>4 DEF Crash, OutcomesKept
  <2> QED BY <1>4, <2>1, QuietReaders DEF Crash
<1>5. CASE UNCHANGED vars
  <2>1. OutcomesKept
    BY <1>5 DEF vars, OutcomesKept
  <2> QED BY <1>5, <2>1, QuietReaders DEF vars, reading
<1> QED BY <1>1, <1>2, <1>3, <1>4, <1>5 DEF Next

LEMMA InitReaders == Init => ReadersInv
BY DEF Init, ReadersInv, ReaderInv, ReaderRecord

\* Each figure that GET /api/user/balance answers was the true one at some
\* moment of the call, whether it was read or added up (FiguresWereTrue).
THEOREM FiguresTrue == Spec => []FiguresWereTrue
<1>1. ReadersInv => FiguresWereTrue
  BY DEF ReadersInv, ReaderInv, FiguresWereTrue
<1>2. Spec => []ReadersInv
  BY InitReaders, ReadersStep, Invariance, LedgerBalances, PTL DEF Spec
<1> QED BY <1>1, <1>2, PTL
-----------------------------------------------------------------------------
(* The order of the locks.                                                 *)

\* Whoever has locked an account row is a client of its user.
HolderOwns == \A u \in Users : accLock[u] # None => Owner[accLock[u]] = u

\* A statement of c leaves every account lock alone, takes the one of its own
\* user, or gives up those of c.
LEMMA LockSteps ==
  ASSUME NEW c \in Clients, ClientStep(c)
  PROVE  accLock' = accLock \/ Lock(c, Owner[c]) \/ accLock' = Release(c)
<1>1. CASE CancelScan(c) \/ CancelRow(c) \/ RegisterTransaction(c) \/ CancelTransaction(c)
  BY <1>1 DEF CancelScan, CancelRow, RegisterTransaction, CancelTransaction, approval
<1>2. CASE LockRow(c) \/ EnsureAccount(c) \/ LockAccount(c) \/ Debit(c) \/ Credit(c) \/ Settle(c)
  BY <1>2 DEF LockRow, EnsureAccount, LockAccount, Debit, Credit, Settle, approval
<1>3. CASE CancelCommit(c) \/ Commit(c) \/ DeadlockError(c) \/ Fail(c)
  BY <1>3 DEF CancelCommit, Commit, DeadlockError, Fail, EndTransaction
<1> QED BY <1>1, <1>2, <1>3
        DEF ClientStep, CancelPlannedTransactionsByOrder, ApproveTransaction

LEMMA HolderStep == IInv /\ HolderOwns /\ [Next]_vars => HolderOwns'
<1> SUFFICES ASSUME IInv, HolderOwns, [Next]_vars, NEW u \in Users, accLock'[u] # None
             PROVE  Owner[accLock'[u]] = u
  BY DEF HolderOwns
<1>0. accLock \in [Users -> Clients \cup {None}]
  BY DEF IInv, TypeOK
<1>1. accLock[u] # None => Owner[accLock[u]] = u
  BY DEF HolderOwns
<1>2. ASSUME NEW c \in Clients, ClientStep(c) PROVE Owner[accLock'[u]] = u
  <2>1. CASE accLock' = accLock
    BY <2>1, <1>1
  <2>2. CASE Lock(c, Owner[c])
    BY <2>2, <1>0, <1>1 DEF Lock
  <2>3. CASE accLock' = Release(c)
    BY <2>3, <1>0, <1>1 DEF Release
  <2> QED BY <1>2, <2>1, <2>2, <2>3, LockSteps
<1>3. CASE \E r \in Readers : GetBalance(r)
  BY <1>1, <1>3 DEF GetBalance, ReadCurrent, ReadHistory, ReadWithdrawn, approval
<1>4. CASE Crash
  BY <1>4 DEF Crash
<1>5. CASE UNCHANGED vars
  BY <1>1, <1>5 DEF vars, approval
<1> QED BY <1>2, <1>3, <1>4, <1>5 DEF Next

THEOREM HoldersOwn == Spec => []HolderOwns
<1>1. Init => HolderOwns
  BY DEF Init, HolderOwns
<1> QED BY <1>1, HolderStep, Invariance, PTL DEF Spec

\* An open approval has locked its own row, so it waits, if it does, for the
\* holder of its account row.
LEMMA OpenWaits ==
  ASSUME IInv, NEW c \in Clients, pc[c] \in InApprove, NEW d \in WaitsFor(c)
  PROVE  d \in Clients /\ d # c /\ accLock[Owner[c]] = d
<1>1. rowLock[c] = c
  BY DEF IInv, ClientInv, LockInv
<1>2. RowsWanted(c) \subseteq {c}
  BY StatementTypes DEF RowsWanted
<1> QED BY <1>1, <1>2 DEF WaitsFor

\* ... who has what it needs, whatever the cancellations have locked.
LEMMA HolderGranted ==
  ASSUME IInv, HolderOwns, NEW c \in Clients, pc[c] \in InApprove, NEW d \in WaitsFor(c)
  PROVE  pc[d] \in InApprove /\ Granted(d)
<1>1. d \in Clients /\ accLock[Owner[c]] = d
  BY OpenWaits
<1>2. Owner[c] \in Users /\ d # None
  BY <1>1, ClientTypes
<1>3. pc[d] \in InApprove
  BY <1>1, <1>2 DEF IInv, TypeOK
<1>4. accLock[Owner[d]] = d
  BY <1>1, <1>2 DEF HolderOwns
<1>5. ASSUME NEW e \in WaitsFor(d) PROVE FALSE
  BY <1>1, <1>3, <1>4, <1>5, OpenWaits
<1> QED BY <1>3, <1>5 DEF Granted

\* A statement waits for a transaction that is open.
LEMMA WaitsForOpen ==
  ASSUME IInv, NEW c \in Clients, NEW d \in WaitsFor(c)
  PROVE  d \in Clients /\ pc[d] \in InTransaction
<1>1. d \in Clients /\ Owner[c] \in Users /\ d # None
  BY ClientTypes DEF WaitsFor
<1>2. RowsWanted(c) \subseteq Clients
  <2>1. CASE pc[c] = "cancelRows" /\ scan[c] # <<>>
    <3>1. Head(scan[c]) \in Clients
      BY <2>1, HeadTailProperties DEF IInv, TypeOK
    <3> QED BY <2>1, <3>1 DEF RowsWanted
  <2> QED BY <2>1 DEF RowsWanted
<1>3. CASE \E r \in RowsWanted(c) : rowLock[r] = d
  BY <1>1, <1>2, <1>3 DEF IInv, TypeOK
<1>4. CASE accLock[Owner[c]] = d
  BY <1>1, <1>4, StatementTypes DEF IInv, TypeOK
<1> QED BY <1>1, <1>3, <1>4 DEF WaitsFor

LEMMA OrderedLocks == IInv /\ HolderOwns => LocksAreOrdered
<1> SUFFICES ASSUME IInv, HolderOwns, NEW c \in Clients
             PROVE  /\ \A d \in WaitsFor(c) :
                         /\ pc[d] \in InTransaction
                         /\ pc[c] \in InApprove => pc[d] \in InApprove /\ Granted(d)
                    /\ Deadlocked(c) => pc[c] = "cancelRows"
  BY DEF LocksAreOrdered
<1>1. \A d \in WaitsFor(c) : pc[d] \in InTransaction
  BY WaitsForOpen
<1>2. pc[c] \in InApprove => \A d \in WaitsFor(c) : pc[d] \in InApprove /\ Granted(d)
  BY HolderGranted
<1>3. ASSUME Deadlocked(c) PROVE pc[c] = "cancelRows"
  <2>1. PICK S \in SUBSET Clients :
          /\ c \in S
          /\ \A d \in S : WaitsFor(d) \cap S # {} /\ \E e \in S : d \in WaitsFor(e)
    BY <1>3 DEF Deadlocked
  <2>2. pc[c] \in InTransaction
    BY <2>1, WaitsForOpen
  <2>3. pc[c] \notin InApprove
    BY <1>2, <2>1 DEF Granted
  <2> QED BY <2>2, <2>3 DEF InTransaction
<1> QED BY <1>1, <1>2, <1>3

\* Every statement that waits waits for a transaction that is open.  An approval
\* whose own row is locked waits at most for one that has all it needs, also
\* when cancellations lock rows of the same order one after the other; so a
\* deadlock, which PostgreSQL has to break, is one of cancellations only
\* (LocksAreOrdered).
THEOREM NoDeadlock == Spec => []LocksAreOrdered
BY OrderedLocks, HoldersOwn, Invariance, PTL
=============================================================================
