------------------------ MODULE OrderProcessingProofs ------------------------
(***************************************************************************)
(* Proofs about OrderProcessing, for every number of users, orders,        *)
(* requests, workers, failures and restarts.                               *)
(*                                                                         *)
(* The argument.  Each transaction row is approved or cancelled by id by   *)
(* the one worker that registered it, and that worker is finished with it  *)
(* once it is approved (WorkerInv, TxUnique).  Rows of the order table     *)
(* never change their user (OrderStable), so whatever a worker or a        *)
(* request has copied from a row stays true.  On top of that,              *)
(* UncontendedInv describes an order that one worker at a time has held.   *)
(***************************************************************************)
EXTENDS OrderProcessing, SetSums, TLAPS

PCs == {"idle", "getByNumber"} \cup Holding

\* What the locals of a worker say about the tables, statement by statement.
WorkerInv(w) ==
  /\ pc[w] # "idle" => task[w] \in Task
  /\ pc[w] \in Holding =>
       /\ copy[w] \in Copy
       /\ order[task[w].number] # None
       /\ order[task[w].number].user = copy[w].user
  /\ pc[w] \in HasTx =>
       /\ txid[w] \in TxIds /\ tx[txid[w]] # None
       /\ tx[txid[w]].user = copy[w].user
       /\ tx[txid[w]].order = task[w].number
       /\ tx[txid[w]].status # "PROCESSED"
  /\ pc[w] \in {"saveTouched", "cancelPlanned", "register", "poll", "wait"} =>
       copy[w].status = "PROCESSING"
  /\ pc[w] \in {"saveInvalid", "cancelTransaction"} => copy[w].status = "INVALID"
  /\ pc[w] \in {"saveProcessed", "approve"} =>
       copy[w].status = "PROCESSED" /\ service[task[w].number] = "PROCESSED"

\* A transaction id is known to one worker only.
TxUnique ==
  \A v, w \in Workers : pc[v] \in HasTx /\ pc[w] \in HasTx /\ txid[v] = txid[w] => v = w

\* Every transaction belongs to the owner of its order; CreditsAreAwarded.
TxRowInv(t) ==
  tx[t] # None =>
    /\ order[tx[t].order] # None /\ order[tx[t].order].user = tx[t].user
    /\ tx[t].status = "PROCESSED" => /\ service[tx[t].order] = "PROCESSED"
                                     /\ tx[t].accrual = AccrualValue[tx[t].order]

\* What a request has read or written stays true; AnswersAgreeWithOwner.
RequestInv(r) ==
  LET q == request[r] IN
  /\ q.pc \in {"save", "process", "done"} => q.user \in Users /\ q.number \in Orders
  /\ q.pc = "process" \/ (q.pc = "done" /\ q.code \in {200, 202}) =>
       order[q.number] # None /\ order[q.number].user = q.user
  /\ q.pc = "done" /\ q.code = 409 =>
       order[q.number] # None /\ order[q.number].user # q.user

IInv ==
  /\ TypeOK
  /\ \A w \in Workers : WorkerInv(w)
  /\ TxUnique
  /\ \A t \in TxIds : TxRowInv(t)
  /\ \A r \in Requests : RequestInv(r)

\* Order n has been held by one worker at a time and never re-inserted.
UncontendedInv(n) ==
  /\ \A v, w \in Workers : Holds(v, n) /\ Holds(w, n) => v = w
  /\ \A t \in TxIds : Processed(t) /\ tx[t].order = n =>
       order[n].status = "PROCESSED" /\ \A w \in Workers : ~Holds(w, n)
  /\ \A s, t \in TxIds : Processed(s) /\ Processed(t)
                         /\ tx[s].order = n /\ tx[t].order = n => s = t
  /\ \A s, t \in TxIds : Planned(s) /\ Planned(t)
                         /\ tx[s].order = n /\ tx[t].order = n => s = t
  /\ \A w \in Workers : Holds(w, n) =>
       /\ pc[w] = "register" => \A t \in TxIds : Planned(t) => tx[t].order # n
       /\ pc[w] = "approve" => order[n].status = "PROCESSED"
       /\ pc[w] \notin {"approve", "cancelTransaction"} => order[n].status \notin Terminal

UInv == \A n \in Orders \ contended : UncontendedInv(n)
-----------------------------------------------------------------------------
(* What a step does to the tables.                                         *)

\* Rows of the order table stay, and keep their user.
OrderStable ==
  \A n \in Orders : order[n] # None => order'[n] # None /\ order'[n].user = order[n].user

\* A row of the transaction table stays, and is not approved in this step.
TxKept(t) ==
  tx[t] # None =>
    /\ tx'[t] # None /\ tx'[t].user = tx[t].user /\ tx'[t].order = tx[t].order
    /\ tx'[t].status = "PROCESSED" => tx[t].status = "PROCESSED"

WorkerTypes ==
  /\ pc \in [Workers -> PCs]
  /\ task \in [Workers -> Task \cup {None}]
  /\ copy \in [Workers -> Copy \cup {None}]
  /\ txid \in [Workers -> 0..MaxTx]

\* The locals of every worker but w are left alone.
OnlyWorker(w) ==
  \A v \in Workers \ {w} :
    pc'[v] = pc[v] /\ task'[v] = task[v] /\ copy'[v] = copy[v] /\ txid'[v] = txid[v]

\* The id worker w knows after the step is the one it knew, or a new one.
TxOwned(w) ==
  pc'[w] \in HasTx =>
    \/ pc[w] \in HasTx /\ txid'[w] = txid[w]
    \/ txid'[w] \in TxIds /\ tx[txid'[w]] = None

LEMMA SaveTypes ==
  ASSUME order \in [Orders -> OrderRow \cup {None}],
         NEW u \in Users, NEW n \in Orders, NEW s \in Statuses, Save(u, n, s)
  PROVE  /\ order' \in [Orders -> OrderRow \cup {None}]
         /\ OrderStable
         /\ order'[n] # None /\ order'[n].status = s
         /\ order[n] = None => order'[n].user = u
         /\ \A m \in Orders \ {n} : order'[m] = order[m]
BY BoundsAssumption, NoneAssumption DEF Save, OrderRow, OrderRecord, OrderStable

LEMMA SaveCopyTypes ==
  ASSUME IInv, NEW w \in Workers, pc[w] \in Holding, NEW res, SaveCopy(w, res)
  PROVE  order' \in [Orders -> OrderRow \cup {None}] /\ OrderStable
<1>1. copy[w] \in Copy /\ task[w] \in Task
  BY DEF IInv, WorkerInv, Holding, HasTx
<1>2. CASE res = "fail"
  BY <1>2 DEF SaveCopy, OrderStable, IInv, TypeOK
<1>3. CASE res # "fail"
  BY <1>1, <1>3, SaveTypes DEF SaveCopy, Copy, Task, IInv, TypeOK
<1> QED BY <1>2, <1>3

LEMMA FinishTypes ==
  ASSUME WorkerTypes, NEW w \in Workers, Finish(w)
  PROVE  WorkerTypes' /\ OnlyWorker(w) /\ pc'[w] = "idle"
BY BoundsAssumption DEF WorkerTypes, Finish, OnlyWorker, PCs

LEMMA GotoTypes ==
  ASSUME WorkerTypes, NEW w \in Workers, NEW p \in PCs, Goto(w, p)
  PROVE  /\ WorkerTypes' /\ OnlyWorker(w) /\ pc'[w] = p
         /\ task'[w] = task[w] /\ copy'[w] = copy[w] /\ txid'[w] = txid[w]
BY DEF WorkerTypes, Goto, OnlyWorker

LEMMA ChangeStatusTypes ==
  ASSUME WorkerTypes, NEW w \in Workers, copy[w] \in Copy,
         NEW s \in Statuses, NEW p \in PCs, ChangeStatus(w, s, p)
  PROVE  /\ WorkerTypes' /\ OnlyWorker(w) /\ pc'[w] = p
         /\ task'[w] = task[w] /\ txid'[w] = txid[w]
         /\ copy'[w] \in Copy /\ copy'[w].user = copy[w].user /\ copy'[w].status = s
BY DEF WorkerTypes, ChangeStatus, OnlyWorker, Copy

LEMMA FailOrderTypes ==
  ASSUME WorkerTypes, NEW w \in Workers, copy[w] \in Copy, FailOrder(w)
  PROVE  /\ WorkerTypes' /\ OnlyWorker(w)
         /\ \/ pc'[w] = "idle"
            \/ /\ pc'[w] = "saveInvalid" /\ copy[w].status \notin Terminal
               /\ task'[w] = task[w] /\ txid'[w] = txid[w]
               /\ copy'[w] \in Copy /\ copy'[w].user = copy[w].user
               /\ copy'[w].status = "INVALID"
<1>1. "saveInvalid" \in PCs /\ "INVALID" \in Statuses
  BY DEF PCs, Holding, HasTx, Statuses, Terminal
<1>2. CASE ~Cancelled(w) /\ ChangeStatusAllowed(copy[w].status)
  BY <1>1, <1>2, ChangeStatusTypes DEF FailOrder, ChangeStatusAllowed
<1>3. CASE ~(~Cancelled(w) /\ ChangeStatusAllowed(copy[w].status))
  BY <1>3, FinishTypes DEF FailOrder
<1> QED BY <1>2, <1>3

\* A worker whose locals are left alone keeps its invariant.
LEMMA OtherWorker ==
  ASSUME NEW v \in Workers, WorkerInv(v), WorkerTypes, OrderStable,
         pc'[v] = pc[v], task'[v] = task[v], copy'[v] = copy[v], txid'[v] = txid[v],
         \A n \in Orders : service[n] = "PROCESSED" => service'[n] = "PROCESSED",
         pc[v] \in HasTx => TxKept(txid[v])
  PROVE  WorkerInv(v)'
BY DEF WorkerInv, OrderStable, TxKept, WorkerTypes, Task, Holding, HasTx, Copy

\* A step of worker w preserves the invariant when it leaves the rest of the
\* process alone, keeps the rows of others, and leaves w in order.
LEMMA WorkerStepInv ==
  ASSUME IInv, NEW w \in Workers,
         UNCHANGED <<service, request, listed>>,
         queue' \in Seq(Task) /\ Len(queue') <= QueueSize,
         phase' = phase, restarts' = restarts,
         failures' \in 0..MaxFailures, contended' \subseteq Orders,
         order' \in [Orders -> OrderRow \cup {None}], OrderStable,
         tx' \in [TxIds -> TxRow \cup {None}],
         balance' \in [Users -> Nat],
         WorkerTypes', OnlyWorker(w), WorkerInv(w)',
         \A t \in TxIds : TxKept(t) \/ (pc[w] \in HasTx /\ t = txid[w]),
         TxOwned(w),
         \A t \in TxIds : TxRowInv(t)'
  PROVE  IInv'
<1>1. WorkerTypes
  BY DEF IInv, TypeOK, WorkerTypes, PCs
<1>2. TypeOK'
  BY DEF IInv, TypeOK, WorkerTypes, PCs
<1>3. \A v \in Workers : WorkerInv(v)'
  <2> SUFFICES ASSUME NEW v \in Workers, v # w PROVE WorkerInv(v)'
    OBVIOUS
  <2>1. pc[v] \in HasTx => TxKept(txid[v])
    BY DEF IInv, TxUnique, WorkerInv
  <2> QED BY <1>1, <2>1, OtherWorker DEF IInv, OnlyWorker
<1>4. TxUnique'
  <2> SUFFICES ASSUME NEW v \in Workers, NEW x \in Workers, v # x,
                      pc'[v] \in HasTx, pc'[x] \in HasTx, txid'[v] = txid'[x]
               PROVE  FALSE
    BY DEF TxUnique
  <2>1. ASSUME NEW y \in Workers \ {w}, pc'[y] \in HasTx, pc'[w] \in HasTx
        PROVE  txid'[y] # txid'[w]
    BY <2>1 DEF IInv, TxUnique, WorkerInv, OnlyWorker, TxOwned
  <2> QED BY <2>1 DEF IInv, TxUnique, OnlyWorker
<1>5. \A r \in Requests : RequestInv(r)'
  BY DEF IInv, RequestInv, OrderStable
<1> QED BY <1>2, <1>3, <1>4, <1>5 DEF IInv

\* When the transaction table is left alone, its rows keep their invariant.
LEMMA TxSame ==
  ASSUME IInv, UNCHANGED <<tx, service>>, OrderStable
  PROVE  /\ tx' \in [TxIds -> TxRow \cup {None}]
         /\ \A t \in TxIds : TxKept(t) /\ TxRowInv(t)'
BY DEF IInv, TypeOK, TxRowInv, TxKept, OrderStable, TxRow

LEMMA DbResultTypes ==
  ASSUME TypeOK, NEW c, NEW res, DbResult(c, res)
  PROVE  failures' \in 0..MaxFailures
BY BoundsAssumption DEF TypeOK, DbResult

-----------------------------------------------------------------------------
(* One lemma per step of a worker.                                         *)

LEMMA TakeTaskInv == ASSUME IInv, NEW w \in Workers, TakeTask(w) PROVE IInv'
<1>1. Head(queue) \in Task /\ queue' \in Seq(Task) /\ Len(queue') <= QueueSize
  BY BoundsAssumption DEF TakeTask, IInv, TypeOK
<1>2. WorkerTypes' /\ OnlyWorker(w) /\ pc'[w] = "getByNumber" /\ task'[w] \in Task
  BY <1>1 DEF TakeTask, IInv, TypeOK, WorkerTypes, OnlyWorker, PCs
<1>3. WorkerInv(w)'
  BY <1>2 DEF WorkerInv, TxOwned, Holding, HasTx
<1>4. OrderStable /\ UNCHANGED <<order, tx, balance, service>>
  BY DEF TakeTask, db, OrderStable
<1> QED
  BY <1>1, <1>2, <1>3, <1>4, TxSame, WorkerStepInv
     DEF TakeTask, db, history, IInv, TypeOK, TxOwned, HasTx

LEMMA TouchGetByNumberInv ==
  ASSUME IInv, NEW w \in Workers, TouchGetByNumber(w) PROVE IInv'
<1>1. WorkerTypes /\ task[w] \in Task
  BY DEF TouchGetByNumber, IInv, TypeOK, WorkerTypes, PCs, WorkerInv
<1>2. PICK res \in {"ok", "fail"} : DbResult(Cancelled(w), res)
  BY DEF TouchGetByNumber
<1>3. failures' \in 0..MaxFailures
  BY <1>2, DbResultTypes DEF IInv
<1>4. OrderStable /\ UNCHANGED <<order, tx, balance, service, queue, request, listed, phase, restarts>>
  BY DEF TouchGetByNumber, db, OrderStable
<1>5. WorkerTypes' /\ OnlyWorker(w) /\ WorkerInv(w)' /\ TxOwned(w)
      /\ contended' \subseteq Orders
  <2>1. CASE Finish(w) /\ UNCHANGED contended
    BY <1>1, <2>1, FinishTypes DEF WorkerInv, TxOwned, Holding, HasTx, IInv, TypeOK
  <2>2. CASE ~(Finish(w) /\ UNCHANGED contended)
    <3>1. /\ order[task[w].number] # None
          /\ pc' = [pc EXCEPT ![w] = "saveTouched"]
          /\ copy' = [copy EXCEPT ![w] = [user |-> order[task[w].number].user,
                                           status |-> "PROCESSING"]]
          /\ UNCHANGED <<task, txid>>
          /\ contended' \in {contended, contended \cup {task[w].number}}
      BY <2>2 DEF TouchGetByNumber
    <3>2. order[task[w].number] \in OrderRow
      BY <1>1, <3>1 DEF IInv, TypeOK, Task
    <3>3. WorkerTypes' /\ OnlyWorker(w) /\ contended' \subseteq Orders
      BY <1>1, <3>1, <3>2 DEF WorkerTypes, OnlyWorker, PCs, Holding, Copy, OrderRow,
                              Statuses, Task, IInv, TypeOK
    <3>4. WorkerInv(w)' /\ pc'[w] = "saveTouched"
      BY <1>1, <1>4, <3>1, <3>2 DEF WorkerTypes, WorkerInv, Holding, HasTx, Copy, OrderRow, Statuses
    <3> QED BY <3>3, <3>4 DEF TxOwned, HasTx
  <2> QED BY <2>1, <2>2
<1> QED
  BY <1>3, <1>4, <1>5, TxSame, WorkerStepInv DEF IInv, TypeOK

\* A statement that saves the copy and then goes on or gives up.
LEMMA TouchSaveInv == ASSUME IInv, NEW w \in Workers, TouchSave(w) PROVE IInv'
<1>1. WorkerTypes /\ pc[w] = "saveTouched" /\ pc[w] \in Holding
  BY DEF TouchSave, IInv, TypeOK, WorkerTypes, PCs, Holding
<1>2. PICK res \in Results : /\ DbResult(Cancelled(w), res) /\ SaveCopy(w, res)
                             /\ IF res = "ok" THEN Goto(w, "cancelPlanned") ELSE Finish(w)
  BY DEF TouchSave
<1>3. failures' \in 0..MaxFailures
  BY <1>2, DbResultTypes DEF IInv
<1>4. order' \in [Orders -> OrderRow \cup {None}] /\ OrderStable
  BY <1>1, <1>2, SaveCopyTypes
<1>5. UNCHANGED <<tx, balance, service, queue, request, listed, phase, restarts, contended>>
  BY DEF TouchSave
<1>6. WorkerTypes' /\ OnlyWorker(w) /\ WorkerInv(w)' /\ TxOwned(w)
  <2>1. CASE Finish(w)
    BY <1>1, <2>1, FinishTypes DEF WorkerInv, TxOwned, Holding, HasTx
  <2>2. CASE Goto(w, "cancelPlanned")
    BY <1>1, <1>4, <2>2, GotoTypes
       DEF IInv, WorkerInv, TxOwned, OrderStable, PCs, Holding, HasTx, Task
  <2> QED BY <1>2, <2>1, <2>2
<1> QED
  BY <1>3, <1>4, <1>5, <1>6, TxSame, WorkerStepInv DEF IInv, TypeOK

LEMMA CancelPlannedInv == ASSUME IInv, NEW w \in Workers, CancelPlanned(w) PROVE IInv'
<1>1. WorkerTypes /\ pc[w] = "cancelPlanned"
  BY DEF CancelPlanned, IInv, TypeOK, WorkerTypes, PCs
<1>2. PICK res \in Results :
        /\ DbResult(Cancelled(w), res)
        /\ \/ UNCHANGED tx
           \/ CancelPlannedTransactionsByOrder(copy[w].user, task[w].number)
        /\ IF res = "ok" THEN Goto(w, "register") ELSE Finish(w)
  BY DEF CancelPlanned
<1>3. failures' \in 0..MaxFailures
  BY <1>2, DbResultTypes DEF IInv
<1>4. OrderStable
      /\ UNCHANGED <<order, balance, service, queue, request, listed, phase, restarts, contended>>
  BY DEF CancelPlanned, OrderStable
<1>5. /\ tx' \in [TxIds -> TxRow \cup {None}]
      /\ \A t \in TxIds : TxKept(t) /\ TxRowInv(t)'
  <2>1. CASE UNCHANGED tx
    BY <1>4, <2>1, TxSame
  <2>2. CASE CancelPlannedTransactionsByOrder(copy[w].user, task[w].number)
    BY <1>4, <2>2, NoneAssumption
       DEF CancelPlannedTransactionsByOrder, PlannedFor, Canceled, TxRecord, TxRow,
           TxKept, TxRowInv, IInv, TypeOK
  <2> QED BY <1>2, <2>1, <2>2
<1>6. WorkerTypes' /\ OnlyWorker(w) /\ WorkerInv(w)' /\ TxOwned(w)
  <2>1. CASE Finish(w)
    BY <1>1, <2>1, FinishTypes DEF WorkerInv, TxOwned, Holding, HasTx
  <2>2. CASE Goto(w, "register")
    BY <1>1, <1>4, <2>2, GotoTypes DEF IInv, WorkerInv, TxOwned, PCs, Holding, HasTx
  <2> QED BY <1>2, <2>1, <2>2
<1> QED
  BY <1>3, <1>4, <1>5, <1>6, WorkerStepInv DEF IInv, TypeOK

LEMMA RegisterInv == ASSUME IInv, NEW w \in Workers, Register(w) PROVE IInv'
<1>1. WorkerTypes /\ pc[w] = "register" /\ copy[w] \in Copy /\ task[w] \in Task
  BY DEF Register, IInv, TypeOK, WorkerTypes, PCs, WorkerInv, Holding
<1>2. PICK t \in TxIds, res \in Results :
        /\ DbResult(Cancelled(w), res)
        /\ IF res = "fail" THEN UNCHANGED tx
           ELSE RegisterTransaction(t, copy[w].user, task[w].number)
        /\ IF res = "ok"
           THEN /\ pc' = [pc EXCEPT ![w] = "poll"]
                /\ txid' = [txid EXCEPT ![w] = t]
                /\ UNCHANGED <<task, copy>>
           ELSE Finish(w)
  BY DEF Register
<1>3. failures' \in 0..MaxFailures
  BY <1>2, DbResultTypes DEF IInv
<1>4. OrderStable
      /\ UNCHANGED <<order, balance, service, queue, request, listed, phase, restarts, contended>>
  BY DEF Register, OrderStable
<1>5. order[task[w].number] # None /\ order[task[w].number].user = copy[w].user
  BY <1>1 DEF IInv, WorkerInv, TxOwned, Holding
<1>6. /\ tx' \in [TxIds -> TxRow \cup {None}]
      /\ \A s \in TxIds : TxKept(s) /\ TxRowInv(s)'
  <2>1. CASE UNCHANGED tx
    BY <1>4, <2>1, TxSame
  <2>2. CASE RegisterTransaction(t, copy[w].user, task[w].number)
    BY <1>1, <1>4, <1>5, <2>2, NoneAssumption
       DEF RegisterTransaction, TxRecord, TxRow, TxKept, TxRowInv, IInv, TypeOK, Task, Copy
  <2> QED BY <1>2, <2>1, <2>2
<1>7. /\ WorkerTypes' /\ OnlyWorker(w) /\ WorkerInv(w)'
      /\ TxOwned(w)
  <2>1. CASE Finish(w)
    BY <1>1, <2>1, FinishTypes DEF WorkerInv, TxOwned, Holding, HasTx
  <2>2. CASE res = "ok"
    <3>1. /\ pc' = [pc EXCEPT ![w] = "poll"] /\ txid' = [txid EXCEPT ![w] = t]
          /\ UNCHANGED <<task, copy>>
          /\ tx[t] = None /\ tx' = [tx EXCEPT ![t] = TxRecord(copy[w].user, task[w].number, 0, "PLANNED")]
      BY <1>2, <2>2 DEF RegisterTransaction
    <3>2. WorkerTypes' /\ OnlyWorker(w) /\ pc'[w] = "poll" /\ txid'[w] = t
      BY <1>1, <3>1, BoundsAssumption DEF WorkerTypes, OnlyWorker, PCs, Holding, HasTx, TxIds
    <3>3. tx'[t] # None /\ tx'[t] = TxRecord(copy[w].user, task[w].number, 0, "PLANNED")
      BY <1>1, <3>1, NoneAssumption DEF TxRecord, TxRow, Task, Copy, IInv, TypeOK
    <3>4. copy[w].status = "PROCESSING"
      BY <1>1 DEF IInv, WorkerInv
    <3>5. WorkerInv(w)'
      BY <1>1, <1>4, <1>5, <3>1, <3>2, <3>3, <3>4 DEF WorkerInv, TxRecord, HasTx
    <3> QED BY <3>1, <3>2, <3>5 DEF TxOwned
  <2> QED BY <1>2, <2>1, <2>2
<1> QED
  BY <1>3, <1>4, <1>6, <1>7, WorkerStepInv DEF IInv, TypeOK

\* The steps that touch no table: polling, waiting, the verdict of the poll.
LEMMA QuietStepInv ==
  ASSUME IInv, NEW w \in Workers, pc[w] \in {"poll", "wait"},
         UNCHANGED <<order, tx, balance, service, queue, request, listed, phase, restarts, contended>>,
         failures' \in 0..MaxFailures,
         \/ Goto(w, "wait") \/ Goto(w, "poll") \/ FailOrder(w)
         \/ ChangeStatus(w, "PROCESSED", "saveProcessed")
             /\ service[task[w].number] = "PROCESSED"
  PROVE  IInv'
<1>1. WorkerTypes /\ pc[w] \in HasTx /\ pc[w] \in Holding /\ copy[w] \in Copy
  BY DEF IInv, TypeOK, WorkerTypes, PCs, WorkerInv, Holding, HasTx
<1>2. OrderStable
  BY DEF OrderStable
<1>3. /\ WorkerTypes' /\ OnlyWorker(w) /\ WorkerInv(w)'
      /\ pc'[w] \in HasTx => txid'[w] = txid[w]
  <2>1. CASE Goto(w, "wait") \/ Goto(w, "poll")
    BY <1>1, <2>1, GotoTypes DEF IInv, WorkerInv, PCs, Holding, HasTx
  <2>2. CASE FailOrder(w)
    BY <1>1, <2>2, FailOrderTypes DEF IInv, WorkerInv, Holding, HasTx
  <2>3. CASE /\ ChangeStatus(w, "PROCESSED", "saveProcessed")
             /\ service[task[w].number] = "PROCESSED"
    BY <1>1, <2>3, ChangeStatusTypes
       DEF IInv, WorkerInv, PCs, Holding, HasTx, Statuses, Terminal
  <2> QED BY <2>1, <2>2, <2>3
<1>4. /\ tx' \in [TxIds -> TxRow \cup {None}]
      /\ \A t \in TxIds : TxKept(t) /\ TxRowInv(t)'
  BY <1>2, TxSame
<1>5. /\ queue' \in Seq(Task) /\ Len(queue') <= QueueSize /\ contended' \subseteq Orders
      /\ order' \in [Orders -> OrderRow \cup {None}] /\ balance' \in [Users -> Nat]
  BY DEF IInv, TypeOK
<1>6. TxOwned(w)
  BY <1>1, <1>3 DEF TxOwned
<1> QED
  BY <1>1, <1>2, <1>3, <1>4, <1>5, <1>6, WorkerStepInv

LEMMA PollInv ==
  ASSUME IInv, NEW w \in Workers,
         PollRetry(w) \/ PollError(w) \/ PollFinal(w) \/ WaitTimer(w) \/ WaitCancelled(w)
  PROVE  IInv'
<1>1. CASE PollRetry(w) \/ WaitTimer(w)
  BY <1>1, QuietStepInv DEF PollRetry, WaitTimer, db, history, IInv, TypeOK
<1>2. CASE PollInvalid(w) \/ WaitCancelled(w)
  BY <1>2, QuietStepInv DEF PollInvalid, WaitCancelled, db, history, IInv, TypeOK
<1>3. CASE PollError(w)
  BY <1>3, QuietStepInv, BoundsAssumption DEF PollError, db, IInv, TypeOK
<1>4. CASE PollProcessed(w)
  <2>1. failures' \in 0..MaxFailures
    BY <1>4, DbResultTypes DEF PollProcessed, IInv
  <2> QED BY <1>4, <2>1, QuietStepInv DEF PollProcessed, Awarded, db
<1> QED BY <1>1, <1>2, <1>3, <1>4 DEF PollFinal

LEMMA SaveInvalidInv == ASSUME IInv, NEW w \in Workers, SaveInvalid(w) PROVE IInv'
<1>1. WorkerTypes /\ pc[w] = "saveInvalid" /\ pc[w] \in Holding /\ pc[w] \in HasTx
  BY DEF SaveInvalid, IInv, TypeOK, WorkerTypes, PCs, Holding, HasTx
<1>2. PICK res \in Results :
        /\ DbResult(Cancelled(w), res) /\ SaveCopy(w, res)
        /\ IF res = "ok" THEN Goto(w, "cancelTransaction") ELSE Finish(w)
  BY DEF SaveInvalid
<1>3. failures' \in 0..MaxFailures
  BY <1>2, DbResultTypes DEF IInv
<1>4. order' \in [Orders -> OrderRow \cup {None}] /\ OrderStable
  BY <1>1, <1>2, SaveCopyTypes
<1>5. UNCHANGED <<tx, balance, service, queue, request, listed, phase, restarts, contended>>
  BY DEF SaveInvalid
<1>6. /\ WorkerTypes' /\ OnlyWorker(w) /\ WorkerInv(w)'
      /\ pc'[w] \in HasTx => txid'[w] = txid[w]
  <2>1. CASE Finish(w)
    BY <1>1, <2>1, FinishTypes DEF WorkerInv, Holding, HasTx
  <2>2. CASE Goto(w, "cancelTransaction")
    BY <1>1, <1>4, <1>5, <2>2, GotoTypes
       DEF IInv, WorkerInv, OrderStable, PCs, Holding, HasTx, Task
  <2> QED BY <1>2, <2>1, <2>2
<1>7. TxOwned(w)
  BY <1>1, <1>6 DEF TxOwned
<1> QED
  BY <1>1, <1>3, <1>4, <1>5, <1>6, <1>7, TxSame, WorkerStepInv DEF IInv, TypeOK

LEMMA SaveProcessedInv == ASSUME IInv, NEW w \in Workers, SaveProcessed(w) PROVE IInv'
<1>1. /\ WorkerTypes /\ pc[w] = "saveProcessed" /\ pc[w] \in Holding /\ pc[w] \in HasTx
      /\ copy[w] \in Copy /\ copy[w].status = "PROCESSED"
  BY DEF SaveProcessed, IInv, TypeOK, WorkerTypes, WorkerInv, PCs, Holding, HasTx
<1>2. PICK res \in Results :
        /\ DbResult(Cancelled(w), res) /\ SaveCopy(w, res)
        /\ IF res = "ok" THEN Goto(w, "approve") ELSE FailOrder(w)
  BY DEF SaveProcessed
<1>3. failures' \in 0..MaxFailures
  BY <1>2, DbResultTypes DEF IInv
<1>4. order' \in [Orders -> OrderRow \cup {None}] /\ OrderStable
  BY <1>1, <1>2, SaveCopyTypes
<1>5. UNCHANGED <<tx, balance, service, queue, request, listed, phase, restarts, contended>>
  BY DEF SaveProcessed
<1>6. /\ WorkerTypes' /\ OnlyWorker(w) /\ WorkerInv(w)'
      /\ pc'[w] \in HasTx => txid'[w] = txid[w]
  <2>1. CASE FailOrder(w)
    BY <1>1, <2>1, FailOrderTypes DEF WorkerInv, Holding, HasTx, Terminal
  <2>2. CASE Goto(w, "approve")
    BY <1>1, <1>4, <1>5, <2>2, GotoTypes
       DEF IInv, WorkerInv, OrderStable, PCs, Holding, HasTx, Task
  <2> QED BY <1>2, <2>1, <2>2
<1>7. TxOwned(w)
  BY <1>1, <1>6 DEF TxOwned
<1> QED
  BY <1>1, <1>3, <1>4, <1>5, <1>6, <1>7, TxSame, WorkerStepInv DEF IInv, TypeOK

\* The two steps that rewrite the worker's own row and end the task.
LEMMA OwnRow ==
  ASSUME IInv, NEW w \in Workers, pc[w] \in HasTx
  PROVE  /\ task[w] \in Task /\ copy[w] \in Copy /\ txid[w] \in TxIds
         /\ tx[txid[w]] \in TxRow /\ tx[txid[w]] # None
         /\ tx[txid[w]].user = copy[w].user /\ tx[txid[w]].order = task[w].number
         /\ tx[txid[w]].status # "PROCESSED"
         /\ order[task[w].number] # None /\ order[task[w].number].user = copy[w].user
BY DEF IInv, TypeOK, WorkerInv, Holding, HasTx

LEMMA CancelTxInv == ASSUME IInv, NEW w \in Workers, CancelTx(w) PROVE IInv'
<1>1. WorkerTypes /\ pc[w] = "cancelTransaction" /\ pc[w] \in HasTx
  BY DEF CancelTx, IInv, TypeOK, WorkerTypes, PCs, HasTx
<1>2. PICK res \in Results :
        /\ DbResult(Cancelled(w), res)
        /\ \/ UNCHANGED tx \/ CancelTransaction(txid[w])
  BY DEF CancelTx
<1>3. failures' \in 0..MaxFailures
  BY <1>2, DbResultTypes DEF IInv
<1>4. OrderStable
      /\ UNCHANGED <<order, balance, service, queue, request, listed, phase, restarts, contended>>
  BY DEF CancelTx, OrderStable
<1>5. /\ tx' \in [TxIds -> TxRow \cup {None}]
      /\ \A t \in TxIds : TxKept(t) /\ TxRowInv(t)'
  <2>1. CASE UNCHANGED tx
    BY <1>4, <2>1, TxSame
  <2>2. CASE CancelTransaction(txid[w])
    BY <1>1, <1>4, <2>2, NoneAssumption, OwnRow
       DEF CancelTransaction, Canceled, TxRecord, TxRow, TxKept, TxRowInv, IInv, TypeOK
  <2> QED BY <1>2, <2>1, <2>2
<1>6. WorkerTypes' /\ OnlyWorker(w) /\ WorkerInv(w)' /\ TxOwned(w)
  BY <1>1, FinishTypes DEF CancelTx, WorkerInv, TxOwned, Holding, HasTx
<1> QED
  BY <1>3, <1>4, <1>5, <1>6, WorkerStepInv DEF IInv, TypeOK

\* Whatever the approval's outcome, the worker is done: after an error
\* failOrder is refused, since the copy in memory is PROCESSED.
LEMMA ApproveFinishes ==
  ASSUME IInv, NEW w \in Workers, Approve(w)
  PROVE  WorkerTypes' /\ OnlyWorker(w) /\ pc'[w] = "idle"
<1>1. WorkerTypes /\ pc[w] = "approve" /\ copy[w] \in Copy /\ copy[w].status = "PROCESSED"
  BY DEF Approve, IInv, TypeOK, WorkerTypes, WorkerInv, PCs, Holding, HasTx
<1>2. Finish(w) \/ FailOrder(w)
  BY DEF Approve
<1> QED
  BY <1>1, <1>2, FinishTypes, FailOrderTypes DEF Terminal

LEMMA ApproveInv == ASSUME IInv, NEW w \in Workers, Approve(w) PROVE IInv'
<1>1. pc[w] = "approve" /\ pc[w] \in HasTx /\ service[task[w].number] = "PROCESSED"
  BY DEF Approve, IInv, WorkerInv, HasTx
<1>2. PICK res \in Results :
        /\ DbResult(Cancelled(w), res)
        /\ \/ UNCHANGED <<tx, balance>>
           \/ ApproveTransaction(txid[w], AccrualValue[task[w].number])
  BY DEF Approve
<1>3. failures' \in 0..MaxFailures
  BY <1>2, DbResultTypes DEF IInv
<1>4. OrderStable
      /\ UNCHANGED <<order, service, queue, request, listed, phase, restarts, contended>>
  BY DEF Approve, OrderStable
<1>5. /\ tx' \in [TxIds -> TxRow \cup {None}] /\ balance' \in [Users -> Nat]
      /\ \A t \in TxIds : (TxKept(t) \/ t = txid[w]) /\ TxRowInv(t)'
  <2>1. CASE UNCHANGED <<tx, balance>>
    BY <1>4, <2>1, TxSame DEF IInv, TypeOK
  <2>2. CASE ApproveTransaction(txid[w], AccrualValue[task[w].number])
    <3>1. AccrualValue[task[w].number] \in Nat
      BY <1>1, AccrualAssumption, OwnRow DEF Task
    <3>2. balance' \in [Users -> Nat]
      BY <1>1, <2>2, <3>1, OwnRow DEF ApproveTransaction, IInv, TypeOK, TxRow
    <3>3. /\ tx' \in [TxIds -> TxRow \cup {None}]
          /\ \A t \in TxIds : (TxKept(t) \/ t = txid[w]) /\ TxRowInv(t)'
      BY <1>1, <1>4, <2>2, <3>1, NoneAssumption, OwnRow
         DEF ApproveTransaction, TxRecord, TxRow, TxKept, TxRowInv, IInv, TypeOK
    <3> QED BY <3>2, <3>3
  <2> QED BY <1>2, <2>1, <2>2
<1>6. WorkerTypes' /\ OnlyWorker(w) /\ WorkerInv(w)' /\ TxOwned(w)
  BY ApproveFinishes DEF WorkerInv, TxOwned, Holding, HasTx
<1> QED
  BY <1>1, <1>3, <1>4, <1>5, <1>6, WorkerStepInv DEF IInv, TypeOK

-----------------------------------------------------------------------------
(* Requests, recovery, the accrual system and the process.                 *)

\* A step that leaves the workers alone keeps their invariant.
LEMMA WorkersSame ==
  ASSUME IInv, UNCHANGED <<pc, task, copy, txid, tx>>, OrderStable,
         \A n \in Orders : service[n] = "PROCESSED" => service'[n] = "PROCESSED"
  PROVE  /\ \A w \in Workers : WorkerInv(w)'
         /\ TxUnique'
         /\ \A t \in TxIds : TxRowInv(t)'
<1>1. WorkerTypes
  BY DEF IInv, TypeOK, WorkerTypes, PCs
<1>2. \A t \in TxIds : TxKept(t)
  BY DEF TxKept
<1>3. ASSUME NEW w \in Workers PROVE WorkerInv(w)'
  <2>1. pc[w] \in HasTx => TxKept(txid[w])
    BY <1>2 DEF IInv, WorkerInv
  <2> QED BY <1>1, <2>1, OtherWorker DEF IInv
<1>4. TxUnique'
  BY DEF IInv, TxUnique
<1>5. \A t \in TxIds : TxRowInv(t)'
  BY DEF IInv, TypeOK, TxRowInv, OrderStable, TxRow
<1> QED BY <1>3, <1>4, <1>5

\* A step of request r preserves the invariant when it leaves r in order.
LEMMA RequestStepInv ==
  ASSUME IInv, NEW r \in Requests, UNCHANGED <<tx, balance, service, worker, listed, phase, restarts>>,
         order' \in [Orders -> OrderRow \cup {None}], OrderStable,
         queue' \in Seq(Task) /\ Len(queue') <= QueueSize,
         failures' \in 0..MaxFailures, contended' \subseteq Orders,
         request' \in [Requests -> Request], RequestInv(r)',
         \A q \in Requests \ {r} : request'[q] = request[q]
  PROVE  IInv'
<1>1. TypeOK'
  BY DEF IInv, TypeOK, worker
<1>2. (\A w \in Workers : WorkerInv(w)') /\ TxUnique' /\ \A t \in TxIds : TxRowInv(t)'
  BY WorkersSame DEF worker
<1>3. ASSUME NEW q \in Requests, q # r PROVE RequestInv(q)'
  BY <1>3 DEF IInv, RequestInv, OrderStable
<1> QED BY <1>1, <1>2, <1>3 DEF IInv

LEMMA SetRequestTypes ==
  ASSUME TypeOK, NEW r \in Requests, NEW u \in Users, NEW n \in Orders,
         NEW at \in {"getByNumber", "save", "process", "done", "aborted"},
         NEW code \in {0, 200, 202, 409, 500}, SetRequest(r, at, u, n, code)
  PROVE  /\ request' \in [Requests -> Request]
         /\ request'[r].pc = at /\ request'[r].user = u
         /\ request'[r].number = n /\ request'[r].code = code
         /\ \A q \in Requests \ {r} : request'[q] = request[q]
BY DEF TypeOK, SetRequest, RequestRecord, Request

LEMMA UploadGetByNumberInv ==
  ASSUME IInv, NEW r \in Requests, UploadGetByNumber(r) PROVE IInv'
<1>0. TypeOK
  BY DEF IInv
<1>b. PICK u \in Users, n \in Orders, res \in {"ok", "fail"} :
        /\ DbResult(FALSE, res)
        /\ CASE res = "fail" -> SetRequest(r, "done", u, n, 500)
             [] res = "ok" /\ order[n] = None -> SetRequest(r, "save", u, n, 0)
             [] res = "ok" /\ order[n] # None ->
                  SetRequest(r, "done", u, n, UploadAnswer(u, n))
  BY DEF UploadGetByNumber
<1>1.   /\ DbResult(FALSE, res)
        /\ \/ SetRequest(r, "done", u, n, 500)
           \/ SetRequest(r, "save", u, n, 0)
           \/ /\ order[n] # None /\ order[n].user = u
              /\ SetRequest(r, "done", u, n, 200)
           \/ /\ order[n] # None /\ order[n].user # u
              /\ SetRequest(r, "done", u, n, 409)
  BY <1>b DEF UploadAnswer
<1>2. OrderStable /\ UNCHANGED <<order, tx, balance, service, worker, queue, listed, phase, restarts, contended>>
  BY DEF UploadGetByNumber, db, OrderStable
<1>3. failures' \in 0..MaxFailures
  BY <1>1, DbResultTypes DEF IInv
<1>4. /\ request' \in [Requests -> Request]
      /\ \A q \in Requests \ {r} : request'[q] = request[q]
      /\ RequestInv(r)'
  <2>1. CASE SetRequest(r, "done", u, n, 500)
    BY <1>0, <2>1, SetRequestTypes DEF RequestInv
  <2>2. CASE SetRequest(r, "save", u, n, 0)
    BY <1>0, <2>2, SetRequestTypes DEF RequestInv
  <2>3. CASE order[n] # None /\ order[n].user = u /\ SetRequest(r, "done", u, n, 200)
    BY <1>0, <1>2, <2>3, SetRequestTypes DEF RequestInv
  <2>4. CASE order[n] # None /\ order[n].user # u /\ SetRequest(r, "done", u, n, 409)
    BY <1>0, <1>2, <2>4, SetRequestTypes DEF RequestInv
  <2> QED BY <1>1, <2>1, <2>2, <2>3, <2>4
<1> QED BY <1>2, <1>3, <1>4, RequestStepInv DEF IInv, TypeOK

LEMMA UploadSaveInv ==
  ASSUME IInv, NEW r \in Requests, UploadSave(r) PROVE IInv'
<1> DEFINE u == request[r].user
           n == request[r].number
<1>0. TypeOK
  BY DEF IInv
<1>1. u \in Users /\ n \in Orders
  BY DEF UploadSave, IInv, RequestInv
<1>2. PICK res \in Results :
        /\ IF Conflicts(u, n) THEN res = "fail" /\ UNCHANGED failures
                              ELSE DbResult(FALSE, res)
        /\ IF res = "fail" THEN UNCHANGED order ELSE Save(u, n, "NEW")
        /\ contended' = IF res # "fail" /\ order[n] # None
                        THEN contended \cup {n} ELSE contended
        /\ IF res = "ok" THEN SetRequest(r, "process", u, n, 0)
                         ELSE SetRequest(r, "done", u, n, 500)
  BY DEF UploadSave
<1>3. UNCHANGED <<tx, balance, service, worker, queue, listed, phase, restarts>>
  BY DEF UploadSave
<1>4. failures' \in 0..MaxFailures /\ contended' \subseteq Orders
  BY <1>1, <1>2, DbResultTypes DEF IInv, TypeOK
<1>5. "NEW" \in Statuses
  BY DEF Statuses
<1>6. /\ order' \in [Orders -> OrderRow \cup {None}] /\ OrderStable
      /\ res # "fail" => order'[n] # None /\ order'[n].user = u
  <2>1. CASE res = "fail"
    BY <1>2, <2>1 DEF IInv, TypeOK, OrderStable
  <2>2. CASE res # "fail"
    <3>1. Save(u, n, "NEW") /\ ~Conflicts(u, n)
      BY <1>2, <2>2
    <3>2. order \in [Orders -> OrderRow \cup {None}]
      BY DEF IInv, TypeOK
    <3> HIDE DEF u, n
    <3>3. /\ order' \in [Orders -> OrderRow \cup {None}] /\ OrderStable
          /\ order'[n] # None /\ (order[n] = None => order'[n].user = u)
      BY <1>1, <1>5, <3>1, <3>2, SaveTypes
    <3> QED BY <1>1, <3>1, <3>3 DEF Conflicts, OrderStable
  <2> QED BY <2>1, <2>2
<1>7. /\ request' \in [Requests -> Request]
      /\ \A q \in Requests \ {r} : request'[q] = request[q]
      /\ RequestInv(r)'
  <2> HIDE DEF u, n
  <2>1. CASE res = "ok"
    <3>1. SetRequest(r, "process", u, n, 0)
      BY <1>2, <2>1
    <3> QED BY <1>0, <1>1, <1>6, <2>1, <3>1, SetRequestTypes DEF RequestInv
  <2>2. CASE SetRequest(r, "done", u, n, 500)
    BY <1>0, <1>1, <2>2, SetRequestTypes DEF RequestInv
  <2> QED BY <1>2, <2>1, <2>2
<1> QED BY <1>3, <1>4, <1>6, <1>7, RequestStepInv DEF IInv, TypeOK

LEMMA AddTypes ==
  ASSUME TypeOK, NEW t \in Task, Add(t)
  PROVE  queue' \in Seq(Task) /\ Len(queue') <= QueueSize
<1>1. CASE UNCHANGED queue
  BY <1>1 DEF TypeOK
<1>2. CASE Len(queue) < QueueSize /\ queue' = Append(queue, t)
  <2>1. queue \in Seq(Task)
    BY DEF TypeOK
  <2>2. Append(queue, t) \in Seq(Task) /\ Len(Append(queue, t)) = Len(queue) + 1
    BY <2>1
  <2> QED BY <1>2, <2>1, <2>2, BoundsAssumption
<1> QED BY <1>1, <1>2 DEF Add

LEMMA UploadProcessInv ==
  ASSUME IInv, NEW r \in Requests, UploadProcess(r) PROVE IInv'
<1> DEFINE u == request[r].user
           n == request[r].number
<1>0. TypeOK
  BY DEF IInv
<1>1. u \in Users /\ n \in Orders /\ order[n] # None /\ order[n].user = u
  BY DEF UploadProcess, IInv, RequestInv
<1>2. /\ OrderStable /\ UNCHANGED <<order, tx, balance, service, worker, listed, phase>>
      /\ UNCHANGED <<failures, restarts, contended>>
  BY DEF UploadProcess, db, history, OrderStable
<1>3. queue' \in Seq(Task) /\ Len(queue') <= QueueSize
  <2>1. [number |-> n, recovery |-> FALSE] \in Task
    BY <1>1 DEF Task
  <2> QED BY <2>1, AddTypes DEF UploadProcess, IInv
<1>4. SetRequest(r, "done", u, n, 202)
  BY DEF UploadProcess
<1>5. /\ request' \in [Requests -> Request]
      /\ \A q \in Requests \ {r} : request'[q] = request[q]
      /\ RequestInv(r)'
  <2> HIDE DEF u, n
  <2> QED BY <1>0, <1>1, <1>2, <1>4, SetRequestTypes DEF RequestInv
<1> QED BY <1>2, <1>3, <1>5, RequestStepInv DEF IInv, TypeOK

LEMMA RecoverInv == ASSUME IInv, Recover PROVE IInv'
<1>1. /\ UNCHANGED <<order, tx, balance, service, pc, task, copy, txid, request, phase>>
      /\ UNCHANGED <<failures, restarts, contended>> /\ OrderStable
  BY DEF Recover, RecoverList, RecoverEnqueue, db, worker, history, OrderStable
<1>2. listed' \subseteq Orders /\ queue' \in Seq(Task) /\ Len(queue') <= QueueSize
  <2>1. CASE RecoverList
    BY <2>1 DEF RecoverList, IInv, TypeOK
  <2>2. CASE RecoverEnqueue
    <3>1. PICK n \in listed : Add([number |-> n, recovery |-> TRUE]) /\ listed' = listed \ {n}
      BY <2>2 DEF RecoverEnqueue
    <3>2. [number |-> n, recovery |-> TRUE] \in Task
      BY DEF Task, IInv, TypeOK
    <3> QED BY <3>1, <3>2, AddTypes DEF IInv, TypeOK
  <2> QED BY <2>1, <2>2 DEF Recover
<1>3. TypeOK'
  BY <1>1, <1>2 DEF IInv, TypeOK
<1>4. \A r \in Requests : RequestInv(r)'
  BY <1>1 DEF IInv, RequestInv
<1> QED BY <1>1, <1>3, <1>4, WorkersSame DEF IInv

LEMMA AccrualDecidesInv ==
  ASSUME IInv, NEW n \in Orders, AccrualDecides(n) PROVE IInv'
<1>1. UNCHANGED <<db, worker, queue, request, listed, phase, history>>
  BY DEF AccrualDecides, process, worker
<1>2. /\ service' \in [Orders -> {"PENDING"} \cup Terminal]
      /\ \A m \in Orders : service[m] = "PROCESSED" => service'[m] = "PROCESSED"
  BY DEF AccrualDecides, Terminal, IInv, TypeOK
<1>3. TypeOK' /\ OrderStable /\ UNCHANGED <<pc, task, copy, txid, tx>>
  BY <1>1, <1>2 DEF IInv, TypeOK, db, worker, history, OrderStable
<1>4. \A r \in Requests : RequestInv(r)'
  BY <1>1 DEF IInv, RequestInv, db
<1> QED BY <1>2, <1>3, <1>4, WorkersSame DEF IInv

LEMMA HaltInv ==
  ASSUME IInv, Halt, restarts' \in 0..MaxRestarts PROVE IInv'
<1>1. UNCHANGED <<order, tx, balance, service, failures, contended>> /\ OrderStable
  BY DEF Halt, db, OrderStable
<1>2. \A w \in Workers : pc'[w] = "idle"
  BY DEF Halt
<1>3. request' \in [Requests -> Request] /\ \A r \in Requests : RequestInv(r)'
  <2> SUFFICES ASSUME NEW r \in Requests PROVE request'[r] \in Request /\ RequestInv(r)'
    BY DEF Halt
  <2>1. request[r] \in Request /\ RequestInv(r)
    BY DEF IInv, TypeOK
  <2>2. CASE request[r].pc \in {"save", "process"}
    BY <1>1, <2>1, <2>2 DEF Halt, RequestRecord, Request, RequestInv
  <2>3. CASE request'[r] = request[r]
    BY <1>1, <2>1, <2>3 DEF RequestInv
  <2> QED BY <2>2, <2>3 DEF Halt
<1>4. TypeOK'
  BY <1>1, <1>3, BoundsAssumption DEF Halt, IInv, TypeOK
<1>5. \A w \in Workers : WorkerInv(w)'
  BY <1>2 DEF WorkerInv, Holding, HasTx
<1>6. TxUnique'
  BY <1>2 DEF TxUnique, HasTx
<1>7. \A t \in TxIds : TxRowInv(t)'
  BY <1>1 DEF IInv, TxRowInv
<1> QED BY <1>3, <1>4, <1>5, <1>6, <1>7 DEF IInv

LEMMA ProcessInv ==
  ASSUME IInv, Shutdown \/ Ending \/ Crash \/ Restart PROVE IInv'
<1>1. CASE Exit \/ Fatal \/ Crash
  BY <1>1, HaltInv, BoundsAssumption DEF Exit, Fatal, Crash, IInv, TypeOK
<1>2. CASE Shutdown \/ StopPool \/ Restart
  <2>1. UNCHANGED <<order, tx, balance, service, pc, task, copy, txid, queue, request, listed, failures, contended>>
    BY <1>2 DEF Shutdown, StopPool, Restart, db, worker, history
  <2>2. TypeOK' /\ OrderStable
    BY <1>2, <2>1, BoundsAssumption DEF Shutdown, StopPool, Restart, history, IInv, TypeOK, OrderStable
  <2>3. \A r \in Requests : RequestInv(r)'
    BY <2>1 DEF IInv, RequestInv
  <2> QED BY <2>1, <2>2, <2>3, WorkersSame DEF IInv
<1> QED BY <1>1, <1>2 DEF Ending

-----------------------------------------------------------------------------
LEMMA InitInv == Init => IInv
<1> SUFFICES ASSUME Init PROVE IInv
  OBVIOUS
<1>1. TypeOK
  BY BoundsAssumption DEF Init, TypeOK, RequestRecord, Request
<1>2. \A w \in Workers : WorkerInv(w)
  BY DEF Init, WorkerInv, Holding, HasTx
<1>3. TxUnique
  BY DEF Init, TxUnique, HasTx
<1>4. \A t \in TxIds : TxRowInv(t)
  BY DEF Init, TxRowInv
<1>5. \A r \in Requests : RequestInv(r)
  BY DEF Init, RequestInv, RequestRecord
<1> QED BY <1>1, <1>2, <1>3, <1>4, <1>5 DEF IInv

LEMMA StepInv == IInv /\ [Next]_vars => IInv'
<1> SUFFICES ASSUME IInv, [Next]_vars PROVE IInv'
  OBVIOUS
<1>1. ASSUME NEW r \in Requests, UploadStep(r) PROVE IInv'
  BY <1>1, UploadGetByNumberInv, UploadSaveInv, UploadProcessInv DEF UploadStep
<1>2. ASSUME NEW w \in Workers, WorkerStep(w) PROVE IInv'
  BY <1>2, TakeTaskInv, TouchGetByNumberInv, TouchSaveInv, CancelPlannedInv, RegisterInv,
     PollInv, SaveInvalidInv, CancelTxInv, SaveProcessedInv, ApproveInv DEF WorkerStep
<1>3. CASE Recover
  BY <1>3, RecoverInv
<1>4. ASSUME NEW n \in Orders, AccrualDecides(n) PROVE IInv'
  BY <1>4, AccrualDecidesInv
<1>5. CASE Shutdown \/ Ending \/ Crash \/ Restart
  BY <1>5, ProcessInv
<1>6. CASE UNCHANGED vars
  BY <1>6 DEF vars, db, process, worker, history, IInv, TypeOK, WorkerInv, TxUnique,
              TxRowInv, RequestInv
<1> QED BY <1>1, <1>2, <1>3, <1>4, <1>5, <1>6 DEF Next

\* The inductive invariant holds in every reachable state.
THEOREM Invariance == Spec => []IInv
BY InitInv, StepInv, PTL DEF Spec

\* Tables, channel and locals keep their types and the channel its capacity
\* (WorkerPool.Add, the repositories, processOrder).
THEOREM TypeCorrect == Spec => []TypeOK
<1>1. IInv => TypeOK
  BY DEF IInv
<1> QED BY <1>1, Invariance, PTL

\* 202 and 200 only to the owner of the number, 409 only to others
\* (NewPostApiUserOrdersHandler), for any number of concurrent uploads.
THEOREM OwnerAnswers == Spec => []AnswersAgreeWithOwner
<1>1. IInv => AnswersAgreeWithOwner
  BY DEF IInv, RequestInv, AnswersAgreeWithOwner
<1> QED BY <1>1, Invariance, PTL

\* No credit without the accrual system's award, none to another user
\* (processOrder, ApproveTransaction).
THEOREM AwardedCredits == Spec => []CreditsAreAwarded
<1>1. IInv => CreditsAreAwarded
  BY DEF IInv, TxRowInv, CreditsAreAwarded, Processed
<1> QED BY <1>1, Invariance, PTL
-----------------------------------------------------------------------------
(* Approved rows are final.                                                *)

LEMMA ApprovedStep ==
  ASSUME IInv, [Next]_vars PROVE \A t \in TxIds : Processed(t) => tx'[t] = tx[t]
<1> SUFFICES ASSUME NEW t \in TxIds, Processed(t) PROVE tx'[t] = tx[t]
  OBVIOUS
<1>1. CASE UNCHANGED tx
  BY <1>1
<1>2. ASSUME NEW w \in Workers, CancelPlanned(w) PROVE tx'[t] = tx[t]
  BY <1>2 DEF CancelPlanned, CancelPlannedTransactionsByOrder, PlannedFor, Processed
<1>3. ASSUME NEW w \in Workers, Register(w) PROVE tx'[t] = tx[t]
  BY <1>3 DEF Register, RegisterTransaction, Processed, IInv, TypeOK
<1>4. ASSUME NEW w \in Workers, CancelTx(w) PROVE tx'[t] = tx[t]
  <2>1. txid[w] # t
    BY <1>4, OwnRow DEF CancelTx, HasTx, Processed
  <2> QED BY <1>4, <2>1 DEF CancelTx, CancelTransaction, IInv, TypeOK
<1>5. ASSUME NEW w \in Workers, Approve(w) PROVE tx'[t] = tx[t]
  <2>1. txid[w] # t
    BY <1>5, OwnRow DEF Approve, HasTx, Processed
  <2> QED BY <1>5, <2>1 DEF Approve, ApproveTransaction, IInv, TypeOK
<1>6. UNCHANGED tx \/ \E w \in Workers : CancelPlanned(w) \/ Register(w) \/ CancelTx(w) \/ Approve(w)
  <2>1. ASSUME NEW w \in Workers, WorkerStep(w),
               ~(CancelPlanned(w) \/ Register(w) \/ CancelTx(w) \/ Approve(w))
        PROVE  UNCHANGED tx
    BY <2>1 DEF WorkerStep, TakeTask, TouchGetByNumber, TouchSave, PollRetry, PollError,
                PollFinal, PollInvalid, PollProcessed, WaitTimer, WaitCancelled,
                SaveInvalid, SaveProcessed, db
  <2>2. ASSUME NEW r \in Requests, UploadStep(r) PROVE UNCHANGED tx
    BY <2>2 DEF UploadStep, UploadGetByNumber, UploadSave, UploadProcess, db
  <2>3. CASE Recover \/ \E n \in Orders : AccrualDecides(n)
    BY <2>3 DEF Recover, RecoverList, RecoverEnqueue, AccrualDecides, db
  <2>4. CASE Shutdown \/ Ending \/ Crash \/ Restart
    BY <2>4 DEF Shutdown, Ending, StopPool, Exit, Fatal, Crash, Restart, Halt, db
  <2> QED BY <2>1, <2>2, <2>3, <2>4 DEF Next, vars, db
<1> QED BY <1>1, <1>2, <1>3, <1>4, <1>5, <1>6

\* No step changes an approved transaction (Order.ChangeStatus, failOrder,
\* CancelPlannedTransactionsByOrder), whatever fails or is recovered.
THEOREM ApprovedIsFinal == Spec => ApprovedFinal
<1>1. IInv /\ [Next]_vars => [\A t \in TxIds : Processed(t) => tx'[t] = tx[t]]_vars
  BY ApprovedStep
<1> QED BY <1>1, Invariance, PTL DEF Spec, ApprovedFinal

-----------------------------------------------------------------------------
(* An order that one worker at a time holds.                               *)

\* Nothing that concerns order n changes, except that workers may let go of it.
LEMMA UncontendedSame ==
  ASSUME NEW n \in Orders, UncontendedInv(n), order'[n] = order[n],
         \A t \in TxIds : tx'[t] # None /\ tx'[t].order = n => tx'[t] = tx[t],
         \A w \in Workers : Holds(w, n)' => Holds(w, n) /\ pc'[w] = pc[w]
  PROVE  UncontendedInv(n)'
BY DEF UncontendedInv, Processed, Planned

\* The one worker that holds n makes a step that approves nothing.
LEMMA UncontendedHolder ==
  ASSUME NEW n \in Orders, NEW w \in Workers, OnlyWorker(w),
         \A v \in Workers : Holds(v, n) => v = w,
         \A t \in TxIds : Processed(t)' => tx'[t].order # n,
         \A s, t \in TxIds : Planned(s)' /\ Planned(t)'
                             /\ tx'[s].order = n /\ tx'[t].order = n => s = t,
         Holds(w, n)' =>
           /\ pc'[w] = "register" => \A t \in TxIds : Planned(t)' => tx'[t].order # n
           /\ pc'[w] = "approve" => order'[n].status = "PROCESSED"
           /\ pc'[w] \notin {"approve", "cancelTransaction"} => order'[n].status \notin Terminal
  PROVE  UncontendedInv(n)'
<1>1. \A v \in Workers : Holds(v, n)' => v = w
  BY DEF Holds, OnlyWorker
<1> QED BY <1>1 DEF UncontendedInv
\* A worker's step on one order leaves the other orders alone.
LEMMA OtherOrder ==
  ASSUME NEW w \in Workers, pc[w] \in Holding, OnlyWorker(w),
         pc'[w] = "idle" \/ task'[w] = task[w],
         NEW n \in Orders, n # task[w].number, UncontendedInv(n), order'[n] = order[n],
         \A t \in TxIds : tx'[t] # None /\ tx'[t].order = n => tx'[t] = tx[t]
  PROVE  UncontendedInv(n)'
<1>1. \A v \in Workers : Holds(v, n)' => Holds(v, n) /\ pc'[v] = pc[v]
  BY DEF Holds, OnlyWorker, Holding, HasTx
<1> QED BY <1>1, UncontendedSame

\* What UncontendedInv says of an order that worker w holds.
LEMMA Held ==
  ASSUME NEW w \in Workers, pc[w] \in Holding, UncontendedInv(task[w].number)
  PROVE  /\ \A v \in Workers : Holds(v, task[w].number) => v = w
         /\ \A t \in TxIds : Processed(t) => tx[t].order # task[w].number
         /\ \A s, t \in TxIds : Planned(s) /\ Planned(t) /\ tx[s].order = task[w].number
                                /\ tx[t].order = task[w].number => s = t
         /\ pc[w] = "register" =>
              \A t \in TxIds : Planned(t) => tx[t].order # task[w].number
         /\ pc[w] = "approve" => order[task[w].number].status = "PROCESSED"
         /\ pc[w] \notin {"approve", "cancelTransaction"} =>
              order[task[w].number].status \notin Terminal
BY DEF UncontendedInv, Holds

\* A step that writes no transaction and, of the orders, at most the one w holds.
LEMMA HolderSaves ==
  ASSUME NEW w \in Workers, pc[w] \in Holding, task[w] \in Task, OnlyWorker(w), UNCHANGED tx,
         pc'[w] = "idle" \/ task'[w] = task[w],
         pc'[w] # "register",
         \A m \in Orders \ {task[w].number} : order'[m] = order[m],
         LET s == order'[task[w].number].status
         IN  pc'[w] # "idle" =>
               /\ pc'[w] = "approve" => s = "PROCESSED"
               /\ pc'[w] \notin {"approve", "cancelTransaction"} => s \notin Terminal,
         NEW n \in Orders, UncontendedInv(n)
  PROVE  UncontendedInv(n)'
<1>1. CASE n # task[w].number
  BY <1>1, OtherOrder
<1>2. CASE n = task[w].number
  <2>1. /\ \A t \in TxIds : Processed(t)' => tx'[t].order # n
        /\ \A s, t \in TxIds : Planned(s)' /\ Planned(t)' /\ tx'[s].order = n /\ tx'[t].order = n => s = t
        /\ \A v \in Workers : Holds(v, n) => v = w
    BY <1>2, Held DEF Processed, Planned
  <2>2. Holds(w, n)' => pc'[w] # "idle"
    BY DEF Holds, Holding, HasTx
  <2> QED BY <1>2, <2>1, <2>2, UncontendedHolder
<1> QED BY <1>1, <1>2
LEMMA TouchGetByNumberU ==
  ASSUME IInv, UInv, NEW w \in Workers, TouchGetByNumber(w) PROVE UInv'
<1>1. WorkerTypes /\ task[w] \in Task /\ pc[w] = "getByNumber"
  BY DEF TouchGetByNumber, IInv, TypeOK, WorkerTypes, PCs, WorkerInv
<1>2. UNCHANGED <<order, tx>> /\ contended \subseteq contended'
  BY DEF TouchGetByNumber, db
<1>3. SUFFICES ASSUME NEW n \in Orders \ contended' PROVE UncontendedInv(n)'
  BY DEF UInv
<1>4. UncontendedInv(n)
  BY <1>2, <1>3 DEF UInv
<1>5. CASE Finish(w)
  <2>1. \A v \in Workers : Holds(v, n)' => Holds(v, n) /\ pc'[v] = pc[v]
    BY <1>1, <1>5, FinishTypes DEF Holds, OnlyWorker, Holding, HasTx
  <2> QED BY <1>2, <1>4, <2>1, UncontendedSame
<1>6. CASE ~Finish(w)
  <2>1. /\ Touchable(order[task[w].number].status, task[w].recovery)
        /\ order[task[w].number] # None
        /\ pc' = [pc EXCEPT ![w] = "saveTouched"] /\ UNCHANGED <<task, txid>>
        /\ copy' = [copy EXCEPT ![w] = [user |-> order[task[w].number].user,
                                         status |-> "PROCESSING"]]
        /\ contended' = IF \E v \in Workers \ {w} : Holds(v, task[w].number)
                        THEN contended \cup {task[w].number} ELSE contended
    BY <1>6 DEF TouchGetByNumber
  <2>2. OnlyWorker(w) /\ pc'[w] = "saveTouched" /\ task'[w] = task[w]
    BY <1>1, <2>1 DEF WorkerTypes, OnlyWorker
  <2>3. CASE n # task[w].number
    <3>1. \A v \in Workers : Holds(v, n)' => Holds(v, n) /\ pc'[v] = pc[v]
      BY <2>2, <2>3 DEF Holds, OnlyWorker
    <3> QED BY <1>2, <1>4, <3>1, UncontendedSame
  <2>4. CASE n = task[w].number
    <3>1. \A v \in Workers : Holds(v, n) => v = w
      BY <1>3, <2>1, <2>4
    <3>2. order[n].status \notin Terminal
      BY <2>1, <2>4 DEF Touchable, Terminal
    <3>3. \A t \in TxIds : Processed(t)' => tx'[t].order # n
      BY <1>2, <1>4, <3>2 DEF UncontendedInv, Processed, Terminal
    <3>4. \A s, t \in TxIds : Planned(s)' /\ Planned(t)' /\ tx'[s].order = n /\ tx'[t].order = n => s = t
      BY <1>2, <1>4 DEF UncontendedInv, Planned
    <3> QED BY <1>2, <2>2, <3>1, <3>2, <3>3, <3>4, UncontendedHolder
  <2> QED BY <2>3, <2>4
<1> QED BY <1>5, <1>6

LEMMA TouchSaveU == ASSUME IInv, UInv, NEW w \in Workers, TouchSave(w) PROVE UInv'
<1>1. /\ WorkerTypes /\ pc[w] = "saveTouched" /\ pc[w] \in Holding
      /\ task[w] \in Task /\ copy[w] \in Copy /\ copy[w].status = "PROCESSING"
  BY DEF TouchSave, IInv, TypeOK, WorkerTypes, WorkerInv, PCs, Holding
<1>2. PICK res \in Results : /\ SaveCopy(w, res)
                             /\ IF res = "ok" THEN Goto(w, "cancelPlanned") ELSE Finish(w)
  BY DEF TouchSave
<1>3. UNCHANGED <<tx, contended>>
  BY DEF TouchSave
<1>4. SUFFICES ASSUME NEW n \in Orders, UncontendedInv(n) PROVE UncontendedInv(n)'
  BY <1>3 DEF UInv
<1>5. OnlyWorker(w) /\ (pc'[w] = "idle" \/ (pc'[w] = "cancelPlanned" /\ task'[w] = task[w]))
  BY <1>1, <1>2, FinishTypes, GotoTypes DEF PCs, Holding
<1>6. /\ \A m \in Orders \ {task[w].number} : order'[m] = order[m]
      /\ order'[task[w].number].status = "PROCESSING" \/ UNCHANGED order
  <2>1. CASE res = "fail"
    BY <1>2, <2>1 DEF SaveCopy
  <2>2. CASE res # "fail"
    BY <1>1, <1>2, <2>2, SaveTypes DEF SaveCopy, Copy, Task, IInv, TypeOK
  <2> QED BY <2>1, <2>2
<1>7. CASE n # task[w].number
  BY <1>1, <1>3, <1>4, <1>5, <1>6, <1>7, OtherOrder
<1>8. CASE n = task[w].number
  <2>1. order'[n].status \notin Terminal
    BY <1>1, <1>4, <1>6, <1>8, Held DEF Terminal
  <2> QED BY <1>1, <1>3, <1>4, <1>5, <1>6, <1>8, <2>1, HolderSaves
<1> QED BY <1>7, <1>8

LEMMA CancelPlannedU == ASSUME IInv, UInv, NEW w \in Workers, CancelPlanned(w) PROVE UInv'
<1>1. /\ WorkerTypes /\ pc[w] = "cancelPlanned" /\ pc[w] \in Holding /\ task[w] \in Task
      /\ order[task[w].number].user = copy[w].user
  BY DEF CancelPlanned, IInv, TypeOK, WorkerTypes, WorkerInv, PCs, Holding
<1>2. PICK res \in Results :
        /\ IF res = "fail" THEN UNCHANGED tx
           ELSE CancelPlannedTransactionsByOrder(copy[w].user, task[w].number)
        /\ IF res = "ok" THEN Goto(w, "register") ELSE Finish(w)
  BY DEF CancelPlanned
<1>3. UNCHANGED <<order, contended>>
  BY DEF CancelPlanned
<1>4. SUFFICES ASSUME NEW n \in Orders, UncontendedInv(n) PROVE UncontendedInv(n)'
  BY <1>3 DEF UInv
<1>5. /\ OnlyWorker(w)
      /\ pc'[w] = "idle" \/ (pc'[w] = "register" /\ task'[w] = task[w] /\ res = "ok")
  BY <1>1, <1>2, FinishTypes, GotoTypes DEF PCs, Holding
<1>6. \A t \in TxIds :
        \/ tx'[t] = tx[t] /\ (res = "ok" => ~(Planned(t) /\ tx[t].order = task[w].number))
        \/ /\ tx[t] # None /\ tx[t].order = task[w].number
           /\ tx'[t].order = task[w].number /\ tx'[t].status = "CANCELED"
  BY <1>1, <1>2 DEF CancelPlannedTransactionsByOrder, PlannedFor, Canceled, TxRecord, Planned,
                    IInv, TypeOK, TxRowInv
<1>7. CASE n # task[w].number
  BY <1>1, <1>3, <1>4, <1>5, <1>6, <1>7, OtherOrder
<1>8. CASE n = task[w].number
  <2>1. /\ \A v \in Workers : Holds(v, n) => v = w
        /\ \A t \in TxIds : Processed(t) => tx[t].order # n
        /\ \A s, t \in TxIds : Planned(s) /\ Planned(t) /\ tx[s].order = n /\ tx[t].order = n => s = t
        /\ order'[n].status \notin Terminal
    BY <1>1, <1>3, <1>4, <1>8, Held
  <2>2. /\ \A t \in TxIds : Processed(t)' => Processed(t) /\ tx'[t].order = tx[t].order
        /\ \A t \in TxIds : Planned(t)' => Planned(t) /\ tx'[t].order = tx[t].order
    BY <1>6 DEF Processed, Planned
  <2>3. pc'[w] = "register" => \A t \in TxIds : Planned(t)' => tx'[t].order # n
    BY <1>5, <1>6, <1>8 DEF Planned
  <2>4. Holds(w, n)' => pc'[w] = "register"
    BY <1>5 DEF Holds, Holding, HasTx
  <2> QED BY <1>5, <2>1, <2>2, <2>3, <2>4, UncontendedHolder
<1> QED BY <1>7, <1>8

LEMMA RegisterU == ASSUME IInv, UInv, NEW w \in Workers, Register(w) PROVE UInv'
<1>1. /\ WorkerTypes /\ pc[w] = "register" /\ pc[w] \in Holding /\ task[w] \in Task
  BY DEF Register, IInv, TypeOK, WorkerTypes, WorkerInv, PCs, Holding
<1>2. PICK t \in TxIds, res \in Results :
        /\ IF res = "fail" THEN UNCHANGED tx
           ELSE RegisterTransaction(t, copy[w].user, task[w].number)
        /\ IF res = "ok"
           THEN /\ pc' = [pc EXCEPT ![w] = "poll"]
                /\ txid' = [txid EXCEPT ![w] = t]
                /\ UNCHANGED <<task, copy>>
           ELSE Finish(w)
  BY DEF Register
<1>3. UNCHANGED <<order, contended>>
  BY DEF Register
<1>4. SUFFICES ASSUME NEW n \in Orders, UncontendedInv(n) PROVE UncontendedInv(n)'
  BY <1>3 DEF UInv
<1>5. OnlyWorker(w) /\ (pc'[w] = "idle" \/ (pc'[w] = "poll" /\ task'[w] = task[w]))
  <2>1. CASE res = "ok"
    BY <1>1, <1>2, <2>1 DEF WorkerTypes, OnlyWorker
  <2>2. CASE res # "ok"
    BY <1>1, <1>2, <2>2, FinishTypes
  <2> QED BY <2>1, <2>2
<1>6. \A s \in TxIds \ {t} : tx'[s] = tx[s]
  BY <1>2 DEF RegisterTransaction, IInv, TypeOK
<1>7. \/ tx'[t] = tx[t]
      \/ tx'[t].order = task[w].number /\ tx'[t].status = "PLANNED"
  BY <1>2 DEF RegisterTransaction, TxRecord, IInv, TypeOK
<1>8. CASE n # task[w].number
  BY <1>1, <1>3, <1>4, <1>5, <1>6, <1>7, <1>8, OtherOrder
<1>9. CASE n = task[w].number
  <2>1. /\ \A v \in Workers : Holds(v, n) => v = w
        /\ \A s \in TxIds : Processed(s) => tx[s].order # n
        /\ \A s \in TxIds : Planned(s) => tx[s].order # n
        /\ order'[n].status \notin Terminal
    BY <1>1, <1>3, <1>4, <1>9, Held
  <2>2. \A s \in TxIds : Processed(s)' => tx'[s].order # n
    BY <1>6, <1>7, <2>1 DEF Processed
  <2>3. \A s \in TxIds \ {t} : Planned(s)' => tx'[s].order # n
    BY <1>6, <2>1 DEF Planned
  <2>4. Holds(w, n)' => pc'[w] = "poll"
    BY <1>5 DEF Holds, Holding, HasTx
  <2> QED BY <1>5, <2>1, <2>2, <2>3, <2>4, UncontendedHolder
<1> QED BY <1>8, <1>9
LEMMA PollU ==
  ASSUME IInv, UInv, NEW w \in Workers,
         PollRetry(w) \/ PollError(w) \/ PollFinal(w) \/ WaitTimer(w) \/ WaitCancelled(w)
  PROVE  UInv'
<1>1. /\ WorkerTypes /\ pc[w] \in {"poll", "wait"} /\ pc[w] \in Holding
      /\ task[w] \in Task /\ copy[w] \in Copy
  BY DEF PollRetry, PollError, PollFinal, PollInvalid, PollProcessed, WaitTimer, WaitCancelled,
         IInv, TypeOK, WorkerTypes, WorkerInv, PCs, Holding, HasTx
<1>2. UNCHANGED <<order, tx, contended>>
  BY DEF PollRetry, PollError, PollFinal, PollInvalid, PollProcessed, WaitTimer, WaitCancelled,
         db, history
<1>3. SUFFICES ASSUME NEW n \in Orders, UncontendedInv(n) PROVE UncontendedInv(n)'
  BY <1>2 DEF UInv
<1>4. /\ OnlyWorker(w)
      /\ \/ pc'[w] = "idle"
         \/ /\ task'[w] = task[w]
            /\ pc'[w] \in {"poll", "wait", "saveInvalid", "saveProcessed"}
  <2>1. CASE Goto(w, "wait") \/ Goto(w, "poll")
    BY <1>1, <2>1, GotoTypes DEF PCs, Holding, HasTx
  <2>2. CASE FailOrder(w)
    BY <1>1, <2>2, FailOrderTypes
  <2>3. CASE ChangeStatus(w, "PROCESSED", "saveProcessed")
    BY <1>1, <2>3, ChangeStatusTypes DEF PCs, Holding, HasTx, Statuses, Terminal
  <2> QED BY <2>1, <2>2, <2>3
    DEF PollRetry, PollError, PollFinal, PollInvalid, PollProcessed, WaitTimer, WaitCancelled
<1>5. CASE n # task[w].number
  BY <1>1, <1>2, <1>3, <1>4, <1>5, OtherOrder
<1>6. CASE n = task[w].number
  <2>1. order'[n].status \notin Terminal
    BY <1>1, <1>2, <1>3, <1>6, Held
  <2> QED BY <1>1, <1>2, <1>3, <1>4, <1>6, <2>1, HolderSaves
<1> QED BY <1>5, <1>6

\* failOrder's and successOrder's orders.Save of the copy.
LEMMA SaveVerdictU ==
  ASSUME IInv, UInv, NEW w \in Workers, SaveInvalid(w) \/ SaveProcessed(w) PROVE UInv'
<1>1. /\ WorkerTypes /\ pc[w] \in {"saveInvalid", "saveProcessed"} /\ pc[w] \in Holding
      /\ task[w] \in Task /\ copy[w] \in Copy
      /\ pc[w] = "saveProcessed" => copy[w].status = "PROCESSED"
  BY DEF SaveInvalid, SaveProcessed, IInv, TypeOK, WorkerTypes, WorkerInv, PCs, Holding, HasTx
<1>2. PICK res \in Results :
        /\ SaveCopy(w, res)
        /\ \/ pc[w] = "saveInvalid" /\ Goto(w, "cancelTransaction")
           \/ pc[w] = "saveProcessed" /\ res = "ok" /\ Goto(w, "approve")
           \/ Finish(w)
           \/ pc[w] = "saveProcessed" /\ FailOrder(w)
  BY DEF SaveInvalid, SaveProcessed
<1>3. UNCHANGED <<tx, contended>>
  BY DEF SaveInvalid, SaveProcessed
<1>4. SUFFICES ASSUME NEW n \in Orders, UncontendedInv(n) PROVE UncontendedInv(n)'
  BY <1>3 DEF UInv
<1>5. /\ OnlyWorker(w)
      /\ \/ pc'[w] = "idle"
         \/ task'[w] = task[w] /\ pc'[w] = "cancelTransaction"
         \/ task'[w] = task[w] /\ pc'[w] = "approve" /\ res = "ok" /\ pc[w] = "saveProcessed"
  <2>1. CASE Goto(w, "cancelTransaction")
    BY <1>1, <2>1, GotoTypes DEF PCs, Holding, HasTx
  <2>2. CASE pc[w] = "saveProcessed" /\ res = "ok" /\ Goto(w, "approve")
    BY <1>1, <2>2, GotoTypes DEF PCs, Holding, HasTx
  <2>3. CASE Finish(w)
    BY <1>1, <2>3, FinishTypes
  <2>4. CASE pc[w] = "saveProcessed" /\ FailOrder(w)
    BY <1>1, <2>4, FailOrderTypes DEF Terminal
  <2> QED BY <1>2, <2>1, <2>2, <2>3, <2>4
<1>6. /\ \A m \in Orders \ {task[w].number} : order'[m] = order[m]
      /\ res = "ok" => order'[task[w].number].status = copy[w].status
  <2>1. CASE res = "fail"
    BY <1>2, <2>1 DEF SaveCopy
  <2>2. CASE res # "fail"
    BY <1>1, <1>2, <2>2, SaveTypes DEF SaveCopy, Copy, Task, IInv, TypeOK
  <2> QED BY <2>1, <2>2
<1>7. CASE n # task[w].number
  BY <1>1, <1>3, <1>4, <1>5, <1>6, <1>7, OtherOrder
<1>8. CASE n = task[w].number
  BY <1>1, <1>3, <1>4, <1>5, <1>6, <1>8, HolderSaves
<1> QED BY <1>7, <1>8

LEMMA CancelTxU == ASSUME IInv, UInv, NEW w \in Workers, CancelTx(w) PROVE UInv'
<1>1. /\ WorkerTypes /\ pc[w] = "cancelTransaction" /\ pc[w] \in Holding /\ pc[w] \in HasTx
  BY DEF CancelTx, IInv, TypeOK, WorkerTypes, PCs, Holding, HasTx
<1>2. \/ UNCHANGED tx
      \/ tx' = [tx EXCEPT ![txid[w]] = Canceled(txid[w])]
  BY DEF CancelTx, CancelTransaction
<1>3. UNCHANGED <<order, contended>>
  BY DEF CancelTx
<1>4. SUFFICES ASSUME NEW n \in Orders, UncontendedInv(n) PROVE UncontendedInv(n)'
  BY <1>3 DEF UInv
<1>5. OnlyWorker(w) /\ pc'[w] = "idle"
  BY <1>1, FinishTypes DEF CancelTx
<1>6. \A t \in TxIds :
        \/ tx'[t] = tx[t]
        \/ tx'[t].order = task[w].number /\ tx'[t].status = "CANCELED"
  BY <1>1, <1>2, OwnRow DEF Canceled, TxRecord, IInv, TypeOK
<1>7. CASE n # task[w].number
  BY <1>1, <1>3, <1>4, <1>5, <1>6, <1>7, OtherOrder
<1>8. CASE n = task[w].number
  <2>1. /\ \A v \in Workers : Holds(v, n) => v = w
        /\ \A t \in TxIds : Processed(t) => tx[t].order # n
        /\ \A s, t \in TxIds : Planned(s) /\ Planned(t) /\ tx[s].order = n /\ tx[t].order = n => s = t
    BY <1>1, <1>4, <1>8, Held
  <2>2. /\ \A t \in TxIds : Processed(t)' => tx'[t] = tx[t]
        /\ \A t \in TxIds : Planned(t)' => tx'[t] = tx[t]
    BY <1>6 DEF Processed, Planned
  <2>3. ~Holds(w, n)'
    BY <1>5 DEF Holds, Holding, HasTx
  <2> QED BY <1>5, <2>1, <2>2, <2>3, UncontendedHolder DEF Processed, Planned
<1> QED BY <1>7, <1>8

\* The approval: the row is the order's first approved one, and w lets go.
LEMMA ApproveU == ASSUME IInv, UInv, NEW w \in Workers, Approve(w) PROVE UInv'
<1>1. pc[w] = "approve" /\ pc[w] \in Holding /\ pc[w] \in HasTx
  BY DEF Approve, Holding, HasTx
<1>2. \/ UNCHANGED tx
      \/ tx' = [tx EXCEPT ![txid[w]] =
                  TxRecord(tx[txid[w]].user, tx[txid[w]].order,
                           AccrualValue[task[w].number], "PROCESSED")]
  BY DEF Approve, ApproveTransaction
<1>3. UNCHANGED <<order, contended>>
  BY DEF Approve
<1>4. SUFFICES ASSUME NEW n \in Orders, UncontendedInv(n) PROVE UncontendedInv(n)'
  BY <1>3 DEF UInv
<1>5. OnlyWorker(w) /\ pc'[w] = "idle"
  BY ApproveFinishes
<1>6. \A t \in TxIds :
        \/ tx'[t] = tx[t]
        \/ t = txid[w] /\ tx'[t].order = task[w].number /\ tx'[t].status = "PROCESSED"
  BY <1>1, <1>2, OwnRow DEF TxRecord, IInv, TypeOK
<1>7. CASE n # task[w].number
  BY <1>1, <1>3, <1>4, <1>5, <1>6, <1>7, OtherOrder
<1>8. CASE n = task[w].number
  <2>1. /\ \A v \in Workers : Holds(v, n) => v = w
        /\ \A t \in TxIds : Processed(t) => tx[t].order # n
        /\ \A s, t \in TxIds : Planned(s) /\ Planned(t) /\ tx[s].order = n /\ tx[t].order = n => s = t
        /\ order'[n].status = "PROCESSED"
    BY <1>1, <1>3, <1>4, <1>8, Held
  <2>2. \A v \in Workers : ~Holds(v, n)'
    BY <1>5, <2>1 DEF Holds, OnlyWorker, Holding, HasTx
  <2>3. \A s \in TxIds : Processed(s)' /\ tx'[s].order = n => s = txid[w]
    BY <1>6, <2>1 DEF Processed
  <2>4. \A t \in TxIds : Planned(t)' => tx'[t] = tx[t]
    BY <1>6 DEF Planned
  <2>5. \A s, t \in TxIds : Planned(s)' /\ Planned(t)' /\ tx'[s].order = n /\ tx'[t].order = n => s = t
    BY <2>1, <2>4 DEF Planned
  <2> QED BY <2>1, <2>2, <2>3, <2>5 DEF UncontendedInv
<1> QED BY <1>7, <1>8

\* Steps that change neither the transactions nor what workers hold.
LEMMA RestU ==
  ASSUME IInv, UInv, UNCHANGED <<order, tx, contended>>,
         \A w \in Workers : pc'[w] \in Holding => pc'[w] = pc[w] /\ task'[w] = task[w]
  PROVE  UInv'
<1>1. SUFFICES ASSUME NEW n \in Orders, UncontendedInv(n) PROVE UncontendedInv(n)'
  BY DEF UInv
<1>2. \A w \in Workers : Holds(w, n)' => Holds(w, n) /\ pc'[w] = pc[w]
  BY DEF Holds
<1> QED BY <1>1, <1>2, UncontendedSame

\* An upload inserts a row that was absent, or makes the order contended.
LEMMA UploadSaveU == ASSUME IInv, UInv, NEW r \in Requests, UploadSave(r) PROVE UInv'
<1> DEFINE n == request[r].number
<1>1. n \in Orders /\ request[r].user \in Users
  BY DEF UploadSave, IInv, RequestInv
<1>2. UNCHANGED <<tx, pc, task>> /\ contended \subseteq contended'
  BY DEF UploadSave, worker
<1>3. \/ UNCHANGED order
      \/ /\ Save(request[r].user, n, "NEW")
         /\ order[n] # None => n \in contended'
  <2>1. PICK res \in Results :
          /\ IF res = "fail" THEN UNCHANGED order ELSE Save(request[r].user, n, "NEW")
          /\ contended' = IF res # "fail" /\ order[n] # None
                          THEN contended \cup {n} ELSE contended
    BY DEF UploadSave
  <2>2. CASE res = "fail"
    BY <2>1, <2>2
  <2>3. CASE res # "fail"
    BY <2>1, <2>3
  <2> QED BY <2>2, <2>3
<1>4. \A m \in Orders \ {n} : order'[m] = order[m]
  <2>1. CASE UNCHANGED order
    BY <2>1
  <2>2. CASE Save(request[r].user, n, "NEW")
    <3>1. "NEW" \in Statuses /\ order \in [Orders -> OrderRow \cup {None}]
      BY DEF Statuses, IInv, TypeOK
    <3> QED BY <1>1, <2>2, <3>1, SaveTypes
  <2> QED BY <1>3, <2>1, <2>2
<1>5. SUFFICES ASSUME NEW m \in Orders \ contended', UncontendedInv(m) PROVE UncontendedInv(m)'
  BY <1>2 DEF UInv
<1>6. \A w \in Workers : Holds(w, m)' <=> Holds(w, m)
  BY <1>2 DEF Holds
<1>7. CASE order'[m] = order[m]
  BY <1>2, <1>5, <1>6, <1>7, UncontendedSame
<1>8. CASE order'[m] # order[m]
  <2>1. m = n /\ order[m] = None
    BY <1>3, <1>4, <1>5, <1>8
  <2>2. \A w \in Workers : ~Holds(w, m)
    BY <2>1 DEF Holds, IInv, WorkerInv
  <2>3. \A t \in TxIds : tx[t] # None => tx[t].order # m
    BY <2>1 DEF IInv, TxRowInv
  <2> HIDE DEF n
  <2> QED BY <1>2, <1>6, <2>2, <2>3 DEF UncontendedInv, Processed, Planned
<1> QED BY <1>7, <1>8

LEMMA StepU == IInv /\ UInv /\ [Next]_vars => UInv'
<1> SUFFICES ASSUME IInv, UInv, [Next]_vars PROVE UInv'
  OBVIOUS
<1>1. ASSUME NEW r \in Requests, UploadGetByNumber(r) \/ UploadProcess(r) PROVE UInv'
  BY <1>1, RestU DEF UploadGetByNumber, UploadProcess, db, worker, history
<1>2. ASSUME NEW w \in Workers, TakeTask(w) PROVE UInv'
  <2>1. \A v \in Workers : pc'[v] \in Holding => pc'[v] = pc[v] /\ task'[v] = task[v]
    BY <1>2 DEF TakeTask, IInv, TypeOK, Holding, HasTx
  <2> QED BY <1>2, <2>1, RestU DEF TakeTask, db, history
<1>3. ASSUME NEW w \in Workers, WorkerStep(w), ~TakeTask(w) PROVE UInv'
  BY <1>3, TouchGetByNumberU, TouchSaveU, CancelPlannedU, RegisterU, PollU, SaveVerdictU,
     CancelTxU, ApproveU DEF WorkerStep
<1>4. CASE Recover \/ \E n \in Orders : AccrualDecides(n)
  BY <1>4, RestU DEF Recover, RecoverList, RecoverEnqueue, AccrualDecides, db, process, worker, history
<1>5. CASE Exit \/ Fatal \/ Crash
  <2>1. \A v \in Workers : pc'[v] \notin Holding
    BY <1>5 DEF Exit, Fatal, Crash, Halt, Holding, HasTx
  <2> QED BY <1>5, <2>1, RestU DEF Exit, Fatal, Crash, Halt, db
<1>6. CASE Shutdown \/ StopPool \/ Restart \/ UNCHANGED vars
  BY <1>6, RestU DEF Shutdown, StopPool, Restart, vars, db, process, worker, history
<1> QED BY <1>1, <1>2, <1>3, <1>4, <1>5, <1>6, UploadSaveU DEF Next, UploadStep, Ending

LEMMA InitU == Init => UInv
BY DEF Init, UInv, UncontendedInv, Processed, Planned, Holds, Holding, HasTx

\* One worker at a time on an order, and the table agrees with what it is doing.
THEOREM UncontendedInvariance == Spec => [](IInv /\ UInv)
BY InitInv, InitU, StepInv, StepU, PTL DEF Spec

\* An order that no two workers held at once is credited at most once, through
\* any number of recoveries, crashes and failed statements (touchOrder's check
\* of the status, failOrder's refusal to leave a terminal one).
THEOREM CreditedOnce == Spec => []UncontendedCreditedOnce
<1>1. IInv /\ UInv => UncontendedCreditedOnce
  BY DEF IInv, TypeOK, TxRow, UInv, UncontendedInv, UncontendedCreditedOnce, Processed
<1> QED BY <1>1, UncontendedInvariance, PTL

\* ... and has at most one open transaction (CancelPlannedTransactionsByOrder
\* runs before RegisterTransaction).
THEOREM PlannedOnce == Spec => []UncontendedPlannedOnce
<1>1. IInv /\ UInv => UncontendedPlannedOnce
  BY DEF IInv, TypeOK, TxRow, UInv, UncontendedInv, UncontendedPlannedOnce, Planned
<1> QED BY <1>1, UncontendedInvariance, PTL
LEMMA TerminalStep ==
  ASSUME IInv, UInv, [Next]_vars, NEW n \in Orders \ contended',
         order[n] # None, order[n].status \in Terminal
  PROVE  order'[n] = order[n]
<1>1. CASE UNCHANGED order
  BY <1>1
<1>2. ASSUME NEW w \in Workers, TouchSave(w) \/ SaveInvalid(w) \/ SaveProcessed(w)
      PROVE  order'[n] = order[n]
  <2>1. /\ pc[w] \in {"saveTouched", "saveInvalid", "saveProcessed"} /\ pc[w] \in Holding
        /\ contended' = contended
    BY <1>2 DEF TouchSave, SaveInvalid, SaveProcessed, Holding, HasTx
  <2>2. task[w] \in Task /\ copy[w] \in Copy
    BY <2>1 DEF IInv, WorkerInv, Holding, HasTx
  <2>3. UncontendedInv(n)
    BY <2>1 DEF UInv
  <2>4. n # task[w].number
    BY <2>1, <2>3, Held
  <2>5. PICK res \in Results : SaveCopy(w, res)
    BY <1>2 DEF TouchSave, SaveInvalid, SaveProcessed
  <2> QED BY <2>2, <2>4, <2>5, SaveTypes DEF SaveCopy, Copy, Task, IInv, TypeOK
<1>3. ASSUME NEW r \in Requests, UploadSave(r) PROVE order'[n] = order[n]
  <2>1. PICK res \in Results :
          /\ IF res = "fail" THEN UNCHANGED order
             ELSE Save(request[r].user, request[r].number, "NEW")
          /\ contended' = IF res # "fail" /\ order[request[r].number] # None
                          THEN contended \cup {request[r].number} ELSE contended
    BY <1>3 DEF UploadSave
  <2>2. CASE res = "fail"
    BY <2>1, <2>2
  <2>3. CASE res # "fail"
    <3>1. n # request[r].number
      BY <2>1, <2>3
    <3>2. /\ request[r].number \in Orders /\ request[r].user \in Users /\ "NEW" \in Statuses
          /\ order \in [Orders -> OrderRow \cup {None}]
      BY <1>3 DEF UploadSave, IInv, TypeOK, RequestInv, Statuses
    <3> QED BY <2>1, <2>3, <3>1, <3>2, SaveTypes
  <2> QED BY <2>2, <2>3
<1>4. \/ UNCHANGED order
      \/ \E w \in Workers : TouchSave(w) \/ SaveInvalid(w) \/ SaveProcessed(w)
      \/ \E r \in Requests : UploadSave(r)
  <2>1. ASSUME NEW w \in Workers, WorkerStep(w), ~(TouchSave(w) \/ SaveInvalid(w) \/ SaveProcessed(w))
        PROVE  UNCHANGED order
    BY <2>1 DEF WorkerStep, TakeTask, TouchGetByNumber, CancelPlanned, Register, PollRetry,
                PollError, PollFinal, PollInvalid, PollProcessed, WaitTimer, WaitCancelled,
                CancelTx, Approve, db
  <2>2. ASSUME NEW r \in Requests, UploadGetByNumber(r) \/ UploadProcess(r) PROVE UNCHANGED order
    BY <2>2 DEF UploadGetByNumber, UploadProcess, db
  <2>3. CASE Recover \/ \E m \in Orders : AccrualDecides(m)
    BY <2>3 DEF Recover, RecoverList, RecoverEnqueue, AccrualDecides, db
  <2>4. CASE Shutdown \/ Ending \/ Crash \/ Restart
    BY <2>4 DEF Shutdown, Ending, StopPool, Exit, Fatal, Crash, Restart, Halt, db
  <2> QED BY <2>1, <2>2, <2>3, <2>4 DEF Next, UploadStep, vars, db
<1> QED BY <1>1, <1>2, <1>3, <1>4

\* The status of such an order never leaves INVALID or PROCESSED in the table,
\* although Save would overwrite it (touchOrder, Order.ChangeStatus).
THEOREM TerminalIsFinal == Spec => UncontendedTerminalFinal
<1>1. ASSUME IInv, UInv, [Next]_vars
      PROVE  [\A n \in Orders :
                 /\ order[n] # None /\ order[n].status \in Terminal
                 /\ n \notin contended'
                 => order'[n] = order[n]]_vars
  BY <1>1, TerminalStep
<1>2. IInv /\ UInv /\ [Next]_vars =>
        [\A n \in Orders :
           /\ order[n] # None /\ order[n].status \in Terminal
           /\ n \notin contended'
           => order'[n] = order[n]]_vars
  BY <1>1
<1> QED BY <1>2, UncontendedInvariance, PTL DEF Spec, UncontendedTerminalFinal

LEMMA ContendedGrows == ASSUME [Next]_vars PROVE contended \subseteq contended'
<1>1. ASSUME NEW w \in Workers, WorkerStep(w) PROVE contended \subseteq contended'
  <2>1. CASE TouchGetByNumber(w)
    BY <2>1 DEF TouchGetByNumber
  <2> QED BY <1>1, <2>1
       DEF WorkerStep, TakeTask, TouchSave, CancelPlanned, Register, PollRetry, PollError,
           PollFinal, PollInvalid, PollProcessed, WaitTimer, WaitCancelled, SaveInvalid,
           CancelTx, SaveProcessed, Approve, history
<1>2. ASSUME NEW r \in Requests, UploadStep(r) PROVE contended \subseteq contended'
  <2>1. CASE UploadSave(r)
    BY <2>1 DEF UploadSave
  <2> QED BY <1>2, <2>1 DEF UploadStep, UploadGetByNumber, UploadProcess, history
<1>3. CASE Recover \/ \E m \in Orders : AccrualDecides(m)
  BY <1>3 DEF Recover, RecoverList, RecoverEnqueue, AccrualDecides, history
<1>4. CASE Shutdown \/ Ending \/ Crash \/ Restart
  BY <1>4 DEF Shutdown, Ending, StopPool, Exit, Fatal, Crash, Restart, Halt, history
<1> QED BY <1>1, <1>2, <1>3, <1>4 DEF Next, vars, history

\* What the list shows of an uncontended order, in one state.
LEMMA ListedUncontended ==
  ASSUME UInv, NEW n \in Orders \ contended
  PROVE  ListedAccruals(n) # {} => order[n].status = "PROCESSED"
BY DEF UInv, UncontendedInv, ListedAccruals, Processed

\* No approved transaction of a settled order comes or goes.
LEMMA ListedStable ==
  ASSUME IInv, IInv', UInv', [Next]_vars, NEW n \in Orders \ contended',
         order'[n] = order[n],
         order[n].status # "PROCESSED" \/ ListedAccruals(n) # {}
  PROVE  ListedAccruals(n)' = ListedAccruals(n)
<1>1. \A t \in TxIds : Processed(t) => tx'[t] = tx[t]
  BY ApprovedStep
<1>2. UncontendedInv(n)'
  BY DEF UInv
<1>3. \A t \in TxIds : Processed(t)' /\ tx'[t].order = n => order[n].status = "PROCESSED"
  BY <1>2 DEF UncontendedInv
<1>4. ASSUME NEW t \in TxIds, Processed(t)', tx'[t].order = n
      PROVE  Processed(t) /\ tx'[t] = tx[t]
  <2>1. PICK s \in TxIds : Processed(s) /\ tx[s].order = n
    BY <1>3, <1>4 DEF ListedAccruals, Processed
  <2>2. Processed(s)' /\ tx'[s] = tx[s]
    BY <1>1, <2>1 DEF Processed
  <2>3. s = t
    BY <1>2, <1>4, <2>1, <2>2 DEF UncontendedInv
  <2> QED BY <2>1, <2>2, <2>3
<1>5. {t \in TxIds : tx'[t] # None /\ tx'[t].user = order[n].user /\ tx'[t].order = n
                     /\ tx'[t].status = "PROCESSED" /\ tx'[t].accrual > 0}
      = {t \in TxIds : tx[t] # None /\ tx[t].user = order[n].user /\ tx[t].order = n
                       /\ tx[t].status = "PROCESSED" /\ tx[t].accrual > 0}
  BY <1>1, <1>4 DEF Processed
<1>6. \A t \in TxIds : Processed(t)' /\ tx'[t].order = n => tx'[t].accrual = tx[t].accrual
  BY <1>4
<1> QED BY <1>5, <1>6 DEF ListedAccruals, Processed

LEMMA ShownStep ==
  ASSUME IInv, UInv, IInv', UInv', [Next]_vars, NEW n \in Orders \ contended',
         order[n] # None, ListedAccruals(n) # {} \/ order[n].status = "INVALID"
  PROVE  /\ Shown(n)' = Shown(n)
         /\ order[n].status = "PROCESSED" <=> ListedAccruals(n) # {}
<1>1. n \in Orders \ contended
  BY ContendedGrows
<1>2. order[n].status = "PROCESSED" <=> ListedAccruals(n) # {}
  BY <1>1, ListedUncontended
<1>3. order'[n] = order[n]
  BY <1>2, TerminalStep DEF Terminal
<1>4. ListedAccruals(n)' = ListedAccruals(n)
  BY <1>2, <1>3, ListedStable
<1> QED BY <1>2, <1>3, <1>4 DEF Shown

\* What GET /api/user/orders has shown of such an order as final stays, although
\* the list joins two tables that successOrder and failOrder write one after
\* the other.
THEOREM ShownStays == Spec => ShownIsFinal
<1>1. ASSUME IInv, UInv, IInv', UInv', [Next]_vars
      PROVE  [\A n \in Orders :
                 /\ order[n] # None /\ n \notin contended'
                 /\ ListedAccruals(n) # {} \/ order[n].status = "INVALID"
                 => /\ Shown(n)' = Shown(n)
                    /\ order[n].status = "PROCESSED" <=> ListedAccruals(n) # {}]_vars
  BY <1>1, ShownStep
<1>2. IInv /\ UInv /\ IInv' /\ UInv' /\ [Next]_vars =>
        [\A n \in Orders :
           /\ order[n] # None /\ n \notin contended'
           /\ ListedAccruals(n) # {} \/ order[n].status = "INVALID"
           => /\ Shown(n)' = Shown(n)
              /\ order[n].status = "PROCESSED" <=> ListedAccruals(n) # {}]_vars
  BY <1>1
<1> QED BY <1>2, UncontendedInvariance, PTL DEF Spec, ShownIsFinal
-----------------------------------------------------------------------------
(* The balances are what the approved rows add up to.                      *)

Approved(u) == {t \in TxIds : Processed(t) /\ tx[t].user = u}

\* The accruals of the transactions S, as BalanceMatchesLedger adds them.
SumOf(rows, S) == MapThenSumSet(LAMBDA t : rows[t].accrual, S)

LEMMA ApprovedFinite == \A S \in SUBSET TxIds : IsFiniteSet(S)
<1>1. IsFiniteSet(TxIds)
  BY FS_Interval, BoundsAssumption DEF TxIds
<1> QED BY <1>1, FS_Subset

LEMMA SumIsTotal ==
  ASSUME NEW S, IsFiniteSet(S), NEW rows, NEW w, \A t \in S : w[t] = rows[t].accrual
  PROVE  SumOf(rows, S) = Total(w, S)
<1> DEFINE P(g) == g = [s \in SUBSET S |-> IF s = {} THEN 0
                                           ELSE rows[Pick(s)].accrual + g[s \ {Pick(s)}]]
<1>1. SumOf(rows, S) = (CHOOSE g : P(g))[S]
  BY DEF SumOf, MapThenSumSet, MapThenFoldSet, Pick
<1>2. ASSUME NEW g PROVE P(g) <=> Sums(g, w, S)
  <2>1. ASSUME NEW s \in SUBSET S, s # {} PROVE rows[Pick(s)].accrual = w[Pick(s)]
    BY <2>1, PickIn
  <2> QED BY <2>1 DEF Sums
<1>3. \E g : P(g)
  BY <1>2, SumsExist
<1>4. P(CHOOSE g : P(g))
  <2> HIDE DEF P
  <2> QED BY <1>3
<1>5. Sums(CHOOSE g : P(g), w, S)
  BY <1>2, <1>4
<1>6. PICK h : Sums(h, w, S) /\ Total(w, S) = h[S]
  BY TotalSums
<1> HIDE DEF P
<1>7. (CHOOSE g : P(g))[S] = h[S]
  BY <1>5, <1>6, SumsAgree
<1> QED BY <1>1, <1>6, <1>7

\* A step that approves nothing leaves every sum.
LEMMA LedgerKept ==
  ASSUME \A t \in TxIds : Processed(t) => tx'[t] = tx[t],
         \A t \in TxIds : Processed(t)' => Processed(t),
         NEW u
  PROVE  SumOf(tx, Approved(u))' = SumOf(tx, Approved(u))
<1> DEFINE w == [t \in TxIds |-> tx[t].accrual]
           S == Approved(u)
<1>1. Approved(u)' = S /\ S \in SUBSET TxIds
  BY DEF Approved, Processed
<1>2. IsFiniteSet(S) /\ (\A t \in S : w[t] = tx[t].accrual) /\ (\A t \in S : w[t] = tx'[t].accrual)
  BY <1>1, ApprovedFinite DEF Approved
<1>3. SumOf(tx, S)' = SumOf(tx', S)
  BY <1>1 DEF SumOf, MapThenSumSet, MapThenFoldSet
<1> HIDE DEF w, S
<1>4. SumOf(tx, S) = Total(w, S) /\ SumOf(tx', S) = Total(w, S)
  BY <1>2, SumIsTotal
<1> QED BY <1>3, <1>4 DEF S

\* The step that approves row t, for the points v.
LEMMA LedgerGrows ==
  ASSUME IInv, NEW t \in TxIds, ~Processed(t), Processed(t)', tx'[t].accrual \in Nat,
         \A s \in TxIds \ {t} : tx'[s] = tx[s],
         NEW u
  PROVE  SumOf(tx, Approved(u))' =
           SumOf(tx, Approved(u)) + (IF tx'[t].user = u THEN tx'[t].accrual ELSE 0)
<1> DEFINE w == [s \in TxIds |-> IF s = t THEN tx'[t].accrual
                                 ELSE IF Processed(s) THEN tx[s].accrual ELSE 0]
           S == Approved(u)
           T == IF tx'[t].user = u THEN S \cup {t} ELSE S
<1>1. Approved(u)' = T /\ S \in SUBSET TxIds /\ T \in SUBSET TxIds /\ t \notin S
  BY DEF Approved, Processed
<1>2. /\ IsFiniteSet(S) /\ IsFiniteSet(T)
      /\ \A s \in S : w[s] = tx[s].accrual
      /\ \A s \in T : w[s] = tx'[s].accrual
      /\ \A s \in S \cup {t} : w[s] \in Nat
  <2>1. IsFiniteSet(S) /\ IsFiniteSet(T)
    BY <1>1, ApprovedFinite
  <2>2. \A s \in S : Processed(s) /\ s \in TxIds /\ s # t
    BY <1>1 DEF Approved
  <2>3. \A s \in S : w[s] = tx[s].accrual /\ w[s] \in Nat /\ w[s] = tx'[s].accrual
    BY <2>2 DEF IInv, TypeOK, Processed, TxRow
  <2>4. w[t] = tx'[t].accrual /\ w[t] \in Nat
    OBVIOUS
  <2> HIDE DEF w, S
  <2> QED BY <2>1, <2>3, <2>4
<1>3. SumOf(tx, S)' = SumOf(tx', T) /\ w[t] = tx'[t].accrual
  BY <1>1 DEF SumOf, MapThenSumSet, MapThenFoldSet
<1> HIDE DEF w, S
<1>4. SumOf(tx, S) = Total(w, S) /\ Total(w, S) \in Nat
  <2>1. \A s \in S : w[s] \in Nat
    BY <1>2
  <2> QED BY <1>2, <2>1, SumIsTotal, TotalNat
<1>5. Total(w, S \cup {t}) = Total(w, S) + w[t]
  <2>1. IsFiniteSet(S) /\ t \notin S /\ \A s \in S \cup {t} : w[s] \in Nat
    BY <1>1, <1>2
  <2> QED BY <2>1, TotalWith
<1>6. SumOf(tx', T) = Total(w, T)
  <2> HIDE DEF T
  <2> QED BY <1>2, SumIsTotal
<1> QED BY <1>3, <1>4, <1>5, <1>6 DEF S

LEMMA ApproveLedger ==
  ASSUME IInv, BalanceMatchesLedger, NEW w \in Workers, Approve(w)
  PROVE  BalanceMatchesLedger'
<1>1. pc[w] = "approve" /\ pc[w] \in HasTx
  BY DEF Approve, HasTx
<1>2. PICK t \in TxIds, v \in Nat :
        /\ t = txid[w] /\ v = AccrualValue[task[w].number]
        /\ tx[t] \in TxRow /\ ~Processed(t) /\ tx[t].user \in Users
  BY <1>1, OwnRow, AccrualAssumption DEF Processed, TxRow, Task
<1>3. CASE UNCHANGED <<tx, balance>>
  BY <1>3, LedgerKept DEF BalanceMatchesLedger, SumOf, Approved, Processed
<1>4. CASE ApproveTransaction(t, v)
  <2>1. /\ tx' = [tx EXCEPT ![t] = TxRecord(tx[t].user, tx[t].order, v, "PROCESSED")]
        /\ balance' = [balance EXCEPT ![tx[t].user] = @ + v]
    BY <1>4 DEF ApproveTransaction
  <2>2. /\ Processed(t)' /\ tx'[t].accrual = v /\ tx'[t].user = tx[t].user
        /\ \A s \in TxIds \ {t} : tx'[s] = tx[s]
    <3>1. /\ tx'[t] = TxRecord(tx[t].user, tx[t].order, v, "PROCESSED")
          /\ \A s \in TxIds \ {t} : tx'[s] = tx[s]
      BY <1>2, <2>1 DEF IInv, TypeOK
    <3>2. TxRecord(tx[t].user, tx[t].order, v, "PROCESSED") \in TxRow
      BY <1>2 DEF TxRecord, TxRow
    <3>3. tx'[t] # None
      BY <3>1, <3>2, NoneAssumption
    <3> QED BY <1>2, <3>1, <3>3 DEF Processed, TxRecord
  <2>3. ASSUME NEW u \in Users PROVE balance'[u] = SumOf(tx, Approved(u))'
    <3>1. balance[u] = SumOf(tx, Approved(u)) /\ balance[u] \in Nat
      BY DEF BalanceMatchesLedger, SumOf, Approved, IInv, TypeOK
    <3>2. SumOf(tx, Approved(u))' = balance[u] + (IF tx[t].user = u THEN v ELSE 0)
      <4>1. tx'[t].accrual \in Nat
        BY <1>2, <2>2
      <4>2. SumOf(tx, Approved(u))' =
              SumOf(tx, Approved(u)) + (IF tx'[t].user = u THEN tx'[t].accrual ELSE 0)
        BY <1>2, <2>2, <4>1, LedgerGrows
      <4> QED BY <2>2, <3>1, <4>2
    <3>3. balance'[u] = balance[u] + (IF tx[t].user = u THEN v ELSE 0)
      <4>1. balance \in [Users -> Nat]
        BY DEF IInv, TypeOK
      <4>2. CASE tx[t].user = u
        BY <2>1, <4>1, <4>2
      <4>3. CASE tx[t].user # u
        BY <1>2, <2>1, <3>1, <4>1, <4>3
      <4> QED BY <4>2, <4>3
    <3> QED BY <3>2, <3>3
  <2> QED BY <2>3 DEF BalanceMatchesLedger, SumOf, Approved
<1> QED BY <1>2, <1>3, <1>4 DEF Approve

\* What every other step leaves to the ledger.
LEMMA OtherLedger ==
  ASSUME IInv, [Next]_vars, \A w \in Workers : ~Approve(w)
  PROVE  balance' = balance /\ \A t \in TxIds : Processed(t)' => Processed(t)
<1>1. ASSUME NEW w \in Workers, WorkerStep(w)
      PROVE  balance' = balance /\ \A t \in TxIds : Processed(t)' => Processed(t)
  <2>1. CASE CancelPlanned(w)
    BY <2>1 DEF CancelPlanned, CancelPlannedTransactionsByOrder, Canceled, TxRecord, Processed
  <2>2. CASE Register(w)
    <3>1. CASE UNCHANGED tx
      BY <2>2, <3>1 DEF Register, Processed
    <3>2. ASSUME NEW t \in TxIds, RegisterTransaction(t, copy[w].user, task[w].number)
          PROVE  \A s \in TxIds : Processed(s)' => Processed(s)
      BY <3>2 DEF RegisterTransaction, TxRecord, Processed, IInv, TypeOK
    <3> QED BY <2>2, <3>1, <3>2 DEF Register
  <2>3. CASE CancelTx(w)
    BY <2>3 DEF CancelTx, CancelTransaction, Canceled, TxRecord, Processed, IInv, TypeOK
  <2>4. CASE UNCHANGED <<tx, balance>>
    BY <2>4 DEF Processed
  <2> QED
    BY <1>1, <2>1, <2>2, <2>3, <2>4
       DEF WorkerStep, TakeTask, TouchGetByNumber, TouchSave, PollRetry, PollError,
           PollFinal, PollInvalid, PollProcessed, WaitTimer, WaitCancelled,
           SaveInvalid, SaveProcessed, db
<1>2. CASE UNCHANGED <<tx, balance>>
  BY <1>2 DEF Processed
<1>3. ASSUME NEW r \in Requests, UploadStep(r) PROVE UNCHANGED <<tx, balance>>
  BY <1>3 DEF UploadStep, UploadGetByNumber, UploadSave, UploadProcess, db
<1>4. CASE Recover \/ \E n \in Orders : AccrualDecides(n)
  BY <1>2, <1>4 DEF Recover, RecoverList, RecoverEnqueue, AccrualDecides, db
<1>5. CASE Shutdown \/ Ending \/ Crash \/ Restart
  BY <1>2, <1>5 DEF Shutdown, Ending, StopPool, Exit, Fatal, Crash, Restart, Halt, db
<1>6. CASE UNCHANGED vars
  BY <1>2, <1>6 DEF vars, db
<1> QED BY <1>1, <1>2, <1>3, <1>4, <1>5, <1>6 DEF Next

LEMMA LedgerStep == IInv /\ BalanceMatchesLedger /\ [Next]_vars => BalanceMatchesLedger'
<1> SUFFICES ASSUME IInv, BalanceMatchesLedger, [Next]_vars PROVE BalanceMatchesLedger'
  OBVIOUS
<1>1. CASE \E w \in Workers : Approve(w)
  BY <1>1, ApproveLedger
<1>2. CASE \A w \in Workers : ~Approve(w)
  <2>1. balance' = balance /\ \A t \in TxIds : Processed(t)' => Processed(t)
    BY <1>2, OtherLedger
  <2>2. \A t \in TxIds : Processed(t) => tx'[t] = tx[t]
    BY ApprovedStep
  <2>3. \A u : SumOf(tx, Approved(u))' = SumOf(tx, Approved(u))
    BY <2>1, <2>2, LedgerKept
  <2> QED BY <2>1, <2>3 DEF BalanceMatchesLedger, SumOf, Approved
<1> QED BY <1>1, <1>2

LEMMA InitLedger == Init => BalanceMatchesLedger
<1> SUFFICES ASSUME Init, NEW u \in Users PROVE balance[u] = SumOf(tx, Approved(u))
  BY DEF BalanceMatchesLedger, SumOf, Approved
<1>1. Approved(u) = {} /\ balance[u] = 0
  BY DEF Init, Approved, Processed
<1>2. SumOf(tx, {}) = Total([t \in TxIds |-> 0], {})
  BY FS_EmptySet, SumIsTotal
<1>3. Total([t \in TxIds |-> 0], {}) = 0
  BY FS_EmptySet, TotalPick
<1> QED BY <1>1, <1>2, <1>3

\* The account of every user holds the sum of the approved transactions
\* (ApproveTransaction), through failures, lost replies and restarts.
THEOREM LedgerMatches == Spec => []BalanceMatchesLedger
BY InitLedger, LedgerStep, Invariance, PTL DEF Spec
============================================================================
