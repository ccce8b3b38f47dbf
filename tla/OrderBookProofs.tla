---------------------------- MODULE OrderBookProofs ----------------------------
(***************************************************************************)
(* OrderProcessing implements the order book, for every number of users,   *)
(* orders, requests, workers, failures and restarts.                       *)
(*                                                                         *)
(* The argument.  Five kinds of steps show in the book: an upload that     *)
(* inserts a row or writes over one, a touch that finds another holder, a  *)
(* worker that saves its copy, an approval, and a verdict.  What a worker  *)
(* knows of the row it saves or pays is what the invariants of             *)
(* OrderProcessingProofs say of an order that it holds; and as long as     *)
(* nothing has gone wrong, who refuses an order was told so (CalmInv).     *)
(***************************************************************************)
EXTENDS OrderProcessingProofs

(* As long as nothing goes wrong, awards are paid and refusals are verdicts. *)

\* Worker w stands before ApproveTransaction for order n.
AboutToPay(w, n) == pc[w] = "approve" /\ task[w].number = n
AwardKept(n) ==
  order[n] # None /\ order[n].status = "PROCESSED" =>
    Paid(n) \/ \E w \in Workers : AboutToPay(w, n)

\* Worker w is about to refuse its order because the accrual system has.
RefusalKnown(w) == pc[w] = "saveInvalid" => service[task[w].number] = "INVALID"

CalmInv ==
  Calm => /\ phase = "running"
          /\ \A n \in Orders : AwardKept(n)
          /\ \A w \in Workers : RefusalKnown(w)

LEMMA CalmBefore ==
  ASSUME TypeOK, [Next]_vars, Calm' PROVE Calm
<1>1. failures \in Nat /\ restarts \in Nat
  BY BoundsAssumption DEF TypeOK
<1>2. /\ failures' = failures \/ failures' = failures + 1
      /\ restarts' = restarts \/ restarts' = restarts + 1
  <2>1. ASSUME NEW c, NEW res, DbResult(c, res)
        PROVE  failures' = failures \/ failures' = failures + 1
    BY <2>1 DEF DbResult
  <2>2. ASSUME NEW w \in Workers, WorkerStep(w)
        PROVE  restarts' = restarts /\ (failures' = failures \/ failures' = failures + 1)
    BY <2>1, <2>2
       DEF WorkerStep, TakeTask, TouchGetByNumber, TouchSave, CancelPlanned, Register,
           PollRetry, PollError, PollFinal, PollInvalid, PollProcessed, WaitTimer,
           WaitCancelled, SaveInvalid, CancelTx, SaveProcessed, Approve, history
  <2>3. ASSUME NEW r \in Requests, UploadStep(r)
        PROVE  restarts' = restarts /\ (failures' = failures \/ failures' = failures + 1)
    BY <2>1, <2>3 DEF UploadStep, UploadGetByNumber, UploadSave, UploadProcess, history
  <2>4. ASSUME Recover \/ Shutdown \/ Ending \/ Crash \/ Restart \/ UNCHANGED vars
        PROVE  failures' = failures /\ (restarts' = restarts \/ restarts' = restarts + 1)
    BY <2>4 DEF Recover, RecoverList, RecoverEnqueue, Shutdown, Ending, StopPool, Exit, Fatal,
                Crash, Restart, Halt, vars, history
  <2>5. ASSUME NEW n \in Orders, AccrualDecides(n) PROVE UNCHANGED <<failures, restarts>>
    BY <2>5 DEF AccrualDecides, history
  <2> QED BY <2>2, <2>3, <2>4, <2>5 DEF Next
<1> QED BY <1>1, <1>2 DEF Calm

\* A calm process goes on running.
LEMMA CalmRunning ==
  ASSUME phase = "running", [Next]_vars, Calm, Calm'
  PROVE  phase' = "running" /\ ~Shutdown /\ ~Ending /\ ~Crash /\ ~Restart
<1>1. ~Shutdown /\ ~Ending /\ ~Crash /\ ~Restart
  BY DEF Calm, Shutdown, Ending, StopPool, Exit, Fatal, Crash, Restart
<1>2. phase' = "running"
  BY <1>1 DEF Next, UploadStep, UploadGetByNumber, UploadSave, UploadProcess,
       WorkerStep, TakeTask, TouchGetByNumber, TouchSave, CancelPlanned, Register,
       PollRetry, PollError, PollFinal, PollInvalid, PollProcessed, WaitTimer,
       WaitCancelled, SaveInvalid, CancelTx, SaveProcessed, Approve,
       Recover, RecoverList, RecoverEnqueue, AccrualDecides, vars, process
<1> QED BY <1>1, <1>2

\* A statement of a calm process is applied and answered.
LEMMA CalmResult ==
  ASSUME TypeOK, phase = "running", Calm, Calm', NEW w, NEW res, DbResult(Cancelled(w), res)
  PROVE  res = "ok"
BY DEF Calm, DbResult, Cancelled

\* A step of w leaves the other workers where they are, and the verdicts.
LEMMA OthersStay ==
  ASSUME TypeOK, NEW w \in Workers, WorkerStep(w)
  PROVE  /\ \A v \in Workers \ {w} : pc'[v] = pc[v] /\ task'[v] = task[v]
         /\ service' = service
<1> DEFINE Stay == \A v \in Workers \ {w} : pc'[v] = pc[v] /\ task'[v] = task[v]
<1>0. /\ pc \in [Workers -> {"idle", "getByNumber"} \cup Holding]
      /\ task \in [Workers -> Task \cup {None}]
  BY DEF TypeOK
<1>1. service' = service
  BY DEF WorkerStep, TakeTask, TouchGetByNumber, TouchSave, CancelPlanned, Register,
         PollRetry, PollError, PollFinal, PollInvalid, PollProcessed, WaitTimer,
         WaitCancelled, SaveInvalid, CancelTx, SaveProcessed, Approve
<1>2. ASSUME NEW p, Goto(w, p) PROVE Stay
  BY <1>0, <1>2 DEF Goto
<1>3. ASSUME Finish(w) PROVE Stay
  BY <1>0, <1>3 DEF Finish
<1>4. ASSUME NEW s, NEW p, ChangeStatus(w, s, p) PROVE Stay
  BY <1>0, <1>4 DEF ChangeStatus
<1>5. ASSUME FailOrder(w) PROVE Stay
  BY <1>3, <1>4, <1>5 DEF FailOrder
<1>6. CASE TakeTask(w) \/ TouchGetByNumber(w) \/ Register(w)
  BY <1>0, <1>3, <1>6 DEF TakeTask, TouchGetByNumber, Register
<1>7. CASE TouchSave(w) \/ CancelPlanned(w) \/ SaveInvalid(w) \/ CancelTx(w)
           \/ SaveProcessed(w) \/ Approve(w)
  BY <1>2, <1>3, <1>5, <1>7
     DEF TouchSave, CancelPlanned, SaveInvalid, CancelTx, SaveProcessed, Approve
<1>8. CASE PollRetry(w) \/ PollError(w) \/ PollFinal(w) \/ WaitTimer(w) \/ WaitCancelled(w)
  BY <1>2, <1>4, <1>5, <1>8 DEF PollRetry, PollError, PollFinal, PollInvalid, PollProcessed,
     WaitTimer, WaitCancelled
<1> QED BY <1>1, <1>6, <1>7, <1>8 DEF WorkerStep

\* Who is about to pay and does not move, is about to pay.
LEMMA OthersPay ==
  ASSUME TypeOK, NEW w \in Workers, WorkerStep(w), ~Approve(w),
         NEW v \in Workers, NEW n \in Orders, AboutToPay(v, n)
  PROVE  AboutToPay(v, n)'
<1>1. v # w
  BY DEF AboutToPay, WorkerStep, TakeTask, TouchGetByNumber, TouchSave, CancelPlanned,
         Register, PollRetry, PollError, PollFinal, PollInvalid, PollProcessed, WaitTimer,
         WaitCancelled, SaveInvalid, CancelTx, SaveProcessed
<1> QED BY <1>1, OthersStay DEF AboutToPay

\* In a calm process who goes on to refuse an order was told so.
LEMMA RefusalStep ==
  ASSUME IInv, phase = "running", Calm, Calm', NEW w \in Workers, WorkerStep(w)
  PROVE  RefusalKnown(w)'
<1> SUFFICES ASSUME pc'[w] = "saveInvalid" PROVE service'[task'[w].number] = "INVALID"
  BY DEF RefusalKnown
<1>0. /\ pc \in [Workers -> {"idle", "getByNumber"} \cup Holding] /\ TypeOK
      /\ failures \in Nat
  BY BoundsAssumption DEF IInv, TypeOK
<1>1. ~PollError(w) /\ ~WaitCancelled(w)
  BY <1>0 DEF Calm, PollError, WaitCancelled, Cancelled
<1>2. ASSUME NEW p, Goto(w, p) PROVE p = "saveInvalid"
  BY <1>0, <1>2 DEF Goto
<1>3. ~Finish(w)
  BY <1>0 DEF Finish
<1>4. ~TakeTask(w) /\ ~TouchGetByNumber(w) /\ ~Register(w)
  BY <1>0, <1>3 DEF TakeTask, TouchGetByNumber, Register
<1>5. ~TouchSave(w) /\ ~CancelPlanned(w) /\ ~SaveInvalid(w) /\ ~CancelTx(w)
  BY <1>2, <1>3 DEF TouchSave, CancelPlanned, SaveInvalid, CancelTx
<1>6. ~PollRetry(w) /\ ~WaitTimer(w)
  BY <1>2 DEF PollRetry, WaitTimer
<1>7. ~SaveProcessed(w) /\ ~Approve(w)
  BY <1>0, <1>2, <1>3, CalmResult DEF SaveProcessed, Approve
<1>8. ~PollProcessed(w)
  <2>1. ASSUME NEW res, DbResult(Cancelled(w), res),
               IF res = "ok" /\ ChangeStatusAllowed(copy[w].status)
               THEN ChangeStatus(w, "PROCESSED", "saveProcessed") ELSE FailOrder(w)
        PROVE  FALSE
    <3>1. res = "ok"
      BY <1>0, <2>1, CalmResult
    <3>2. CASE ChangeStatusAllowed(copy[w].status)
      BY <1>0, <2>1, <3>1, <3>2 DEF ChangeStatus
    <3>3. CASE ~ChangeStatusAllowed(copy[w].status)
      BY <1>3, <2>1, <3>1, <3>3 DEF FailOrder
    <3> QED BY <3>2, <3>3
  <2> QED BY <2>1 DEF PollProcessed
<1>9. PollInvalid(w)
  BY <1>1, <1>4, <1>5, <1>6, <1>7, <1>8 DEF WorkerStep, PollFinal
<1>10. task' = task
  BY <1>3, <1>9 DEF PollInvalid, FailOrder, ChangeStatus
<1> QED BY <1>0, <1>9, <1>10, OthersStay DEF PollInvalid

\* An order that is PROCESSED now was so before, or is saved by a worker that
\* goes on to pay it.
LEMMA SavedToPay ==
  ASSUME IInv, phase = "running", Calm, Calm', NEW w \in Workers, WorkerStep(w),
         NEW n \in Orders, order'[n] # None, order'[n].status = "PROCESSED"
  PROVE  order'[n] = order[n] \/ AboutToPay(w, n)'
<1>1. CASE UNCHANGED order
  BY <1>1
<1>2. CASE TouchSave(w) \/ SaveInvalid(w) \/ SaveProcessed(w)
  <2>1. /\ pc[w] \in {"saveTouched", "saveInvalid", "saveProcessed"} /\ pc[w] \in Holding
        /\ \E res \in Results :
             /\ DbResult(Cancelled(w), res) /\ SaveCopy(w, res)
             /\ pc[w] = "saveProcessed" => (res = "ok" => Goto(w, "approve"))
    BY <1>2 DEF TouchSave, SaveInvalid, SaveProcessed, Holding, HasTx
  <2>2. Save(copy[w].user, task[w].number, copy[w].status)
        /\ (pc[w] = "saveProcessed" => Goto(w, "approve"))
    BY <2>1, CalmResult DEF SaveCopy, IInv
  <2>3. /\ task[w] \in Task /\ copy[w] \in Copy
        /\ order \in [Orders -> OrderRow \cup {None}]
        /\ pc[w] # "saveProcessed" => copy[w].status # "PROCESSED"
    BY <2>1 DEF IInv, TypeOK, WorkerInv, Holding, HasTx
  <2>4. /\ order'[task[w].number].status = copy[w].status
        /\ \A m \in Orders \ {task[w].number} : order'[m] = order[m]
    BY <2>2, <2>3, SaveTypes DEF Task, Copy
  <2>5. CASE n # task[w].number
    BY <2>4, <2>5
  <2>6. CASE n = task[w].number
    <3>1. Goto(w, "approve")
      BY <2>1, <2>2, <2>3, <2>4, <2>6
    <3> QED BY <2>6, <3>1 DEF Goto, AboutToPay, IInv, TypeOK
  <2> QED BY <2>5, <2>6
<1>3. UNCHANGED order \/ TouchSave(w) \/ SaveInvalid(w) \/ SaveProcessed(w)
  BY DEF WorkerStep, TakeTask, TouchGetByNumber, CancelPlanned, Register, PollRetry,
         PollError, PollFinal, PollInvalid, PollProcessed, WaitTimer, WaitCancelled,
         CancelTx, Approve, db
<1> QED BY <1>1, <1>2, <1>3

\* In a calm process who is about to pay n pays n.
LEMMA ApprovePays ==
  ASSUME IInv, phase = "running", Calm, Calm', NEW w \in Workers, Approve(w),
         NEW n \in Orders, AboutToPay(w, n)
  PROVE  Paid(n)'
<1>1. pc[w] \in HasTx /\ n = task[w].number
  BY DEF Approve, HasTx, AboutToPay
<1>2. PICK t \in TxIds : t = txid[w] /\ tx[t] \in TxRow /\ tx[t].order = n
  BY <1>1, OwnRow
<1>3. ApproveTransaction(t, AccrualValue[n])
  BY <1>1, <1>2, CalmResult DEF Approve, IInv
<1>4. TxRecord(tx[t].user, n, AccrualValue[n], "PROCESSED") \in TxRow
  BY <1>2, AccrualAssumption DEF TxRecord, TxRow
<1>5. tx'[t] = TxRecord(tx[t].user, n, AccrualValue[n], "PROCESSED")
  BY <1>2, <1>3 DEF ApproveTransaction, IInv, TypeOK
<1>6. tx'[t] # None
  BY <1>4, <1>5, NoneAssumption
<1> QED BY <1>5, <1>6 DEF Paid, Processed, TxRecord

LEMMA CalmStep == IInv /\ CalmInv /\ [Next]_vars => CalmInv'
<1> SUFFICES ASSUME IInv, CalmInv, [Next]_vars, Calm'
             PROVE  /\ phase' = "running"
                    /\ \A n \in Orders : AwardKept(n)'
                    /\ \A w \in Workers : RefusalKnown(w)'
  BY DEF CalmInv
<1>1. /\ TypeOK /\ Calm /\ phase = "running" /\ \A n \in Orders : AwardKept(n)
      /\ \A w \in Workers : RefusalKnown(w)
  BY CalmBefore DEF IInv, CalmInv
<1>2. phase' = "running" /\ ~Shutdown /\ ~Ending /\ ~Crash /\ ~Restart
  BY <1>1, CalmRunning
<1>3. ASSUME NEW n \in Orders, order'[n] # None, order'[n].status = "PROCESSED"
      PROVE  Paid(n)' \/ \E w \in Workers : AboutToPay(w, n)'
  <2>1. Paid(n) => Paid(n)'
    BY ApprovedStep DEF Paid, Processed
  <2>2. ASSUME NEW w \in Workers, WorkerStep(w)
        PROVE  Paid(n)' \/ \E v \in Workers : AboutToPay(v, n)'
    <3>1. CASE order'[n] # order[n]
      BY <1>1, <1>3, <2>2, <3>1, SavedToPay
    <3>2. CASE order'[n] = order[n]
      <4>1. Paid(n) \/ \E v \in Workers : AboutToPay(v, n)
        BY <1>1, <1>3, <3>2 DEF AwardKept
      <4>2. ASSUME NEW v \in Workers, AboutToPay(v, n)
            PROVE  Paid(n)' \/ AboutToPay(v, n)'
        <5>1. CASE ~Approve(w)
          BY <1>1, <2>2, <4>2, <5>1, OthersPay
        <5>2. CASE Approve(w) /\ v = w
          BY <1>1, <4>2, <5>2, ApprovePays
        <5>3. CASE Approve(w) /\ v # w
          BY <4>2, <5>3, ApproveFinishes DEF OnlyWorker, AboutToPay
        <5> QED BY <5>1, <5>2, <5>3
      <4> QED BY <2>1, <4>1, <4>2
    <3> QED BY <3>1, <3>2
  <2>3. ASSUME NEW r \in Requests, UploadStep(r)
        PROVE  Paid(n)' \/ \E v \in Workers : AboutToPay(v, n)'
    <3>1. UNCHANGED <<pc, task>>
      BY <2>3 DEF UploadStep, UploadGetByNumber, UploadSave, UploadProcess, worker
    <3>2. order'[n] = order[n]
      <4>1. CASE UploadSave(r)
        <5>1. PICK u \in Users, m \in Orders : u = request[r].user /\ m = request[r].number
          BY <4>1 DEF UploadSave, IInv, RequestInv
        <5>2. UNCHANGED order \/ Save(u, m, "NEW")
          BY <4>1, <5>1 DEF UploadSave
        <5> QED BY <1>1, <1>3, <5>2, SaveTypes DEF TypeOK, Statuses
      <4>2. CASE UploadGetByNumber(r) \/ UploadProcess(r)
        BY <4>2 DEF UploadGetByNumber, UploadProcess, db
      <4> QED BY <2>3, <4>1, <4>2 DEF UploadStep
    <3> QED BY <1>1, <1>3, <2>1, <3>1, <3>2 DEF AwardKept, AboutToPay
  <2>4. ASSUME Recover \/ (\E m \in Orders : AccrualDecides(m)) \/ UNCHANGED vars
        PROVE  Paid(n)' \/ \E v \in Workers : AboutToPay(v, n)'
    <3>1. UNCHANGED <<order, pc, task>>
      BY <2>4 DEF Recover, RecoverList, RecoverEnqueue, AccrualDecides, vars, db, process, worker
    <3> QED BY <1>1, <1>3, <2>1, <3>1 DEF AwardKept, AboutToPay
  <2> QED BY <1>2, <2>2, <2>3, <2>4 DEF Next
<1>4. ASSUME NEW v \in Workers PROVE RefusalKnown(v)'
  <2>1. ASSUME NEW w \in Workers, WorkerStep(w) PROVE RefusalKnown(v)'
    <3>1. CASE v = w
      BY <1>1, <2>1, <3>1, RefusalStep
    <3>2. CASE v # w
      BY <1>1, <2>1, <3>2, OthersStay DEF RefusalKnown
    <3> QED BY <3>1, <3>2
  <2>2. ASSUME NEW r \in Requests, UploadStep(r) PROVE UNCHANGED <<pc, task, service>>
    BY <2>2 DEF UploadStep, UploadGetByNumber, UploadSave, UploadProcess, worker
  <2>3. ASSUME Recover \/ UNCHANGED vars PROVE UNCHANGED <<pc, task, service>>
    BY <2>3 DEF Recover, RecoverList, RecoverEnqueue, vars, process, worker
  <2>4. ASSUME NEW n \in Orders, AccrualDecides(n) PROVE RefusalKnown(v)'
    <3>1. UNCHANGED <<pc, task>> /\ \A m : service[m] = "INVALID" => service'[m] = "INVALID"
      BY <1>1, <2>4 DEF AccrualDecides, process, worker, TypeOK
    <3> QED BY <1>1, <3>1 DEF RefusalKnown
  <2>5. CASE UNCHANGED <<pc, task, service>>
    BY <1>1, <2>5 DEF RefusalKnown
  <2> QED BY <1>2, <2>1, <2>2, <2>3, <2>4, <2>5 DEF Next
<1> QED BY <1>2, <1>3, <1>4 DEF AwardKept

LEMMA CalmInvariance == Spec => []CalmInv
<1>1. Init => CalmInv
  BY DEF Init, CalmInv, AwardKept, RefusalKnown
<1> QED BY <1>1, CalmStep, Invariance, PTL DEF Spec

\* Without a failed statement, a crash or a shutdown every PROCESSED order is
\* paid or about to be, whoever else has held it (AwardsArePaid).
THEOREM AwardsPaid == Spec => []AwardsArePaid
<1>1. CalmInv => AwardsArePaid
  BY DEF CalmInv, AwardKept, AboutToPay, AwardsArePaid
<1> QED BY <1>1, CalmInvariance, PTL
-----------------------------------------------------------------------------
(* The book.                                                               *)

Stages == [n \in Orders |-> Stage(n)]
Owners == [n \in Orders |-> IF order[n] = None THEN None ELSE order[n].user]

\* Only an order that has a row is contended.
ContendedRows == \A n \in contended : order[n] # None

\* No row of the order table changes but that of n, which keeps its user.
RowsKept(n) ==
  /\ order[n] # None /\ order'[n] # None /\ order'[n].user = order[n].user
  /\ \A m \in Orders \ {n} : order'[m] = order[m]

\* No order is paid in this step, and none is unpaid.
PaidKept == \A n \in Orders : Paid(n)' <=> Paid(n)
-----------------------------------------------------------------------------
(* What the book shows of a step.                                          *)

LEMMA StageSame ==
  ASSUME NEW n \in Orders, order'[n] = order[n], n \in contended' <=> n \in contended,
         Paid(n)' <=> Paid(n)
  PROVE  Stage(n)' = Stage(n)
BY DEF Stage

LEMMA StagesMove ==
  ASSUME NEW n \in Orders, NEW s, Stage(n)' = s,
         \A m \in Orders \ {n} : Stage(m)' = Stage(m)
  PROVE  Stages' = [Stages EXCEPT ![n] = s]
BY DEF Stages

LEMMA OwnersKept ==
  ASSUME NEW n \in Orders, RowsKept(n)
  PROVE  Owners' = Owners
BY DEF Owners, RowsKept

LEMMA StutterBook ==
  ASSUME UNCHANGED <<order, contended, service, balance>>, PaidKept
  PROVE  UNCHANGED Book!book
<1>1. \A n \in Orders : Stage(n)' = Stage(n)
  BY StageSame DEF PaidKept
<1> QED BY <1>1 DEF Book!book

LEMMA PaidKeptStep ==
  ASSUME IInv, [Next]_vars, \A w \in Workers : ~Approve(w)
  PROVE  PaidKept /\ balance' = balance
<1>1. balance' = balance /\ \A t \in TxIds : Processed(t)' => Processed(t)
  BY OtherLedger
<1>2. \A t \in TxIds : Processed(t) => tx'[t] = tx[t]
  BY ApprovedStep
<1>3. ASSUME NEW n \in Orders PROVE Paid(n)' <=> Paid(n)
  BY <1>1, <1>2 DEF Paid, Processed
<1> QED BY <1>1, <1>3 DEF PaidKept
-----------------------------------------------------------------------------
(* Uploads.                                                                *)

LEMMA UploadSaveBook ==
  ASSUME IInv, ContendedRows, NEW r \in Requests, UploadSave(r), PaidKept
  PROVE  (Book!BStep \/ UNCHANGED Book!book) /\ ContendedRows'
<1>1. PICK u \in Users, n \in Orders : u = request[r].user /\ n = request[r].number
  BY DEF UploadSave, IInv, RequestInv
<1>2. PICK res \in Results :
        /\ Conflicts(u, n) => res = "fail"
        /\ IF res = "fail" THEN UNCHANGED order ELSE Save(u, n, "NEW")
        /\ contended' = IF res # "fail" /\ order[n] # None
                        THEN contended \cup {n} ELSE contended
  BY <1>1 DEF UploadSave
<1>3. UNCHANGED <<balance, service>> /\ contended \subseteq Orders
  BY DEF UploadSave, IInv, TypeOK
<1>4. CASE res = "fail"
  BY <1>2, <1>3, <1>4, StutterBook DEF ContendedRows
<1>5. CASE res # "fail"
  <2>1. /\ order'[n] # None /\ order'[n].status = "NEW" /\ OrderStable
        /\ order[n] = None => order'[n].user = u
        /\ \A m \in Orders \ {n} : order'[m] = order[m]
    <3>1. order \in [Orders -> OrderRow \cup {None}] /\ "NEW" \in Statuses /\ Save(u, n, "NEW")
      BY <1>2, <1>5 DEF IInv, TypeOK, Statuses
    <3> QED BY <3>1, SaveTypes
  <2>2. ContendedRows'
    BY <1>2, <1>3, <2>1 DEF ContendedRows, OrderStable
  <2>3. \A m \in Orders \ {n} : Stage(m)' = Stage(m)
    BY <1>2, <2>1, StageSame DEF PaidKept
  <2>4. CASE order[n] = None
    <3>1. Stage(n) = "absent" /\ Stage(n)' = "open"
      BY <1>2, <2>1, <2>4 DEF ContendedRows, Stage, Terminal
    <3>2. Stages' = [Stages EXCEPT ![n] = "open"]
      BY <2>3, <3>1, StagesMove
    <3>3. Owners' = [Owners EXCEPT ![n] = u]
      BY <2>1, <2>4 DEF Owners
    <3>4. Book!Claim(n)
      BY <1>3, <3>1, <3>2, <3>3 DEF Book!Claim, Book!Move, Stages, Owners
    <3> QED BY <2>2, <3>4 DEF Book!BStep
  <2>5. CASE order[n] # None
    <3>1. Stage(n)' = "contested" /\ Stage(n) # "absent"
      BY <1>2, <1>5, <2>5 DEF Stage
    <3>2. Stages' = [Stages EXCEPT ![n] = "contested"]
      BY <2>3, <3>1, StagesMove
    <3>3. Owners' = Owners
      BY <2>1, <2>5, OwnersKept DEF RowsKept, OrderStable
    <3>4. Book!Contest(n)
      BY <1>3, <3>1, <3>2, <3>3 DEF Book!Contest, Stages, Owners
    <3> QED BY <2>2, <3>4 DEF Book!BStep
  <2> QED BY <2>4, <2>5
<1> QED BY <1>4, <1>5
-----------------------------------------------------------------------------
(* Workers.                                                                *)

\* A touch that finds another holder makes the order contested.
LEMMA TouchBook ==
  ASSUME IInv, ContendedRows, NEW w \in Workers, TouchGetByNumber(w), PaidKept
  PROVE  (Book!BStep \/ UNCHANGED Book!book) /\ ContendedRows'
<1>1. PICK n \in Orders : n = task[w].number
  BY DEF TouchGetByNumber, IInv, WorkerInv, Task
<1>2. /\ UNCHANGED <<order, balance, service>>
      /\ \/ contended' = contended
         \/ contended' = contended \cup {n} /\ order[n] # None
  BY <1>1 DEF TouchGetByNumber, db
<1>3. ContendedRows'
  BY <1>2 DEF ContendedRows
<1>4. CASE contended' = contended
  BY <1>2, <1>3, <1>4, StutterBook
<1>5. CASE contended' = contended \cup {n} /\ order[n] # None
  <2>1. \A m \in Orders \ {n} : Stage(m)' = Stage(m)
    BY <1>2, <1>5, StageSame DEF PaidKept
  <2>2. Stage(n)' = "contested" /\ Stage(n) # "absent"
    BY <1>5 DEF Stage
  <2>3. Stages' = [Stages EXCEPT ![n] = "contested"]
    BY <2>1, <2>2, StagesMove
  <2>4. Owners' = Owners
    BY <1>2 DEF Owners
  <2>5. Book!Contest(n)
    BY <1>2, <2>2, <2>3, <2>4 DEF Book!Contest, Stages, Owners
  <2> QED BY <1>3, <2>5 DEF Book!BStep
<1> QED BY <1>2, <1>4, <1>5

\* A worker saves its copy: the order stays open, or is refused or awarded.
LEMMA SaveCopyBook ==
  ASSUME IInv, UInv, CalmInv, ContendedRows, NEW w \in Workers, PaidKept,
         TouchSave(w) \/ SaveInvalid(w) \/ SaveProcessed(w)
  PROVE  (Book!BStep \/ UNCHANGED Book!book) /\ ContendedRows'
<1>1. PICK n \in Orders : n = task[w].number
  BY DEF TouchSave, SaveInvalid, SaveProcessed, IInv, WorkerInv, Task
<1>2. /\ UNCHANGED <<contended, balance, service>>
      /\ pc[w] \in {"saveTouched", "saveInvalid", "saveProcessed"} /\ pc[w] \in Holding
      /\ \E res \in Results : SaveCopy(w, res)
  BY DEF TouchSave, SaveInvalid, SaveProcessed, Holding, HasTx
<1>3. /\ copy[w] \in Copy /\ order[n] # None /\ contended \subseteq Orders
      /\ order \in [Orders -> OrderRow \cup {None}]
      /\ pc[w] = "saveTouched" => copy[w].status = "PROCESSING"
      /\ pc[w] = "saveInvalid" => copy[w].status = "INVALID"
      /\ pc[w] = "saveProcessed" => copy[w].status = "PROCESSED" /\ service[n] = "PROCESSED"
  BY <1>1, <1>2 DEF IInv, TypeOK, WorkerInv
<1>4. CASE UNCHANGED order
  BY <1>2, <1>4, StutterBook DEF ContendedRows
<1>5. CASE Save(copy[w].user, n, copy[w].status)
  <2>1. /\ order'[n] # None /\ order'[n].status = copy[w].status /\ OrderStable
        /\ \A m \in Orders \ {n} : order'[m] = order[m]
    <3>1. copy[w].user \in Users /\ copy[w].status \in Statuses
      BY <1>3 DEF Copy
    <3> QED BY <1>3, <1>5, <3>1, SaveTypes
  <2>2. ContendedRows'
    BY <1>2, <1>3, <2>1 DEF ContendedRows, OrderStable
  <2>3. \A m \in Orders \ {n} : Stage(m)' = Stage(m)
    BY <1>2, <2>1, StageSame DEF PaidKept
  <2>4. Owners' = Owners
    BY <1>3, <2>1, OwnersKept DEF RowsKept, OrderStable
  <2>5. CASE Stage(n)' = Stage(n)
    <3>1. Stages' = Stages
      BY <2>3, <2>5 DEF Stages
    <3> QED BY <1>2, <2>2, <2>4, <3>1 DEF Book!book, Stages, Owners
  <2>6. CASE Stage(n)' # Stage(n)
    <3>1. n \notin contended
      BY <1>2, <2>6 DEF Stage
    <3>2. order[n].status \notin Terminal /\ ~Paid(n) /\ ~Paid(n)'
      <4>1. UncontendedInv(task[w].number)
        BY <1>1, <3>1 DEF UInv
      <4>2. /\ order[n].status \notin Terminal
            /\ \A t \in TxIds : Processed(t) => tx[t].order # n
        BY <1>1, <1>2, <4>1, Held
      <4> QED BY <4>2 DEF Paid, PaidKept
    <3>3. Stage(n) = "open"
      BY <1>3, <3>1, <3>2 DEF Stage
    <3>4. CASE pc[w] = "saveTouched"
      BY <1>2, <1>3, <2>1, <2>6, <3>1, <3>3, <3>4 DEF Stage, Terminal
    <3>5. CASE pc[w] = "saveInvalid"
      <4>1. Stage(n)' = "refused"
        BY <1>2, <1>3, <2>1, <3>1, <3>5 DEF Stage, Terminal
      <4>2. Stages' = [Stages EXCEPT ![n] = "refused"]
        BY <2>3, <4>1, StagesMove
      <4>3. Book!Move(n, "open", "refused")
        BY <3>3, <4>2 DEF Book!Move, Stages
      <4>4. service[n] = "INVALID" \/ ~Calm
        BY <1>1, <3>5 DEF CalmInv, RefusalKnown
      <4>5. Book!Refuse(n) \/ Book!GiveUp(n)
        BY <1>2, <2>4, <4>3, <4>4 DEF Book!Refuse, Book!GiveUp, Stages, Owners
      <4> QED BY <2>2, <4>5 DEF Book!BStep
    <3>6. CASE pc[w] = "saveProcessed"
      <4>1. Stage(n)' = "awarded"
        BY <1>2, <1>3, <2>1, <3>1, <3>2, <3>6 DEF Stage, Terminal
      <4>2. Stages' = [Stages EXCEPT ![n] = "awarded"]
        BY <2>3, <4>1, StagesMove
      <4>3. Book!Award(n)
        BY <1>2, <1>3, <2>4, <3>3, <3>6, <4>2 DEF Book!Award, Book!Move, Stages, Owners
      <4> QED BY <2>2, <4>3 DEF Book!BStep
    <3> QED BY <1>2, <3>4, <3>5, <3>6
  <2> QED BY <2>5, <2>6
<1> QED BY <1>1, <1>2, <1>4, <1>5 DEF SaveCopy

\* An approval pays the owner, for the first time unless the order is contested.
LEMMA ApproveBook ==
  ASSUME IInv, UInv, ContendedRows, NEW w \in Workers, Approve(w)
  PROVE  (Book!BStep \/ UNCHANGED Book!book) /\ ContendedRows'
<1>1. pc[w] = "approve" /\ pc[w] \in HasTx /\ pc[w] \in Holding
  BY DEF Approve, HasTx, Holding
<1>2. PICK n \in Orders, t \in TxIds :
        /\ n = task[w].number /\ t = txid[w]
        /\ tx[t] \in TxRow /\ tx[t].order = n /\ ~Processed(t)
        /\ order[n] # None /\ order[n].user = tx[t].user /\ service[n] = "PROCESSED"
  <2>1. service[task[w].number] = "PROCESSED"
    BY <1>1 DEF IInv, WorkerInv
  <2> QED BY <1>1, <2>1, OwnRow DEF Task, Processed
<1>3. UNCHANGED <<order, service, contended>>
  BY DEF Approve
<1>4. ContendedRows'
  BY <1>3 DEF ContendedRows
<1>5. CASE UNCHANGED <<tx, balance>>
  BY <1>3, <1>4, <1>5, StutterBook DEF PaidKept, Paid, Processed
<1>6. CASE ApproveTransaction(t, AccrualValue[n])
  <2>1. /\ tx' = [tx EXCEPT ![t] = TxRecord(tx[t].user, n, AccrualValue[n], "PROCESSED")]
        /\ balance' = [balance EXCEPT ![order[n].user] = @ + AccrualValue[n]]
    BY <1>2, <1>6 DEF ApproveTransaction
  <2>2. /\ Processed(t)' /\ tx'[t].order = n
        /\ \A s \in TxIds \ {t} : tx'[s] = tx[s]
    <3>1. TxRecord(tx[t].user, n, AccrualValue[n], "PROCESSED") \in TxRow
      BY <1>2, AccrualAssumption DEF TxRecord, TxRow
    <3>2. /\ tx'[t] = TxRecord(tx[t].user, n, AccrualValue[n], "PROCESSED")
          /\ \A s \in TxIds \ {t} : tx'[s] = tx[s]
      BY <2>1 DEF IInv, TypeOK
    <3>3. tx'[t] # None
      BY <3>1, <3>2, NoneAssumption
    <3> QED BY <3>2, <3>3 DEF Processed, TxRecord
  <2>3. ASSUME NEW m \in Orders \ {n} PROVE Stage(m)' = Stage(m)
    <3>1. Paid(m)' <=> Paid(m)
      BY <1>2, <2>2 DEF Paid, Processed
    <3> QED BY <1>3, <3>1, StageSame
  <2>4. Owners' = Owners /\ Owners[n] = order[n].user
    BY <1>2, <1>3 DEF Owners
  <2>5. balance' = [balance EXCEPT ![Owners[n]] = @ + AccrualValue[n]]
    BY <2>1, <2>4
  <2>6. CASE n \in contended
    <3>1. Stage(n) = "contested" /\ Stage(n)' = "contested"
      BY <1>3, <2>6 DEF Stage
    <3>2. Stages' = Stages
      BY <2>3, <3>1 DEF Stages
    <3>3. Book!PayContested(n)
      BY <1>2, <1>3, <2>4, <2>5, <3>1, <3>2
         DEF Book!PayContested, Book!PayOwner, Stages, Owners
    <3> QED BY <1>4, <3>3 DEF Book!BStep
  <2>7. CASE n \notin contended
    <3>1. UncontendedInv(task[w].number)
      BY <1>2, <2>7 DEF UInv
    <3>2. /\ order[n].status = "PROCESSED"
          /\ \A s \in TxIds : Processed(s) => tx[s].order # n
      BY <1>1, <1>2, <3>1, Held
    <3>3. Stage(n) = "awarded" /\ Stage(n)' = "paid"
      BY <1>2, <1>3, <2>2, <2>7, <3>2 DEF Stage, Paid, Terminal
    <3>4. Stages' = [Stages EXCEPT ![n] = "paid"]
      BY <2>3, <3>3, StagesMove
    <3>5. Book!Pay(n)
      BY <1>2, <1>3, <2>4, <2>5, <3>3, <3>4
         DEF Book!Pay, Book!PayOwner, Book!Move, Stages, Owners
    <3> QED BY <1>4, <3>5 DEF Book!BStep
  <2> QED BY <2>6, <2>7
<1> QED BY <1>2, <1>5, <1>6 DEF Approve
-----------------------------------------------------------------------------
LEMMA BookMoves ==
  ASSUME IInv, UInv, CalmInv, ContendedRows, [Next]_vars
  PROVE  (Book!BStep \/ UNCHANGED Book!book) /\ ContendedRows'
<1>1. CASE \E w \in Workers : Approve(w)
  BY <1>1, ApproveBook
<1>2. CASE \A w \in Workers : ~Approve(w)
  <2>1. PaidKept /\ balance' = balance
    BY <1>2, PaidKeptStep
  <2>2. CASE UNCHANGED <<order, contended, service>>
    BY <2>1, <2>2, StutterBook DEF ContendedRows
  <2>3. ASSUME NEW n \in Orders, AccrualDecides(n)
        PROVE  (Book!BStep \/ UNCHANGED Book!book) /\ ContendedRows'
    <3>1. UNCHANGED <<order, contended>>
      BY <2>3 DEF AccrualDecides, db, history
    <3>2. Stages' = Stages /\ Owners' = Owners
      BY <2>1, <3>1, StageSame DEF Stages, Owners, PaidKept
    <3>3. Book!Decide(n)
      BY <2>1, <2>3, <3>2 DEF AccrualDecides, Book!Decide, Stages, Owners, Terminal
    <3> QED BY <3>1, <3>3 DEF Book!BStep, ContendedRows
  <2>4. ASSUME NEW w \in Workers, WorkerStep(w)
        PROVE  \/ UNCHANGED <<order, contended, service>>
               \/ TouchGetByNumber(w) \/ TouchSave(w) \/ SaveInvalid(w) \/ SaveProcessed(w)
    BY <1>2, <2>4
       DEF WorkerStep, TakeTask, CancelPlanned, Register, PollRetry, PollError, PollFinal,
           PollInvalid, PollProcessed, WaitTimer, WaitCancelled, CancelTx, db, history
  <2>5. ASSUME NEW r \in Requests, UploadStep(r)
        PROVE  UNCHANGED <<order, contended, service>> \/ UploadSave(r)
    BY <2>5 DEF UploadStep, UploadGetByNumber, UploadProcess, db, history
  <2>6. ASSUME Recover PROVE UNCHANGED <<order, contended, service>>
    BY <2>6 DEF Recover, RecoverList, RecoverEnqueue, db, history
  <2>7. ASSUME Shutdown \/ Ending \/ Crash \/ Restart
        PROVE  UNCHANGED <<order, contended, service>>
    BY <2>7 DEF Shutdown, Ending, StopPool, Exit, Fatal, Crash, Restart, Halt, db, history
  <2>8. ASSUME UNCHANGED vars PROVE UNCHANGED <<order, contended, service>>
    BY <2>8 DEF vars, db, history
  <2> QED
    BY <2>1, <2>2, <2>3, <2>4, <2>5, <2>6, <2>7, <2>8, TouchBook, SaveCopyBook, UploadSaveBook
       DEF Next
<1> QED BY <1>1, <1>2

\* Calm does not come back.
LEMMA TroubleStays ==
  ASSUME TypeOK, [Next]_vars
  PROVE  (~Calm)' \in {~Calm, TRUE}
<1>1. Calm' => Calm
  BY CalmBefore
<1>2. CASE Calm'
  BY <1>1, <1>2
<1>3. CASE ~Calm'
  BY <1>3
<1> QED BY <1>2, <1>3

LEMMA BookStep ==
  IInv /\ UInv /\ CalmInv /\ ContendedRows /\ [Next]_vars =>
    [Book!BNext]_(Book!bvars) /\ ContendedRows'
<1> SUFFICES ASSUME IInv, UInv, CalmInv, ContendedRows, [Next]_vars
             PROVE  Book!BNext /\ ContendedRows'
  OBVIOUS
<1>1. (~Calm)' \in {~Calm, TRUE}
  BY TroubleStays DEF IInv
<1> QED BY <1>1, BookMoves DEF Book!BNext

LEMMA InitBook == Init => Book!BInit /\ ContendedRows
<1> SUFFICES ASSUME Init PROVE Book!BInit /\ ContendedRows
  OBVIOUS
<1>1. ContendedRows /\ \A n \in Orders : order[n] = None /\ Stage(n) = "absent"
  BY DEF Init, ContendedRows, Stage
<1>2. (~Calm) = FALSE
  BY DEF Init, Calm
<1> QED BY <1>1, <1>2 DEF Init, Book!BInit

\* The statements, with their failures, lost replies, recoveries and restarts,
\* implement the order book (ImplementsBook).
THEOREM BookImplemented == Spec => ImplementsBook
<1>1. Spec => Book!BSpec
  BY InitBook, BookStep, UncontendedInvariance, CalmInvariance, PTL DEF Spec, Book!BSpec
<1> QED BY <1>1 DEF ImplementsBook
=============================================================================
