--------------------------- MODULE OrderProcessing ---------------------------
(***************************************************************************)
(* The life of an uploaded order: POST /api/user/orders writes the row and *)
(* hands a task to the worker pool; a worker touches the order, registers  *)
(* a transaction, polls the accrual system and settles the order; a ticker *)
(* re-enqueues whatever is still NEW or PROCESSING.                        *)
(*                                                                         *)
(* Grain.  One action is one SQL statement, one call of the accrual system *)
(* or one channel operation.  WrapTransaction begins a database            *)
(* transaction, but the repositories run on the *sql.DB and not on it, so  *)
(* every statement commits by itself and the FOR UPDATE lock of            *)
(* GetByNumber is gone when the statement returns.  ApproveTransaction is  *)
(* the exception: it runs on a transaction of its own (module Accounts     *)
(* opens it up) and is one atomic step here.                               *)
(*                                                                         *)
(* Failures.  Each statement ends "ok", "fail" (not applied) or "lost"     *)
(* (applied, but the caller sees an error); the last two draw on           *)
(* MaxFailures.  Recovery tasks carry the root context: after SIGTERM all  *)
(* their statements end "fail" or "lost".  Upload tasks carry a context    *)
(* that is never cancelled.                                                *)
(***************************************************************************)
EXTENDS Naturals, Sequences, FiniteSetsExt

CONSTANTS
  Users, Orders,      \* user ids and order numbers
  Requests,           \* goroutines of the HTTP server, one upload each
  Workers,            \* goroutines of the worker pool
  QueueSize,          \* capacity of the pool's channel
  AccrualValue,       \* what the accrual system awards for each order
  MaxFailures,        \* bound: statements and calls that end in an error
  MaxTx,              \* bound: rows of the table "transaction"
  MaxRestarts,        \* bound: crashes and shutdowns
  MaxSeconds,         \* bound: values of uploaded_at
  None                \* absent row, unset local

ASSUME BoundsAssumption ==
  /\ QueueSize \in Nat /\ MaxFailures \in Nat /\ MaxTx \in Nat
  /\ MaxRestarts \in Nat /\ MaxSeconds \in Nat
ASSUME AccrualAssumption == AccrualValue \in [Orders -> Nat]

VARIABLES
  order,       \* table "order": order number -> row or None
  tx,          \* table "transaction": id -> row or None
  balance,     \* table "account": user -> current_balance
  service,     \* the accrual system's verdict on each order (external)
  queue,       \* the pool's channel of tasks
  pc,          \* worker -> the statement of processOrder it does next
  task,        \* worker -> number and allowProcessing of its task, or None
  copy,        \* worker -> the fields of its *domain.Order, or None
  txid,        \* worker -> transactionID, 0 before it is registered
  request,     \* the goroutines that serve POST /api/user/orders
  listed,      \* orders RecoverPending has read and not yet enqueued
  phase,       \* the process: running, cancelled, stopped (both shutting down), down
  failures, restarts,
  contended    \* history: orders two workers held at once, or re-inserted as NEW

db       == <<order, tx, balance>>
worker   == <<pc, task, copy, txid>>
process  == <<queue, worker, request, listed, phase>>
history  == <<failures, restarts, contended>>
vars     == <<db, process, service, history>>

\* Transaction ids.  RegisterTransaction draws a fresh uuid; here ids are drawn
\* in increasing order, and 0 is the id that is not set.
TxIds == 1..MaxTx

Terminal == {"INVALID", "PROCESSED"}
Statuses == {"NEW", "PROCESSING"} \cup Terminal

OrderRow == [user: Users, status: Statuses, uploadedAt: Nat]
TxRow    == [user: Users, order: Orders, accrual: Nat,
             status: {"PLANNED", "PROCESSED", "CANCELED"}]
Task     == [number: Orders, recovery: BOOLEAN]

ASSUME NoneAssumption ==
  None \notin Users /\ None \notin Orders /\ None \notin OrderRow /\ None \notin TxRow
  /\ None \notin Task

OrderRecord(u, s, at) == [user |-> u, status |-> s, uploadedAt |-> at]
TxRecord(u, n, a, s)  == [user |-> u, order |-> n, accrual |-> a, status |-> s]

\* Where a worker stands in processOrder: the statement or call it does next.
HasTx    == {"poll", "wait", "saveInvalid", "cancelTransaction",
             "saveProcessed", "approve"}
Holding  == {"saveTouched", "cancelPlanned", "register"} \cup HasTx
Copy     == [user: Users, status: Statuses]

Request  == [pc: {"getByNumber", "save", "process", "done", "aborted"},
             user: Users \cup {None}, number: Orders \cup {None},
             code: {0, 200, 202, 409, 500}]
RequestRecord(at, u, n, c) == [pc |-> at, user |-> u, number |-> n, code |-> c]

\* Worker w is past its read of order n and has not finished its task.
Holds(w, n) == pc[w] \in Holding /\ task[w].number = n

Init ==
  /\ order = [n \in Orders |-> None]
  /\ tx = [t \in TxIds |-> None]
  /\ balance = [u \in Users |-> 0]
  /\ service = [n \in Orders |-> "PENDING"]
  /\ queue = <<>>
  /\ pc = [w \in Workers |-> "idle"]
  /\ task = [w \in Workers |-> None]
  /\ copy = [w \in Workers |-> None]
  /\ txid = [w \in Workers |-> 0]
  /\ request = [r \in Requests |-> RequestRecord("getByNumber", None, None, 0)]
  /\ listed = {}
  /\ phase = "running"
  /\ failures = 0 /\ restarts = 0 /\ contended = {}

-----------------------------------------------------------------------------
(* Statements.                                                             *)

\* A statement that runs under a live or a cancelled context ends with res.
DbResult(cancelled, res) ==
  \/ /\ ~cancelled
     /\ res = "ok"
     /\ UNCHANGED failures
  \/ /\ ~cancelled
     /\ failures < MaxFailures
     /\ res \in {"fail", "lost"}
     /\ failures' = failures + 1
  \/ /\ cancelled
     /\ res \in {"fail", "lost"}
     /\ UNCHANGED failures

Results == {"ok", "fail", "lost"}

\* UNIQUE (order_num): the number is already another user's.
NoUniqueNumber(u, n) == FALSE      \* faulty variant: the constraint is missing
Conflicts(u, n) == order[n] # None /\ order[n].user # u

\* INSERT ... ON CONFLICT (user_id, order_num) DO UPDATE SET status.
Save(u, n, s) ==
  IF order[n] = None
  THEN \E at \in 0..MaxSeconds :
         /\ \A m \in Orders : order[m] # None => order[m].uploadedAt <= at
         /\ order' = [order EXCEPT ![n] = OrderRecord(u, s, at)]
  ELSE order' = [order EXCEPT ![n] = OrderRecord(order[n].user, s, order[n].uploadedAt)]

\* Rows CancelPlannedTransactionsByOrder selects.  Faulty variants: it selects
\* rows in any status; it selects none.
AnyStatusFor(t, u, n) == tx[t] # None /\ tx[t].user = u /\ tx[t].order = n
NoneFor(t, u, n) == FALSE
PlannedFor(t, u, n) == /\ tx[t] # None
                       /\ tx[t].user = u /\ tx[t].order = n
                       /\ tx[t].status = "PLANNED"

Canceled(t) == TxRecord(tx[t].user, tx[t].order, tx[t].accrual, "CANCELED")

CancelPlannedTransactionsByOrder(u, n) ==
  tx' = [t \in TxIds |-> IF PlannedFor(t, u, n) THEN Canceled(t) ELSE tx[t]]

RegisterTransaction(t, u, n) ==
  /\ tx[t] = None /\ \A s \in 1..(t - 1) : tx[s] # None
  /\ tx' = [tx EXCEPT ![t] = TxRecord(u, n, 0, "PLANNED")]

CancelTransaction(t) == tx' = [tx EXCEPT ![t] = Canceled(t)]

\* ApproveTransaction with an accrual, whatever the row's status was.  Faulty
\* variant: the row is not updated.
ApproveUnrecorded(t, v) ==
  /\ UNCHANGED tx
  /\ balance' = [balance EXCEPT ![tx[t].user] = @ + v]
ApproveTransaction(t, v) ==
  /\ tx' = [tx EXCEPT ![t] = TxRecord(tx[t].user, tx[t].order, v, "PROCESSED")]
  /\ balance' = [balance EXCEPT ![tx[t].user] = @ + v]

\* Order.ChangeStatus refuses to leave a terminal status; it looks only at
\* the copy in memory.
ChangeAlways(s) == TRUE            \* faulty variant: the check is gone
ChangeStatusAllowed(s) == s \notin Terminal

-----------------------------------------------------------------------------
(* The worker pool as its users see it (module WorkerPool opens it up).    *)

\* WorkerPool.Add: a full or stopped pool drops the task.
AddUnbounded(t) == queue' = Append(queue, t)       \* faulty variant
Add(t) == IF phase # "stopped" /\ Len(queue) < QueueSize
          THEN queue' = Append(queue, t) ELSE UNCHANGED queue

-----------------------------------------------------------------------------
(* POST /api/user/orders.                                                  *)

SetRequest(r, at, u, n, code) ==
  request' = [request EXCEPT ![r] = RequestRecord(at, u, n, code)]

\* buildOrder, on the row of n and the accruals the statement has loaded with it.
BuildOrder(n, accruals) == order[n].status = "PROCESSED" => accruals # {}

\* What the handler answers for the row it read; GetByNumber loads no accrual.
UploadAnswer(u, n) ==
  IF ~BuildOrder(n, {}) THEN 500 ELSE IF order[n].user = u THEN 200 ELSE 409

UploadGetByNumber(r) ==
  /\ phase # "down" /\ request[r].pc = "getByNumber"
  /\ \E u \in Users, n \in Orders, res \in {"ok", "fail"} :
       /\ DbResult(FALSE, res)
       /\ CASE res = "fail" -> SetRequest(r, "done", u, n, 500)
            [] res = "ok" /\ order[n] = None -> SetRequest(r, "save", u, n, 0)
            [] res = "ok" /\ order[n] # None -> SetRequest(r, "done", u, n, UploadAnswer(u, n))
  /\ UNCHANGED <<db, queue, worker, listed, phase, service, restarts, contended>>

UploadSave(r) ==
  LET u == request[r].user
      n == request[r].number
  IN /\ phase # "down" /\ request[r].pc = "save"
     /\ \E res \in Results :
          /\ IF Conflicts(u, n) THEN res = "fail" /\ UNCHANGED failures
                                ELSE DbResult(FALSE, res)
          /\ IF res = "fail" THEN UNCHANGED order ELSE Save(u, n, "NEW")
          /\ contended' = IF res # "fail" /\ order[n] # None
                          THEN contended \cup {n} ELSE contended
          /\ IF res = "ok" THEN SetRequest(r, "process", u, n, 0)
                           ELSE SetRequest(r, "done", u, n, 500)
     /\ UNCHANGED <<tx, balance, queue, worker, listed, phase, service, restarts>>

\* Processor.Process; the answer does not depend on whether the task was taken.
UploadProcess(r) ==
  /\ phase # "down" /\ request[r].pc = "process"
  /\ Add([number |-> request[r].number, recovery |-> FALSE])
  /\ SetRequest(r, "done", request[r].user, request[r].number, 202)
  /\ UNCHANGED <<db, worker, listed, phase, service, history>>

-----------------------------------------------------------------------------
(* GET /api/user/orders: one SELECT, so a view of the tables and no action *)

\* The accruals ListByUser finds for order n; it keeps the latest one.
ListedAccruals(n) ==
  {tx[t].accrual : t \in {t \in TxIds :
     /\ tx[t] # None /\ tx[t].user = order[n].user /\ tx[t].order = n
     /\ tx[t].status = "PROCESSED" /\ tx[t].accrual > 0}}

\* What a user is shown of an order: its status, and the points if there are any.
Shown(n) == [status |-> order[n].status, accruals |-> ListedAccruals(n)]

\* One order that is not built costs the user the whole list.
GetUserOrders(u) ==
  LET rows == {n \in Orders : order[n] # None /\ order[n].user = u}
  IN IF \E n \in rows : ~BuildOrder(n, ListedAccruals(n)) THEN 500
     ELSE IF rows = {} THEN 204 ELSE 200

-----------------------------------------------------------------------------
(* The recovery ticker: RecoverPending lists, then enqueues one by one.    *)

NewOnly(n) == order[n] # None /\ order[n].status = "NEW"   \* faulty variant
Recoverable(n) == order[n] # None /\ order[n].status \in {"NEW", "PROCESSING"}

RecoverList ==
  /\ phase = "running" /\ listed = {}
  /\ listed' = {n \in Orders : Recoverable(n)}
  /\ listed' # {}
  /\ UNCHANGED <<db, queue, worker, request, phase, service, history>>

RecoverEnqueue ==
  /\ phase # "down"
  /\ \E n \in listed :
       /\ \A m \in listed : order[n].uploadedAt <= order[m].uploadedAt
       /\ Add([number |-> n, recovery |-> TRUE])
       /\ listed' = listed \ {n}
  /\ UNCHANGED <<db, worker, request, phase, service, history>>

-----------------------------------------------------------------------------
(* processOrder, statement by statement.                                   *)

\* The root context is cancelled by SIGTERM; a recovery task runs under it.
Cancelled(w) == task[w].recovery /\ phase # "running"

Goto(w, p) == pc' = [pc EXCEPT ![w] = p] /\ UNCHANGED <<task, copy, txid>>
Finish(w) ==
  /\ pc' = [pc EXCEPT ![w] = "idle"] /\ task' = [task EXCEPT ![w] = None]
  /\ copy' = [copy EXCEPT ![w] = None] /\ txid' = [txid EXCEPT ![w] = 0]

\* ChangeStatus(s) on the copy in memory, then on to statement p.
ChangeStatus(w, s, p) ==
  /\ copy' = [copy EXCEPT ![w] = [user |-> copy[w].user, status |-> s]]
  /\ pc' = [pc EXCEPT ![w] = p]
  /\ UNCHANGED <<task, txid>>

\* failOrder up to its first statement: BeginTx needs a live context, then
\* ChangeStatus must accept.
FailOrder(w) ==
  IF ~Cancelled(w) /\ ChangeStatusAllowed(copy[w].status)
  THEN ChangeStatus(w, "INVALID", "saveInvalid") ELSE Finish(w)

\* orders.Save of the copy, ended with res.
SaveCopy(w, res) ==
  IF res = "fail" THEN UNCHANGED order
                  ELSE Save(copy[w].user, task[w].number, copy[w].status)

TakeTask(w) ==
  /\ phase # "down" /\ pc[w] = "idle" /\ queue # <<>>
  /\ queue' = Tail(queue)
  /\ pc' = [pc EXCEPT ![w] = "getByNumber"]
  /\ task' = [task EXCEPT ![w] = Head(queue)]
  /\ UNCHANGED <<copy, txid, db, request, listed, phase, service, history>>

\* touchOrder accepts NEW, and PROCESSING when the task comes from recovery.
TouchAlways(s, recovery) == TRUE   \* faulty variant: the status is not checked
Touchable(s, recovery) == s = "NEW" \/ (recovery /\ s = "PROCESSING")

TouchGetByNumber(w) ==
  LET n == task[w].number
  IN /\ pc[w] = "getByNumber"
     /\ \E res \in {"ok", "fail"} :
          /\ DbResult(Cancelled(w), res)
          /\ \/ /\ res = "ok" /\ order[n] # None
                /\ Touchable(order[n].status, task[w].recovery)
                /\ copy' = [copy EXCEPT ![w] = [user |-> order[n].user,
                                                status |-> "PROCESSING"]]
                /\ pc' = [pc EXCEPT ![w] = "saveTouched"]
                /\ UNCHANGED <<task, txid>>
                /\ contended' = IF \E v \in Workers \ {w} : Holds(v, n)
                                THEN contended \cup {n} ELSE contended
             \/ /\ \/ res = "fail" \/ order[n] = None
                   \/ ~Touchable(order[n].status, task[w].recovery)
                /\ Finish(w) /\ UNCHANGED contended
     /\ UNCHANGED <<db, queue, request, listed, phase, service, restarts>>

TouchSave(w) ==
  /\ pc[w] = "saveTouched"
  /\ \E res \in Results :
       /\ DbResult(Cancelled(w), res)
       /\ SaveCopy(w, res)
       /\ IF res = "ok" THEN Goto(w, "cancelPlanned") ELSE Finish(w)
  /\ UNCHANGED <<tx, balance, queue, request, listed, phase, service, restarts, contended>>

CancelPlanned(w) ==
  /\ pc[w] = "cancelPlanned"
  /\ \E res \in Results :
       /\ DbResult(Cancelled(w), res)
       /\ IF res = "fail" THEN UNCHANGED tx
          ELSE CancelPlannedTransactionsByOrder(copy[w].user, task[w].number)
       /\ IF res = "ok" THEN Goto(w, "register") ELSE Finish(w)
  /\ UNCHANGED <<order, balance, queue, request, listed, phase, service, restarts, contended>>

Register(w) ==
  /\ pc[w] = "register"
  /\ \E t \in TxIds, res \in Results :
       /\ DbResult(Cancelled(w), res)
       /\ IF res = "fail" THEN UNCHANGED tx
          ELSE RegisterTransaction(t, copy[w].user, task[w].number)
       /\ IF res = "ok"
          THEN /\ pc' = [pc EXCEPT ![w] = "poll"]
               /\ txid' = [txid EXCEPT ![w] = t]
               /\ UNCHANGED <<task, copy>>
          ELSE Finish(w)
  /\ UNCHANGED <<order, balance, queue, request, listed, phase, service, restarts, contended>>

\* Faulty variant of the next: what is not decided yet is a failure.
PollGivesUp(w) ==
  /\ pc[w] = "poll"
  /\ FailOrder(w)
  /\ UNCHANGED <<db, queue, request, listed, phase, service, history>>
\* 204, 429, or a 200 whose status is REGISTERED or PROCESSING: try again later.
PollRetry(w) ==
  /\ pc[w] = "poll"
  /\ Goto(w, "wait")
  /\ UNCHANGED <<db, queue, request, listed, phase, service, history>>

\* A network error, a 5xx, an undecodable answer, an unknown status.
PollError(w) ==
  /\ pc[w] = "poll" /\ failures < MaxFailures
  /\ failures' = failures + 1
  /\ FailOrder(w)
  /\ UNCHANGED <<db, queue, request, listed, phase, service, restarts, contended>>

PollInvalid(w) ==
  /\ pc[w] = "poll" /\ service[task[w].number] = "INVALID"
  /\ FailOrder(w)
  /\ UNCHANGED <<db, queue, request, listed, phase, service, history>>

\* successOrder up to its first statement.  If BeginTx fails the status in
\* memory is still PROCESSING, and the caller falls back to failOrder.
NotRefused(n) == service[n] # "INVALID"   \* faulty variant: pending is a verdict
Awarded(n) == service[n] = "PROCESSED"

PollProcessed(w) ==
  /\ pc[w] = "poll" /\ Awarded(task[w].number)
  /\ \E res \in {"ok", "fail"} :
       /\ DbResult(Cancelled(w), res)
       /\ IF res = "ok" /\ ChangeStatusAllowed(copy[w].status)
          THEN ChangeStatus(w, "PROCESSED", "saveProcessed") ELSE FailOrder(w)
  /\ UNCHANGED <<db, queue, request, listed, phase, service, restarts, contended>>

WaitTimer(w) ==
  /\ pc[w] = "wait"
  /\ Goto(w, "poll")
  /\ UNCHANGED <<db, queue, request, listed, phase, service, history>>

WaitCancelled(w) ==
  /\ pc[w] = "wait" /\ Cancelled(w)
  /\ FailOrder(w)
  /\ UNCHANGED <<db, queue, request, listed, phase, service, history>>

SaveInvalid(w) ==
  /\ pc[w] = "saveInvalid"
  /\ \E res \in Results :
       /\ DbResult(Cancelled(w), res)
       /\ SaveCopy(w, res)
       /\ IF res = "ok" THEN Goto(w, "cancelTransaction") ELSE Finish(w)
  /\ UNCHANGED <<tx, balance, queue, request, listed, phase, service, restarts, contended>>

CancelTx(w) ==
  /\ pc[w] = "cancelTransaction"
  /\ \E res \in Results :
       /\ DbResult(Cancelled(w), res)
       /\ IF res = "fail" THEN UNCHANGED tx ELSE CancelTransaction(txid[w])
  /\ Finish(w)
  /\ UNCHANGED <<order, balance, queue, request, listed, phase, service, restarts, contended>>

SaveProcessed(w) ==
  /\ pc[w] = "saveProcessed"
  /\ \E res \in Results :
       /\ DbResult(Cancelled(w), res)
       /\ SaveCopy(w, res)
       /\ IF res = "ok" THEN Goto(w, "approve") ELSE FailOrder(w)
  /\ UNCHANGED <<tx, balance, queue, request, listed, phase, service, restarts, contended>>

Approve(w) ==
  /\ pc[w] = "approve"
  /\ \E res \in Results :
       /\ DbResult(Cancelled(w), res)
       /\ IF res = "fail" THEN UNCHANGED <<tx, balance>>
          ELSE ApproveTransaction(txid[w], AccrualValue[task[w].number])
       /\ IF res = "ok" THEN Finish(w) ELSE FailOrder(w)
  /\ UNCHANGED <<order, queue, request, listed, phase, service, restarts, contended>>

-----------------------------------------------------------------------------
(* The accrual system, and the process's own life.                         *)

AccrualDecides(n) ==
  /\ service[n] = "PENDING"
  /\ \E s \in Terminal : service' = [service EXCEPT ![n] = s]
  /\ UNCHANGED <<db, process, history>>

\* SIGTERM cancels the root context ...
Shutdown ==
  /\ phase = "running" /\ restarts < MaxRestarts
  /\ restarts' = restarts + 1
  /\ phase' = "cancelled"
  /\ UNCHANGED <<db, queue, worker, request, listed, service, failures, contended>>

\* ... then WorkerPool.Stop closes the pool, whose queued tasks still run.
StopPool ==
  /\ phase = "cancelled"
  /\ phase' = "stopped"
  /\ UNCHANGED <<db, queue, worker, request, listed, service, history>>

\* Every goroutine is gone; a request that is not answered never will be.
Halt ==
  /\ phase' = "down"
  /\ queue' = <<>>
  /\ pc' = [w \in Workers |-> "idle"] /\ task' = [w \in Workers |-> None]
  /\ copy' = [w \in Workers |-> None] /\ txid' = [w \in Workers |-> 0]
  /\ request' = [r \in Requests |->
       IF request[r].pc \in {"save", "process"}
       THEN RequestRecord("aborted", request[r].user, request[r].number, 0)
       ELSE request[r]]
  /\ listed' = {}
  /\ UNCHANGED <<db, service, failures, contended>>

\* Stop has returned and server.Shutdown has ended, in time or not.
Exit ==
  /\ phase = "stopped" /\ queue = <<>>
  /\ \A w \in Workers : pc[w] = "idle"
  /\ Halt /\ UNCHANGED restarts

\* The 10 s AfterFunc ends a shutdown that has not finished.
Fatal ==
  /\ phase \in {"cancelled", "stopped"}
  /\ Halt /\ UNCHANGED restarts

Crash ==
  /\ phase # "down" /\ restarts < MaxRestarts
  /\ restarts' = restarts + 1
  /\ Halt

Restart ==
  /\ phase = "down"
  /\ phase' = "running"
  /\ UNCHANGED <<db, queue, worker, request, listed, service, history>>

-----------------------------------------------------------------------------
UploadStep(r) == UploadGetByNumber(r) \/ UploadSave(r) \/ UploadProcess(r)

PollFinal(w) == PollInvalid(w) \/ PollProcessed(w)

WorkerStep(w) ==
  \/ TakeTask(w) \/ TouchGetByNumber(w) \/ TouchSave(w)
  \/ CancelPlanned(w) \/ Register(w)
  \/ PollRetry(w) \/ PollError(w) \/ PollFinal(w)
  \/ WaitTimer(w) \/ WaitCancelled(w)
  \/ SaveInvalid(w) \/ CancelTx(w) \/ SaveProcessed(w) \/ Approve(w)

Recover == RecoverList \/ RecoverEnqueue
Ending == StopPool \/ Exit \/ Fatal

Next ==
  \/ \E r \in Requests : UploadStep(r)
  \/ \E w \in Workers : WorkerStep(w)
  \/ Recover
  \/ \E n \in Orders : AccrualDecides(n)
  \/ Shutdown \/ Ending \/ Crash \/ Restart

Spec == Init /\ [][Next]_vars

\* Goroutines are scheduled, the ticker ticks, the process is restarted.
SystemFairness ==
  /\ \A r \in Requests : WF_vars(UploadSave(r) \/ UploadProcess(r))
  /\ \A w \in Workers : WF_vars(WorkerStep(w))
  /\ WF_vars(Recover) /\ WF_vars(Ending) /\ WF_vars(Restart)

\* The accrual system does not answer 429 for ever once it has decided.
AnswerFairness == \A w \in Workers : SF_vars(PollFinal(w))
DecisionFairness == \A n \in Orders : WF_vars(AccrualDecides(n))

LiveSpec == Spec /\ SystemFairness /\ AnswerFairness /\ DecisionFairness
-----------------------------------------------------------------------------
(* Properties.                                                             *)

Processed(t) == tx[t] # None /\ tx[t].status = "PROCESSED"
Planned(t)   == tx[t] # None /\ tx[t].status = "PLANNED"

\* Tables, channel and locals have the shapes of their Go and SQL types; the
\* channel never holds more than its capacity.
TypeOK ==
  /\ order \in [Orders -> OrderRow \cup {None}]
  /\ tx \in [TxIds -> TxRow \cup {None}]
  /\ balance \in [Users -> Nat]
  /\ service \in [Orders -> {"PENDING"} \cup Terminal]
  /\ queue \in Seq(Task) /\ Len(queue) <= QueueSize
  /\ pc \in [Workers -> {"idle", "getByNumber"} \cup Holding]
  /\ task \in [Workers -> Task \cup {None}]
  /\ copy \in [Workers -> Copy \cup {None}]
  /\ txid \in [Workers -> 0..MaxTx]
  /\ request \in [Requests -> Request]
  /\ listed \subseteq Orders
  /\ phase \in {"running", "cancelled", "stopped", "down"}
  /\ failures \in 0..MaxFailures /\ restarts \in 0..MaxRestarts
  /\ contended \subseteq Orders

\* A number belongs to one user for good: 202 and 200 are answered only to its
\* owner, 409 only to others, whatever uploads of it run at the same time
\* (the handler checks, then inserts, without a lock between the two).
AnswersAgreeWithOwner ==
  \A r \in Requests : request[r].pc = "done" =>
    LET row == order[request[r].number]
    IN /\ request[r].code \in {200, 202} => row # None /\ row.user = request[r].user
       /\ request[r].code = 409 => row # None /\ row.user # request[r].user

\* What an account holds is the sum of its approved transactions: no path of
\* retries, lost replies and recoveries revokes a row after it was paid out.
BalanceMatchesLedger ==
  \A u \in Users :
    balance[u] = MapThenSumSet(LAMBDA t : tx[t].accrual,
                               {t \in TxIds : Processed(t) /\ tx[t].user = u})

\* An approved transaction is never changed again: a worker whose approval
\* succeeded but whose reply was lost must not go on to cancel it.
ApprovedFinal == [][\A t \in TxIds : Processed(t) => tx'[t] = tx[t]]_vars

\* Points are credited only for an order the accrual system has awarded, in
\* the awarded amount, to the user who uploaded it.
CreditsAreAwarded ==
  \A t \in TxIds : Processed(t) =>
    /\ service[tx[t].order] = "PROCESSED"
    /\ tx[t].accrual = AccrualValue[tx[t].order]
    /\ order[tx[t].order] # None /\ order[tx[t].order].user = tx[t].user

\* As long as no two workers have held the order at once and no late upload
\* has reset it, it is credited at most once, however often it was enqueued,
\* recovered, interrupted by a crash or hit by a failed statement.
UncontendedCreditedOnce ==
  \A t1, t2 \in TxIds :
    /\ Processed(t1) /\ Processed(t2)
    /\ tx[t1].order = tx[t2].order /\ tx[t1].order \notin contended
    => t1 = t2

\* Under the same condition at most one transaction is open: what a crashed
\* attempt left PLANNED is cancelled before the next attempt registers its own.
UncontendedPlannedOnce ==
  \A t1, t2 \in TxIds :
    /\ Planned(t1) /\ Planned(t2)
    /\ tx[t1].order = tx[t2].order /\ tx[t1].order \notin contended
    => t1 = t2

\* Under the same condition a terminal status stays in the table
\* (Order.ChangeStatus checks only the copy in memory, Save overwrites).  The
\* runs check ImplementsBook, where a settled order is never open again.
UncontendedTerminalFinal ==
  [][\A n \in Orders :
       /\ order[n] # None /\ order[n].status \in Terminal
       /\ n \notin contended'
       => order'[n] = order[n]]_vars

\* What GET /api/user/orders has shown as final is shown the same ever after:
\* under the same condition points appear only on a PROCESSED order, and they
\* neither vanish nor change; a refused order stays refused and without points
\* (the list joins two tables that a worker writes one after the other).
ShownIsFinal ==
  [][\A n \in Orders :
       /\ order[n] # None /\ n \notin contended'
       /\ ListedAccruals(n) # {} \/ order[n].status = "INVALID"
       => /\ Shown(n)' = Shown(n)
          /\ order[n].status = "PROCESSED" <=> ListedAccruals(n) # {}]_vars

\* An approved transaction names order n.
Paid(n) == \E t \in TxIds : Processed(t) /\ tx[t].order = n

\* Nothing has failed, and nobody has ended the process.
Calm == failures = 0 /\ restarts = 0

\* Only a failed statement, a crash or a shutdown loses an award: as long as
\* there was none, a PROCESSED order is paid, or the worker that saved it stands
\* before ApproveTransaction, whoever else has held the order.
AwardsArePaid ==
  Calm =>
    \A n \in Orders : order[n] # None /\ order[n].status = "PROCESSED" =>
      Paid(n) \/ \E w \in Workers : pc[w] = "approve" /\ task[w].number = n

\* The order book as the tables show it.
Stage(n) ==
  IF n \in contended THEN "contested"
  ELSE IF order[n] = None THEN "absent"
  ELSE IF order[n].status \notin Terminal THEN "open"
  ELSE IF order[n].status = "INVALID" THEN "refused"
  ELSE IF Paid(n) THEN "paid" ELSE "awarded"

Book == INSTANCE OrderBook WITH
  owner   <- [n \in Orders |-> IF order[n] = None THEN None ELSE order[n].user],
  stage   <- [n \in Orders |-> Stage(n)],
  verdict <- service,
  points  <- balance,
  trouble <- ~Calm

\* Statements, retries, failures, recoveries and restarts implement an order
\* book: a number is claimed once, settled once, as the accrual system decided,
\* and paid at most once, for an award; points move in no other way.  The book
\* names two departures: a contested order may be paid again, and an order may
\* be refused for no verdict, but only after an error or an interruption.
ImplementsBook == Book!BSpec

\* Every order in the table reaches a terminal status, through crashes,
\* shutdowns, dropped tasks and failed statements: recovery finds it again.
OrderSettles ==
  \A n \in Orders :
    (order[n] # None) ~> (order[n] # None /\ order[n].status \in Terminal)

-----------------------------------------------------------------------------
(* What the documents say and the code does not keep.                      *)

\* SPECIFICATION.md: a number is accepted for processing only once.  Two
\* workers that hold the same order both credit it.
CreditedAtMostOnce ==
  \A t1, t2 \in TxIds :
    Processed(t1) /\ Processed(t2) /\ tx[t1].order = tx[t2].order => t1 = t2

\* SPECIFICATION.md: the points of an accepted order reach the account.  An
\* order marked PROCESSED has its credit, or a worker is about to give it.
ProcessedIsCredited ==
  \A n \in Orders :
    order[n] # None /\ order[n].status = "PROCESSED" =>
      \/ \E t \in TxIds : Processed(t) /\ tx[t].order = n
      \/ \E w \in Workers : pc[w] = "approve" /\ task[w].number = n

\* SPECIFICATION.md: INVALID says that the accrual system has refused the order.
\* processOrder says it of an order whose poll ended in an error, too.
InvalidIsRefused ==
  \A n \in Orders :
    order[n] # None /\ order[n].status = "INVALID" => service[n] = "INVALID"

\* SPECIFICATION.md: an upload of a number the same user has uploaded before is
\* answered 200, and the list of orders is answered 200 if there are any.  Once
\* an order is settled and no worker holds it, its owner gets both answers.
SettledOrderIsServed ==
  \A n \in Orders :
    /\ order[n] # None /\ order[n].status \in Terminal
    /\ \A w \in Workers : ~Holds(w, n)
    => UploadAnswer(order[n].user, n) = 200 /\ GetUserOrders(order[n].user) = 200

\* processor.go: an order dropped by a full queue will be picked up later by
\* recovery.
NewIsPickedUp ==
  \A n \in Orders :
    (order[n] # None /\ order[n].status = "NEW")
      ~> (order[n] # None /\ order[n].status # "NEW")

=============================================================================
