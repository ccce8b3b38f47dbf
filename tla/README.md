# Sufirmart in TLA+

Sufirmart is the loyalty service of `SPECIFICATION.md`: users upload order
numbers, an external accrual system awards points for them, users spend the
points. This directory holds the formal model of it: TLA+ modules written from
the Go code, TLC configurations that check them on small instances, and proofs
that TLAPS checks for every value of the constants. Paths below are relative to
the repository's root.

## 1. Inventory

| Part | State | Operations | Modelled in |
|---|---|---|---|
| Order upload, `internal/api/handler/post_user_orders.go` | a request's locals | check the number, insert, hand to the processor, answer | `OrderProcessing` |
| Order processor, `internal/order/processor.go` | a task's locals: copy of the order, transaction id | `Process`, `RecoverPending`, `processOrder` (touch, cancel planned, register, poll, fail, succeed) | `OrderProcessing` |
| Order repository, `internal/repository/order.go` | table `order` | `GetByNumber`, `Save`, `ListByStatuses`, `ListByUser` | `OrderProcessing` |
| Account repository, `internal/repository/account.go` | tables `transaction`, `account` | `RegisterTransaction`, `CancelTransaction`, `CancelPlannedTransactionsByOrder`, `ApproveTransaction`, `GetBalance`, `ListWithdrawals` | `Accounts`; one step each in `OrderProcessing` |
| Withdrawal and balance handlers | a request's locals | register and approve; read | `Accounts` |
| Worker pool, `internal/tools/workerpool` | state word, channel, two WaitGroups | `Start`, `Add`, `Stop`, the workers | `WorkerPool` |
| Accrual client `internal/accrual`, `internal/tools/repeater`, `internal/order/repeat_strategy.go` | last delay, timer | one poll, retriable or not, the pause | `Polling`; what an answer does to an order in `OrderProcessing` |
| Process, `cmd/gophermart/main.go` | root context, the goroutines of the errgroup, ticker, two timeouts | start, serve, recover every 5 s, stop the pool, shut the server down, Fatal after 10 s | `Lifecycle`; crashes and restarts against the tables in `OrderProcessing` |
| Registration, authentication, `internal/user`, `internal/auth`, `internal/middleware/auth.go` | tables `user`, `account`, `auth`; a mutex per process | `RegisterUser`, `Authenticate`, `GetUserID` | `Users` |
| Listings of orders and withdrawals | - | one SELECT each | views in `OrderProcessing` and `Accounts` |
| Order numbers, `internal/security/order_validtion.go` | - | the Luhn check | `OrderNumber` |
| Migrations, routing, gzip, logging, configuration, stub reader | - | - | no (section 8) |

How they interact. A handler writes the order row and gives the pool a closure;
a pool worker runs `processOrder`, which calls the repositories and the accrual
system in turn; the ticker lists what is still NEW or PROCESSING and gives the
pool more closures. Withdrawals use the `transaction` and `account` tables that
the workers write. Registration makes the user and the account row that both
rely on, and the tokens every other request is let in with. In memory only the
pool, the root context and the registration mutex are shared; everything else
meets in PostgreSQL. On a signal, or when serving fails, the context is
cancelled: recovery and its tasks stop, the pool is stopped and waited for, then
the server, and ten seconds later the process is ended whatever it does.

What is hard:

* *Statements that look atomic and are not.* `db.WrapTransaction` opens a
  transaction, but passes its callback only a context; the repositories run on
  `*sql.DB`. Every statement commits by itself and the `FOR UPDATE` of
  `GetByNumber` holds for that statement only. So `touchOrder`, `failOrder` and
  `successOrder` can be interleaved, and interrupted, between their statements.
  `ApproveTransaction` alone uses the transaction it opens.
* *Two ways into a worker.* The upload's task takes NEW orders; recovery's task
  takes PROCESSING orders as well, without knowing whether somebody has them.
* *Crashes and lost replies* between any two statements, and a root context that
  is cancelled for recovery tasks but not for upload tasks.
* *Row locks* and what READ COMMITTED shows inside `ApproveTransaction`; the
  cancellation of planned rows is one UPDATE that locks several rows one by one.
* *A pool whose `Add` is several atomic operations* racing `Stop`.
* *Registration without a transaction*: a check, an insert, an account and a
  token are four statements, and the mutex around three of them is one per
  process.
* *Two timeouts that overlap*: the five seconds of `Shutdown` start before the
  pool is waited for, the ten seconds of the process with the cancellation.
* *Pauses that an outside system chooses*, in the width of a `time.Duration`.

What makes each part correct: a number has one owner and answers agree with it;
accounts hold what approved transactions add up to; only awards are credited,
once; paid is final; accepted orders are settled; no overdraft, and the answer
of a withdrawal tells its outcome; the pool runs what it accepts and `Stop`
leaves nothing behind; a login has one holder, and a token proves its password;
polls keep the pauses they are asked for; a cancelled process ends, and what it
cuts short it cuts short only because a time was over. Which of these the code
keeps, keeps under a condition, or does not keep is section 5.

## 2. Plan

Done, in this order:

1. `OrderProcessing` + `MCOrderProcessing`, the core, and
   `OrderProcessingProofs`.
2. `LoyaltyAccount`, the abstract account, and `Accounts` + `MCAccounts`, which
   implements it; `AccountsProofs`.
3. `TaskPool`, the abstract pool, and `WorkerPool` + `MCWorkerPool`, which
   implements it; `WorkerPoolProofs`.
4. `Registry`, the abstract registry of logins, and `Users` + `MCUsers`, which
   implements it; `UsersProofs`.
5. `Polling`, the calls and pauses of a task, and `Lifecycle` + `MCLifecycle`,
   which composes them with the pool, the server and the shutdown;
   `LifecycleProofs`.
6. The answers an upload is promised, and the list of orders, in
   `OrderProcessing`; the rounding of sums and the list of withdrawals in
   `Accounts`.
7. `OrderNumber`, the Luhn check against a reference.
8. `SetSums`, and with it the ledgers in `AccountsProofs` and
   `OrderProcessingProofs`.
9. `OrderBook`, the abstract life of an order, which `OrderProcessing`
   implements; `OrderBookProofs`.
10. `OrderNumberProofs`: the Luhn check for numbers of every length.
11. The provable cores of three liveness properties: `LocksAreOrdered` of
    `TransactionsEnd`, `StopWaitsForSomebody` of `StopReturns`, `ShutdownAdvances`
    of `ShutdownEnds`.
12. What has to go right for an award to be paid: `AwardsArePaid`.
13. The cancellation lock by lock, with deadlocks, in `Accounts`; what an order is
    refused for, in `OrderBook` and `order_given_up`.

Next: such a core for `OrderSettles` (whatever interrupts an order that is not
settled, recovery lists it again or a worker or the channel has it), and one for
`RequestsEnd` (whoever waits for a mutex waits for a request that can go on).

## 3. Modules

### OrderProcessing

One action is one SQL statement, one call of the accrual system or one channel
operation. Variables and what they stand for:

| Variable | Code |
|---|---|
| `order`, `tx`, `balance` | tables `order`, `transaction`, `account` (`None`: no row) |
| `service` | the accrual system's verdict on each number (external) |
| `queue` | the channel of tasks; a task is a number and `allowProcessing` |
| `pc`, `task`, `copy`, `txid` | per worker: the statement it does next, its closure, its `*domain.Order`, `transactionID` |
| `request` | per HTTP goroutine: its next statement, user, number, answer |
| `listed` | the slice `RecoverPending` walks through |
| `phase` | running, root context cancelled, pool stopped, down |
| `contended` | history: numbers two workers have held at once, or that an upload has written again over an existing row |

Actions follow the code one to one: `UploadGetByNumber`, `UploadSave`,
`UploadProcess`; `RecoverList`, `RecoverEnqueue`; `TakeTask`,
`TouchGetByNumber`, `TouchSave`, `CancelPlanned`, `Register`, `PollRetry` /
`PollError` / `PollInvalid` / `PollProcessed`, `WaitTimer` / `WaitCancelled`,
`SaveInvalid`, `CancelTx`, `SaveProcessed`, `Approve`; `Shutdown`, `StopPool`,
`Exit`, `Fatal`, `Crash`, `Restart`. `GetUserOrders` is the list of orders: one
SELECT, so a view of the tables and no action; `Shown` is what it says of one
order, `BuildOrder` what makes the whole list fail. In-memory work, such as
`Order.ChangeStatus` or the fall-through from `successOrder`'s error to
`failOrder`, belongs to the action of the statement before it.

`DbResult` gives every statement three endings: applied; not applied; applied,
but the caller sees an error. The last two draw on `MaxFailures`, except for
a recovery task after SIGTERM, whose context is cancelled and whose statements
never succeed cleanly. The failure of a `BeginTx` or of `tx.Commit` in
`WrapTransaction` has the same effect as the failure of the statement next to
it, so it has no action of its own, except before the first statement of
`successOrder`, where `PollProcessed` may fail.

### OrderBook

The life of an order, without statements, workers or retries: a number is
claimed, the accrual system decides, the order is refused or awarded as it has
decided, an award is paid. So much is what the specification promises. Two
actions are not: they are the code's own, and without them the tables would not
implement the book.

* `GiveUp`: an order is refused that the accrual system has not refused. It needs
  `trouble`, which `OrderProcessing` maps to an error, a crash or a shutdown that
  has happened (`~Calm`). `order_given_up` shows how it comes about.
* `Contest`: an order that more than one worker at a time works on becomes
  `contested` (the variable `contended`). It keeps its owner and is paid for awards
  of its own only, but perhaps again (`order_double_credit`).

`ImplementsBook` reads the book off the tables: `Stage` is absent without a row,
open while the status is NEW or PROCESSING, refused when it is INVALID, and
awarded or paid when it is PROCESSED, according to whether an approved
transaction names the order. So it says that without trouble an order is refused
on a verdict only, which steps make an order contested, and that nothing else
pays twice.

### Accounts and LoyaltyAccount

`Accounts` opens `ApproveTransaction` up: lock the transaction row, make sure
the account row exists, lock it, debit or credit, write the status, commit. A
client is a withdrawal call, or a worker from `CancelPlannedTransactionsByOrder`
on, which registers a row and then approves it, or cancels it as `failOrder` does
(`CancelTransaction`). `pending` and `verdict` are what an open transaction has
written and nobody else sees; `rowLock` and `accLock` are the row locks of
PostgreSQL. READ COMMITTED is used where it matters: an UPDATE that had to wait
looks at its condition again, and one that matches no row locks none.

`CancelPlannedTransactionsByOrder` is the one statement that is several actions.
It selects its rows by a snapshot (`CancelScan`, in any order, as the plan may
give any), locks them one after the other and keeps them while it waits for the
next (`CancelRow`), looks at each again and commits (`CancelCommit`). Others can
wait for it: an approval at its own transaction row (`LockRow`), `failOrder`, and a
second cancellation. `WaitsFor` is the graph of these waits, `Granted` lets a
statement through that waits for nobody, `Deadlocked` finds a cycle, and
`DeadlockError` is PostgreSQL's way out: one statement of the cycle ends in an
error, whichever has noticed, and its transaction is rolled back.
`LocksAreOrdered` is about this graph. `OrderProcessing` has the cancellation in
one step, at the snapshot. What can become of a selected row between the snapshot
and its lock is another cancellation, or an approval, which does not look at the
row's status and so has the same effect after the cancellation. A deadlock error
is a failed statement there.

`status` distinguishes
CANCELED from CANCELED with the comment "insufficient funds" (`REFUSED`).
Readers are calls of `GetBalance`; `seen` records the true pairs of figures
during a call.

A withdrawal asks for thousandths (`Asked`) and the columns hold hundredths
(`Amount`): a sum that rounds to nothing takes the branch of `ApproveTransaction`
that is neither a debit nor a credit (`Branch`). `ListWithdrawals` is a view.

`LoyaltyAccount` is what the account promises: every withdrawal and accrual
takes effect at one instant, at most once, and a withdrawal is paid exactly when
the points suffice at that instant. `ImplementsAccount` maps `points` to the
committed balance and `outcome` to the committed status; the instant is
`Commit`, so the mapping also says that a refusal decided at the UPDATE is still
right at the commit.

### WorkerPool and TaskPool

One action is one atomic operation of `Start`, `Add`, `Stop` or a worker.
`sync.WaitGroup` is modelled with its parked and woken waiter, because the
window between the two is where it can panic. `TaskPool` is what users rely on:
a task is accepted or refused, an accepted task runs once, and after `Stop` has
returned nothing accepted is left. `OrderProcessing` uses the pool in this form,
with a bounded channel. `WorkersAssumption` is `workerpool.New(5, 100)` of
`main.go`: a pool without workers would keep a task in its channel and `Stop`
waiting for it.

### Users and Registry

One action is one statement of `RegisterUser` or `Authenticate`, or the lock of
the mutex; `user`, `account` and `auth` are the tables, `mutex` is per process,
`process` says who serves a request. Rows and tokens are named after the request
that makes them, as `uuid.NewV7` and `GenerateToken` draw them afresh. Statements
fail or lose their reply as elsewhere, and a process that dies takes its mutex
and its requests with it. The middleware's lookup is `GetUserID`, a view;
`Expire` lets `expired_at` pass.

`Registry` is what the specification promises: a login is claimed at one instant
and for good, 200 goes to its holder, 409 to others, a login call is let in with
the holder's password and only then. `ImplementsRegistry` maps `holder` to the
row of the login; the instant is `InsertUser`.

### Polling and Lifecycle

`Polling` is a task from the outside: queued, about to call, calling, pausing,
done. `Capped` and `Delay` are the two halves of `AdaptiveStrategy`, `Wrapped`
the product `time.Duration(secs) * time.Second` in the width of a Duration,
`Pause` the end of one round of `Repeat`. An upload's task has a context that is
never cancelled, a recovered task the root context.

`Lifecycle` EXTENDS it with the goroutines of `run`: `server` (start the pool,
listen, serve), `shut` (await the cancellation, stop and drain the pool, shut
the server down), `recovery`, one HTTP request per upload, `AfterFunc`'s and
`Shutdown`'s countdowns, and how the process ended. The pool is the one of
`TaskPool`, with a bounded queue. `net/http`, `errgroup` and `context` are
modelled from their documentation and how `run` uses them.

Time passes in ticks. What the program does without waiting for the network, the
database or a timer takes less than a tick (`Prompt` holds the tick back); in
which order it does it is open. Without this, "five seconds" would say nothing.

`StepsLeft` adds up how many steps each goroutine, task and request of a cancelled
process can still make before time has to pass; `ShutdownAdvances` says that
every step makes it smaller, or is a tick. A `Repeat` without a pause, or two
goroutines that keep each other busy, would break it.

### OrderNumber

`OrderNumValidation` is the loop as a fold over the digits from the last to the
first; `Luhn` states the algorithm by places and check digit. `MCOrderProcessing`
assumes that they agree, so every run of it evaluates that.

## 4. Bounds and fairness

| Run | Instance |
|---|---|
| `order_safety` | 2 users, 2 uploads, 1 number, 2 workers, channel of 1, 2 transaction rows, 1 failed or lost statement, 1 crash or shutdown; symmetry of users, uploads and workers; 1.4 million states |
| `order_liveness` | 1 worker, 2 accepted numbers, the task of one was dropped, 1 failure, 1 crash or shutdown, 5 transaction rows |
| `accounts` | 1 user without an account row, 1 failure, lost reply or crash (deadlock errors are not counted), all calls name one order number; accruals of 3 and 1 against two withdrawals of 2 (one of 1.5 hundredths, rounded), or one accrual of 3 against both and a reader, or both accruals against a withdrawal that rounds to 0 and a reader; 132,000 states |
| `worker_pool` | 3 tasks, 2 workers, channel of 1 |
| `users` | 2 processes, 2 registrations of one login with different passwords, 1 of another login with a password bcrypt refuses, 1 login call, 1 failure, lost reply or crash |
| `lifecycle` | 2 uploads, 1 recovered order, 1 worker, queue of 1; a second is 3 ticks, `Shutdown` has 4, the process 6, the cap is 7, a Duration has 32 values; `Retry-After` absent, 0, 1, 3, 6 or 11; 510,644 states |
| `OrderNumber` | all sequences of up to 3 bytes, a non-digit among them, against the reference; all valid numbers of up to 3 digits for mistyped digits |

One number is enough for the safety of `OrderProcessing`: rows of different
numbers share only the channel and the workers, and two numbers are in the
liveness run, where they compete for both. Two workers and two uploads give
every pair of racing actors; two transaction rows allow the second, wrong,
credit. Two withdrawals and two accruals let a balance be too small, then
enough, then too small again; as all name one order, each cancellation finds the
rows of two other calls, and the two cancellations deadlock over them. What a
cast of `MCCasts` leaves out has not been called. Three tasks fill one slot and one worker and leave
one over. Two processes are what the mutex does not cover, two registrations of one
login what it is for, and a login call can come between any two of their
statements. In `lifecycle` two uploads and a recovered order fill one worker and
one slot and leave one over; the durations are scaled so that a pause can end
before, with and after each timeout, and the header values are one that is kept,
one that is capped, one that overflows to a negative and one that overflows to a
positive duration. A Luhn sum takes a digit by its place from the right, odd or
even, so three places show each kind of place and both neighbours. The proofs of
section 6 are for all sizes.

Every bound is a constant: `MaxFailures`, `MaxTx`, `MaxRestarts`, `MaxSeconds`.
`Lifecycle` needs none: its counters are countdowns.
In the liveness run `MaxTx` is large enough that no attempt is ever refused a
row. Deadlock is not checked: all these systems may end, when all requests are
answered and the budgets are used up. Waiting on one another is covered by
`TransactionsEnd`, `StopReturns`, `OrderSettles`, `RequestsEnd` and
`ShutdownEnds`.

The liveness run begins with the uploads already done (`BacklogInit`), a state
that `Init` leads to.

Fairness, and why the code justifies it:

* Weak fairness of each worker, each request, the ticker (every 5 s), the
  shutdown's own steps (`Ending`) and the restart: goroutines are scheduled,
  `time.Ticker` ticks, the service is run under a supervisor. No fairness is
  assumed of crashes, signals, new uploads or failures.
* `AnswerFairness`, strong fairness of the polls that carry a verdict: once it
  has decided, the accrual system does not answer 429 or 204 for ever. A worker
  goes through `poll` and `wait` in turn, so the verdict is not continuously
  enabled, and weak fairness would say nothing.
* `DecisionFairness`: the accrual system decides every order in the end.
  `order_starvation` leaves it out.
* In `Accounts`, weak fairness of each client's approval and cancellation
  (`LockFairness`): PostgreSQL grants a lock that is free, and notices a deadlock.
  No fairness of which call gets a lock first is needed. In `WorkerPool`, of every goroutine, but nobody has to
  call `Stop`.
* In `Users`, weak fairness of each request: its goroutine runs and PostgreSQL
  answers. Nobody has to send a request, and no process has to crash.
* In `Lifecycle`, weak fairness of the goroutines of `run`, of the tasks' own
  steps and of time. None of signals, clients, statements of the database, nor
  of the accrual system's answers: the shutdown has to end without them.

## 5. What the runs show

Kept by the code:

* `order_safety`. `AnswersAgreeWithOwner`: the check and the insert of an upload
  are two statements, yet the unique constraint and the upsert make every answer
  agree with the owner. `BalanceMatchesLedger` and `ApprovedFinal`: no path of
  retries, lost replies and recoveries revokes what was paid, because
  `ChangeStatus` refuses to fail an order whose copy is PROCESSED already.
  `CreditsAreAwarded`. And, as long as no two workers have held the order at
  once and no late upload has reset it: `UncontendedCreditedOnce`,
  `UncontendedPlannedOnce`, and `ShownIsFinal`: what the list of orders has shown
  as final, from two tables written one after the other, is shown the same ever
  after. `ImplementsBook`: taken together, the tables go through the life of an
  order that `OrderBook` describes; once settled it stays settled, and as long as
  nothing has failed or been interrupted it is refused on a verdict only.
  `AwardsArePaid`: without a failed statement, a crash or a shutdown no award is
  lost, contested or not (`order_lost_accrual` shows a crash that loses one).
* `order_liveness`. `OrderSettles`: in spite of drops, failures, crashes and
  shutdowns every accepted order is settled in the end. That is not to say that
  nothing is lost: INVALID after an error counts as settled (`order_given_up`), and
  so does an award that is not paid (`order_lost_accrual`).
* `accounts`. `NeverOverdrawn`, `BalanceIsHistory`, `AnswerTellsOutcome`.
  `FiguresWereTrue`: each figure of a balance answer was the true one at some
  moment of the call. Not so the pair: a withdrawal that commits between the reads
  of `GetBalance` is in one figure and not in the other.
  `ImplementsAccount`: every call takes effect
  once, at an instant; what was decided, the cancellation of the planned rows of
  the same number does not revoke.
  `LocksAreOrdered`: approvals and cancellations do wait for one another, in both
  directions, and two cancellations of one number can deadlock (the run reaches
  it). But an approval that has begun waits only for the holder of its account row,
  and that one for nobody, so an approval is never the victim. A cancellation
  that is ends its task with an error; the order is still PROCESSING and recovery
  lists it again. `TransactionsEnd`: so every approval and every cancellation that
  has begun comes back.
* `worker_pool`. `TasksCounted`, `AcceptedRuns`, `StopReturns`,
  `ImplementsPool`. `StopWaitsForSomebody`: a `Wait` that is parked has a
  goroutine to wait for that can take its next step, so `Stop` misses no wake-up.
* `users`. `LostOnlyElsewhere`: within a process the mutex makes check and insert
  one; between processes the unique constraint decides (`ImplementsRegistry`).
  `TokensProvePassword`: a registration is followed by a login by name, and yet
  no race of registrations gives a client the token of another's account, since
  a registration that lost never gets there. `RegistrationAnswers`: 200 means
  user, account and token. A 500 may leave a user without an account or without
  a token, but `RegisteredCanLogin` says that the retry's 409 is not the end.
  `RequestsEnd`.
* `lifecycle`. `CallsAsAsked`: pauses are those of the last answer. A
  `Retry-After` of more than 30 s is cut to 30, and so is the 60 of the
  specification's own example of a 429: such a poll comes earlier than asked. And
  one that overflows a Duration gives some pause, possibly much shorter than a
  second. `CancelledPollsStop`: one more call at most. `ShutdownEnds`: the process
  ends although the accrual client has no timeout and uploads' tasks cannot be
  cancelled. `LateOnlyForPool`: only they can take it to the ten seconds.
  `NothingAbandoned`: if the pool was stopped, it was emptied. It is conditional:
  a signal between the start of `run` and `wp.Start` makes `Stop` a no-op, and
  the process can then end cleanly with tasks in the pool; their orders are
  found again by recovery. `NobodyCutUnlessLate`: requests are cut when the five
  seconds are over and not before; `run` logs it and still returns nil.
  `ShutdownAdvances`: between two ticks of a cancelled process there are finitely
  many steps, since the pause of `AdaptiveStrategy` is never zero.
* Every run of `MCOrderProcessing` evaluates `ExampleNumbers`, `ValidationIsLuhn`
  and `MistypedIsRefused`.

Not kept; each of these runs ends in a counterexample:

* `order_double_credit` (`CreditedAtMostOnce`). Upload, its task touches the
  order; the ticker lists the PROCESSING order and enqueues it; a second worker
  touches it too; both poll PROCESSED, both approve a transaction of their own.
  No failure is involved: it is enough that the accrual system takes longer than
  five seconds.
* `order_lost_accrual` (`ProcessedIsCredited`). The order is saved as PROCESSED;
  the process dies before the approval; recovery lists NEW and PROCESSING only.
* `order_starvation` (`NewIsPickedUp`). With attempts 0 a poll never gives up.
  Orders the accrual system never decides take all workers, and recovery, which
  enqueues the oldest orders first, adds them again while NEW ones are dropped.
* `pool_panic` (`NoPanic`). `Add` has checked the state before `Stop`; its
  `wgTasks.Add(1)` falls between the last `Done` and the return of the
  `wgTasks.Wait` it has woken. `Wait` panics, in a goroutine that recovers
  nothing.
* `order_given_up` (`InvalidIsRefused`). One poll ends in a network error, a 5xx or
  an answer that cannot be decoded. The strategy does not retry these, so
  `processOrder` settles the order as INVALID, which the specification explains as
  the accrual system's refusal; the system has not refused, and may award it.
* `stored_orders` (`SettledOrderIsServed`). `buildOrder` refuses a PROCESSED row
  without an accrual. `GetByNumber` never loads one, so the upload of a settled
  number is answered 500 where 200 or 409 is promised, whatever the award. The
  list is answered 500 for good when one of its owner's orders was awarded nothing
  or its approval is missing. The run awards nothing, and its trace ends with both.

Every property of the passing runs has a faulty variant of a definition, beside
that definition and marked as such, under which TLC finds it violated.

## 6. What is proved

`OrderProcessingProofs` proves, for every value of the constants that satisfies
`BoundsAssumption`, `AccrualAssumption` and `NoneAssumption` (counters are
natural numbers, awards are natural numbers, `None` is none of the values it is
told apart from):

| Theorem | Statement |
|---|---|
| `TypeCorrect` | `Spec => []TypeOK` |
| `OwnerAnswers` | `Spec => []AnswersAgreeWithOwner` |
| `AwardedCredits` | `Spec => []CreditsAreAwarded` |
| `ApprovedIsFinal` | `Spec => ApprovedFinal` |
| `CreditedOnce` | `Spec => []UncontendedCreditedOnce` |
| `PlannedOnce` | `Spec => []UncontendedPlannedOnce` |
| `TerminalIsFinal` | `Spec => UncontendedTerminalFinal` |
| `ShownStays` | `Spec => ShownIsFinal` |
| `LedgerMatches` | `Spec => []BalanceMatchesLedger` |

None of these is inductive as it stands. `IInv` (theorem `Invariance`) adds what
a worker's locals say about the tables: from `saveTouched` on the copy's user
owns the row; from `poll` on `txid` is a row of this order that nobody has
approved; the copy's status is the one the statement implies; and two workers
never know the same transaction (`TxUnique`). The last is why approving and
cancelling by id is safe: `ApproveTransaction` does not look at the row's
status, so what keeps an approved row from being approved or cancelled again is
that its only owner is finished with it. For the request side it suffices that
rows of the order table stay and keep their user (`OrderStable`).

`UInv` (theorem `UncontendedInvariance`) describes an order outside
`contended`: at most one worker holds it; once one of its transactions is
approved the row is PROCESSED and nobody holds it; no transaction is open when a
worker is about to register one; and a terminal row is not held, except by the
worker that is about to approve or cancel. A touch that finds another holder, or
a late upload, puts the order into `contended`, so the obligation is about
touches of an order that nobody holds and whose row is not terminal: then there
is no approved transaction either, which is the point of the second conjunct.

`OrderBookProofs` proves, under the same assumptions:

| Theorem | Statement |
|---|---|
| `BookImplemented` | `Spec => ImplementsBook` |
| `AwardsPaid` | `Spec => []AwardsArePaid` |

Five kinds of steps show in the book: an upload that inserts a row (`Claim`) or
writes over one (`Contest`), a touch that finds another holder (`Contest`), a
worker that saves its copy (`Refuse`, `GiveUp`, `Award`), an approval (`Pay`,
`PayContested`), and a verdict (`Decide`); the others stutter. That a saved row
was open, and that an approval finds its order awarded and not paid, is what
`IInv` and `UInv` say of an order that a worker holds; that a payment is the
order's own award to its owner is in `IInv` alone, so it holds for contested
orders too. A contended order has a row (`ContendedRows`), and as approved rows
are final and none appears but in `Approve`, `Paid` changes there only.

Whether a refusal is `Refuse` or `GiveUp` is decided earlier, at the poll. As long
as nothing has failed (`Calm`; a shutdown counts as a restart), a worker that is
about to save INVALID has the verdict INVALID (`RefusalKnown`, a part of
`CalmInv`), and a verdict does not change; later there is `trouble`, which is not
forgotten (`TroubleStays`).

`AwardsPaid` does without `UInv`, since it holds for contested orders as well:
several workers on one order may pay it twice, but do not lose its award. While
it is `Calm`, an order is saved as PROCESSED only by a worker that goes on to the approval (`SavedToPay`),
it stays there whatever the others do (`OthersPay`), and leaves it only with the
transaction approved (`ApprovePays`). A row that a late upload or another worker
writes over is not PROCESSED, or has another payer.

`AccountsProofs` proves, under `AccountsAssumption`, `RowsAssumption` and
`NoneAssumption` of `Accounts` (every withdrawal asks for more than nothing, an
accrual awards nothing or more, withdrawals and accruals are different calls and
finitely many, `None` is no client and no status), for every finite number of users, calls and readers:

| Theorem | Statement |
|---|---|
| `TypeCorrect` | `Spec => []TypeOK` |
| `NoOverdraft` | `Spec => []NeverOverdrawn` |
| `AnswersTell` | `Spec => []AnswerTellsOutcome` |
| `DecisionsAreFinal` | `Spec => DecidedIsFinal` |
| `AccountImplemented` | `Spec => ImplementsAccount` |
| `LedgerBalances` | `Spec => []BalanceIsHistory` |
| `FiguresTrue` | `Spec => []FiguresWereTrue` |
| `NoDeadlock` | `Spec => []LocksAreOrdered` |

The committed balance moves in one place, `Commit`, of a client that holds the
lock of the account row (`LockInv`). So what a client has found out under the
lock (there is enough, there is not, this is the new balance) is as true at its
commit as when it was computed (`DecisionInv`). One case needs care: an
accrual of no points skips the credit, and the insert that makes sure of the
account row locks nothing when the row is there. Such a client may commit
without the lock; it then leaves the balance alone (`Fresh`). The proof has one
lemma per statement, each showing `StepOK`: the client's own part of the
invariant, and what the step leaves to the others (`Frame`).

The ledgers are sums over sets of rows. `MapThenSumSet` is a recursive function
on the subsets of its argument that takes some element first; `SetSums` proves
what it computes for every finite set: a sum depends on the weights of its
members only (`TotalSame`), is a natural number (`TotalNat`), and grows by the
weight of an element that is added (`TotalWith`). Instead of an induction
theorem, each of these takes a smallest subset that is an exception, which there
is as strict inclusion is well-founded on the subsets of a finite set
(`Smallest`). With them, `Commit` and `Approve` add one row to both sides of
`BalanceIsHistory` and `BalanceMatchesLedger`, and no other step moves a row that
is approved. For `FiguresTrue`, `ReaderInv` says that the truth of the moment is
always among those a reader may have seen, that what it has read is one of them,
and `BalanceIsHistory` that the sum it reads instead of a zero is the balance.

`NoDeadlock` rests on which statements ask for a lock while their call holds
another. Only open transactions hold locks (`OpenWaits`, `WaitsForOpen`). A
cancellation asks while it holds rows, so it can be in a cycle. An approval asks
for its own row before it holds anything, and for the account row after it; whoever
has locked the account row is a client of its user (`HoldersOwn`) and past all its
waits (`HolderGranted`). So from an approval that has begun a chain of waits ends
after one link, in an approval (`OrderedLocks`), and no cycle goes through it; a
call that holds nothing is in none either, as nobody waits for it. What is left
are the cancellations, and that they can is shown by the run. `NoDeadlock` is the
part of `TransactionsEnd` that is not about scheduling and PostgreSQL's detection.

`WorkerPoolProofs` proves, under `PoolAssumption` (finite sets of tasks and
workers, a channel of at least one slot) and `WorkersAssumption` (there is a
worker; `main.go` makes five):

| Theorem | Statement |
|---|---|
| `TypeCorrect` | `Spec => []TypeOK` |
| `CounterExact` | `Spec => []TasksCounted` |
| `PoolImplemented` | `Spec => ImplementsPool` |
| `StopIsNeverStuck` | `Spec => []StopWaitsForSomebody` |

Here the invariant adds where an accepted task is: in the channel once, or in
one worker, or it has run (`PlaceInv`, `NothingLost`). When `Stop` is past
`wgTasks.Wait`, the exact counter says that channel and workers are empty, and a
closed channel keeps them so (`StopInv`): an `Add` that is still between its
count and its send can only be refused. The panic of `pool_panic` is part of the
specification, so the theorems hold with it: after it nothing moves (`Ended`).

`StopIsNeverStuck` is the part of `StopReturns` that is not about scheduling. A
parked `Wait` has seen a count above zero and will see the last `Done`
(`ParkInv`); the exact counters turn the count into an `Add` between its halves,
a worker in a task, a task in the channel or a worker in its loop. A task in the
channel has somebody to take it because there is a worker, and a worker leaves
only a channel that is closed and empty.

`UsersProofs` proves, under `UsersAssumption` (registrations and login calls are
different requests, every request has a login, `None` is none of them), for every
number of processes, requests, failures and crashes:

| Theorem | Statement |
|---|---|
| `TypeCorrect` | `Spec => []TypeOK` |
| `MutexSuffices` | `Spec => []LostOnlyElsewhere` |
| `TokensProve` | `Spec => []TokensProvePassword` |
| `RegistrationTells` | `Spec => []RegistrationAnswers` |
| `RegisteredLogIn` | `Spec => []RegisteredCanLogin` |
| `RegistryImplemented` | `Spec => ImplementsRegistry` |

Rows are never removed and a login has one of them (`LoginUnique`), so a row that
a request has found is still the row of its login when it inserts the token.
`RequestInv` says what each request knows of the tables at each statement, and
that it holds the mutex there. A lemma per statement shows the part of the
request that moves and what it leaves to the others (`Frame`); `OtherRequest`
does the rest once.

`LifecycleProofs` proves, under `PollingAssumption` and `LifecycleAssumption`
(a second is positive and not above the cap, the cap fits a Duration, `Shutdown`
has less time than the process), for every number of uploads, recovered orders
and workers, every durations and every `Retry-After`:

| Theorem | Statement |
|---|---|
| `TypeCorrect` | `Spec => []TypeOK` |
| `PausesAsAsked` | `Spec => CallsAsAsked` |
| `PollsStop` | `Spec => []CancelledPollsStop` |
| `HardEndIsThePool` | `Spec => LateOnlyForPool` |
| `StopLeavesNothing` | `Spec => []NothingAbandoned` |
| `RequestsAreServed` | `Spec => []NobodyCutUnlessLate` |
| `ShutdownGetsOn` | `Spec => ShutdownAdvances` |

The invariant adds that the two countdowns run together, `Shutdown`'s so many
ticks ahead (`TimerInv`): with one tick of the process left, `Shutdown` has
nothing left to wait for, and every goroutine but the one that drains the pool is
prompt. A pause in progress is what has been waited plus what is left
(`PauseInv`); a cancelled task that has called since does not stand before
another call (`LateInv`); a stopped pool that was drained takes nothing more
(`DrainInv`).

`ShutdownGetsOn` is the part of `ShutdownEnds` that can be proved: a measure, the
ticks that are left and within a tick the steps that are left, which every step
of a cancelled process makes smaller. `StepsLeft` is a sum over tasks and
requests; a step changes at most one of the weights and the counts of `run`
(`WorkLess`, with `TotalChange` of `SetSums`). The one step that could bring a
task back to a smaller count is the end of a pause, and `PauseInv` with
`Second > 0` says that a pause has to be waited for. That some step is possible
as long as the process runs, and is taken, stays with `ShutdownEnds` in TLC.

`OrderNumberProofs` proves, without assumptions, for digits and other bytes in
sequences of every length:

| Theorem | Statement |
|---|---|
| `ValidationIsLuhnAtAnyLength` | `OrderNumValidation(number) <=> Luhn(number)` |
| `WrongDigitIsRefused` | a valid number with one digit replaced by another is invalid |
| `ExchangeIsRefused` | a valid number with two neighbours exchanged is valid iff they are equal or 0 and 9 |

The fold of the community modules is a recursive function on the sets of places.
Its value has a closed form on every set of places, not only on the suffixes the
loop goes through: the sum over the set, where a digit is doubled if an odd
number of the set's places follow it. That form satisfies the recursion, and a
smallest set on which two such functions differ does not exist (`Smallest`
again), so no induction theorem is needed. What is left is arithmetic on the ten
digits.

Each inductive invariant was first checked with TLC as an invariant of the
component's run.

`TerminalIsFinal` and `DecisionsAreFinal` have no run of their own: `order_safety`
and `accounts` check the refinements that imply what they say of statuses.

Only model-checked: liveness (`OrderSettles`, `TransactionsEnd`, `AcceptedRuns`,
`StopReturns`, `RequestsEnd`, `ShutdownEnds`), which needs fairness and ENABLED.

## 7. Reading order

`OrderProcessing`, then `MCOrderProcessing` and the `MCOrder*.cfg` files, then
`SetSums` and `OrderProcessingProofs`, `OrderBook` and `OrderBookProofs`;
`LoyaltyAccount`, `Accounts`, `AccountsProofs`;
`TaskPool`, `WorkerPool`, `WorkerPoolProofs`; `Registry`, `Users`,
`UsersProofs`; `Polling`, `Lifecycle`, `LifecycleProofs`; `OrderNumber`,
`OrderNumberProofs`. From this directory:

    tlc -config MCOrderSafety.cfg MCOrderProcessing.tla
    tlapm SetSums.tla
    tlapm OrderProcessingProofs.tla
    tlapm OrderBookProofs.tla
    tlapm AccountsProofs.tla
    tlapm WorkerPoolProofs.tla
    tlapm UsersProofs.tla
    tlapm LifecycleProofs.tla
    tlapm OrderNumberProofs.tla

## 8. Not modelled

* The binary fractions of `float32` and `float64` on the way to
  `numeric(16,2)`: sums are thousandths that are rounded to hundredths.
* Time in `OrderProcessing`: `uploaded_at` is kept as far as it orders the
  recovery, in whole seconds, as the column has no fraction. Delays are in
  `Polling`, `expired_at` passes at any time in `Users`.
* What `Lifecycle` leaves open: a process takes part in it once, so a restart is
  `OrderProcessing`'s; a lock wait cut short by a cancelled context is a failed
  statement there. The fixed-delay strategy of the repeater and a limit of
  attempts: tests use them, the program does not.
* The checks a handler makes before its first statement (content type, JSON,
  empty fields): they end in 400, 401 or 422 and change nothing. Of them only the
  Luhn check is a module, as a pure function. bcrypt, the random token and the
  form of a user id are taken as what they are for.
* `IsAuthenticated`, which only reads and has no caller.
* gzip and logging middleware and generated routing keep no state beyond a
  request; configuration, logger and container are built once at the start;
  migrations run before the server and their constraints are in the modules that
  use the tables; the stub reader is a test double whose answers are among those
  of `AccrualDecides`.
