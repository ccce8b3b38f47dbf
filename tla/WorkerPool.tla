------------------------------ MODULE WorkerPool ------------------------------
(***************************************************************************)
(* internal/tools/workerpool: Start, Add and Stop run in goroutines of     *)
(* their own (main.go starts the pool in one and stops it in another; HTTP *)
(* handlers and the recovery ticker add).  One action is one atomic        *)
(* operation: a load or a compare-and-swap of the state, a WaitGroup call, *)
(* a channel operation, the run of a task.                                 *)
(*                                                                         *)
(* Channels and sync.WaitGroup are Go's.  Wait parks its caller while the  *)
(* counter is not zero; the Done that reaches zero wakes it; woken, it     *)
(* panics when the counter is not zero any more ("WaitGroup is reused      *)
(* before previous Wait has returned").  Done's two atomic operations are  *)
(* one step here, which only leaves out further ways to that panic.        *)
(* Nothing recovers a panic of Stop: the process dies.                     *)
(***************************************************************************)
EXTENDS Integers, Sequences, FiniteSets

CONSTANTS
  Tasks,           \* one goroutine calls Add for each
  Workers,         \* workerCount goroutines
  QueueSize,       \* capacity of the channel
  None

ASSUME PoolAssumption ==
  QueueSize \in Nat \ {0} /\ IsFiniteSet(Tasks) /\ IsFiniteSet(Workers) /\ None \notin Tasks

\* main.go makes the pool with five workers and a channel of a hundred.
ASSUME WorkersAssumption == Workers # {}

VARIABLES
  state,           \* init, started, stopped
  queue, closed,   \* the channel wp.tasks
  wgTasks,         \* counter of the WaitGroup of tasks
  wgWorkers,       \* counter of the WaitGroup of workers
  start,           \* Start's next operation
  add,             \* task -> Add's next operation, or what it returned
  stop,            \* Stop's next operation
  worker,          \* worker -> where it is in its loop
  running,         \* worker -> the task it runs, or None
  ran              \* history: tasks that have run

counters == <<wgTasks, wgWorkers>>
vars == <<state, queue, closed, counters, start, add, stop, worker, running, ran>>

Parked == {"parkedTasks", "parkedWorkers"}
Woken  == {"wokenTasks", "wokenWorkers"}

Init ==
  /\ state = "init" /\ queue = <<>> /\ closed = FALSE
  /\ wgTasks = 0 /\ wgWorkers = 0
  /\ start = "cas" /\ stop = "cas"
  /\ add = [t \in Tasks |-> "load"]
  /\ worker = [w \in Workers |-> "none"]
  /\ running = [w \in Workers |-> None]
  /\ ran = {}

\* WaitGroup.Done of the tasks and of the workers: the last one wakes Stop.
TasksDone ==
  /\ wgTasks' = wgTasks - 1
  /\ stop' = IF wgTasks = 1 /\ stop = "parkedTasks" THEN "wokenTasks" ELSE stop

WorkersDone ==
  /\ wgWorkers' = wgWorkers - 1
  /\ stop' = IF wgWorkers = 1 /\ stop = "parkedWorkers" THEN "wokenWorkers" ELSE stop

-----------------------------------------------------------------------------
(* Start.                                                                  *)

StartCAS ==
  /\ start = "cas"
  /\ IF state = "init" THEN state' = "started" /\ start' = "spawn"
                       ELSE UNCHANGED state /\ start' = "returned"
  /\ UNCHANGED <<queue, closed, counters, add, stop, worker, running, ran>>

Spawn ==
  /\ start = "spawn"
  /\ \/ \E w \in Workers :
          /\ worker[w] = "none"
          /\ worker' = [worker EXCEPT ![w] = "receive"]
          /\ wgWorkers' = wgWorkers + 1
          /\ UNCHANGED start
     \/ /\ \A w \in Workers : worker[w] # "none"
        /\ start' = "returned"
        /\ UNCHANGED <<worker, wgWorkers>>
  /\ UNCHANGED <<state, queue, closed, wgTasks, add, stop, running, ran>>

-----------------------------------------------------------------------------
(* A worker: for task := range wp.tasks.                                   *)

Receive(w) ==
  /\ worker[w] = "receive" /\ queue # <<>>
  /\ queue' = Tail(queue)
  /\ worker' = [worker EXCEPT ![w] = "run"]
  /\ running' = [running EXCEPT ![w] = Head(queue)]
  /\ UNCHANGED <<state, closed, counters, start, add, stop, ran>>

\* The task and the deferred Done.
Run(w) ==
  /\ worker[w] = "run"
  /\ ran' = ran \cup {running[w]}
  /\ worker' = [worker EXCEPT ![w] = "receive"]
  /\ running' = [running EXCEPT ![w] = None]
  /\ TasksDone
  /\ UNCHANGED <<state, queue, closed, wgWorkers, start, add>>

\* Faulty variant: the worker leaves as soon as the channel is closed.
ExitEarly(w) ==
  /\ worker[w] = "receive" /\ closed
  /\ worker' = [worker EXCEPT ![w] = "exited"]
  /\ WorkersDone
  /\ UNCHANGED <<state, queue, closed, wgTasks, start, add, running, ran>>
Exit(w) ==
  /\ worker[w] = "receive" /\ queue = <<>> /\ closed
  /\ worker' = [worker EXCEPT ![w] = "exited"]
  /\ WorkersDone
  /\ UNCHANGED <<state, queue, closed, wgTasks, start, add, running, ran>>

-----------------------------------------------------------------------------
(* Add.                                                                    *)

AddLoad(t) ==
  /\ add[t] = "load"
  /\ add' = [add EXCEPT ![t] = IF state = "stopped" THEN "errStopped" ELSE "count"]
  /\ UNCHANGED <<state, queue, closed, counters, start, stop, worker, running, ran>>

\* Faulty variant: wgTasks.Add(1) is missing.
AddUncounted(t) ==
  /\ add[t] = "count"
  /\ add' = [add EXCEPT ![t] = "send"]
  /\ UNCHANGED <<state, queue, closed, counters, start, stop, worker, running, ran>>
AddCount(t) ==
  /\ add[t] = "count"
  /\ wgTasks' = wgTasks + 1
  /\ add' = [add EXCEPT ![t] = "send"]
  /\ UNCHANGED <<state, queue, closed, wgWorkers, start, stop, worker, running, ran>>

AddSend(t) ==
  /\ add[t] = "send" /\ ~closed /\ Len(queue) < QueueSize
  /\ queue' = Append(queue, t)
  /\ add' = [add EXCEPT ![t] = "nil"]
  /\ UNCHANGED <<state, closed, counters, start, stop, worker, running, ran>>

\* The select's default.  Faulty variant: the counter is not taken back.
AddFullCounted(t) ==
  /\ add[t] = "send" /\ ~closed /\ Len(queue) = QueueSize
  /\ add' = [add EXCEPT ![t] = "errQueueFull"]
  /\ UNCHANGED <<state, queue, closed, counters, start, stop, worker, running, ran>>
AddFull(t) ==
  /\ add[t] = "send" /\ ~closed /\ Len(queue) = QueueSize
  /\ add' = [add EXCEPT ![t] = "errQueueFull"]
  /\ TasksDone
  /\ UNCHANGED <<state, queue, closed, wgWorkers, start, worker, running, ran>>

\* Sending on a closed channel panics, full or not, and Add recovers.
AddClosed(t) ==
  /\ add[t] = "send" /\ closed
  /\ add' = [add EXCEPT ![t] = "errStopped"]
  /\ TasksDone
  /\ UNCHANGED <<state, queue, closed, wgWorkers, start, worker, running, ran>>

-----------------------------------------------------------------------------
(* Stop.                                                                   *)

StopCAS ==
  /\ stop = "cas"
  /\ IF state = "started" THEN state' = "stopped" /\ stop' = "close"
                          ELSE UNCHANGED state /\ stop' = "refused"
  /\ UNCHANGED <<queue, closed, counters, start, add, worker, running, ran>>

StopClose ==
  /\ stop = "close"
  /\ closed' = TRUE /\ stop' = "waitTasks"
  /\ UNCHANGED <<state, queue, counters, start, add, worker, running, ran>>

\* Faulty variant: Stop waits for the workers only.
StopSkipTasks ==
  /\ stop = "waitTasks" /\ stop' = "waitWorkers"
  /\ UNCHANGED <<state, queue, closed, counters, start, add, worker, running, ran>>
StopWaitTasks ==
  /\ stop = "waitTasks"
  /\ stop' = IF wgTasks = 0 THEN "waitWorkers" ELSE "parkedTasks"
  /\ UNCHANGED <<state, queue, closed, counters, start, add, worker, running, ran>>

StopWaitWorkers ==
  /\ stop = "waitWorkers"
  /\ stop' = IF wgWorkers = 0 THEN "returned" ELSE "parkedWorkers"
  /\ UNCHANGED <<state, queue, closed, counters, start, add, worker, running, ran>>

Waited == IF stop = "wokenTasks" THEN wgTasks ELSE wgWorkers

StopWake ==
  /\ stop \in Woken /\ Waited = 0
  /\ stop' = IF stop = "wokenTasks" THEN "waitWorkers" ELSE "returned"
  /\ UNCHANGED <<state, queue, closed, counters, start, add, worker, running, ran>>

\* Wait panics; with the process every goroutine is gone.
StopPanic ==
  /\ stop \in Woken /\ Waited # 0
  /\ stop' = "panicked" /\ start' = "dead"
  /\ add' = [t \in Tasks |-> IF add[t] \in {"load", "count", "send"} THEN "dead" ELSE add[t]]
  /\ worker' = [w \in Workers |-> "dead"]
  /\ UNCHANGED <<state, queue, closed, counters, running, ran>>

-----------------------------------------------------------------------------
Start == StartCAS \/ Spawn
Add(t) == AddLoad(t) \/ AddCount(t) \/ AddSend(t) \/ AddFull(t) \/ AddClosed(t)
Stop == \/ StopCAS \/ StopClose \/ StopWaitTasks \/ StopWaitWorkers
        \/ StopWake \/ StopPanic
Work(w) == Receive(w) \/ Run(w) \/ Exit(w)

Next ==
  \/ Start \/ Stop
  \/ \E t \in Tasks : Add(t)
  \/ \E w \in Workers : Work(w)

Spec == Init /\ [][Next]_vars

\* Goroutines are scheduled and tasks end.  Nobody has to call Stop.
LiveSpec ==
  /\ Spec
  /\ WF_vars(Start)
  /\ WF_vars(stop # "cas" /\ Stop)
  /\ \A t \in Tasks : WF_vars(Add(t))
  /\ \A w \in Workers : WF_vars(Work(w))
-----------------------------------------------------------------------------
(* Properties.                                                             *)

AddPCs  == {"load", "count", "send", "nil", "errQueueFull", "errStopped", "dead"}
StopPCs == {"cas", "refused", "close", "waitTasks", "waitWorkers", "returned",
            "panicked"} \cup Parked \cup Woken

\* Counters are never negative (sync.WaitGroup would panic), the channel holds
\* at most its capacity.
TypeOK ==
  /\ state \in {"init", "started", "stopped"}
  /\ queue \in Seq(Tasks) /\ Len(queue) <= QueueSize /\ closed \in BOOLEAN
  /\ wgTasks \in Nat /\ wgWorkers \in Nat
  /\ start \in {"cas", "spawn", "returned", "dead"} /\ stop \in StopPCs
  /\ add \in [Tasks -> AddPCs]
  /\ worker \in [Workers -> {"none", "receive", "run", "exited", "dead"}]
  /\ running \in [Workers -> Tasks \cup {None}]
  /\ ran \subseteq Tasks

\* The counter Stop waits for is the number of tasks in the channel, in a
\* worker, or between the two halves of Add.
TasksCounted ==
  stop # "panicked" =>
    wgTasks = Len(queue) + Cardinality({w \in Workers : worker[w] = "run"})
                         + Cardinality({t \in Tasks : add[t] = "send"})

\* The pool implements what its users rely on: when Stop returns, whatever it
\* raced with, no accepted task is left and none will be accepted.
Outcome(t) == CASE t \in ran -> "ran"
                [] add[t] = "nil" /\ t \notin ran -> "accepted"
                [] add[t] \in {"errQueueFull", "errStopped"} -> "refused"
                [] OTHER -> "none"

Pool == INSTANCE TaskPool WITH
  outcome <- [t \in Tasks |-> Outcome(t)],
  pool <- IF stop = "returned" THEN "drained" ELSE "open"

ImplementsPool == Pool!ASpec

\* A task Add has accepted runs, also when Stop is called before its turn.
AcceptedRuns == \A t \in Tasks : add[t] = "nil" ~> (t \in ran \/ stop = "panicked")

\* Stop never waits for nobody.  A parked Wait has a goroutine to wait for that
\* can take its next step: an Add between its halves, a worker in a task, a
\* worker (or Start, which is to spawn one) for the channel; then a worker at the
\* end of its loop.  So no wake-up is lost and no count is left behind.
Receiving == \E w \in Workers :
  \/ worker[w] = "receive"
  \/ start = "spawn" /\ worker[w] = "none"
StopWaitsForSomebody ==
  /\ stop = "parkedTasks" =>
       \/ closed /\ \E t \in Tasks : add[t] = "send"
       \/ \E w \in Workers : worker[w] = "run"
       \/ queue # <<>> /\ Receiving
  /\ stop = "parkedWorkers" =>
       queue = <<>> /\ closed /\ \E w \in Workers : worker[w] = "receive"

\* Once it has closed the channel Stop returns.
StopReturns == stop = "close" ~> (stop = "returned" \/ stop = "panicked")

-----------------------------------------------------------------------------
(* What the comments say and the code does not keep.                       *)

\* workerpool.go: no panic when the channel is closed between Add's check of
\* the state and its send.
NoPanic == stop # "panicked"
=============================================================================
