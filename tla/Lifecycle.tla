------------------------------ MODULE Lifecycle ------------------------------
(***************************************************************************)
(* cmd/gophermart/main.go, run: the goroutine that starts the worker pool  *)
(* and serves, the goroutine that shuts down, the recovery goroutine, the  *)
(* AfterFunc that ends the process ten seconds after the cancellation of   *)
(* the context, and Wait; with the HTTP requests that upload orders and    *)
(* the tasks (Polling) the pool runs.  The operations of the pool are      *)
(* WorkerPool's, here each is one step.                                    *)
(*                                                                         *)
(* net/http, errgroup, signal and context are Go's.  Shutdown closes the   *)
(* listeners and returns when no request is served or its context is done; *)
(* the context of errgroup is cancelled by a signal or by the first error. *)
(*                                                                         *)
(* The steps the program takes without waiting for the network, for the    *)
(* database or for a timer happen within the tick in which they become     *)
(* possible (Prompt); in which order, is open.                             *)
(***************************************************************************)
EXTENDS Polling

CONSTANTS
  Workers,          \* workers of the pool
  QueueSize,        \* capacity of its queue
  ServerTimeout,    \* timeoutServerShutdown, in ticks
  ProcessTimeout    \* timeoutShutdown, in ticks

ASSUME LifecycleAssumption ==
  /\ Workers \in Nat \ {0} /\ QueueSize \in Nat \ {0}
  /\ ServerTimeout \in Nat \ {0} /\ ProcessTimeout \in Nat /\ ServerTimeout < ProcessTimeout

VARIABLES
  pool,         \* wp.state: init, started, stopped
  server,       \* the serving goroutine: start, listen, serve, closed or failed
  shut,         \* the shutdown goroutine: await, stop, drain, shutdown, close, returned
  recovery,     \* the recovery goroutine: none, select, enqueue, returned
  request,      \* upload -> its request: none, serving, answered
  shutLeft,     \* ticks until the context of Shutdown is done
  fatalLeft,    \* ticks until AfterFunc's Fatal
  exit          \* running, or how the process ended: clean, failed, late

mainVars == <<pool, server, shut, recovery, request>>
timers   == <<shutLeft, fatalLeft>>
vars     == <<cancelled, pollVars, mainVars, timers, exit>>

Init ==
  /\ PollInit
  /\ pool = "init" /\ server = "start" /\ shut = "await" /\ recovery = "none"
  /\ request = [u \in Uploads |-> "none"]
  /\ shutLeft = ServerTimeout /\ fatalLeft = ProcessTimeout
  /\ exit = "running"

-----------------------------------------------------------------------------
(* The context.                                                            *)

Cancel == cancelled' = TRUE

Signal ==
  /\ ~cancelled /\ Cancel
  /\ UNCHANGED <<pollVars, mainVars, timers, exit>>

-----------------------------------------------------------------------------
(* The serving goroutine.                                                  *)

\* wp.Start, and the recovery goroutine.
StartPool ==
  /\ server = "start"
  /\ server' = "listen"
  /\ pool' = IF pool = "init" THEN "started" ELSE pool
  /\ recovery' = "select"
  /\ UNCHANGED <<cancelled, pollVars, shut, request, timers, exit>>

\* Shutdown has been called.
ShuttingDown == shut \in {"close", "returned"}

Listen ==
  /\ server = "listen"
  /\ server' = "serve"
  /\ UNCHANGED <<cancelled, pollVars, pool, shut, recovery, request, timers, exit>>

\* Listen fails, Accept fails for good, or the goroutine panics before them.
ServerFails ==
  /\ \/ server \in {"start", "listen"}
     \/ server = "serve" /\ ~ShuttingDown
  /\ server' = "failed"
  /\ Cancel
  /\ UNCHANGED <<pollVars, pool, shut, recovery, request, timers, exit>>

\* Serve returns ErrServerClosed.
ServeReturns ==
  /\ server = "serve" /\ ShuttingDown
  /\ server' = "closed"
  /\ UNCHANGED <<cancelled, pollVars, pool, shut, recovery, request, timers, exit>>

-----------------------------------------------------------------------------
(* wp.Add, requests and the recovery.                                      *)

Add(p) ==
  phase' = [phase EXCEPT ![p] =
              IF pool # "stopped" /\ Cardinality(Queued) < QueueSize
              THEN "queued" ELSE "refused"]

Accept(u) ==
  /\ server = "serve" /\ ~ShuttingDown
  /\ request[u] = "none"
  /\ request' = [request EXCEPT ![u] = "serving"]
  /\ UNCHANGED <<cancelled, pollVars, pool, server, shut, recovery, timers, exit>>

\* The handler has saved the order: Processor.Process.
Upload(u) ==
  /\ request[u] = "serving" /\ phase[u] = "none"
  /\ Add(u)
  /\ UNCHANGED <<cancelled, lastDelay, left, asked, waited, late, mainVars, timers, exit>>

\* With or without a task: requests of other kinds are answered too.
Respond(u) ==
  /\ request[u] = "serving"
  /\ request' = [request EXCEPT ![u] = "answered"]
  /\ UNCHANGED <<cancelled, pollVars, pool, server, shut, recovery, timers, exit>>

\* The ticker, and ListByStatuses, which fails when the context is cancelled.
RecoveryStarts ==
  /\ recovery = "select" /\ ~cancelled
  /\ recovery' = "enqueue"
  /\ UNCHANGED <<cancelled, pollVars, pool, server, shut, request, timers, exit>>

Recover(r) ==
  /\ recovery = "enqueue" /\ phase[r] = "none"
  /\ Add(r)
  /\ UNCHANGED <<cancelled, lastDelay, left, asked, waited, late, mainVars, timers, exit>>

RecoveryEnds ==
  /\ \/ recovery = "enqueue" /\ recovery' = "select"
     \/ recovery = "select" /\ cancelled /\ recovery' = "returned"
  /\ UNCHANGED <<cancelled, pollVars, pool, server, shut, request, timers, exit>>

\* A worker of the pool takes a task from the queue.
Take(p) ==
  /\ pool # "init" /\ Cardinality(Running) < Workers
  /\ Begin(p)
  /\ UNCHANGED <<mainVars, timers, exit>>

Task(p) ==
  /\ Call(p) \/ CancelWait(p)
  /\ UNCHANGED <<mainVars, timers, exit>>

AccrualAnswers(p) ==
  /\ \E a \in Answers : Answer(p, a)
  /\ UNCHANGED <<mainVars, timers, exit>>

-----------------------------------------------------------------------------
(* The shutdown goroutine.                                                 *)

\* The context with the timeout of Shutdown starts to run here.
AwaitCancel ==
  /\ shut = "await" /\ cancelled
  /\ shut' = "stop"
  /\ UNCHANGED <<cancelled, pollVars, pool, server, recovery, request, timers, exit>>

\* wp.Stop closes the queue, or returns when the pool has not been started.
StopPool ==
  /\ shut = "stop"
  /\ IF pool = "started" THEN pool' = "stopped" /\ shut' = "drain"
                         ELSE UNCHANGED pool /\ shut' = "shutdown"
  /\ UNCHANGED <<cancelled, pollVars, server, recovery, request, timers, exit>>

\* Stop returns when every task has run.  Faulty variant: it waits for those
\* that run and not for the queue.
DrainRunning ==
  /\ shut = "drain" /\ Running = {}
  /\ shut' = "shutdown"
  /\ UNCHANGED <<cancelled, pollVars, pool, server, recovery, request, timers, exit>>
Drained ==
  /\ shut = "drain" /\ Running \cup Queued = {}
  /\ shut' = "shutdown"
  /\ UNCHANGED <<cancelled, pollVars, pool, server, recovery, request, timers, exit>>

Shutdown ==
  /\ shut = "shutdown"
  /\ shut' = "close"
  /\ UNCHANGED <<cancelled, pollVars, pool, server, recovery, request, timers, exit>>

\* No request is served, or the context of Shutdown is done; the error is
\* logged.  Faulty variant: Close in place of Shutdown.
Idle == \A u \in Uploads : request[u] # "serving"
Close ==
  /\ shut = "close"
  /\ shut' = "returned"
  /\ UNCHANGED <<cancelled, pollVars, pool, server, recovery, request, timers, exit>>
ShutdownReturns ==
  /\ shut = "close" /\ (Idle \/ shutLeft = 0)
  /\ shut' = "returned"
  /\ UNCHANGED <<cancelled, pollVars, pool, server, recovery, request, timers, exit>>

-----------------------------------------------------------------------------
(* The end of the process, and time.                                       *)

\* workGroup.Wait returns and run with it; an error makes main call Fatal.
Returned == server \in {"closed", "failed"} /\ shut = "returned"
Return ==
  /\ Returned
  /\ exit' = IF server = "failed" THEN "failed" ELSE "clean"
  /\ UNCHANGED <<cancelled, pollVars, mainVars, timers>>

Fatal ==
  /\ cancelled /\ fatalLeft = 0
  /\ exit' = "late"
  /\ UNCHANGED <<cancelled, pollVars, mainVars, timers>>

Prompt ==
  \/ \E p \in Polls : PollPrompt(p)
  \/ server \in {"start", "listen"}
  \/ server = "serve" /\ ShuttingDown
  \/ shut = "await" /\ cancelled
  \/ shut \in {"stop", "shutdown"}
  \/ shut = "drain" /\ Running \cup Queued = {}
  \/ shut = "close" /\ (Idle \/ shutLeft = 0)
  \/ Returned
  \/ cancelled /\ fatalLeft = 0

\* Faulty variants: the context of Shutdown is made when the pool has
\* stopped; AfterFunc waits for the signal's context and so misses a failure.
TickFromShutdown ==
  /\ ~Prompt
  /\ PollTick
  /\ shutLeft' = IF shut = "close" THEN shutLeft - 1 ELSE shutLeft
  /\ fatalLeft' = IF cancelled THEN fatalLeft - 1 ELSE fatalLeft
  /\ UNCHANGED <<mainVars, exit>>
TickOnSignal ==
  /\ ~Prompt
  /\ PollTick
  /\ shutLeft' = IF shut # "await" /\ shutLeft > 0 THEN shutLeft - 1 ELSE shutLeft
  /\ fatalLeft' = IF cancelled /\ server # "failed" THEN fatalLeft - 1 ELSE fatalLeft
  /\ UNCHANGED <<mainVars, exit>>
Tick ==
  /\ ~Prompt
  /\ PollTick
  /\ shutLeft' = IF shut # "await" /\ shutLeft > 0 THEN shutLeft - 1 ELSE shutLeft
  /\ fatalLeft' = IF cancelled THEN fatalLeft - 1 ELSE fatalLeft
  /\ UNCHANGED <<mainVars, exit>>

Serving  == StartPool \/ Listen \/ ServerFails \/ ServeReturns
Recovery == RecoveryStarts \/ RecoveryEnds \/ \E r \in Recoveries : Recover(r)
Request(u) == Accept(u) \/ Upload(u) \/ Respond(u)
Stopping == AwaitCancel \/ StopPool \/ Drained \/ Shutdown \/ ShutdownReturns
Ending   == Return \/ Fatal

\* A process that has ended takes no step.
Next ==
  /\ exit = "running"
  /\ \/ Signal \/ Serving \/ Recovery \/ Stopping \/ Ending \/ Tick
     \/ \E u \in Uploads : Request(u)
     \/ \E p \in Polls : Take(p) \/ Task(p) \/ AccrualAnswers(p)

Spec == Init /\ [][Next]_vars

Live(A) == exit = "running" /\ A

\* The goroutines run and time passes.  Nothing is assumed of the signal, of
\* the clients, of the database, nor that the accrual system ever answers.
Fairness ==
  /\ WF_vars(Live(StartPool \/ Listen \/ ServeReturns))
  /\ WF_vars(Live(Stopping)) /\ WF_vars(Live(Ending)) /\ WF_vars(Live(Tick))
  /\ \A p \in Polls : WF_vars(Live(Task(p)))

LiveSpec == Spec /\ Fairness

-----------------------------------------------------------------------------
(* Properties.                                                             *)

TypeOK ==
  /\ cancelled \in BOOLEAN
  /\ phase \in [Polls -> Phases]
  /\ lastDelay \in [Polls -> 0..MaxDelay]
  /\ left \in [Polls -> 0..MaxDelay]
  /\ asked \in [Polls -> Int]
  /\ waited \in [Polls -> Nat]
  /\ late \in [Polls -> Nat]
  /\ pool \in {"init", "started", "stopped"}
  /\ server \in {"start", "listen", "serve", "closed", "failed"}
  /\ shut \in {"await", "stop", "drain", "shutdown", "close", "returned"}
  /\ recovery \in {"none", "select", "enqueue", "returned"}
  /\ request \in [Uploads -> {"none", "serving", "answered"}]
  /\ shutLeft \in 0..ServerTimeout /\ fatalLeft \in 0..ProcessTimeout
  /\ exit \in {"running", "clean", "failed", "late"}

\* The pause between two calls is the one the last answer asked for: the
\* seconds of its Retry-After up to the cap, a second when there is none, and
\* never a pause of an earlier answer.  A Retry-After that does not fit a
\* Duration gives some pause, positive and not above the cap.
Fits(d) == -Half <= d /\ d < Half
AskedPause(p) ==
  LET d == asked[p] * Second
  IN  IF ~Fits(d) THEN 1..MaxDelay
      ELSE IF d <= 0 THEN {Second}
      ELSE {IF d < MaxDelay THEN d ELSE MaxDelay}
CallsAsAsked ==
  [][\A p \in Polls :
       phase[p] = "waiting" /\ phase'[p] = "calling" => waited[p] \in AskedPause(p)]_vars

\* A recovered task whose context is cancelled makes at most one more call:
\* the one it was about to make, whatever the accrual system answers.
CancelledPollsStop == \A r \in Recoveries : late[r] <= 1

\* When the ten seconds are over, a pool that still runs tasks is the only
\* reason: Shutdown's five seconds run during Stop, so that requests that do
\* not end cannot take the process there.
LateOnlyForPool ==
  [][cancelled /\ fatalLeft = 1 /\ fatalLeft' = 0 => shut = "drain"]_vars

\* A process that ends by itself leaves no task of a pool it has stopped,
\* running or queued, whenever uploads and the recovery enqueued them.
NothingAbandoned ==
  exit \in {"clean", "failed"} /\ pool = "stopped" => Running \cup Queued = {}

\* A process that ends by itself cuts a request only when Shutdown's five
\* seconds are over.
NobodyCutUnlessLate ==
  exit \in {"clean", "failed"} /\ ~Idle => shutLeft = 0

\* A cancelled process goes nowhere in circles: until the ten seconds are used
\* up, every step leaves fewer steps to be made before the next tick.  So no
\* task polls without a pause, whatever Retry-After says, and uploads, recovery
\* and shutdown cannot keep one another busy.
ServerSteps   == [start |-> 4, listen |-> 2, serve |-> 1, closed |-> 0, failed |-> 0]
ShutSteps     == [await |-> 5, stop |-> 4, drain |-> 3, shutdown |-> 2, close |-> 1, returned |-> 0]
RecoverySteps == [none |-> 0, enqueue |-> 2, select |-> 1, returned |-> 0]
PhaseSteps    == [none |-> 5, queued |-> 4, ready |-> 3, calling |-> 2, waiting |-> 1,
                  refused |-> 0, done |-> 0]
MainSteps ==
  ServerSteps[server] + ShutSteps[shut] + RecoverySteps[recovery]
    + (IF exit = "running" THEN 1 ELSE 0)
PollSteps ==
  [p \in Polls |-> PhaseSteps[IF phase[p] = "waiting" /\ left[p] = 0 THEN "ready" ELSE phase[p]]]
RequestSteps == [u \in Uploads |-> [none |-> 2, serving |-> 1, answered |-> 0][request[u]]]
StepsLeft ==
  MainSteps + MapThenSumSet(LAMBDA p : PollSteps[p], Polls)
            + MapThenSumSet(LAMBDA u : RequestSteps[u], Uploads)
ShutdownAdvances ==
  [][cancelled => \/ fatalLeft' < fatalLeft
                  \/ fatalLeft' = fatalLeft /\ StepsLeft' < StepsLeft]_vars

\* A cancelled process ends, though the accrual system never answers and the
\* clients never go away, and whether a signal or an error cancelled it.
ShutdownEnds == cancelled ~> exit # "running"
=============================================================================
