--------------------------- MODULE WorkerPoolProofs ---------------------------
(***************************************************************************)
(* Proofs about WorkerPool, for every number of tasks and workers and every *)
(* capacity of the channel.                                                *)
(*                                                                         *)
(* The argument.  The two counters are the sizes of sets of goroutines     *)
(* (Counted), so a Wait that returns has seen these sets empty; and from   *)
(* close on nothing enters the channel, so they stay empty of accepted     *)
(* tasks (StopInv).  Each accepted task is in one place (PlaceInv).        *)
(***************************************************************************)
EXTENDS WorkerPool, FiniteSetTheorems, TLAPS

Running == {w \in Workers : worker[w] = "run"}
Sending == {t \in Tasks : add[t] = "send"}
Alive   == {w \in Workers : worker[w] \in {"receive", "run"}}

\* What the two WaitGroups count, until a panic ends the process.
Counted ==
  stop # "panicked" =>
    /\ wgTasks = Len(queue) + Cardinality(Running) + Cardinality(Sending)
    /\ wgWorkers = Cardinality(Alive)

\* A task in the channel or in a worker was accepted, has not run, and is
\* nowhere else.
PlaceInv ==
  /\ \A i \in 1..Len(queue) : add[queue[i]] = "nil" /\ queue[i] \notin ran
  /\ \A i, j \in 1..Len(queue) : queue[i] = queue[j] => i = j
  /\ \A w \in Running :
       /\ running[w] \in Tasks /\ add[running[w]] = "nil" /\ running[w] \notin ran
       /\ \A i \in 1..Len(queue) : queue[i] # running[w]
  /\ \A v, w \in Running : running[v] = running[w] => v = w
  /\ \A t \in ran : add[t] = "nil"

\* An accepted task has run, or is in the channel, or in a worker.
NothingLost ==
  stop # "panicked" =>
    \A t \in Tasks : add[t] = "nil" =>
      \/ t \in ran
      \/ \E i \in 1..Len(queue) : queue[i] = t
      \/ \E w \in Running : running[w] = t

\* Past the Wait for the tasks there are none left in the channel or a worker.
Drained == {"waitWorkers", "parkedWorkers", "wokenWorkers", "returned"}
StopInv ==
  /\ closed <=> stop \notin {"cas", "refused", "close"}
  /\ stop \in Drained => queue = <<>> /\ Running = {}

\* A panic ends every goroutine.
Ended ==
  stop = "panicked" =>
    /\ start = "dead" /\ \A w \in Workers : worker[w] = "dead"
    /\ \A t \in Tasks : add[t] \notin {"load", "count", "send"}

IInv == TypeOK /\ Counted /\ PlaceInv /\ NothingLost /\ StopInv /\ Ended
-----------------------------------------------------------------------------
(* Sizes and counters.                                                     *)

LEMMA Finite ==
  ASSUME NEW S, S \subseteq Workers \/ S \subseteq Tasks
  PROVE  IsFiniteSet(S) /\ Cardinality(S) \in Nat
BY FS_Subset, FS_CardinalityType, PoolAssumption

LEMMA Added ==
  ASSUME NEW S, S \subseteq Workers \/ S \subseteq Tasks, NEW x, x \notin S
  PROVE  Cardinality(S \cup {x}) = Cardinality(S) + 1
BY Finite, FS_AddElement

LEMMA Removed ==
  ASSUME NEW S, S \subseteq Workers \/ S \subseteq Tasks, NEW x \in S
  PROVE  Cardinality(S \ {x}) = Cardinality(S) - 1 /\ Cardinality(S) > 0
<1>1. IsFiniteSet(S) /\ Cardinality(S) \in Nat
  BY Finite
<1>2. Cardinality(S \ {x}) = Cardinality(S) - 1
  BY <1>1, FS_RemoveElement
<1>3. Cardinality(S) # 0
  BY <1>1, FS_EmptySet
<1> QED BY <1>1, <1>2, <1>3

LEMMA Sets ==
  /\ Running \subseteq Workers /\ Alive \subseteq Workers /\ Sending \subseteq Tasks
  /\ Cardinality(Running) \in Nat /\ Cardinality(Alive) \in Nat
  /\ Cardinality(Sending) \in Nat
<1>1. Running \subseteq Workers /\ Alive \subseteq Workers /\ Sending \subseteq Tasks
  BY DEF Running, Alive, Sending
<1> QED BY <1>1, Finite

\* A Done on a counter that is not zero: it may wake Stop, and no more.
LEMMA TasksDoneTypes ==
  ASSUME IInv, TasksDone, wgTasks > 0
  PROVE  /\ wgTasks' \in Nat /\ wgTasks' = wgTasks - 1
         /\ stop' = stop \/ (stop = "parkedTasks" /\ stop' = "wokenTasks")
         /\ stop' \in StopPCs
BY DEF IInv, TypeOK, TasksDone, StopPCs, Parked, Woken

LEMMA WorkersDoneTypes ==
  ASSUME IInv, WorkersDone, wgWorkers > 0
  PROVE  /\ wgWorkers' \in Nat /\ wgWorkers' = wgWorkers - 1
         /\ stop' = stop \/ (stop = "parkedWorkers" /\ stop' = "wokenWorkers")
         /\ stop' \in StopPCs
BY DEF IInv, TypeOK, WorkersDone, StopPCs, Parked, Woken

\* StopInv outlives a Done, which moves Stop from a parked Wait to a woken one.
LEMMA StopWoken ==
  ASSUME StopInv, UNCHANGED closed,
         \/ stop' = stop
         \/ stop = "parkedTasks" /\ stop' = "wokenTasks"
         \/ stop = "parkedWorkers" /\ stop' = "wokenWorkers",
         stop \in Drained => UNCHANGED <<queue, Running>>
  PROVE  StopInv'
BY DEF StopInv, Drained

-----------------------------------------------------------------------------
(* Start, and the steps of Stop.                                           *)

\* Steps that leave channel, workers, calls of Add and counters alone.
LEMMA ControlInv ==
  ASSUME IInv, UNCHANGED <<queue, counters, add, worker, running, ran>>,
         state' \in {"init", "started", "stopped"}, closed' \in BOOLEAN,
         start' \in {"cas", "spawn", "returned", "dead"}, stop' \in StopPCs,
         stop # "panicked", stop' # "panicked", StopInv'
  PROVE  IInv'
<1>1. TypeOK'
  BY DEF IInv, TypeOK, counters
<1>2. Running' = Running /\ Sending' = Sending /\ Alive' = Alive
  BY DEF Running, Sending, Alive
<1>3. Counted'
  BY <1>2 DEF IInv, Counted, counters
<1>4. PlaceInv'
  BY <1>2 DEF IInv, PlaceInv
<1>5. NothingLost'
  BY <1>2 DEF IInv, NothingLost
<1> QED BY <1>1, <1>3, <1>4, <1>5 DEF IInv, Ended

LEMMA StartCASInv == ASSUME IInv, StartCAS PROVE IInv'
<1>1. StopInv' /\ TypeOK /\ stop # "panicked"
  BY DEF IInv, StartCAS, StopInv, Running, Ended
<1> QED BY <1>1, ControlInv DEF StartCAS, TypeOK

LEMMA SpawnInv == ASSUME IInv, Spawn PROVE IInv'
<1>1. /\ TypeOK /\ UNCHANGED <<state, queue, closed, wgTasks, add, stop, running, ran>>
      /\ Ended'
  BY DEF IInv, Spawn, Ended
<1>2. CASE UNCHANGED <<worker, wgWorkers>> /\ start' = "returned"
  <2>1. TypeOK'
    BY <1>1, <1>2 DEF TypeOK
  <2>2. Running' = Running /\ Sending' = Sending /\ Alive' = Alive
    BY <1>1, <1>2 DEF Running, Sending, Alive
  <2> QED BY <1>1, <1>2, <2>1, <2>2 DEF IInv, Counted, PlaceInv, NothingLost, StopInv
<1>3. ASSUME NEW w \in Workers, worker[w] = "none",
             worker' = [worker EXCEPT ![w] = "receive"],
             wgWorkers' = wgWorkers + 1, UNCHANGED start
      PROVE  IInv'
  <2>1. TypeOK'
    BY <1>1, <1>3 DEF TypeOK
  <2>2. Running' = Running /\ Sending' = Sending /\ Alive' = Alive \cup {w} /\ w \notin Alive
    BY <1>1, <1>3 DEF Running, Sending, Alive, TypeOK
  <2>3. Counted'
    BY <1>1, <1>3, <2>2, Sets, Added DEF IInv, Counted
  <2> QED BY <1>1, <2>1, <2>2, <2>3 DEF IInv, PlaceInv, NothingLost, StopInv
<1> QED BY <1>2, <1>3 DEF Spawn

LEMMA StopStepInv ==
  ASSUME IInv, StopCAS \/ StopClose \/ StopWaitTasks \/ StopWaitWorkers \/ StopWake
  PROVE  IInv'
<1>1. /\ TypeOK /\ StopInv /\ Counted
      /\ Cardinality(Running) \in Nat /\ Cardinality(Sending) \in Nat /\ Len(queue) \in Nat
  BY Sets DEF IInv, TypeOK
<1>2. UNCHANGED <<queue, counters, add, worker, running, ran, start>> /\ Running' = Running
  BY DEF StopCAS, StopClose, StopWaitTasks, StopWaitWorkers, StopWake, Running
<1>3. stop # "panicked" /\ stop' # "panicked"
  BY DEF StopCAS, StopClose, StopWaitTasks, StopWaitWorkers, StopWake, Woken
<1>4. ASSUME wgTasks = 0 PROVE queue = <<>> /\ Running = {}
  <2>1. Len(queue) = 0 /\ Cardinality(Running) = 0
    BY <1>1, <1>3, <1>4 DEF Counted
  <2>2. Running = {}
    BY <2>1, Sets, Finite, FS_EmptySet
  <2> QED BY <1>1, <2>1, <2>2 DEF TypeOK
<1>5. StopInv'
  BY <1>1, <1>2, <1>4 DEF StopInv, Drained, StopCAS, StopClose, StopWaitTasks,
     StopWaitWorkers, StopWake, Waited, Woken
<1>6. state' \in {"init", "started", "stopped"} /\ closed' \in BOOLEAN /\ stop' \in StopPCs
  BY <1>1 DEF TypeOK, StopPCs, Parked, Woken, StopCAS, StopClose, StopWaitTasks,
     StopWaitWorkers, StopWake
<1> QED BY <1>1, <1>2, <1>3, <1>5, <1>6, ControlInv DEF TypeOK

LEMMA StopPanicInv == ASSUME IInv, StopPanic PROVE IInv'
<1>1. /\ TypeOK /\ stop' = "panicked" /\ stop \in Woken
      /\ UNCHANGED <<state, queue, closed, counters, running, ran>>
      /\ worker' = [w \in Workers |-> "dead"] /\ start' = "dead"
      /\ add' = [t \in Tasks |-> IF add[t] \in {"load", "count", "send"} THEN "dead" ELSE add[t]]
  BY DEF IInv, StopPanic
<1>2. TypeOK'
  BY <1>1 DEF TypeOK, AddPCs, StopPCs, counters
<1>3. \A t \in Tasks : add[t] = "nil" => add'[t] = "nil"
  BY <1>1
<1>4. Running' = {}
  BY <1>1 DEF Running
<1>5. \A i \in 1..Len(queue) : queue[i] \in Tasks
  BY <1>1 DEF TypeOK
<1>6. PlaceInv'
  BY <1>1, <1>3, <1>4, <1>5 DEF IInv, PlaceInv, TypeOK
<1>7. StopInv'
  BY <1>1 DEF IInv, StopInv, Drained, Woken
<1> QED BY <1>1, <1>2, <1>6, <1>7 DEF IInv, Counted, NothingLost, Ended

-----------------------------------------------------------------------------
(* The workers.                                                            *)

LEMMA ReceiveInv == ASSUME IInv, NEW w \in Workers, Receive(w) PROVE IInv'
<1>1. /\ TypeOK /\ worker[w] = "receive" /\ queue # <<>> /\ queue' = Tail(queue)
      /\ worker' = [worker EXCEPT ![w] = "run"]
      /\ running' = [running EXCEPT ![w] = Head(queue)]
      /\ UNCHANGED <<state, closed, counters, start, add, stop, ran>>
  BY DEF IInv, Receive
<1>2. /\ queue \in Seq(Tasks) /\ Len(queue) \in Nat /\ Len(queue) > 0
      /\ queue' \in Seq(Tasks) /\ Len(queue') = Len(queue) - 1
      /\ \A i \in 1..Len(queue') : queue'[i] = queue[i + 1] /\ i + 1 \in 1..Len(queue)
      /\ Head(queue) = queue[1] /\ Head(queue) \in Tasks /\ 1 \in 1..Len(queue)
  BY <1>1 DEF TypeOK
<1>3. QueueSize \in Nat
  BY PoolAssumption
<1>4. TypeOK'
  BY <1>1, <1>2, <1>3 DEF TypeOK, counters
<1>5. /\ Running' = Running \cup {w} /\ w \notin Running
      /\ Sending' = Sending /\ Alive' = Alive
  BY <1>1 DEF Running, Sending, Alive, TypeOK
<1>6. /\ running'[w] = queue[1] /\ \A v \in Running : running'[v] = running[v]
  BY <1>1, <1>2, <1>5, Sets DEF TypeOK
<1>7. Counted'
  BY <1>1, <1>2, <1>5, Sets, Added DEF IInv, Counted, counters
<1>8. PlaceInv'
  <2>1. PlaceInv
    BY DEF IInv
  <2>2. \A i \in 1..Len(queue') : add'[queue'[i]] = "nil" /\ queue'[i] \notin ran'
    BY <1>1, <1>2, <2>1 DEF PlaceInv
  <2>3. \A i, j \in 1..Len(queue') : queue'[i] = queue'[j] => i = j
    BY <1>2, <2>1 DEF PlaceInv
  <2>4. ASSUME NEW v \in Running'
        PROVE  /\ running'[v] \in Tasks /\ add'[running'[v]] = "nil" /\ running'[v] \notin ran'
               /\ \A i \in 1..Len(queue') : queue'[i] # running'[v]
    <3>1. CASE v = w
      BY <1>1, <1>2, <1>6, <2>1, <3>1 DEF PlaceInv
    <3>2. CASE v # w
      BY <1>1, <1>2, <1>5, <1>6, <2>1, <3>2 DEF PlaceInv
    <3> QED BY <3>1, <3>2
  <2>5. \A v, x \in Running' : running'[v] = running'[x] => v = x
    BY <1>2, <1>5, <1>6, <2>1 DEF PlaceInv
  <2> QED BY <1>1, <2>1, <2>2, <2>3, <2>4, <2>5 DEF PlaceInv
<1>9. NothingLost'
  <2> SUFFICES ASSUME stop # "panicked", NEW t \in Tasks, add[t] = "nil", t \notin ran
               PROVE  \/ \E i \in 1..Len(queue') : queue'[i] = t
                      \/ \E v \in Running' : running'[v] = t
    BY <1>1 DEF NothingLost
  <2>1. CASE \E v \in Running : running[v] = t
    BY <1>5, <1>6, <2>1
  <2>2. ASSUME NEW i \in 1..Len(queue), queue[i] = t
        PROVE  \/ \E j \in 1..Len(queue') : queue'[j] = t
               \/ \E v \in Running' : running'[v] = t
    <3>1. CASE i = 1
      BY <1>5, <1>6, <2>2, <3>1
    <3>2. CASE i # 1
      <4>1. i - 1 \in 1..Len(queue') /\ (i - 1) + 1 = i
        BY <1>2, <3>2
      <4>2. queue'[i - 1] = t
        BY <1>2, <2>2, <4>1
      <4> QED BY <4>1, <4>2
    <3> QED BY <3>1, <3>2
  <2> QED BY <2>1, <2>2 DEF IInv, NothingLost
<1>10. StopInv' /\ Ended'
  BY <1>1 DEF IInv, StopInv, Ended
<1> QED BY <1>4, <1>7, <1>8, <1>9, <1>10 DEF IInv

LEMMA RunInv == ASSUME IInv, NEW w \in Workers, Run(w) PROVE IInv'
<1>1. /\ TypeOK /\ worker[w] = "run" /\ ran' = ran \cup {running[w]} /\ TasksDone
      /\ worker' = [worker EXCEPT ![w] = "receive"]
      /\ running' = [running EXCEPT ![w] = None]
      /\ UNCHANGED <<state, queue, closed, wgWorkers, start, add>>
  BY DEF IInv, Run
<1>2. /\ w \in Running /\ Running' = Running \ {w}
      /\ Sending' = Sending /\ Alive' = Alive
  BY <1>1 DEF Running, Sending, Alive, TypeOK
<1>3. stop # "panicked" /\ wgTasks > 0
  <2>1. Cardinality(Running) > 0
    BY <1>2, Sets, Removed
  <2>2. Len(queue) \in Nat
    BY <1>1 DEF TypeOK
  <2> QED BY <1>1, <2>1, <2>2, Sets DEF IInv, Counted, Ended
<1>4. /\ wgTasks' \in Nat /\ wgTasks' = wgTasks - 1 /\ stop' \in StopPCs
      /\ stop' = stop \/ (stop = "parkedTasks" /\ stop' = "wokenTasks")
  BY <1>1, <1>3, TasksDoneTypes
<1>5. running[w] \in Tasks /\ PlaceInv
  BY <1>2 DEF IInv, PlaceInv
<1>6. /\ TypeOK' /\ \A v \in Running' : running'[v] = running[v]
  BY <1>1, <1>2, <1>4, <1>5 DEF TypeOK, Running
<1>7. Counted'
  BY <1>1, <1>2, <1>3, <1>4, Sets, Removed DEF IInv, Counted, TypeOK
<1>8. PlaceInv'
  <2>1. \A v \in Running' : v \in Running /\ v # w /\ running[v] # running[w]
    BY <1>2, <1>5 DEF PlaceInv
  <2> QED BY <1>1, <1>2, <1>5, <1>6, <2>1 DEF PlaceInv
<1>9. NothingLost'
  BY <1>1, <1>2, <1>3, <1>6 DEF IInv, NothingLost
<1>10. StopInv'
  BY <1>1, <1>2, <1>4, StopWoken DEF IInv, StopInv
<1> QED BY <1>1, <1>3, <1>4, <1>6, <1>7, <1>8, <1>9, <1>10 DEF IInv, Ended

LEMMA ExitInv == ASSUME IInv, NEW w \in Workers, Exit(w) PROVE IInv'
<1>1. /\ TypeOK /\ worker[w] = "receive" /\ WorkersDone
      /\ worker' = [worker EXCEPT ![w] = "exited"]
      /\ UNCHANGED <<state, queue, closed, wgTasks, start, add, running, ran>>
  BY DEF IInv, Exit
<1>2. /\ w \in Alive /\ Alive' = Alive \ {w}
      /\ Sending' = Sending /\ Running' = Running
  BY <1>1 DEF Running, Sending, Alive, TypeOK
<1>3. stop # "panicked" /\ wgWorkers > 0
  BY <1>1, <1>2, Sets, Removed DEF IInv, Counted, Ended
<1>4. /\ wgWorkers' \in Nat /\ wgWorkers' = wgWorkers - 1 /\ stop' \in StopPCs
      /\ stop' = stop \/ (stop = "parkedWorkers" /\ stop' = "wokenWorkers")
  BY <1>1, <1>3, WorkersDoneTypes
<1>5. TypeOK'
  BY <1>1, <1>4 DEF TypeOK
<1>6. Counted'
  BY <1>1, <1>2, <1>3, <1>4, Sets, Removed DEF IInv, Counted
<1>7. PlaceInv' /\ NothingLost'
  BY <1>1, <1>2, <1>3 DEF IInv, PlaceInv, NothingLost
<1>8. StopInv'
  BY <1>1, <1>2, <1>4, StopWoken DEF IInv
<1> QED BY <1>3, <1>4, <1>5, <1>6, <1>7, <1>8 DEF IInv, Ended

-----------------------------------------------------------------------------
(* Add.                                                                    *)

\* A call of Add goes on to p, which is not the acceptance of its task.
LEMMA AddMoves ==
  ASSUME IInv, NEW t \in Tasks, add[t] \in {"load", "count", "send"},
         NEW p \in AddPCs \ {"nil", "dead"}, add' = [add EXCEPT ![t] = p],
         UNCHANGED <<queue, worker, running, ran, start>>
  PROVE  /\ add' \in [Tasks -> AddPCs]
         /\ Running' = Running /\ Alive' = Alive
         /\ Sending' = IF p = "send" THEN Sending \cup {t} ELSE Sending \ {t}
         /\ PlaceInv' /\ NothingLost' /\ stop # "panicked"
<1>1. TypeOK /\ PlaceInv
  BY DEF IInv
<1>2. add' \in [Tasks -> AddPCs]
  BY <1>1 DEF TypeOK
<1>3. /\ Running' = Running /\ Alive' = Alive
      /\ Sending' = IF p = "send" THEN Sending \cup {t} ELSE Sending \ {t}
  BY <1>1 DEF Running, Alive, Sending, TypeOK
<1>4. \A s \in Tasks : add[s] = "nil" <=> add'[s] = "nil"
  BY <1>1 DEF TypeOK
<1>5. (\A i \in 1..Len(queue) : queue[i] \in Tasks) /\ ran \subseteq Tasks
  BY <1>1 DEF TypeOK
<1>6. PlaceInv'
  BY <1>1, <1>3, <1>4, <1>5 DEF PlaceInv
<1>7. stop # "panicked"
  BY DEF IInv, Ended
<1>8. NothingLost'
  BY <1>3, <1>4, <1>7 DEF IInv, NothingLost
<1> QED BY <1>2, <1>3, <1>6, <1>7, <1>8

LEMMA AddLoadInv == ASSUME IInv, NEW t \in Tasks, AddLoad(t) PROVE IInv'
<1> DEFINE p == IF state = "stopped" THEN "errStopped" ELSE "count"
<1>1. /\ TypeOK /\ add[t] = "load" /\ add' = [add EXCEPT ![t] = p]
      /\ UNCHANGED <<state, queue, closed, counters, start, stop, worker, running, ran>>
  BY DEF IInv, AddLoad
<1>2. p \in AddPCs \ {"nil", "dead", "send"}
  BY DEF AddPCs
<1>3. /\ add' \in [Tasks -> AddPCs] /\ Running' = Running /\ Alive' = Alive
      /\ Sending' = Sending \ {t} /\ PlaceInv' /\ NothingLost' /\ stop # "panicked"
  BY <1>1, <1>2, AddMoves
<1>4. Sending' = Sending
  BY <1>1, <1>3 DEF Sending
<1>5. TypeOK' /\ Counted' /\ StopInv' /\ Ended'
  BY <1>1, <1>3, <1>4 DEF IInv, TypeOK, Counted, StopInv, Ended, counters
<1> QED BY <1>3, <1>5 DEF IInv

LEMMA AddCountInv == ASSUME IInv, NEW t \in Tasks, AddCount(t) PROVE IInv'
<1>1. /\ TypeOK /\ add[t] = "count" /\ add' = [add EXCEPT ![t] = "send"]
      /\ wgTasks' = wgTasks + 1
      /\ UNCHANGED <<state, queue, closed, wgWorkers, start, stop, worker, running, ran>>
  BY DEF IInv, AddCount
<1>2. /\ add' \in [Tasks -> AddPCs] /\ Running' = Running /\ Alive' = Alive
      /\ Sending' = Sending \cup {t} /\ PlaceInv' /\ NothingLost' /\ stop # "panicked"
  BY <1>1, AddMoves DEF AddPCs
<1>3. t \notin Sending
  BY <1>1 DEF Sending
<1>4. TypeOK'
  BY <1>1, <1>2 DEF TypeOK
<1>5. Counted'
  BY <1>1, <1>2, <1>3, Sets, Added DEF IInv, Counted, TypeOK
<1>6. StopInv' /\ Ended'
  BY <1>1, <1>2 DEF IInv, StopInv, Ended
<1> QED BY <1>2, <1>4, <1>5, <1>6 DEF IInv

\* Add takes its count back and returns an error.
LEMMA AddErrInv == ASSUME IInv, NEW t \in Tasks, AddFull(t) \/ AddClosed(t) PROVE IInv'
<1>1. PICK p \in {"errQueueFull", "errStopped"} : add' = [add EXCEPT ![t] = p]
  BY DEF AddFull, AddClosed
<1>2. /\ TypeOK /\ add[t] = "send" /\ TasksDone
      /\ UNCHANGED <<state, queue, closed, wgWorkers, start, worker, running, ran>>
  BY DEF IInv, AddFull, AddClosed
<1>3. /\ add' \in [Tasks -> AddPCs] /\ Running' = Running /\ Alive' = Alive
      /\ Sending' = Sending \ {t} /\ PlaceInv' /\ NothingLost' /\ stop # "panicked"
  BY <1>1, <1>2, AddMoves DEF AddPCs
<1>4. t \in Sending
  BY <1>2 DEF Sending
<1>5. wgTasks > 0 /\ Cardinality(Sending') = Cardinality(Sending) - 1 /\ Len(queue) \in Nat
  <2>1. /\ Cardinality(Sending) > 0 /\ Len(queue) \in Nat
        /\ Cardinality(Sending \ {t}) = Cardinality(Sending) - 1
    BY <1>2, <1>4, Sets, Removed DEF TypeOK
  <2> QED BY <1>3, <2>1, Sets DEF IInv, Counted
<1>6. /\ wgTasks' \in Nat /\ wgTasks' = wgTasks - 1 /\ stop' \in StopPCs
      /\ stop' = stop \/ (stop = "parkedTasks" /\ stop' = "wokenTasks")
  BY <1>2, <1>5, TasksDoneTypes
<1>7. TypeOK'
  BY <1>2, <1>3, <1>6 DEF TypeOK
<1>8. Counted'
  BY <1>2, <1>3, <1>5, <1>6, Sets DEF IInv, Counted, TypeOK
<1>9. StopInv' /\ Ended'
  BY <1>2, <1>3, <1>6, StopWoken DEF IInv, Ended
<1> QED BY <1>3, <1>7, <1>8, <1>9 DEF IInv

LEMMA AddSendInv == ASSUME IInv, NEW t \in Tasks, AddSend(t) PROVE IInv'
<1>1. /\ TypeOK /\ add[t] = "send" /\ ~closed /\ Len(queue) < QueueSize
      /\ queue' = Append(queue, t) /\ add' = [add EXCEPT ![t] = "nil"]
      /\ UNCHANGED <<state, closed, counters, start, stop, worker, running, ran>>
  BY DEF IInv, AddSend
<1>2. /\ queue \in Seq(Tasks) /\ Len(queue) \in Nat
      /\ queue' \in Seq(Tasks) /\ Len(queue') = Len(queue) + 1
      /\ \A i \in 1..Len(queue) : queue'[i] = queue[i] /\ queue[i] \in Tasks
      /\ queue'[Len(queue')] = t
  BY <1>1 DEF TypeOK
<1>3. QueueSize \in Nat
  BY PoolAssumption
<1>4. TypeOK'
  BY <1>1, <1>2, <1>3 DEF TypeOK, AddPCs, counters
<1>5. /\ Running' = Running /\ Alive' = Alive
      /\ t \in Sending /\ Sending' = Sending \ {t}
  BY <1>1 DEF Running, Alive, Sending, TypeOK
<1>6. Counted'
  <2>1. Cardinality(Sending') = Cardinality(Sending) - 1
    BY <1>5, Sets, Removed
  <2> QED BY <1>1, <1>2, <1>5, <2>1, Sets DEF IInv, Counted, counters
<1>7. \A s \in Tasks : add[s] = "nil" => add'[s] = "nil" /\ s # t
  BY <1>1 DEF TypeOK
<1>8. PlaceInv'
  <2>1. PlaceInv /\ add'[t] = "nil" /\ ran \subseteq Tasks
    BY <1>1 DEF IInv, TypeOK
  <2>2. t \notin ran
    BY <1>1, <2>1 DEF PlaceInv
  <2>3. \A i \in 1..Len(queue) : queue[i] # t
    BY <1>2, <1>7, <2>1 DEF PlaceInv
  <2>4. \A w \in Running : running[w] # t
    BY <1>7, <2>1 DEF PlaceInv
  <2>5. \A i \in 1..Len(queue') : i = Len(queue') \/ i \in 1..Len(queue)
    BY <1>2
  <2>6. \A i \in 1..Len(queue') : add'[queue'[i]] = "nil" /\ queue'[i] \notin ran'
    BY <1>1, <1>2, <1>7, <2>1, <2>2, <2>5 DEF PlaceInv
  <2>7. \A i, j \in 1..Len(queue') : queue'[i] = queue'[j] => i = j
    BY <1>2, <2>1, <2>3, <2>5 DEF PlaceInv
  <2>8. \A w \in Running' : /\ running'[w] \in Tasks /\ add'[running'[w]] = "nil"
                            /\ running'[w] \notin ran'
                            /\ \A i \in 1..Len(queue') : queue'[i] # running'[w]
    BY <1>1, <1>2, <1>5, <1>7, <2>1, <2>4, <2>5 DEF PlaceInv
  <2> QED BY <1>1, <1>5, <1>7, <2>1, <2>6, <2>7, <2>8 DEF PlaceInv
<1>9. NothingLost'
  <2> SUFFICES ASSUME stop # "panicked", NEW s \in Tasks, add'[s] = "nil", s \notin ran
               PROVE  \/ \E i \in 1..Len(queue') : queue'[i] = s
                      \/ \E w \in Running : running[w] = s
    BY <1>1, <1>5 DEF NothingLost
  <2>1. CASE s = t
    BY <1>2, <2>1
  <2>2. CASE s # t
    <3>1. add[s] = "nil" /\ NothingLost
      BY <1>1, <2>2 DEF IInv, TypeOK
    <3>2. \A i \in 1..Len(queue) : i \in 1..Len(queue')
      BY <1>2
    <3> QED BY <1>2, <3>1, <3>2 DEF NothingLost
  <2> QED BY <2>1, <2>2
<1>10. StopInv' /\ Ended'
  BY <1>1 DEF IInv, StopInv, Drained, Ended
<1> QED BY <1>4, <1>6, <1>8, <1>9, <1>10 DEF IInv

-----------------------------------------------------------------------------
(* The inductive invariant, and what follows from it.                      *)

LEMMA InitInv == Init => IInv
<1> SUFFICES ASSUME Init PROVE IInv
  OBVIOUS
<1>1. Running = {} /\ Sending = {} /\ Alive = {}
  BY DEF Init, Running, Sending, Alive
<1>2. TypeOK
  <2>1. <<>> \in Seq(Tasks) /\ Len(<<>>) = 0
    OBVIOUS
  <2>2. queue \in Seq(Tasks) /\ Len(queue) <= QueueSize
    BY <2>1, PoolAssumption DEF Init
  <2> QED BY <2>2 DEF Init, TypeOK, AddPCs, StopPCs
<1>3. Counted
  BY <1>1, FS_EmptySet DEF Init, Counted
<1>4. PlaceInv /\ NothingLost /\ StopInv /\ Ended
  BY <1>1 DEF Init, PlaceInv, NothingLost, StopInv, Drained, Ended
<1> QED BY <1>2, <1>3, <1>4 DEF IInv

LEMMA StepInv == IInv /\ [Next]_vars => IInv'
<1> SUFFICES ASSUME IInv, [Next]_vars PROVE IInv'
  OBVIOUS
<1>1. CASE Start
  BY <1>1, StartCASInv, SpawnInv DEF Start
<1>2. CASE Stop
  BY <1>2, StopStepInv, StopPanicInv DEF Stop
<1>3. ASSUME NEW t \in Tasks, Add(t) PROVE IInv'
  BY <1>3, AddLoadInv, AddCountInv, AddSendInv, AddErrInv DEF Add
<1>4. ASSUME NEW w \in Workers, Work(w) PROVE IInv'
  BY <1>4, ReceiveInv, RunInv, ExitInv DEF Work
<1>5. CASE UNCHANGED vars
  BY <1>5 DEF vars, counters, IInv, TypeOK, Counted, PlaceInv, NothingLost, StopInv, Ended,
              Running, Sending, Alive
<1> QED BY <1>1, <1>2, <1>3, <1>4, <1>5 DEF Next

\* The inductive invariant: what the counters count, and where a task is.
THEOREM Invariance == Spec => []IInv
BY InitInv, StepInv, PTL DEF Spec

\* No counter goes below zero, where sync.WaitGroup would panic, and the channel
\* holds at most its capacity (TypeOK).
THEOREM TypeCorrect == Spec => []TypeOK
<1>1. IInv => TypeOK
  BY DEF IInv
<1> QED BY <1>1, Invariance, PTL

\* The counter Stop waits for is the number of tasks in the channel, in a worker,
\* or between the two halves of Add (TasksCounted).
THEOREM CounterExact == Spec => []TasksCounted
<1>1. IInv => TasksCounted
  BY DEF IInv, Counted, TasksCounted, Running, Sending
<1> QED BY <1>1, Invariance, PTL

-----------------------------------------------------------------------------
(* The pool implements TaskPool.                                           *)

LEMMA InitRefines == Init => Pool!AInit
BY DEF Init, Pool!AInit, Outcome

\* A task whose call of Add is under way or has failed has not run.
LEMMA OutcomeOf ==
  ASSUME IInv, NEW t \in Tasks
  PROVE  /\ add[t] \in {"load", "count", "send", "dead"} => Outcome(t) = "none"
         /\ add[t] \in {"errQueueFull", "errStopped"} => Outcome(t) = "refused"
         /\ add[t] = "nil" => Outcome(t) = IF t \in ran THEN "ran" ELSE "accepted"
BY DEF IInv, PlaceInv, Outcome

\* Steps that neither decide a call of Add, nor run a task, nor let Stop return.
LEMMA PoolStutters ==
  ASSUME IInv, IInv', UNCHANGED ran,
         \A t \in Tasks : \/ add'[t] = add[t]
                          \/ /\ add[t] \in {"load", "count", "send"}
                             /\ add'[t] \in {"load", "count", "send", "dead"},
         stop' = "returned" <=> stop = "returned"
  PROVE  UNCHANGED Pool!avars
<1>1. ASSUME NEW t \in Tasks PROVE Outcome(t)' = Outcome(t)
  BY <1>1 DEF IInv, PlaceInv, Outcome
<1> QED BY <1>1 DEF Pool!avars

LEMMA AddRefines ==
  ASSUME IInv, IInv', NEW t \in Tasks, Add(t)
  PROVE  Pool!ANext \/ UNCHANGED Pool!avars
<1> DEFINE outcome == [s \in Tasks |-> Outcome(s)]
           pool == IF stop = "returned" THEN "drained" ELSE "open"
<1>1. /\ add \in [Tasks -> AddPCs] /\ ran' = ran
      /\ add[t] \in {"load", "count", "send"}
      /\ stop' = "returned" <=> stop = "returned"
  BY DEF IInv, TypeOK, Add, AddLoad, AddCount, AddSend, AddFull, AddClosed, TasksDone
<1>2. Outcome(t) = "none" /\ t \notin ran
  BY <1>1, OutcomeOf DEF IInv, PlaceInv
<1>3. PICK p \in AddPCs : add' = [add EXCEPT ![t] = p]
  BY DEF Add, AddLoad, AddCount, AddSend, AddFull, AddClosed, AddPCs
<1>4. \A s \in Tasks \ {t} : Outcome(s)' = Outcome(s)
  BY <1>1, <1>3 DEF Outcome
<1>5. add'[t] = p
  BY <1>1, <1>3
<1>6. CASE p \in {"count", "send"}
  BY <1>1, <1>3, <1>5, <1>6, PoolStutters
<1>7. CASE p \in {"errQueueFull", "errStopped"}
  <2>1. outcome' = [outcome EXCEPT ![t] = "refused"]
    BY <1>1, <1>2, <1>4, <1>5, <1>7 DEF Outcome
  <2>2. Pool!Refuse(t)
    BY <1>1, <1>2, <2>1 DEF Pool!Refuse
  <2> QED BY <2>2 DEF Pool!ANext
<1>8. CASE p = "nil"
  <2>1. AddSend(t)
    BY <1>1, <1>5, <1>8 DEF Add, AddLoad, AddCount, AddFull, AddClosed, IInv, TypeOK
  <2>2. stop # "returned" /\ stop' = stop
    BY <2>1 DEF AddSend, IInv, StopInv
  <2>3. outcome' = [outcome EXCEPT ![t] = "accepted"]
    BY <1>1, <1>2, <1>4, <1>5, <1>8 DEF Outcome
  <2>4. Pool!Accept(t)
    BY <1>2, <2>2, <2>3 DEF Pool!Accept
  <2> QED BY <2>4 DEF Pool!ANext
<1> QED
  <2>1. p \in {"count", "send", "errQueueFull", "errStopped", "nil"}
    BY <1>1, <1>5 DEF Add, AddLoad, AddCount, AddSend, AddFull, AddClosed, IInv, TypeOK
  <2> QED BY <2>1, <1>6, <1>7, <1>8

LEMMA RunRefines ==
  ASSUME IInv, NEW w \in Workers, Run(w)
  PROVE  Pool!ANext
<1> DEFINE outcome == [s \in Tasks |-> Outcome(s)]
<1>1. /\ w \in Running /\ ran' = ran \cup {running[w]} /\ add' = add
      /\ stop' = "returned" <=> stop = "returned"
  BY DEF Run, Running, TasksDone
<1>2. PICK t \in Tasks : t = running[w]
  BY <1>1 DEF IInv, PlaceInv
<1>3. add[t] = "nil" /\ t \notin ran /\ ran' = ran \cup {t}
  BY <1>1, <1>2 DEF IInv, PlaceInv
<1>4. stop # "returned"
  BY <1>1 DEF IInv, StopInv, Drained
<1>5. outcome[t] = "accepted"
  BY <1>3, OutcomeOf
<1>6. Outcome(t)' = "ran"
  BY <1>1, <1>3 DEF Outcome
<1>7. \A s \in Tasks : s # t => Outcome(s)' = Outcome(s)
  BY <1>1, <1>3 DEF Outcome
<1>8. outcome' = [outcome EXCEPT ![t] = "ran"]
  BY <1>6, <1>7
<1>9. Pool!Run(t)
  BY <1>1, <1>4, <1>5, <1>8 DEF Pool!Run
<1> QED BY <1>9 DEF Pool!ANext

LEMMA StopRefines ==
  ASSUME IInv, IInv', Stop
  PROVE  Pool!ANext \/ UNCHANGED Pool!avars
<1>1. /\ ran' = ran /\ add \in [Tasks -> AddPCs] /\ stop # "returned"
      /\ \A t \in Tasks : \/ add'[t] = add[t]
                          \/ add[t] \in {"load", "count", "send"} /\ add'[t] = "dead"
  BY DEF IInv, TypeOK, Stop, StopCAS, StopClose, StopWaitTasks, StopWaitWorkers, StopWake,
         StopPanic, Woken
<1>2. CASE stop' # "returned"
  BY <1>1, <1>2, PoolStutters
<1>3. CASE stop' = "returned"
  <2>1. add' = add /\ stop \in Drained /\ stop # "panicked"
    BY <1>3 DEF Stop, StopCAS, StopClose, StopWaitTasks, StopWaitWorkers, StopWake,
       StopPanic, Woken, Drained
  <2>2. queue = <<>> /\ Running = {}
    BY <2>1 DEF IInv, StopInv
  <2>3. \A t \in Tasks : Outcome(t) # "accepted"
    BY <2>1, <2>2 DEF IInv, NothingLost, Outcome
  <2>4. \A t \in Tasks : Outcome(t)' = Outcome(t)
    BY <1>1, <2>1 DEF Outcome
  <2>5. Pool!Drain
    BY <1>1, <1>3, <2>3, <2>4 DEF Pool!Drain
  <2> QED BY <2>5 DEF Pool!ANext
<1> QED BY <1>2, <1>3

LEMMA StepRefines == IInv /\ IInv' /\ [Next]_vars => [Pool!ANext]_Pool!avars
<1> SUFFICES ASSUME IInv, IInv', [Next]_vars PROVE Pool!ANext \/ UNCHANGED Pool!avars
  OBVIOUS
<1>1. CASE Start
  BY <1>1, PoolStutters DEF Start, StartCAS, Spawn
<1>2. CASE Stop
  BY <1>2, StopRefines
<1>3. ASSUME NEW t \in Tasks, Add(t) PROVE Pool!ANext \/ UNCHANGED Pool!avars
  BY <1>3, AddRefines
<1>4. ASSUME NEW w \in Workers, Work(w) PROVE Pool!ANext \/ UNCHANGED Pool!avars
  BY <1>4, RunRefines, PoolStutters DEF Work, Receive, Exit, WorkersDone
<1>5. CASE UNCHANGED vars
  BY <1>5, PoolStutters DEF vars
<1> QED BY <1>1, <1>2, <1>3, <1>4, <1>5 DEF Next

\* Whatever Add, Start and Stop race with, an accepted task runs at most once,
\* and when Stop has returned none is left and none is accepted (ImplementsPool).
THEOREM PoolImplemented == Spec => ImplementsPool
<1>1. Spec => Pool!ASpec
  BY InitRefines, StepRefines, Invariance, PTL DEF Spec, Pool!ASpec
<1> QED BY <1>1 DEF ImplementsPool
-----------------------------------------------------------------------------
(* Stop never waits for nobody.                                            *)

\* A parked Wait has seen a count and will see the last Done; a worker leaves a
\* closed and empty channel only; Start has returned when all workers are there.
ParkInv ==
  /\ stop = "parkedTasks" => wgTasks > 0
  /\ stop = "parkedWorkers" => wgWorkers > 0
  /\ start = "cas" => state = "init" /\ stop \in {"cas", "refused"}
  /\ start = "returned" => \A w \in Workers : worker[w] # "none"
  /\ start = "dead" => stop = "panicked"
  /\ \A w \in Workers : worker[w] = "exited" => closed /\ queue = <<>>
  /\ \A w \in Workers : worker[w] = "dead" => stop = "panicked"

\* Calls of Add: none but TasksDone can disturb a parked Wait.
LEMMA AddPark ==
  ASSUME IInv, ParkInv, NEW t \in Tasks, Add(t)
  PROVE  ParkInv'
<1>1. CASE AddLoad(t) \/ AddCount(t) \/ AddSend(t)
  <2>1. /\ UNCHANGED <<state, closed, wgWorkers, start, stop, worker>>
        /\ wgTasks' = wgTasks \/ wgTasks' = wgTasks + 1
        /\ queue' = queue \/ ~closed
        /\ wgTasks \in Nat
    BY <1>1 DEF IInv, TypeOK, AddLoad, AddCount, AddSend, counters
  <2> QED BY <2>1 DEF ParkInv
<1>2. CASE AddFull(t) \/ AddClosed(t)
  <2>1. /\ UNCHANGED <<state, queue, closed, wgWorkers, start, worker>>
        /\ TasksDone /\ wgTasks \in Nat
    BY <1>2 DEF IInv, TypeOK, AddFull, AddClosed
  <2> QED BY <2>1 DEF ParkInv, TasksDone
<1> QED BY <1>1, <1>2 DEF Add

LEMMA WorkPark ==
  ASSUME IInv, ParkInv, NEW w \in Workers, Work(w)
  PROVE  ParkInv'
<1>1. TypeOK
  BY DEF IInv
<1>2. CASE Receive(w)
  <2>1. /\ UNCHANGED <<state, closed, wgTasks, wgWorkers, start, stop>>
        /\ worker' = [worker EXCEPT ![w] = "run"] /\ queue # <<>>
    BY <1>2 DEF Receive, counters
  <2> QED BY <1>1, <2>1 DEF ParkInv, TypeOK
<1>3. CASE Run(w)
  <2>1. /\ UNCHANGED <<state, queue, closed, wgWorkers, start>> /\ TasksDone
        /\ worker' = [worker EXCEPT ![w] = "receive"]
    BY <1>3 DEF Run
  <2> QED BY <1>1, <2>1 DEF ParkInv, TypeOK, TasksDone
<1>4. CASE Exit(w)
  <2>1. /\ UNCHANGED <<state, queue, closed, wgTasks, start>> /\ WorkersDone
        /\ worker' = [worker EXCEPT ![w] = "exited"] /\ closed /\ queue = <<>>
    BY <1>4 DEF Exit
  <2> QED BY <1>1, <2>1 DEF ParkInv, TypeOK, WorkersDone
<1> QED BY <1>2, <1>3, <1>4 DEF Work

LEMMA StartPark ==
  ASSUME IInv, ParkInv, Start
  PROVE  ParkInv'
<1>1. TypeOK
  BY DEF IInv
<1>2. CASE StartCAS
  BY <1>2 DEF StartCAS, ParkInv, counters
<1>3. CASE Spawn
  <2>1. UNCHANGED <<state, queue, closed, wgTasks, stop>> /\ start = "spawn"
    BY <1>3 DEF Spawn
  <2>2. CASE UNCHANGED <<worker, wgWorkers>> /\ start' = "returned"
             /\ \A w \in Workers : worker[w] # "none"
    BY <2>1, <2>2 DEF ParkInv
  <2>3. ASSUME NEW w \in Workers, worker' = [worker EXCEPT ![w] = "receive"],
               wgWorkers' = wgWorkers + 1, UNCHANGED start
        PROVE  ParkInv'
    BY <1>1, <2>1, <2>3 DEF ParkInv, TypeOK
  <2> QED BY <1>3, <2>2, <2>3 DEF Spawn
<1> QED BY <1>2, <1>3 DEF Start

LEMMA StopPark ==
  ASSUME IInv, ParkInv, Stop
  PROVE  ParkInv'
<1>1. wgTasks \in Nat /\ wgWorkers \in Nat
  BY DEF IInv, TypeOK
<1>2. CASE StopPanic
  BY <1>2 DEF StopPanic, ParkInv
<1>3. CASE StopCAS \/ StopClose \/ StopWaitTasks \/ StopWaitWorkers \/ StopWake
  <2>1. /\ UNCHANGED <<queue, wgTasks, wgWorkers, start, worker>>
        /\ closed => closed'
        /\ start = "cas" => state' = "init" /\ stop' \in {"cas", "refused"}
        /\ stop # "panicked" \/ stop' = "panicked"
    BY <1>3 DEF ParkInv, StopCAS, StopClose, StopWaitTasks, StopWaitWorkers, StopWake,
                counters, Woken
  <2>2. /\ stop' = "parkedTasks" => wgTasks # 0
        /\ stop' = "parkedWorkers" => wgWorkers # 0
    BY <1>3 DEF StopCAS, StopClose, StopWaitTasks, StopWaitWorkers, StopWake, Woken
  <2>3. stop # "panicked"
    BY <1>3 DEF StopCAS, StopClose, StopWaitTasks, StopWaitWorkers, StopWake, Woken
  <2> QED BY <1>1, <2>1, <2>2, <2>3 DEF ParkInv
<1> QED BY <1>2, <1>3 DEF Stop

LEMMA ParkStep == IInv /\ ParkInv /\ [Next]_vars => ParkInv'
<1>1. ASSUME UNCHANGED vars, ParkInv PROVE ParkInv'
  BY <1>1 DEF vars, counters, ParkInv
<1> QED BY <1>1, AddPark, WorkPark, StartPark, StopPark DEF Next

LEMMA SomebodyGoesOn == IInv /\ ParkInv => StopWaitsForSomebody
<1> SUFFICES ASSUME IInv, ParkInv PROVE StopWaitsForSomebody
  OBVIOUS
<1>1. TypeOK /\ Counted /\ StopInv /\ Len(queue) \in Nat
  BY DEF IInv, TypeOK
<1>2. ASSUME stop = "parkedTasks"
      PROVE  \/ closed /\ \E t \in Tasks : add[t] = "send"
             \/ \E w \in Workers : worker[w] = "run"
             \/ queue # <<>> /\ Receiving
  <2>1. closed /\ start \notin {"cas", "dead"}
    BY <1>1, <1>2 DEF StopInv, ParkInv
  <2>2. CASE Sending # {} \/ Running # {}
    BY <2>1, <2>2 DEF Sending, Running
  <2>3. CASE Sending = {} /\ Running = {}
    <3>1. Cardinality(Sending) = 0 /\ Cardinality(Running) = 0
      BY <2>3, FS_EmptySet
    <3>2. Len(queue) > 0
      BY <1>1, <1>2, <3>1 DEF Counted, ParkInv
    <3>3. queue # <<>>
      BY <3>2
    <3>4. PICK w \in Workers : TRUE
      BY WorkersAssumption
    <3>5. worker[w] \in {"none", "receive"}
      BY <1>1, <1>2, <2>3, <3>3 DEF TypeOK, ParkInv, Running
    <3>6. worker[w] = "none" => start = "spawn"
      BY <1>1, <2>1 DEF TypeOK, ParkInv
    <3> QED BY <3>3, <3>5, <3>6 DEF Receiving
  <2> QED BY <2>2, <2>3
<1>3. ASSUME stop = "parkedWorkers"
      PROVE  queue = <<>> /\ closed /\ \E w \in Workers : worker[w] = "receive"
  <2>1. closed /\ queue = <<>> /\ Running = {}
    BY <1>1, <1>3 DEF StopInv, Drained
  <2>2. Cardinality(Alive) > 0
    BY <1>1, <1>3 DEF Counted, ParkInv
  <2>3. Alive # {}
    BY <2>2, FS_EmptySet
  <2> QED BY <2>1, <2>3 DEF Alive, Running
<1> QED BY <1>2, <1>3 DEF StopWaitsForSomebody

\* Whatever Stop is parked for, a goroutine it waits for can go on: there is no
\* deadlock in Stop and no lost wake-up (StopWaitsForSomebody).
THEOREM StopIsNeverStuck == Spec => []StopWaitsForSomebody
<1>1. Init => ParkInv
  BY DEF Init, ParkInv
<1> QED BY <1>1, ParkStep, SomebodyGoesOn, Invariance, PTL DEF Spec
=============================================================================
