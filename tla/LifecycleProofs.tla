--------------------------- MODULE LifecycleProofs ---------------------------
(***************************************************************************)
(* Theorems about Lifecycle and the tasks of Polling, for any number of    *)
(* uploads, recovered orders and workers, any queue, any durations in the  *)
(* order the code has them, and any value of a Retry-After header.         *)
(***************************************************************************)
EXTENDS Lifecycle, SetSums

LEMMA Assumptions == PollingAssumption /\ LifecycleAssumption
  BY PollingAssumption, LifecycleAssumption

-----------------------------------------------------------------------------
(* The delays.                                                             *)

\* A number of at least 0 and less than n is its own remainder.
LEMMA OwnRemainder ==
  ASSUME NEW n \in Nat \ {0}, NEW x \in 0..(n - 1)
  PROVE  x % n = x
  OBVIOUS

LEMMA WrappedInt ==
  ASSUME NEW d \in Int
  PROVE  Wrapped(d) \in Int
  BY Assumptions DEF Wrapped, PollingAssumption

\* A duration that fits is kept.
LEMMA WrappedFits ==
  ASSUME NEW d \in Int, Fits(d)
  PROVE  Wrapped(d) = d
<1>1. 2 * Half \in Nat \ {0} /\ d + Half \in 0..(2 * Half - 1)
  BY Assumptions DEF Fits, PollingAssumption
<1>2. (d + Half) % (2 * Half) = d + Half
  BY <1>1, OwnRemainder
<1> QED
  BY <1>2, Assumptions DEF Wrapped, PollingAssumption

\* What the strategy stores for a 429 is positive and not above the cap.
LEMMA CappedRange ==
  ASSUME NEW d \in Int
  PROVE  /\ Capped(d) \in 1..MaxDelay
         /\ d <= 0 => Capped(d) = Second
         /\ d > 0 => Capped(d) = IF d < MaxDelay THEN d ELSE MaxDelay
  BY Assumptions DEF Capped, PollingAssumption

\* A pause is always positive and not above the cap.
LEMMA DelayRange ==
  /\ Delay(0) = Second /\ Second \in 1..MaxDelay
  /\ \A last \in 1..MaxDelay : Delay(last) = last
  /\ \A last \in 0..MaxDelay : Delay(last) \in 1..MaxDelay
  BY Assumptions DEF Delay, PollingAssumption

-----------------------------------------------------------------------------
(* The inductive invariant.                                                *)

\* A pause in progress is the strategy's delay, and that is the one asked for.
PauseOK(p) ==
  /\ phase[p] = "calling" => waited[p] = 0
  /\ phase[p] = "waiting" => /\ waited[p] + left[p] = Delay(lastDelay[p])
                             /\ Delay(lastDelay[p]) \in AskedPause(p)
PauseInv == \A p \in Polls : PauseOK(p)

\* A recovered task that pauses when the context is cancelled either has not
\* called since, or its timer has not fired.
LateOK(r) ==
  /\ late[r] <= 1
  /\ ~cancelled => late[r] = 0
  /\ phase[r] \in {"none", "refused", "queued", "ready"} => late[r] = 0
  /\ phase[r] = "waiting" /\ left[r] = 0 => late[r] = 0
LateInv == \A r \in Recoveries : LateOK(r)

\* The two countdowns run together from the cancellation.
Slack == ProcessTimeout - ServerTimeout
TimerInv ==
  /\ ~cancelled => shut = "await"
  /\ shut = "await" => shutLeft = ServerTimeout /\ fatalLeft = ProcessTimeout
  /\ shut # "await" => shutLeft = IF fatalLeft > Slack THEN fatalLeft - Slack ELSE 0

\* A stopped pool takes no task, and Stop returns when it has none.
DrainInv ==
  /\ shut \in {"await", "stop"} => pool # "stopped"
  /\ pool = "stopped" /\ shut \in {"shutdown", "close", "returned"}
       => Running \cup Queued = {}

\* Shutdown returns without a request or with its time over.
IdleInv ==
  /\ shut = "returned" /\ shutLeft > 0 => Idle
  /\ exit \in {"clean", "failed"} => shut = "returned"

IInv == TypeOK /\ PauseInv /\ LateInv /\ TimerInv /\ DrainInv /\ IdleInv

\* TypeOK of the tasks and of the process.
TaskTypes ==
  /\ cancelled \in BOOLEAN
  /\ phase \in [Polls -> Phases]
  /\ lastDelay \in [Polls -> 0..MaxDelay]
  /\ left \in [Polls -> 0..MaxDelay]
  /\ asked \in [Polls -> Int]
  /\ waited \in [Polls -> Nat]
  /\ late \in [Polls -> Nat]
StateTypes ==
  /\ pool \in {"init", "started", "stopped"}
  /\ server \in {"start", "listen", "serve", "closed", "failed"}
  /\ shut \in {"await", "stop", "drain", "shutdown", "close", "returned"}
  /\ recovery \in {"none", "select", "enqueue", "returned"}
  /\ request \in [Uploads -> {"none", "serving", "answered"}]
  /\ exit \in {"running", "clean", "failed", "late"}
TimerTypes == shutLeft \in 0..ServerTimeout /\ fatalLeft \in 0..ProcessTimeout

LEMMA Types == TypeOK <=> TaskTypes /\ StateTypes /\ TimerTypes
  BY DEF TypeOK, TaskTypes, StateTypes, TimerTypes
LEMMA TypesNext == TypeOK' <=> TaskTypes' /\ StateTypes' /\ TimerTypes'
  BY DEF TypeOK, TaskTypes, StateTypes, TimerTypes
LEMMA Bounds ==
  /\ Second \in Nat \ {0} /\ MaxDelay \in Nat /\ Second <= MaxDelay
  /\ ServerTimeout \in Nat \ {0} /\ ProcessTimeout \in Nat /\ ServerTimeout < ProcessTimeout
  BY Assumptions DEF PollingAssumption, LifecycleAssumption

THEOREM InitIInv == Init => IInv
<1> SUFFICES ASSUME Init PROVE IInv
  OBVIOUS
<1>1. TypeOK
  <2>1. TaskTypes
    <3>1. 0 \in 0..MaxDelay /\ "none" \in Phases
      BY Bounds DEF Phases
    <3>2. PollInit
      BY DEF Init
    <3>3. phase \in [Polls -> Phases] /\ cancelled \in BOOLEAN
      BY <3>1, <3>2 DEF PollInit
    <3>4. lastDelay \in [Polls -> 0..MaxDelay] /\ left \in [Polls -> 0..MaxDelay]
      BY <3>1, <3>2 DEF PollInit
    <3>5. asked \in [Polls -> Int] /\ waited \in [Polls -> Nat] /\ late \in [Polls -> Nat]
      BY <3>2 DEF PollInit
    <3> QED
      BY <3>3, <3>4, <3>5 DEF TaskTypes
  <2>2. StateTypes
    BY DEF Init, StateTypes
  <2>3. TimerTypes
    BY Bounds DEF Init, TimerTypes
  <2> QED
    BY <2>1, <2>2, <2>3, Types
<1>2. PauseInv /\ LateInv
  BY DEF Init, PollInit, PauseInv, PauseOK, LateInv, LateOK, Polls
<1>3. TimerInv /\ DrainInv /\ IdleInv
  BY DEF Init, PollInit, TimerInv, DrainInv, IdleInv
<1> QED
  BY <1>1, <1>2, <1>3 DEF IInv

-----------------------------------------------------------------------------
(* The kinds of steps.                                                     *)

\* What a step may do to the tasks: the contexts, a new task, one task's own
\* step, a tick, or nothing.
LEMMA Kinds ==
  ASSUME Next
  PROVE  \/ UNCHANGED pollVars /\ (cancelled => cancelled')
         \/ \E p \in Polls : /\ phase[p] = "none" /\ Add(p)
                             /\ UNCHANGED <<cancelled, lastDelay, left, asked, waited, late>>
         \/ \E p \in Polls : Begin(p)
         \/ \E p \in Polls : Call(p)
         \/ \E p \in Polls : CancelWait(p)
         \/ \E p \in Polls : \E a \in Answers : Answer(p, a)
         \/ Tick
<1>1. CASE Signal \/ Serving \/ Stopping \/ Ending
  BY <1>1 DEF Signal, Cancel, Serving, StartPool, Listen, ServerFails, ServeReturns, Stopping,
     AwaitCancel, StopPool, Drained, Shutdown, ShutdownReturns, Ending, Return, Fatal
<1>2. CASE Recovery
  BY <1>2 DEF Recovery, RecoveryStarts, RecoveryEnds, Recover, Polls
<1>3. CASE \E u \in Uploads : Request(u)
  BY <1>3 DEF Request, Accept, Upload, Respond, Polls
<1>4. CASE \E p \in Polls : Take(p) \/ Task(p) \/ AccrualAnswers(p)
  BY <1>4 DEF Take, Task, AccrualAnswers
<1> QED
  BY <1>1, <1>2, <1>3, <1>4 DEF Next

\* An answer ends the task, or leaves it pausing as long as the answer asks.
LEMMA AnswerPauses ==
  ASSUME TypeOK, NEW p \in Polls, NEW a \in Answers, Answer(p, a)
  PROVE  \/ /\ phase' = [phase EXCEPT ![p] = "done"]
            /\ lastDelay' = [lastDelay EXCEPT ![p] = 0]
            /\ UNCHANGED <<left, asked>>
         \/ \E last \in 0..MaxDelay, s \in Int :
              /\ Pause(p, last, s)
              /\ Delay(last) \in 1..MaxDelay
              /\ phase' = [phase EXCEPT ![p] = "waiting"]
              /\ asked'[p] = s
              /\ Delay(last) \in AskedPause(p)'
<1> DEFINE Good(last, s) ==
      /\ Delay(last) \in 1..MaxDelay
      /\ phase' = [phase EXCEPT ![p] = "waiting"]
      /\ asked'[p] = s
      /\ Delay(last) \in AskedPause(p)'
<1>0. ASSUME NEW last \in 0..MaxDelay, NEW s \in Int, Pause(p, last, s),
             \/ last = 0 /\ s = 0
             \/ last = Capped(Wrapped(s * Second))
      PROVE  Good(last, s)
  <2>1. Delay(last) \in 1..MaxDelay
    BY DelayRange
  <2>2. asked'[p] = s
    BY <1>0 DEF Pause, TypeOK
  <2>3. phase' = [phase EXCEPT ![p] = "waiting"]
    <3>1. Delay(last) > 0
      BY <2>1, Assumptions DEF PollingAssumption
    <3> QED
      BY <1>0, <3>1 DEF Pause
  <2>4. CASE last = 0 /\ s = 0
    <3>1. s * Second = 0 /\ Fits(0)
      BY <2>4, Assumptions DEF PollingAssumption, Fits
    <3> QED
      BY <2>1, <2>2, <2>3, <2>4, <3>1, DelayRange DEF AskedPause
  <2>5. CASE last = Capped(Wrapped(s * Second))
    <3>1. s * Second \in Int
      BY Assumptions DEF PollingAssumption
    <3>2. last \in 1..MaxDelay /\ Delay(last) = last
      BY <3>1, <2>5, WrappedInt, CappedRange, DelayRange
    <3>3. Fits(s * Second) => Capped(Wrapped(s * Second)) = Capped(s * Second)
      BY <3>1, WrappedFits
    <3>4. AskedPause(p)' = IF ~Fits(s * Second) THEN 1..MaxDelay
                           ELSE IF s * Second <= 0 THEN {Second}
                           ELSE {IF s * Second < MaxDelay THEN s * Second ELSE MaxDelay}
      BY <2>2 DEF AskedPause
    <3>5. ASSUME Fits(s * Second)
          PROVE  last = IF s * Second <= 0 THEN Second
                        ELSE IF s * Second < MaxDelay THEN s * Second ELSE MaxDelay
      <4>1. last = Capped(s * Second)
        BY <2>5, <3>3, <3>5
      <4> QED
        BY <3>1, <4>1, CappedRange
    <3>6. Delay(last) \in AskedPause(p)'
      BY <3>2, <3>4, <3>5
    <3> QED
      BY <3>6, <2>1, <2>2, <2>3
  <2> QED
    BY <1>0, <2>4, <2>5
<1>1. CASE a \in Later /\ Pause(p, 0, 0)
  <2>1. 0 \in 0..MaxDelay /\ 0 \in Int
    BY Assumptions DEF PollingAssumption
  <2> QED
    BY <1>0, <1>1, <2>1
<1>2. CASE Pause(p, Capped(0), 0)
  <2>1. 0 * Second = 0 /\ Wrapped(0) = 0
    BY WrappedFits, Assumptions DEF PollingAssumption, Fits
  <2>2. Capped(0) \in 0..MaxDelay
    BY CappedRange
  <2> QED
    BY <1>0, <1>2, <2>1, <2>2
<1>3. CASE \E s \in RetryAfters : Pause(p, Capped(Wrapped(s * Second)), s)
  <2>1. PICK s \in RetryAfters : Pause(p, Capped(Wrapped(s * Second)), s)
    BY <1>3
  <2>2. s \in Int /\ s * Second \in Int
    BY Assumptions DEF PollingAssumption
  <2>3. Capped(Wrapped(s * Second)) \in 0..MaxDelay
    BY <2>2, WrappedInt, CappedRange
  <2> QED
    BY <1>0, <2>1, <2>2, <2>3
<1> QED
  BY <1>1, <1>2, <1>3 DEF Answer

-----------------------------------------------------------------------------
(* Every step preserves the invariant.                                     *)

LEMMA TaskTypesStep ==
  ASSUME TypeOK, Next
  PROVE  TaskTypes'
<1>0. TaskTypes /\ MaxDelay \in Nat
  BY Types, Bounds
<1>c. cancelled' \in BOOLEAN
  BY <1>0 DEF Next, Signal, Cancel, Serving, StartPool, Listen, ServerFails, ServeReturns, Stopping,
     AwaitCancel, StopPool, Drained, Shutdown, ShutdownReturns, Ending, Return, Fatal,
     Recovery, RecoveryStarts, RecoveryEnds, Recover, Request, Accept, Upload, Respond,
     Take, Begin, Task, Call, CancelWait, AccrualAnswers, Answer, Tick, PollTick, TaskTypes
<1>1. CASE UNCHANGED pollVars
  BY <1>0, <1>1, <1>c DEF pollVars, TaskTypes
<1>2. CASE \E p \in Polls : /\ phase[p] = "none" /\ Add(p)
                            /\ UNCHANGED <<cancelled, lastDelay, left, asked, waited, late>>
  <2>1. phase' \in [Polls -> Phases]
    BY <1>0, <1>2 DEF Add, TaskTypes, Phases
  <2> QED
    BY <1>0, <1>2, <2>1 DEF TaskTypes
<1>3. CASE \E p \in Polls : Begin(p)
  <2>1. phase' \in [Polls -> Phases]
    BY <1>0, <1>3 DEF Begin, TaskTypes, Phases
  <2> QED
    BY <1>0, <1>3, <2>1 DEF TaskTypes, Begin
<1>4. CASE \E p \in Polls : Call(p)
  <2>1. PICK p \in Polls : Call(p)
    BY <1>4
  <2>2. phase' \in [Polls -> Phases]
    BY <1>0, <2>1 DEF Call, TaskTypes, Phases
  <2>3. late' \in [Polls -> Nat] /\ asked' \in [Polls -> Int] /\ waited' \in [Polls -> Nat]
    BY <1>0, <2>1 DEF Call, TaskTypes
  <2> QED
    BY <1>0, <2>1, <2>2, <2>3 DEF TaskTypes, Call
<1>5. CASE \E p \in Polls : CancelWait(p)
  <2>1. PICK p \in Polls : CancelWait(p)
    BY <1>5
  <2>2. phase' \in [Polls -> Phases]
    BY <1>0, <2>1 DEF CancelWait, TaskTypes, Phases
  <2>3. left' \in [Polls -> 0..MaxDelay] /\ lastDelay' \in [Polls -> 0..MaxDelay]
    BY <1>0, <2>1 DEF CancelWait, TaskTypes
  <2>4. asked' \in [Polls -> Int] /\ waited' \in [Polls -> Nat]
    BY <1>0, <2>1 DEF CancelWait, TaskTypes
  <2> QED
    BY <1>0, <1>c, <2>1, <2>2, <2>3, <2>4 DEF TaskTypes, CancelWait
<1>6. CASE \E p \in Polls : \E a \in Answers : Answer(p, a)
  <2>1. PICK p \in Polls, a \in Answers : Answer(p, a)
    BY <1>6
  <2>2. UNCHANGED <<cancelled, waited, late>>
    BY <2>1 DEF Answer
  <2>3. CASE /\ phase' = [phase EXCEPT ![p] = "done"]
             /\ lastDelay' = [lastDelay EXCEPT ![p] = 0]
             /\ UNCHANGED <<left, asked>>
    <3>1. phase' \in [Polls -> Phases] /\ lastDelay' \in [Polls -> 0..MaxDelay]
      BY <1>0, <2>3 DEF TaskTypes, Phases
    <3> QED
      BY <1>0, <2>2, <2>3, <3>1 DEF TaskTypes
  <2>4. ASSUME NEW last \in 0..MaxDelay, NEW s \in Int, Pause(p, last, s),
               Delay(last) \in 1..MaxDelay, phase' = [phase EXCEPT ![p] = "waiting"]
        PROVE  TaskTypes'
    <3>1. phase' \in [Polls -> Phases]
      BY <1>0, <2>4 DEF TaskTypes, Phases
    <3>2. left' \in [Polls -> 0..MaxDelay] /\ lastDelay' \in [Polls -> 0..MaxDelay]
      BY <1>0, <2>4 DEF TaskTypes, Pause
    <3>3. asked' \in [Polls -> Int]
      BY <1>0, <2>4 DEF TaskTypes, Pause
    <3> QED
      BY <1>0, <2>2, <3>1, <3>2, <3>3 DEF TaskTypes
  <2> QED
    BY <2>1, <2>3, <2>4, AnswerPauses
<1>7. CASE Tick
  <2>1. \A p \in Polls : phase[p] = "waiting" => left[p] > 0
    BY <1>0, <1>7 DEF Tick, Prompt, PollPrompt, TaskTypes
  <2>2. left' \in [Polls -> 0..MaxDelay]
    BY <1>0, <1>7, <2>1 DEF Tick, PollTick, TaskTypes
  <2>3. waited' \in [Polls -> Nat]
    BY <1>0, <1>7 DEF Tick, PollTick, TaskTypes
  <2> QED
    BY <1>0, <1>7, <2>2, <2>3 DEF Tick, PollTick, TaskTypes
<1> QED
  BY <1>1, <1>2, <1>3, <1>4, <1>5, <1>6, <1>7, Kinds

LEMMA PauseStep ==
  ASSUME TypeOK, PauseInv, Next
  PROVE  PauseInv'
<1>0. TaskTypes /\ MaxDelay \in Nat
  BY Types, Bounds
<1> SUFFICES ASSUME NEW q \in Polls PROVE PauseOK(q)'
  BY DEF PauseInv
<1>q. PauseOK(q)
  BY DEF PauseInv
<1>n. ASSUME phase'[q] = phase[q], UNCHANGED <<lastDelay[q], left[q], asked[q], waited[q]>>
      PROVE  PauseOK(q)'
  BY <1>q, <1>n DEF PauseOK, AskedPause
<1>o. ASSUME phase'[q] \notin {"calling", "waiting"}
      PROVE  PauseOK(q)'
  BY <1>o DEF PauseOK
<1>1. CASE UNCHANGED pollVars
  BY <1>1, <1>n DEF pollVars
<1>2. CASE \E p \in Polls : /\ phase[p] = "none" /\ Add(p)
                            /\ UNCHANGED <<cancelled, lastDelay, left, asked, waited, late>>
  BY <1>0, <1>2, <1>n, <1>o DEF Add, TaskTypes
<1>3. CASE \E p \in Polls : Begin(p)
  BY <1>0, <1>3, <1>n, <1>o DEF Begin, TaskTypes
<1>4. CASE \E p \in Polls : Call(p)
  <2>1. PICK p \in Polls : Call(p)
    BY <1>4
  <2>2. CASE p = q
    <3>1. phase'[q] = "calling" /\ waited'[q] = 0
      BY <1>0, <2>1, <2>2 DEF Call, TaskTypes
    <3> QED
      BY <3>1 DEF PauseOK
  <2>3. CASE p # q
    BY <1>0, <2>1, <2>3, <1>n DEF Call, TaskTypes
  <2> QED
    BY <2>2, <2>3
<1>5. CASE \E p \in Polls : CancelWait(p)
  BY <1>0, <1>5, <1>n, <1>o DEF CancelWait, TaskTypes
<1>6. CASE \E p \in Polls : \E a \in Answers : Answer(p, a)
  <2>1. PICK p \in Polls, a \in Answers : Answer(p, a)
    BY <1>6
  <2>2. UNCHANGED <<waited>> /\ phase[p] = "calling"
    BY <2>1 DEF Answer
  <2>3. CASE /\ phase' = [phase EXCEPT ![p] = "done"]
             /\ lastDelay' = [lastDelay EXCEPT ![p] = 0]
             /\ UNCHANGED <<left, asked>>
    BY <1>0, <2>2, <2>3, <1>n, <1>o DEF TaskTypes
  <2>4. ASSUME NEW last \in 0..MaxDelay, NEW s \in Int, Pause(p, last, s),
               Delay(last) \in 1..MaxDelay, phase' = [phase EXCEPT ![p] = "waiting"],
               Delay(last) \in AskedPause(p)'
        PROVE  PauseOK(q)'
    <3>1. CASE p = q
      <4>1. lastDelay'[q] = last /\ left'[q] = Delay(last) /\ waited'[q] = 0 /\ phase'[q] = "waiting"
        BY <1>0, <1>q, <2>2, <2>4, <3>1 DEF TaskTypes, Pause, PauseOK
      <4> QED
        BY <2>4, <3>1, <4>1 DEF PauseOK
    <3>2. CASE p # q
      BY <1>0, <2>2, <2>4, <3>2, <1>n DEF TaskTypes, Pause
    <3> QED
      BY <3>1, <3>2
  <2> QED
    BY <2>1, <2>3, <2>4, AnswerPauses
<1>7. CASE Tick
  <2>1. CASE phase[q] = "waiting"
    <3>1. /\ left'[q] = left[q] - 1 /\ waited'[q] = waited[q] + 1
          /\ phase'[q] = "waiting" /\ lastDelay'[q] = lastDelay[q] /\ asked'[q] = asked[q]
      BY <1>7, <2>1 DEF Tick, PollTick
    <3>2. left[q] \in Int /\ waited[q] \in Int
      BY <1>0 DEF TaskTypes
    <3>3. waited'[q] + left'[q] = waited[q] + left[q]
      BY <3>1, <3>2
    <3>4. AskedPause(q)' = AskedPause(q)
      BY <3>1 DEF AskedPause
    <3> QED
      BY <1>q, <2>1, <3>1, <3>3, <3>4 DEF PauseOK
  <2>2. CASE phase[q] # "waiting"
    BY <1>7, <2>2, <1>n DEF Tick, PollTick
  <2> QED
    BY <2>1, <2>2
<1> QED
  BY <1>1, <1>2, <1>3, <1>4, <1>5, <1>6, <1>7, Kinds

LEMMA LateStep ==
  ASSUME TypeOK, LateInv, Next
  PROVE  LateInv'
<1>0. TaskTypes /\ MaxDelay \in Nat
  BY Types, Bounds
<1> SUFFICES ASSUME NEW r \in Recoveries PROVE LateOK(r)'
  BY DEF LateInv
<1>q. LateOK(r) /\ r \in Polls /\ late[r] \in Nat
  BY <1>0 DEF LateInv, Polls, TaskTypes
<1>n. ASSUME UNCHANGED <<phase[r], late[r], left[r]>>, cancelled => cancelled'
      PROVE  LateOK(r)'
  BY <1>q, <1>n, <1>0 DEF LateOK, TaskTypes
<1>1. CASE UNCHANGED pollVars /\ (cancelled => cancelled')
  BY <1>1, <1>n DEF pollVars
<1>2. CASE \E p \in Polls : /\ phase[p] = "none" /\ Add(p)
                            /\ UNCHANGED <<cancelled, lastDelay, left, asked, waited, late>>
  BY <1>0, <1>q, <1>2, <1>n DEF Add, TaskTypes, LateOK
<1>3. CASE \E p \in Polls : Begin(p)
  BY <1>0, <1>q, <1>3, <1>n DEF Begin, TaskTypes, LateOK
<1>4. CASE \E p \in Polls : Call(p)
  <2>1. PICK p \in Polls : Call(p)
    BY <1>4
  <2>2. CASE p = r
    <3>1. late[r] = 0
      BY <1>q, <2>1, <2>2 DEF Call, LateOK
    <3>2. phase'[r] = "calling" /\ late'[r] = IF cancelled THEN late[r] + 1 ELSE late[r]
      BY <1>0, <1>q, <2>1, <2>2 DEF Call, TaskTypes, CtxDone
    <3>3. UNCHANGED cancelled
      BY <2>1 DEF Call
    <3> QED
      BY <3>1, <3>2, <3>3 DEF LateOK
  <2>3. CASE p # r
    BY <1>0, <1>q, <2>1, <2>3, <1>n DEF Call, TaskTypes
  <2> QED
    BY <2>2, <2>3
<1>5. CASE \E p \in Polls : CancelWait(p)
  <2>1. PICK p \in Polls : CancelWait(p)
    BY <1>5
  <2>2. CASE p = r
    BY <1>0, <1>q, <2>1, <2>2 DEF CancelWait, TaskTypes, LateOK
  <2>3. CASE p # r
    BY <1>0, <1>q, <2>1, <2>3, <1>n DEF CancelWait, TaskTypes
  <2> QED
    BY <2>2, <2>3
<1>6. CASE \E p \in Polls : \E a \in Answers : Answer(p, a)
  <2>1. PICK p \in Polls, a \in Answers : Answer(p, a)
    BY <1>6
  <2>2. UNCHANGED <<cancelled, late>> /\ phase[p] = "calling"
    BY <2>1 DEF Answer
  <2>3. CASE /\ phase' = [phase EXCEPT ![p] = "done"]
             /\ lastDelay' = [lastDelay EXCEPT ![p] = 0]
             /\ UNCHANGED <<left, asked>>
    BY <1>0, <1>q, <2>2, <2>3 DEF TaskTypes, LateOK
  <2>4. ASSUME NEW last \in 0..MaxDelay, NEW s \in Int, Pause(p, last, s),
               Delay(last) \in 1..MaxDelay, phase' = [phase EXCEPT ![p] = "waiting"]
        PROVE  LateOK(r)'
    <3>1. CASE p = r
      <4>1. left'[r] # 0 /\ phase'[r] = "waiting" /\ late'[r] = late[r]
        BY <1>0, <1>q, <2>2, <2>4, <3>1 DEF TaskTypes, Pause
      <4> QED
        BY <1>q, <2>2, <4>1 DEF LateOK
    <3>2. CASE p # r
      BY <1>0, <1>q, <2>2, <2>4, <3>2, <1>n DEF TaskTypes, Pause
    <3> QED
      BY <3>1, <3>2
  <2> QED
    BY <2>1, <2>3, <2>4, AnswerPauses
<1>7. CASE Tick
  <2>1. cancelled => phase[r] # "waiting"
    BY <1>q, <1>7 DEF Tick, Prompt, PollPrompt, CtxDone
  <2>2. UNCHANGED <<cancelled, phase, late>>
    BY <1>7 DEF Tick, PollTick
  <2> QED
    BY <1>q, <2>1, <2>2 DEF LateOK
<1> QED
  BY <1>1, <1>2, <1>3, <1>4, <1>5, <1>6, <1>7, Kinds

\* What a step may do to the process: time passes, or the shutdown goroutine
\* takes a step, or it does not.
LEMMA MainKinds ==
  ASSUME Next
  PROVE  \/ Tick
         \/ Stopping
         \/ /\ UNCHANGED <<shut, timers>>
            /\ cancelled => cancelled'
<1>1. CASE Signal \/ Serving \/ Ending
  BY <1>1 DEF Signal, Cancel, Serving, StartPool, Listen, ServerFails, ServeReturns,
     Ending, Return, Fatal, mainVars
<1>2. CASE Recovery
  BY <1>2 DEF Recovery, RecoveryStarts, RecoveryEnds, Recover, mainVars
<1>3. CASE \E u \in Uploads : Request(u)
  BY <1>3 DEF Request, Accept, Upload, Respond, mainVars
<1>4. CASE \E p \in Polls : Take(p) \/ Task(p) \/ AccrualAnswers(p)
  BY <1>4 DEF Take, Begin, Task, Call, CancelWait, AccrualAnswers, Answer, mainVars
<1> QED
  BY <1>1, <1>2, <1>3, <1>4 DEF Next

LEMMA TimerStep ==
  ASSUME TypeOK, TimerInv, Next
  PROVE  TimerTypes' /\ TimerInv'
<1>0. /\ TimerTypes /\ StateTypes /\ cancelled \in BOOLEAN
      /\ ServerTimeout \in Nat /\ ProcessTimeout \in Nat /\ Slack \in Nat \ {0}
      /\ ProcessTimeout - Slack = ServerTimeout
  BY Types, Bounds DEF Slack, TaskTypes
<1>1. CASE Tick
  <2>1. /\ UNCHANGED <<cancelled, shut>>
        /\ shutLeft' = IF shut # "await" /\ shutLeft > 0 THEN shutLeft - 1 ELSE shutLeft
        /\ fatalLeft' = IF cancelled THEN fatalLeft - 1 ELSE fatalLeft
    BY <1>1 DEF Tick, PollTick, mainVars
  <2>2. (cancelled => shut # "await" /\ fatalLeft # 0) /\ (~cancelled => shut = "await")
    BY <1>1 DEF Tick, Prompt, TimerInv
  <2>3. CASE ~cancelled
    BY <1>0, <2>1, <2>2, <2>3 DEF TimerInv, TimerTypes
  <2>4. CASE cancelled
    <3>1. shut # "await" /\ fatalLeft' = fatalLeft - 1 /\ fatalLeft > 0
      BY <1>0, <2>1, <2>2, <2>4 DEF TimerTypes
    <3>2. shutLeft' = IF shutLeft > 0 THEN shutLeft - 1 ELSE shutLeft
      BY <2>1, <3>1
    <3>3. shutLeft = IF fatalLeft > Slack THEN fatalLeft - Slack ELSE 0
      BY <3>1 DEF TimerInv
    <3>4. shutLeft' = IF fatalLeft' > Slack THEN fatalLeft' - Slack ELSE 0
      BY <1>0, <3>1, <3>2, <3>3 DEF TimerTypes
    <3>5. TimerTypes'
      BY <1>0, <3>1, <3>2 DEF TimerTypes
    <3> QED
      BY <2>1, <2>4, <3>1, <3>4, <3>5 DEF TimerInv, Slack
  <2> QED
    BY <2>3, <2>4
<1>2. CASE Stopping
  <2>1. UNCHANGED <<cancelled, timers>>
    BY <1>2 DEF Stopping, AwaitCancel, StopPool, Drained, Shutdown, ShutdownReturns
  <2>2. shut' # "await"
    BY <1>2 DEF Stopping, AwaitCancel, StopPool, Drained, Shutdown, ShutdownReturns
  <2>3. cancelled
    BY <1>2 DEF Stopping, AwaitCancel, StopPool, Drained, Shutdown, ShutdownReturns, TimerInv
  <2>4. shutLeft = IF fatalLeft > Slack THEN fatalLeft - Slack ELSE 0
    BY <1>0 DEF TimerInv, Slack, TimerTypes
  <2> QED
    BY <1>0, <2>1, <2>2, <2>3, <2>4 DEF TimerInv, TimerTypes, timers, Slack
<1>3. CASE UNCHANGED <<shut, timers>> /\ (cancelled => cancelled')
  BY <1>0, <1>3 DEF TimerInv, TimerTypes, timers, Slack
<1> QED
  BY <1>1, <1>2, <1>3, MainKinds

LEMMA StateTypesStep ==
  ASSUME StateTypes, Next
  PROVE  StateTypes'
<1>1. CASE Signal \/ Ending \/ Tick
  BY <1>1 DEF Signal, Ending, Return, Fatal, Tick, mainVars, StateTypes
<1>2. CASE Serving
  BY <1>2 DEF Serving, StartPool, Listen, ServerFails, ServeReturns, StateTypes
<1>3. CASE Stopping
  BY <1>3 DEF Stopping, AwaitCancel, StopPool, Drained, Shutdown, ShutdownReturns, StateTypes
<1>4. CASE Recovery
  BY <1>4 DEF Recovery, RecoveryStarts, RecoveryEnds, Recover, mainVars, StateTypes
<1>5. CASE \E u \in Uploads : Request(u)
  BY <1>5 DEF Request, Accept, Upload, Respond, mainVars, StateTypes
<1>6. CASE \E p \in Polls : Take(p) \/ Task(p) \/ AccrualAnswers(p)
  BY <1>6 DEF Take, Task, AccrualAnswers, mainVars, StateTypes
<1> QED
  BY <1>1, <1>2, <1>3, <1>4, <1>5, <1>6 DEF Next

\* The pool is the one of the serving goroutine until Stop; nothing else
\* changes it.
LEMMA PoolKinds ==
  ASSUME Next
  PROVE  \/ Stopping
         \/ /\ UNCHANGED shut
            /\ pool = "stopped" <=> pool' = "stopped"
<1>1. CASE Signal \/ Ending \/ Tick
  BY <1>1 DEF Signal, Ending, Return, Fatal, Tick, mainVars
<1>2. CASE Serving
  BY <1>2 DEF Serving, StartPool, Listen, ServerFails, ServeReturns
<1>4. CASE Recovery
  BY <1>4 DEF Recovery, RecoveryStarts, RecoveryEnds, Recover, mainVars
<1>5. CASE \E u \in Uploads : Request(u)
  BY <1>5 DEF Request, Accept, Upload, Respond, mainVars
<1>6. CASE \E p \in Polls : Take(p) \/ Task(p) \/ AccrualAnswers(p)
  BY <1>6 DEF Take, Task, AccrualAnswers, mainVars
<1> QED
  BY <1>1, <1>2, <1>4, <1>5, <1>6 DEF Next

\* A pool without tasks gets one only from an Add.
LEMMA EmptyStays ==
  ASSUME TypeOK, Next, Running \cup Queued = {}, pool = "stopped"
  PROVE  Running' \cup Queued' = {}
<1>0. TaskTypes /\ MaxDelay \in Nat
  BY Types, Bounds
<1> DEFINE Active == {"queued", "ready", "calling", "waiting"}
<1>e. \A p \in Polls : phase[p] \notin Active
  BY DEF Running, Queued
<1> SUFFICES \A q \in Polls : phase'[q] \notin Active
  BY DEF Running, Queued
<1>1. CASE UNCHANGED pollVars
  BY <1>1, <1>e DEF pollVars
<1>2. CASE \E p \in Polls : /\ phase[p] = "none" /\ Add(p)
                            /\ UNCHANGED <<cancelled, lastDelay, left, asked, waited, late>>
  BY <1>0, <1>2, <1>e DEF Add, TaskTypes
<1>3. CASE \E p \in Polls : Begin(p) \/ Call(p) \/ CancelWait(p) \/ \E a \in Answers : Answer(p, a)
  BY <1>3, <1>e DEF Begin, Call, CancelWait, Answer
<1>4. CASE Tick
  BY <1>4, <1>e DEF Tick, PollTick
<1> QED
  BY <1>1, <1>2, <1>3, <1>4, Kinds

LEMMA DrainStep ==
  ASSUME TypeOK, DrainInv, Next
  PROVE  DrainInv'
<1>0. StateTypes
  BY Types
<1>1. CASE Stopping
  <2>1. UNCHANGED phase
    BY <1>1 DEF Stopping, AwaitCancel, StopPool, Drained, Shutdown, ShutdownReturns, pollVars
  <2>2. Running' = Running /\ Queued' = Queued
    BY <2>1 DEF Running, Queued
  <2> QED
    BY <1>0, <1>1, <2>2 DEF Stopping, AwaitCancel, StopPool, Drained, Shutdown, ShutdownReturns,
       DrainInv, StateTypes
<1>2. CASE UNCHANGED shut /\ (pool = "stopped" <=> pool' = "stopped")
  BY <1>2, EmptyStays DEF DrainInv
<1> QED
  BY <1>1, <1>2, PoolKinds

LEMMA IdleStep ==
  ASSUME TypeOK, IdleInv, Next
  PROVE  IdleInv'
<1>0. TimerTypes /\ StateTypes /\ ServerTimeout \in Nat
  BY Types, Bounds
<1>r. exit = "running"
  BY DEF Next
<1>1. CASE Ending
  BY <1>0, <1>1 DEF Ending, Return, Fatal, Returned, mainVars, timers, IdleInv, Idle
<1>2. CASE Tick
  BY <1>0, <1>2, <1>r DEF Tick, mainVars, IdleInv, Idle, TimerTypes
<1>3. CASE Stopping
  BY <1>0, <1>3, <1>r DEF Stopping, AwaitCancel, StopPool, Drained, Shutdown, ShutdownReturns,
     timers, IdleInv, Idle, TimerTypes
<1>4. CASE Signal \/ Serving
  BY <1>4, <1>r DEF Signal, Serving, StartPool, Listen, ServerFails, ServeReturns, mainVars, timers,
     IdleInv, Idle
<1>5. CASE Recovery
  BY <1>5, <1>r DEF Recovery, RecoveryStarts, RecoveryEnds, Recover, mainVars, timers, IdleInv, Idle
<1>6. CASE \E u \in Uploads : Request(u)
  <2>1. PICK u \in Uploads : Request(u)
    BY <1>6
  <2>2. UNCHANGED <<shut, timers, exit>>
    BY <2>1 DEF Request, Accept, Upload, Respond, mainVars
  <2>3. shut = "returned" => \A v \in Uploads : request'[v] = "serving" => request[v] = "serving"
    BY <1>0, <2>1 DEF Request, Accept, Upload, Respond, ShuttingDown, mainVars, StateTypes
  <2> QED
    BY <1>r, <2>2, <2>3 DEF IdleInv, Idle, timers
<1>7. CASE \E p \in Polls : Take(p) \/ Task(p) \/ AccrualAnswers(p)
  BY <1>7, <1>r DEF Take, Task, AccrualAnswers, mainVars, timers, IdleInv, Idle
<1> QED
  BY <1>1, <1>2, <1>3, <1>4, <1>5, <1>6, <1>7 DEF Next

-----------------------------------------------------------------------------
(* Fewer steps left.                                                       *)

\* The step counts, as numbers.
LEMMA Counts ==
  /\ \A x \in {"start", "listen", "serve", "closed", "failed"} :
       ServerSteps[x] = CASE x = "start" -> 4 [] x = "listen" -> 2 [] x = "serve" -> 1 [] OTHER -> 0
  /\ \A x \in {"await", "stop", "drain", "shutdown", "close", "returned"} :
       ShutSteps[x] = CASE x = "await" -> 5 [] x = "stop" -> 4 [] x = "drain" -> 3
                        [] x = "shutdown" -> 2 [] x = "close" -> 1 [] OTHER -> 0
  /\ \A x \in {"none", "select", "enqueue", "returned"} :
       RecoverySteps[x] = CASE x = "enqueue" -> 2 [] x = "select" -> 1 [] OTHER -> 0
  /\ \A x \in Phases :
       PhaseSteps[x] = CASE x = "none" -> 5 [] x = "queued" -> 4 [] x = "ready" -> 3
                         [] x = "calling" -> 2 [] x = "waiting" -> 1 [] OTHER -> 0
<1>1. \A x \in {"start", "listen", "serve", "closed", "failed"} :
        ServerSteps[x] = CASE x = "start" -> 4 [] x = "listen" -> 2 [] x = "serve" -> 1 [] OTHER -> 0
  BY DEF ServerSteps
<1>2. \A x \in {"await", "stop", "drain", "shutdown", "close", "returned"} :
        ShutSteps[x] = CASE x = "await" -> 5 [] x = "stop" -> 4 [] x = "drain" -> 3
                         [] x = "shutdown" -> 2 [] x = "close" -> 1 [] OTHER -> 0
  BY DEF ShutSteps
<1>3. \A x \in {"none", "select", "enqueue", "returned"} :
        RecoverySteps[x] = CASE x = "enqueue" -> 2 [] x = "select" -> 1 [] OTHER -> 0
  BY DEF RecoverySteps
<1>4. \A x \in Phases :
        PhaseSteps[x] = CASE x = "none" -> 5 [] x = "queued" -> 4 [] x = "ready" -> 3
                          [] x = "calling" -> 2 [] x = "waiting" -> 1 [] OTHER -> 0
  BY DEF PhaseSteps, Phases
<1> QED BY <1>1, <1>2, <1>3, <1>4

LEMMA SetsFinite == IsFiniteSet(Polls) /\ IsFiniteSet(Uploads)
BY Assumptions, FS_Union DEF PollingAssumption, Polls

LEMMA PollStepsNat ==
  ASSUME NEW ph \in [Polls -> Phases], NEW lf, NEW p \in Polls
  PROVE  PhaseSteps[IF ph[p] = "waiting" /\ lf[p] = 0 THEN "ready" ELSE ph[p]] \in Nat
<1>1. ph[p] \in Phases /\ "ready" \in Phases
  BY DEF Phases
<1>2. \A x \in Phases : PhaseSteps[x] \in Nat
  BY Counts
<1> QED BY <1>1, <1>2

\* The three sums of StepsLeft.
PollWork    == Total(PollSteps, Polls)
RequestWork == Total(RequestSteps, Uploads)

LEMMA WorkAdds == StepsLeft = MainSteps + PollWork + RequestWork
BY DEF StepsLeft, PollWork, RequestWork, Total, MapThenSumSet, MapThenFoldSet

LEMMA WorkNat ==
  TypeOK => MainSteps \in Nat /\ PollWork \in Nat /\ RequestWork \in Nat
<1> SUFFICES ASSUME TypeOK PROVE MainSteps \in Nat /\ PollWork \in Nat /\ RequestWork \in Nat
  OBVIOUS
<1>0. TaskTypes /\ StateTypes
  BY Types
<1>1. MainSteps \in Nat
  <2>1. ServerSteps[server] \in Nat /\ ShutSteps[shut] \in Nat /\ RecoverySteps[recovery] \in Nat
    BY <1>0, Counts DEF StateTypes
  <2> QED BY <2>1 DEF MainSteps
<1>2. PollWork \in Nat
  <2>1. phase \in [Polls -> Phases]
    BY <1>0 DEF TaskTypes
  <2>2. \A p \in Polls : PollSteps[p] \in Nat
    BY <2>1, PollStepsNat DEF PollSteps
  <2> QED BY <2>2, SetsFinite, TotalNat DEF PollWork
<1>3. RequestWork \in Nat
  <2>1. \A u \in Uploads : RequestSteps[u] \in Nat
    BY <1>0 DEF RequestSteps, StateTypes
  <2> QED BY <2>1, SetsFinite, TotalNat DEF RequestWork
<1> QED BY <1>1, <1>2, <1>3

\* The same after a step.
LEMMA WorkNext ==
  /\ StepsLeft' = MainSteps' + PollWork' + RequestWork'
  /\ TypeOK' => MainSteps' \in Nat /\ PollWork' \in Nat /\ RequestWork' \in Nat
<1>1. (StepsLeft = MainSteps + PollWork + RequestWork)'
  BY WorkAdds, PTL
<1>2. (TypeOK => MainSteps \in Nat /\ PollWork \in Nat /\ RequestWork \in Nat)'
  BY WorkNat, PTL
<1> QED BY <1>1, <1>2

\* What is left grows less when one of the three does.
LEMMA WorkLess ==
  ASSUME TypeOK, TypeOK',
         MainSteps' <= MainSteps, PollWork' <= PollWork, RequestWork' <= RequestWork,
         MainSteps' < MainSteps \/ PollWork' < PollWork \/ RequestWork' < RequestWork
  PROVE  StepsLeft' < StepsLeft
<1>1. ASSUME NEW a \in Nat, NEW b \in Nat, NEW c \in Nat,
             NEW x \in Nat, NEW y \in Nat, NEW z \in Nat,
             x <= a, y <= b, z <= c, x < a \/ y < b \/ z < c
      PROVE  x + y + z < a + b + c
  BY <1>1
<1>2. /\ MainSteps \in Nat /\ PollWork \in Nat /\ RequestWork \in Nat
      /\ MainSteps' \in Nat /\ PollWork' \in Nat /\ RequestWork' \in Nat
  BY WorkNat, WorkNext
<1>3. MainSteps' + PollWork' + RequestWork' < MainSteps + PollWork + RequestWork
  BY <1>1, <1>2
<1> QED BY <1>3, WorkAdds, WorkNext

\* A step of the process's own goroutines.
LEMMA MainAdvances ==
  ASSUME TypeOK, cancelled,
         Serving \/ Stopping \/ Ending \/ RecoveryStarts \/ RecoveryEnds, exit = "running",
         StateTypes'
  PROVE  UNCHANGED <<phase, left, request, fatalLeft>> /\ MainSteps' < MainSteps
<1>0. StateTypes
  BY Types
<1>1. UNCHANGED <<phase, left, request, fatalLeft>>
  BY DEF Serving, StartPool, Listen, ServerFails, ServeReturns, Stopping, AwaitCancel, StopPool,
     Drained, Shutdown, ShutdownReturns, Ending, Return, Fatal, RecoveryStarts, RecoveryEnds,
     pollVars, mainVars, timers
<1>2. MainSteps' = ServerSteps[server'] + ShutSteps[shut'] + RecoverySteps[recovery']
                     + (IF exit' = "running" THEN 1 ELSE 0)
  BY DEF MainSteps, ServerSteps, ShutSteps, RecoverySteps
<1>n. /\ ServerSteps[server] \in Nat /\ ShutSteps[shut] \in Nat /\ RecoverySteps[recovery] \in Nat
      /\ ServerSteps[server'] \in Nat /\ ShutSteps[shut'] \in Nat /\ RecoverySteps[recovery'] \in Nat
  BY <1>0, Counts DEF StateTypes
<1>3. CASE Serving
  <2>1. UNCHANGED <<shut, exit>>
    BY <1>3 DEF Serving, StartPool, Listen, ServerFails, ServeReturns
  <2>2. CASE StartPool
    <3>1. ServerSteps[server] = 4 /\ ServerSteps[server'] = 2 /\ RecoverySteps[recovery'] = 1
      BY <2>2, Counts DEF StartPool
    <3> QED BY <1>n, <1>1, <1>2, <2>1, <3>1 DEF MainSteps
  <2>3. CASE Listen \/ ServerFails \/ ServeReturns
    <3>1. UNCHANGED recovery
      BY <2>3 DEF Listen, ServerFails, ServeReturns
    <3>2. \/ server = "listen" /\ server' = "serve"
          \/ server \in {"start", "listen", "serve"} /\ server' \in {"failed", "closed"}
      BY <2>3 DEF Listen, ServerFails, ServeReturns
    <3>4. ServerSteps[server'] < ServerSteps[server]
      BY <3>2, Counts
    <3> QED BY <1>n, <1>1, <1>2, <2>1, <3>1, <3>4 DEF MainSteps
  <2> QED BY <1>3, <2>2, <2>3 DEF Serving
<1>4. CASE Stopping
  <2>1. UNCHANGED <<server, recovery, exit>>
    BY <1>4 DEF Stopping, AwaitCancel, StopPool, Drained, Shutdown, ShutdownReturns
  <2>2. \/ shut = "await" /\ shut' = "stop"
        \/ shut = "stop" /\ shut' \in {"drain", "shutdown"}
        \/ shut = "drain" /\ shut' = "shutdown"
        \/ shut = "shutdown" /\ shut' = "close"
        \/ shut = "close" /\ shut' = "returned"
    BY <1>4 DEF Stopping, AwaitCancel, StopPool, Drained, Shutdown, ShutdownReturns
  <2>3. ShutSteps[shut'] < ShutSteps[shut]
    BY <2>2, Counts
  <2> QED BY <1>n, <1>1, <1>2, <2>1, <2>3 DEF MainSteps
<1>5. CASE Ending
  <2>1. UNCHANGED <<server, shut, recovery>> /\ exit' # "running"
    BY <1>5 DEF Ending, Return, Fatal, mainVars
  <2>2. ServerSteps[server] \in Nat /\ ShutSteps[shut] \in Nat /\ RecoverySteps[recovery] \in Nat
    BY <1>0, Counts DEF StateTypes
  <2> QED BY <1>1, <1>2, <2>1, <2>2 DEF MainSteps
<1>6. CASE RecoveryStarts \/ RecoveryEnds
  <2>1. UNCHANGED <<server, shut, exit>>
    BY <1>6 DEF RecoveryStarts, RecoveryEnds
  <2>2. RecoverySteps[recovery'] < RecoverySteps[recovery]
        /\ RecoverySteps[recovery'] \in Nat /\ RecoverySteps[recovery] \in Nat
    BY <1>6, Counts DEF RecoveryStarts, RecoveryEnds
  <2>3. ServerSteps[server] \in Nat /\ ShutSteps[shut] \in Nat
    BY <1>0, Counts DEF StateTypes
  <2> QED BY <1>1, <1>2, <2>1, <2>2, <2>3 DEF MainSteps
<1> QED BY <1>3, <1>4, <1>5, <1>6

\* A step of one task: it has fewer steps left, the others as many.
LEMMA PollAdvances ==
  ASSUME TaskTypes, TaskTypes', NEW p \in Polls,
         \A q \in Polls \ {p} : phase'[q] = phase[q] /\ left'[q] = left[q],
         PollSteps'[p] < PollSteps[p]
  PROVE  PollWork' < PollWork
<1>1. (\A q \in Polls : PollSteps[q] \in Nat) /\ (\A q \in Polls : PollSteps'[q] \in Nat)
  <2>1. phase \in [Polls -> Phases] /\ phase' \in [Polls -> Phases]
    BY DEF TaskTypes
  <2>2. \A q \in Polls : PollSteps[q] \in Nat
    BY <2>1, PollStepsNat DEF PollSteps
  <2>3. ASSUME NEW q \in Polls
        PROVE  PollSteps'[q] = PhaseSteps[IF phase'[q] = "waiting" /\ left'[q] = 0
                                          THEN "ready" ELSE phase'[q]]
    BY DEF PollSteps, PhaseSteps
  <2>4. \A q \in Polls : PollSteps'[q] \in Nat
    BY <2>1, <2>3, PollStepsNat
  <2> QED BY <2>2, <2>4
<1>2. \A q \in Polls \ {p} : PollSteps[q] = PollSteps'[q]
  BY DEF PollSteps, PhaseSteps
<1>3. PollWork' = Total(PollSteps', Polls) /\ PollWork = Total(PollSteps, Polls)
  BY DEF PollWork, Total, MapThenSumSet, MapThenFoldSet, Polls
<1> DEFINE w == PollSteps
           v == PollSteps'
<1>4. /\ \A q \in Polls : w[q] \in Nat /\ v[q] \in Nat
      /\ \A q \in Polls \ {p} : w[q] = v[q]
      /\ v[p] < w[p]
  BY <1>1, <1>2
<1> HIDE DEF w, v
<1>5. Total(v, Polls) < Total(w, Polls)
  <2>1. /\ Total(w, Polls) \in Nat /\ Total(v, Polls) \in Nat
        /\ Total(v, Polls) = (Total(w, Polls) - w[p]) + v[p]
    BY <1>4, SetsFinite, TotalChange
  <2> QED BY <1>4, <2>1
<1> QED BY <1>3, <1>5 DEF w, v

\* A request is accepted or answered.
LEMMA RequestAdvances ==
  ASSUME StateTypes, NEW u \in Uploads, Accept(u) \/ Respond(u)
  PROVE  RequestWork' < RequestWork
<1> DEFINE w == RequestSteps
           v == RequestSteps'
<1>1. \/ request[u] = "none" /\ request' = [request EXCEPT ![u] = "serving"]
      \/ request[u] = "serving" /\ request' = [request EXCEPT ![u] = "answered"]
  BY DEF Accept, Respond
<1>2. /\ w = [x \in Uploads |-> [none |-> 2, serving |-> 1, answered |-> 0][request[x]]]
      /\ v = [x \in Uploads |-> [none |-> 2, serving |-> 1, answered |-> 0][request'[x]]]
  BY DEF RequestSteps
<1>3. request \in [Uploads -> {"none", "serving", "answered"}]
  BY DEF StateTypes
<1>4. RequestWork' = Total(v, Uploads) /\ RequestWork = Total(w, Uploads)
  BY DEF RequestWork, Total, MapThenSumSet, MapThenFoldSet
<1> HIDE DEF w, v
<1>5. \A x \in Uploads : w[x] \in Nat /\ v[x] \in Nat
  BY <1>1, <1>2, <1>3
<1>6. /\ \A x \in Uploads : w[x] \in Nat /\ v[x] \in Nat
      /\ \A x \in Uploads \ {u} : w[x] = v[x]
      /\ v[u] < w[u]
  BY <1>1, <1>2, <1>3, <1>5
<1>7. IsFiniteSet(Uploads)
  BY SetsFinite
<1>8. Total(v, Uploads) < Total(w, Uploads)
  <2>1. /\ Total(w, Uploads) \in Nat /\ Total(v, Uploads) \in Nat
        /\ Total(v, Uploads) = (Total(w, Uploads) - w[u]) + v[u]
    BY <1>6, <1>7, TotalChange
  <2> QED BY <1>6, <2>1
<1> QED BY <1>4, <1>8 DEF w, v

\* The steps of a task: a new one is enqueued or refused, taken, called for,
\* answered, and a pause is positive.
LEMMA PollDecreases ==
  ASSUME TypeOK, TaskTypes', NEW p \in Polls,
         \/ phase[p] = "none" /\ Add(p) /\ UNCHANGED left
         \/ Begin(p)
         \/ Call(p)
         \/ CancelWait(p)
         \/ \E a \in Answers : Answer(p, a)
  PROVE  PollWork' < PollWork
<1>0. TaskTypes /\ phase \in [Polls -> Phases] /\ left \in [Polls -> 0..MaxDelay] /\ MaxDelay \in Nat
  BY Types, Bounds DEF TaskTypes
<1>1. /\ PollSteps[p] = PhaseSteps[IF phase[p] = "waiting" /\ left[p] = 0 THEN "ready" ELSE phase[p]]
      /\ PollSteps'[p] = PhaseSteps[IF phase'[p] = "waiting" /\ left'[p] = 0 THEN "ready" ELSE phase'[p]]
  BY DEF PollSteps, PhaseSteps
<1>2. /\ PhaseSteps["none"] = 5 /\ PhaseSteps["queued"] = 4 /\ PhaseSteps["ready"] = 3
      /\ PhaseSteps["calling"] = 2 /\ PhaseSteps["waiting"] = 1
      /\ PhaseSteps["refused"] = 0 /\ PhaseSteps["done"] = 0
  BY Counts DEF Phases
<1>3. CASE phase[p] = "none" /\ Add(p) /\ UNCHANGED left
  <2>1. phase'[p] \in {"queued", "refused"} /\ \A q \in Polls \ {p} : phase'[q] = phase[q]
    BY <1>0, <1>3 DEF Add
  <2>2. PollSteps'[p] < PollSteps[p]
    BY <1>1, <1>2, <1>3, <2>1
  <2> QED BY <1>0, <1>3, <2>1, <2>2, PollAdvances
<1>4. CASE Begin(p)
  <2>1. /\ phase[p] = "queued" /\ phase'[p] \in {"ready", "done"} /\ UNCHANGED left
        /\ \A q \in Polls \ {p} : phase'[q] = phase[q]
    BY <1>0, <1>4 DEF Begin
  <2>2. PollSteps'[p] < PollSteps[p]
    BY <1>1, <1>2, <2>1
  <2> QED BY <1>0, <2>1, <2>2, PollAdvances
<1>5. CASE Call(p)
  <2>1. /\ phase[p] = "ready" \/ (phase[p] = "waiting" /\ left[p] = 0)
        /\ phase'[p] = "calling" /\ UNCHANGED left
        /\ \A q \in Polls \ {p} : phase'[q] = phase[q]
    BY <1>0, <1>5 DEF Call
  <2>2. PollSteps'[p] < PollSteps[p]
    BY <1>1, <1>2, <2>1
  <2> QED BY <1>0, <2>1, <2>2, PollAdvances
<1>6. CASE CancelWait(p)
  <2>1. /\ phase[p] = "waiting" /\ phase'[p] = "done"
        /\ \A q \in Polls \ {p} : phase'[q] = phase[q] /\ left'[q] = left[q]
    BY <1>0, <1>6 DEF CancelWait
  <2>2. PollSteps'[p] < PollSteps[p]
    BY <1>1, <1>2, <2>1
  <2> QED BY <1>0, <2>1, <2>2, PollAdvances
<1>7. CASE \E a \in Answers : Answer(p, a)
  <2>1. PICK a \in Answers : Answer(p, a)
    BY <1>7
  <2>2. phase[p] = "calling"
    BY <2>1 DEF Answer
  <2>3. /\ \/ phase'[p] = "done"
           \/ phase'[p] = "waiting" /\ left'[p] # 0
        /\ \A q \in Polls \ {p} : phase'[q] = phase[q] /\ left'[q] = left[q]
    <3>1. CASE phase' = [phase EXCEPT ![p] = "done"] /\ UNCHANGED left
      BY <1>0, <3>1
    <3>2. ASSUME NEW last \in 0..MaxDelay, NEW s \in Int, Pause(p, last, s),
                 Delay(last) \in 1..MaxDelay, phase' = [phase EXCEPT ![p] = "waiting"]
          PROVE  /\ phase'[p] = "waiting" /\ left'[p] # 0
                 /\ \A q \in Polls \ {p} : phase'[q] = phase[q] /\ left'[q] = left[q]
      BY <1>0, <3>2 DEF Pause
    <3> QED BY <2>1, <3>1, <3>2, AnswerPauses
  <2>4. PollSteps'[p] < PollSteps[p]
    BY <1>1, <1>2, <2>2, <2>3
  <2> QED BY <1>0, <2>3, <2>4, PollAdvances
<1> QED BY <1>3, <1>4, <1>5, <1>6, <1>7

\* Every step of a cancelled process.
LEMMA Advances ==
  ASSUME IInv, IInv', Next, cancelled
  PROVE  \/ fatalLeft' < fatalLeft
         \/ fatalLeft' = fatalLeft /\ StepsLeft' < StepsLeft
<1>0. /\ TypeOK /\ TypeOK' /\ TaskTypes /\ TaskTypes' /\ StateTypes /\ StateTypes'
      /\ exit = "running"
  BY Types, TypesNext DEF IInv, Next
<1>1. /\ MainSteps \in Nat /\ PollWork \in Nat /\ RequestWork \in Nat
      /\ MainSteps' \in Nat /\ PollWork' \in Nat /\ RequestWork' \in Nat
  BY <1>0, WorkNat, WorkNext
<1>m. UNCHANGED <<server, shut, recovery, exit>> => MainSteps' <= MainSteps
  <2>1. UNCHANGED <<server, shut, recovery, exit>> => MainSteps' = MainSteps
    BY DEF MainSteps, ServerSteps, ShutSteps, RecoverySteps
  <2> QED BY <1>1, <2>1
<1>p. UNCHANGED <<phase, left>> => PollWork' <= PollWork
  <2>1. UNCHANGED <<phase, left>> => PollWork' = PollWork
    BY DEF PollWork, PollSteps, Total, MapThenSumSet, MapThenFoldSet, Polls, PhaseSteps
  <2> QED BY <1>1, <2>1
<1>r. UNCHANGED request => RequestWork' <= RequestWork
  <2>1. UNCHANGED request => RequestWork' = RequestWork
    BY DEF RequestWork, RequestSteps, Total, MapThenSumSet, MapThenFoldSet
  <2> QED BY <1>1, <2>1
<1>3. CASE Signal
  BY <1>3 DEF Signal
<1>4. CASE Serving \/ Stopping \/ Ending \/ RecoveryStarts \/ RecoveryEnds
  <2>1. UNCHANGED <<phase, left, request, fatalLeft>> /\ MainSteps' < MainSteps
    BY <1>0, <1>4, MainAdvances
  <2>2. MainSteps' <= MainSteps
    BY <1>1, <2>1
  <2>3. StepsLeft' < StepsLeft
    BY <1>0, <1>p, <1>r, <2>1, <2>2, WorkLess
  <2> QED BY <2>1, <2>3
<1>5. CASE \E u \in Uploads : Accept(u) \/ Respond(u)
  <2>1. PICK u \in Uploads : Accept(u) \/ Respond(u)
    BY <1>5
  <2>2. RequestWork' < RequestWork
    BY <1>0, <2>1, RequestAdvances
  <2>3. UNCHANGED <<phase, left, server, shut, recovery, exit, fatalLeft>>
    BY <2>1 DEF Accept, Respond, pollVars, timers
  <2>4. RequestWork' <= RequestWork
    BY <1>1, <2>2
  <2>5. StepsLeft' < StepsLeft
    BY <1>0, <1>m, <1>p, <2>2, <2>3, <2>4, WorkLess
  <2> QED BY <2>3, <2>5
<1>6. CASE \/ \E r \in Recoveries : Recover(r)
           \/ \E u \in Uploads : Upload(u)
           \/ \E p \in Polls : Take(p) \/ Task(p) \/ AccrualAnswers(p)
  <2>1. PICK p \in Polls : \/ phase[p] = "none" /\ Add(p) /\ UNCHANGED left
                           \/ Begin(p)
                           \/ Call(p)
                           \/ CancelWait(p)
                           \/ \E a \in Answers : Answer(p, a)
    BY <1>6 DEF Recover, Upload, Polls, Take, Task, AccrualAnswers
  <2>2. PollWork' < PollWork
    BY <1>0, <2>1, PollDecreases
  <2>3. UNCHANGED <<request, server, shut, recovery, exit, fatalLeft>>
    BY <1>6 DEF Recover, Upload, Take, Task, AccrualAnswers, mainVars, timers
  <2>4. PollWork' <= PollWork
    BY <1>1, <2>2
  <2>5. StepsLeft' < StepsLeft
    BY <1>0, <1>m, <1>r, <2>2, <2>3, <2>4, WorkLess
  <2> QED BY <2>3, <2>5
<1>7. CASE Tick
  <2>1. fatalLeft \in Int /\ fatalLeft' = fatalLeft - 1
    BY <1>0, <1>7 DEF Tick, TypeOK
  <2> QED BY <2>1
<1> QED BY <1>3, <1>4, <1>5, <1>6, <1>7 DEF Next, Recovery, Request

-----------------------------------------------------------------------------
(* The theorems.                                                           *)

LEMMA Stutter ==
  ASSUME IInv, UNCHANGED vars
  PROVE  IInv'
<1>1. UNCHANGED <<cancelled, pollVars, pool, server, shut, recovery, request, timers, exit>>
  BY DEF vars, mainVars
<1>2. TypeOK'
  BY <1>1 DEF IInv, TypeOK, pollVars, timers
<1>3. PauseInv' /\ LateInv'
  BY <1>1 DEF IInv, PauseInv, PauseOK, AskedPause, LateInv, LateOK, pollVars
<1>4. TimerInv' /\ DrainInv' /\ IdleInv'
  BY <1>1 DEF IInv, TimerInv, DrainInv, IdleInv, Idle, Running, Queued, pollVars, timers
<1> QED
  BY <1>2, <1>3, <1>4 DEF IInv

\* The invariant holds in every reachable state.
THEOREM Invariance == Spec => []IInv
<1>1. IInv /\ [Next]_vars => IInv'
  <2>1. ASSUME IInv, Next PROVE IInv'
    BY <2>1, TaskTypesStep, PauseStep, LateStep, TimerStep, StateTypesStep, DrainStep, IdleStep,
       Types, TypesNext DEF IInv
  <2> QED
    BY <2>1, Stutter
<1> QED
  BY <1>1, InitIInv, PTL DEF Spec

\* Every variable keeps its type: with it, that a pause is never longer than
\* the cap of AdaptiveStrategy, whatever Retry-After the service sends.
THEOREM TypeCorrect == Spec => []TypeOK
<1>1. IInv => TypeOK
  BY DEF IInv
<1> QED
  BY <1>1, Invariance, PTL

\* The next call comes after the pause the last answer asked for: Repeat,
\* AdaptiveStrategy and the width of a Duration together.
THEOREM PausesAsAsked == Spec => CallsAsAsked
<1> DEFINE A == \A p \in Polls :
       phase[p] = "waiting" /\ phase'[p] = "calling" => waited[p] \in AskedPause(p)
<1>1. ASSUME IInv, Next PROVE A
  <2> SUFFICES ASSUME NEW q \in Polls, phase[q] = "waiting", phase'[q] = "calling"
               PROVE  waited[q] \in AskedPause(q)
    OBVIOUS
  <2>0. TaskTypes /\ MaxDelay \in Nat
    BY <1>1, Types, Bounds DEF IInv
  <2>1. Call(q)
    <3>1. CASE UNCHANGED pollVars
      BY <3>1 DEF pollVars
    <3>2. CASE \E p \in Polls : /\ phase[p] = "none" /\ Add(p)
                                /\ UNCHANGED <<cancelled, lastDelay, left, asked, waited, late>>
      BY <2>0, <3>2 DEF Add, TaskTypes
    <3>3. CASE \E p \in Polls : Begin(p)
      BY <2>0, <3>3 DEF Begin, TaskTypes
    <3>4. CASE \E p \in Polls : Call(p)
      BY <2>0, <3>4 DEF Call, TaskTypes
    <3>5. CASE \E p \in Polls : CancelWait(p)
      BY <2>0, <3>5 DEF CancelWait, TaskTypes
    <3>6. CASE \E p \in Polls : \E a \in Answers : Answer(p, a)
      <4>1. PICK p \in Polls, a \in Answers : Answer(p, a)
        BY <3>6
      <4>2. phase[p] = "calling" /\ p # q
        BY <4>1 DEF Answer
      <4>3. phase'[q] = phase[q]
        BY <1>1, <2>0, <4>1, <4>2, AnswerPauses DEF TaskTypes, IInv
      <4> QED
        BY <4>3
    <3>7. CASE Tick
      BY <3>7 DEF Tick, PollTick
    <3> QED
      BY <1>1, <3>1, <3>2, <3>3, <3>4, <3>5, <3>6, <3>7, Kinds
  <2>2. left[q] = 0 /\ waited[q] \in Nat
    BY <2>0, <2>1 DEF Call, TaskTypes
  <2>3. waited[q] + left[q] = Delay(lastDelay[q]) /\ Delay(lastDelay[q]) \in AskedPause(q)
    BY <1>1 DEF IInv, PauseInv, PauseOK
  <2> QED
    BY <2>2, <2>3
<1>2. IInv /\ [Next]_vars => [A]_vars
  BY <1>1
<1> QED
  BY <1>2, Invariance, PTL DEF Spec, CallsAsAsked

\* A cancelled process uses up its time or has fewer steps left: nothing in it
\* spins.
THEOREM ShutdownGetsOn == Spec => ShutdownAdvances
<1> DEFINE A == cancelled => \/ fatalLeft' < fatalLeft
                             \/ fatalLeft' = fatalLeft /\ StepsLeft' < StepsLeft
<1>1. ASSUME IInv, IInv', Next, cancelled
      PROVE  \/ fatalLeft' < fatalLeft
             \/ fatalLeft' = fatalLeft /\ StepsLeft' < StepsLeft
  BY <1>1, Advances
<1>2. IInv /\ IInv' /\ [Next]_vars => [A]_vars
  BY <1>1
<1> QED
  BY <1>2, Invariance, PTL DEF Spec, ShutdownAdvances

\* A task of the recovery makes at most one call after the cancellation.
THEOREM PollsStop == Spec => []CancelledPollsStop
<1>1. IInv => CancelledPollsStop
  BY DEF IInv, LateInv, LateOK, CancelledPollsStop
<1> QED
  BY <1>1, Invariance, PTL

\* The process comes to its hard end only with a pool that has tasks.
THEOREM HardEndIsThePool == Spec => LateOnlyForPool
<1> DEFINE A == cancelled /\ fatalLeft = 1 /\ fatalLeft' = 0 => shut = "drain"
<1>1. ASSUME IInv, Next, cancelled, fatalLeft = 1, fatalLeft' = 0 PROVE shut = "drain"
  <2>0. StateTypes /\ Slack \in Nat \ {0}
    BY <1>1, Types, Bounds DEF IInv, Slack
  <2>1. Tick
    <3>1. Stopping => UNCHANGED timers
      BY DEF Stopping, AwaitCancel, StopPool, Drained, Shutdown, ShutdownReturns
    <3> QED
      BY <1>1, <3>1, MainKinds DEF timers
  <2>2. shut # "await"
    BY <1>1, <2>1 DEF Tick, Prompt
  <2>3. shutLeft = 0
    BY <1>1, <2>0, <2>2 DEF IInv, TimerInv
  <2>4. shut \notin {"stop", "shutdown", "close"}
    BY <2>1, <2>3 DEF Tick, Prompt
  <2>5. shut # "returned"
    BY <2>0, <2>1 DEF Tick, Prompt, Returned, ShuttingDown, StateTypes
  <2> QED
    BY <2>0, <2>2, <2>4, <2>5 DEF StateTypes
<1>2. IInv /\ [Next]_vars => [A]_vars
  BY <1>1
<1> QED
  BY <1>2, Invariance, PTL DEF Spec, LateOnlyForPool

\* Stop leaves nothing behind, and nothing comes after it.
THEOREM StopLeavesNothing == Spec => []NothingAbandoned
<1>1. IInv => NothingAbandoned
  BY DEF IInv, DrainInv, IdleInv, NothingAbandoned
<1> QED
  BY <1>1, Invariance, PTL

\* Requests are cut only when Shutdown's time is over.
THEOREM RequestsAreServed == Spec => []NobodyCutUnlessLate
<1>1. IInv => NobodyCutUnlessLate
  BY Bounds DEF IInv, IdleInv, NobodyCutUnlessLate, TypeOK
<1> QED
  BY <1>1, Invariance, PTL
=============================================================================
