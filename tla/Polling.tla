------------------------------- MODULE Polling -------------------------------
(***************************************************************************)
(* What a task of the worker pool does with the accrual system: processor  *)
(* .processOrder up to its first call, accrual.HttpReader.Get, and         *)
(* repeater.Repeat with the AdaptiveStrategy (base delay one second, no    *)
(* limit of attempts).  A task enqueued by an upload has a context that is *)
(* never cancelled, a task enqueued by the recovery has the root context.  *)
(* What the tasks do to orders and transactions is OrderProcessing; here a *)
(* task is its calls and its pauses.  Lifecycle runs them in the process.  *)
(*                                                                         *)
(* Time passes in ticks.  A pause is a countdown; a timer that has run     *)
(* down fires before the next tick (Lifecycle's Tick waits for it).        *)
(***************************************************************************)
EXTENDS Integers, FiniteSetsExt

CONSTANTS
  Uploads, Recoveries,  \* tasks, by who enqueues them
  Second,               \* time.Second, in ticks: the strategy's base delay
  MaxDelay,             \* the strategy's cap, 30 seconds
  Half,                 \* a time.Duration is in -Half..Half-1
  RetryAfters           \* values a Retry-After header may have, in seconds

ASSUME PollingAssumption ==
  /\ IsFiniteSet(Uploads) /\ IsFiniteSet(Recoveries) /\ Uploads \cap Recoveries = {}
  /\ Second \in Nat \ {0} /\ MaxDelay \in Nat /\ Second <= MaxDelay
  /\ Half \in Nat /\ MaxDelay < Half
  /\ RetryAfters \subseteq Int

VARIABLES
  cancelled,    \* the root context is cancelled
  phase,        \* task -> how far it is
  lastDelay,    \* task -> AdaptiveStrategy.lastDelay
  left,         \* task -> ticks until its timer fires
  asked,        \* history: task -> seconds its last answer asked it to wait, 0 for none
  waited,       \* history: task -> ticks since its last answer
  late          \* history: task -> calls made after its context was cancelled

Polls    == Uploads \cup Recoveries
pollVars == <<phase, lastDelay, left, asked, waited, late>>

\* none: not enqueued; refused: Add returned an error; ready: about to call.
Phases  == {"none", "refused", "queued", "ready", "calling", "waiting", "done"}
Running == {p \in Polls : phase[p] \in {"ready", "calling", "waiting"}}
Queued  == {p \in Polls : phase[p] = "queued"}

\* <-ctx.Done() of the task's context.
CtxDone(p) == cancelled /\ p \in Recoveries

PollInit ==
  /\ cancelled = FALSE
  /\ phase = [p \in Polls |-> "none"]
  /\ lastDelay = [p \in Polls |-> 0]
  /\ left = [p \in Polls |-> 0]
  /\ asked = [p \in Polls |-> 0]
  /\ waited = [p \in Polls |-> 0]
  /\ late = [p \in Polls |-> 0]

-----------------------------------------------------------------------------
(* The delays.                                                             *)

\* time.Duration(secs) * time.Second in Duration's width.
Wrapped(d) == ((d + Half) % (2 * Half)) - Half

\* AdaptiveStrategy.Retriable, for an answer 429: what it stores in lastDelay.
\* Faulty variant: no cap.
Uncapped(d) == IF d <= 0 THEN Second ELSE d
Capped(d) ==
  LET delay == IF d <= 0 THEN Second ELSE d
  IN  IF delay > MaxDelay THEN MaxDelay ELSE delay

\* AdaptiveStrategy.Delay.  Faulty variant: without the base delay.
BareDelay(last) == last
Delay(last) == IF last > 0 THEN last ELSE Second

\* Answers on which Get or the action of Repeat returns a retriable error:
\* 204 and 429, and an accrual that is REGISTERED or PROCESSING.  The others
\* end the task: PROCESSED and INVALID settle the order, and an error of the
\* network, of decoding or of the service fails it.
Later    == {"204", "REGISTERED", "PROCESSING"}
Answers  == Later \cup {"429", "PROCESSED", "INVALID", "error"}

-----------------------------------------------------------------------------
(* A task.                                                                 *)

\* A worker takes the task: touchOrder, CancelPlannedTransactionsByOrder and
\* RegisterTransaction use the task's context and fail when it is cancelled.
Begin(p) ==
  /\ phase[p] = "queued"
  /\ phase' = [phase EXCEPT ![p] = IF CtxDone(p) THEN "done" ELSE "ready"]
  /\ UNCHANGED <<cancelled, lastDelay, left, asked, waited, late>>

\* The request goes out; it knows of no context.
Call(p) ==
  /\ \/ phase[p] = "ready"
     \/ phase[p] = "waiting" /\ left[p] = 0
  /\ phase' = [phase EXCEPT ![p] = "calling"]
  /\ late' = [late EXCEPT ![p] = IF CtxDone(p) THEN @ + 1 ELSE @]
  /\ asked' = [asked EXCEPT ![p] = 0]
  /\ waited' = [waited EXCEPT ![p] = 0]
  /\ UNCHANGED <<cancelled, lastDelay, left>>

\* Repeat after a retriable error: Retriable has stored the delay last; a
\* pause that is not positive is skipped, with the look at the context.
\* Faulty variant: an answer other than 429 leaves lastDelay as it was.
PauseAfterAny(p, last, seconds) ==
  LET kept == IF last = 0 THEN lastDelay[p] ELSE last IN
  /\ lastDelay' = [lastDelay EXCEPT ![p] = kept]
  /\ left' = [left EXCEPT ![p] = Delay(kept)]
  /\ phase' = [phase EXCEPT ![p] = IF Delay(kept) > 0 THEN "waiting" ELSE "ready"]
  /\ asked' = [asked EXCEPT ![p] = seconds]
Pause(p, last, seconds) ==
  /\ lastDelay' = [lastDelay EXCEPT ![p] = last]
  /\ left' = [left EXCEPT ![p] = Delay(last)]
  /\ phase' = [phase EXCEPT ![p] = IF Delay(last) > 0 THEN "waiting" ELSE "ready"]
  /\ asked' = [asked EXCEPT ![p] = seconds]

\* An answer; a 429 without a Retry-After that is a number carries zero.  The
\* strategy ends with the task.
Answer(p, a) ==
  /\ phase[p] = "calling"
  /\ \/ a \in Later /\ Pause(p, 0, 0)
     \/ a = "429" /\ Pause(p, Capped(0), 0)
     \/ a = "429" /\ \E s \in RetryAfters : Pause(p, Capped(Wrapped(s * Second)), s)
     \/ /\ a \in {"PROCESSED", "INVALID", "error"}
        /\ phase' = [phase EXCEPT ![p] = "done"]
        /\ lastDelay' = [lastDelay EXCEPT ![p] = 0]
        /\ UNCHANGED <<left, asked>>
  /\ UNCHANGED <<cancelled, waited, late>>

\* The select of Repeat takes ctx.Done(): the task ends with the context's
\* error; failOrder fails with it too and the order stays PROCESSING.
CancelWait(p) ==
  /\ phase[p] = "waiting" /\ CtxDone(p)
  /\ phase' = [phase EXCEPT ![p] = "done"]
  /\ left' = [left EXCEPT ![p] = 0]
  /\ asked' = [asked EXCEPT ![p] = 0]
  /\ waited' = [waited EXCEPT ![p] = 0]
  /\ lastDelay' = [lastDelay EXCEPT ![p] = 0]
  /\ UNCHANGED <<cancelled, late>>

\* One tick of every pause.
PollTick ==
  /\ left' = [p \in Polls |-> IF phase[p] = "waiting" THEN left[p] - 1 ELSE left[p]]
  /\ waited' = [p \in Polls |-> IF phase[p] = "waiting" THEN waited[p] + 1 ELSE waited[p]]
  /\ UNCHANGED <<cancelled, phase, lastDelay, asked, late>>

\* What a task does without waiting for anyone.
PollPrompt(p) ==
  \/ phase[p] = "ready"
  \/ phase[p] = "waiting" /\ (left[p] = 0 \/ CtxDone(p))
=============================================================================
