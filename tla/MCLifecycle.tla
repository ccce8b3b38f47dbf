----------------------------- MODULE MCLifecycle -----------------------------
(***************************************************************************)
(* A small instance of Lifecycle for TLC.  A second is three ticks and the *)
(* other durations keep the order they have in the code (one second, five  *)
(* for Shutdown, ten for the process, thirty for the cap); a Duration has  *)
(* 32 values, so that of the Retry-After values 1 is kept, 3 is capped, 6  *)
(* wraps to a negative and 11 to a positive duration below a second.       *)
(***************************************************************************)
EXTENDS Lifecycle

MCRetryAfters == {0, 1, 3, 6, 11}
=============================================================================
