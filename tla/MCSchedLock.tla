---------------------------- MODULE MCSchedLock ----------------------------
EXTENDS SchedLock, TLC
CONSTANTS a1, a2, b1

(* Two threads share processor 0, one is alone on processor 1. *)
TwoAndOne == (a1 :> 0) @@ (a2 :> 0) @@ (b1 :> 1)
===========================================================================
