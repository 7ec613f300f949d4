---------------------------- MODULE MCScheduler ----------------------------
(* Instances of Scheduler: threads are numbered, and placed by            *)
(* (tid - 1) % cpu_count or all on processor 0.                           *)
EXTENDS Scheduler

TwoThreads == {1, 2}
ThreeThreads == {1, 2, 3}

OneProcessor == [t \in Thread |-> 0]
Spread == [t \in Thread |-> (t - 1) % N]
===========================================================================
