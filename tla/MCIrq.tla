------------------------------- MODULE MCIrq --------------------------------
EXTENDS Irq, TLC

CONSTANTS t1, t2, t3, l1, l2, c1, c2

(* Two threads of one process on one processor, one of another elsewhere. *)
Processes == (t1 :> "p") @@ (t2 :> "p") @@ (t3 :> "q")
Affinities == (t1 :> c1) @@ (t2 :> c1) @@ (t3 :> c2)

(* The threads of one process on one processor are alike, and so are lines. *)
Symmetry == {f @@ g : f \in Permutations({t1, t2}), g \in Permutations({l1, l2})}

(* Bound: once a process went astray, two hooks in all.  That is enough    *)
(* for a handler of two lines and for one hooked twice to the same line.   *)
FewHooks == astray # {} => count(l1) + count(l2) <= 2
=============================================================================
