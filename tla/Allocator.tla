----------------------------- MODULE Allocator -----------------------------
(***************************************************************************)
(* What every allocator of the kernel promises its callers: a block that   *)
(* is handed out overlaps no block that is still live.                     *)
(***************************************************************************)
EXTENDS Integers

VARIABLE live    \* the blocks <<start, length>> in the hands of callers

Disjoint(a, b) == a[1] + a[2] <= b[1] \/ b[1] + b[2] <= a[1]

Init == live = {}

Alloc(b) == (\A a \in live : Disjoint(a, b)) /\ live' = live \cup {b}

Free(b) == live' = live \ {b}

(* A block may be cut short in place. *)
Cut(b) ==
  \E a \in live' \ live :
    a[1] = b[1] /\ a[2] < b[2] /\ live' = (live \ {b}) \cup {a}

Next ==
  \/ \E b \in live' \ live : Alloc(b)
  \/ \E b \in live : Free(b) \/ Cut(b)

Spec == Init /\ [][Next]_live
===========================================================================
