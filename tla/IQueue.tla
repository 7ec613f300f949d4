------------------------------- MODULE IQueue -------------------------------
(***************************************************************************)
(* ds/iqueue.c: a ring of integers that grows by grow when it is full and  *)
(* shrinks by grow when, above its initial size, the number left in it is  *)
(* a multiple of grow.  kmalloc may fail: the ring then keeps its size.    *)
(* When more is left than the smaller array holds, iqueue_next writes      *)
(* behind its end, and what happens from there on is undefined.            *)
(***************************************************************************)
EXTENDS Integers, Sequences

CONSTANTS Created,     \* the sizes iqueue_create is given: initial and grow
          Numbers,     \* the integers queued
          MaxSize      \* bound on the size of the ring

VARIABLES initial, grow, \* struct iqueue, set by iqueue_create
          queue,         \* the array, from 0
          size, start, count,
          waiting        \* history: the numbers that are due, in order

sizes == <<initial, grow>>
vars == <<sizes, queue, size, start, count, waiting>>

(* iqueue_create; the sizes are of type size_t. *)
Init ==
  /\ \E s \in Created : initial = s[1] /\ grow = s[2]
  /\ initial \in Nat /\ grow \in Nat
  /\ queue = [i \in {} |-> 0]
  /\ size = initial /\ start = 0 /\ count = 0
  /\ waiting = <<>>

(* Fault: the copy begins at the start of the array. *)
CopyFromZero(n) == [i \in 0 .. n - 1 |-> queue[i]]

(* The numbers in the ring, moved to the front of a new array. *)
Copy(n) == [i \in 0 .. n - 1 |-> queue[(start + i) % size]]

Store(q, at, num) == [i \in DOMAIN q \cup {at} |-> IF i = at THEN num ELSE q[i]]

(* iqueue_add, with room ... *)
AddInPlace(num) ==
  /\ size # count
  /\ queue' = Store(queue, (start + count) % size, num)
  /\ count' = count + 1
  /\ waiting' = Append(waiting, num)
  /\ UNCHANGED <<sizes, size, start>>

(* ... and without: IQUEUE_NOGROW and no memory leave it as it is. *)
AddGrow(num) ==
  /\ size = count /\ grow # 0 /\ size + grow <= MaxSize
  /\ queue' = Store(Copy(count), count, num)
  /\ size' = size + grow /\ start' = 0
  /\ count' = count + 1
  /\ waiting' = Append(waiting, num)
  /\ UNCHANGED sizes

(* iqueue_next: take the first number.  It leaves the ring as it is with   *)
(* IQUEUE_NOSHRINK or without memory.                                      *)
Take ==
  /\ count > 0
  /\ start' = (start + 1) % size
  /\ count' = count - 1
  /\ waiting' = Tail(waiting)
  /\ UNCHANGED <<sizes, queue, size>>

(* Fault: the ring shrinks whatever is left in it. *)
ShrinksEagerly(left) == grow # 0 /\ size > initial

Shrinks(left) == grow # 0 /\ size > initial /\ left % grow = 0

TakeShrink ==
  /\ count > 0 /\ Shrinks(count - 1)
  /\ queue' = [i \in 0 .. count - 2 |-> queue[(start + 1 + i) % size]]
  /\ size' = size - grow /\ start' = 0
  /\ count' = count - 1
  /\ waiting' = Tail(waiting)
  /\ UNCHANGED sizes

(* The array has been left behind its end. *)
Overrun == count > size

Next ==
  /\ ~ Overrun
  /\ Take \/ TakeShrink \/ \E num \in Numbers : AddInPlace(num) \/ AddGrow(num)

Spec == Init /\ [][Next]_vars

-----------------------------------------------------------------------------
(* The ring holds the numbers that are due, in the order they were added,  *)
(* through growing, shrinking and going round.                             *)
InOrder ==
  ~ Overrun =>
  /\ count = Len(waiting)
  /\ \A i \in 0 .. count - 1 : queue[(start + i) % size] = waiting[i + 1]

(* What is left when the ring shrinks fits into the smaller array,         *)
(* whatever growing and shrinking led there, if the ring was created with  *)
(* a multiple of grow; with other sizes iqueue_next can write behind it.   *)
CountFits == (grow # 0 => initial % grow = 0) => count <= size
=============================================================================
