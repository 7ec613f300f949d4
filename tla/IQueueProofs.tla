---------------------------- MODULE IQueueProofs ----------------------------
(***************************************************************************)
(* The ring of ds/iqueue.c for every initial size and every growth: it     *)
(* hands the numbers out in the order they were added for as long as it    *)
(* has not written behind its array, and it never does that when the       *)
(* initial size is a multiple of the growth.                               *)
(***************************************************************************)
EXTENDS IQueue, SequenceTheorems, TLAPS

Bounds ==
  /\ initial \in Nat /\ grow \in Nat
  /\ size \in Nat /\ start \in Nat /\ count \in Nat
  /\ initial <= size
  /\ start < size \/ (size = 0 /\ start = 0)

(* The ring has grown by a multiple of grow, so it stays one if it began   *)
(* as one; then nothing is ever left behind the end.                       *)
Grown ==
  /\ grow # 0 => (size - initial) % grow = 0
  /\ grow # 0 /\ initial % grow = 0 => size % grow = 0
  /\ (grow # 0 => initial % grow = 0) => count <= size

(* The slots in use have been written, in the order of waiting. *)
Contents ==
  /\ waiting \in Seq(Numbers)
  /\ count = Len(waiting)
  /\ ~ Overrun =>
     \A i \in 0 .. count - 1 :
       /\ (start + i) % size \in DOMAIN queue
       /\ queue[(start + i) % size] = waiting[i + 1]

IInv == Bounds /\ Grown /\ Contents

-----------------------------------------------------------------------------
(* Two different multiples of g are at least g apart: why the numbers that *)
(* are left fit into the ring when it shrinks.                             *)
LEMMA Multiples ==
  ASSUME NEW g \in Nat \ {0}, NEW a \in Nat, NEW b \in Nat,
         a % g = 0, b % g = 0, a < b
  PROVE  a + g <= b
<1> DEFINE m == a \div g
           n == b \div g
<1>1. m \in Nat /\ n \in Nat
  OBVIOUS
<1>2. a = g * m /\ b = g * n
  OBVIOUS
<1>3. m + 1 <= n
  <2> HIDE DEF m, n
  <2>1. SUFFICES ASSUME n <= m PROVE FALSE
    BY <1>1
  <2>2. g * n <= g * m
    BY <1>1, <2>1
  <2> QED
    BY <1>1, <1>2, <2>2
<1>4. g * (m + 1) <= g * n
  <2> HIDE DEF m, n
  <2>1. PICK k \in Nat : n = m + 1 + k
    <3>1. n - (m + 1) \in Nat
      BY <1>1, <1>3
    <3> QED
      BY <1>1, <3>1
  <2>2. g * n = g * (m + 1) + g * k
    BY <1>1, <2>1
  <2>3. g * k \in Nat
    OBVIOUS
  <2> QED
    BY <1>1, <2>2, <2>3
<1>5. g * (m + 1) = g * m + g
  <2> HIDE DEF m, n
  <2> QED
    BY <1>1
<1> QED
  <2> HIDE DEF m, n
  <2> QED
    BY <1>1, <1>2, <1>4, <1>5

(* Adding or taking away g keeps a multiple of g. *)
LEMMA ProductMod ==
  ASSUME NEW g \in Nat \ {0}, NEW k \in Nat
  PROVE  (g * k) % g = 0
<1> DEFINE x == g * k
           q == x \div g
           r == x % g
<1>1. x \in Nat /\ q \in Nat /\ r \in Nat /\ r < g
  OBVIOUS
<1>2. x = g * q + r
  <2> HIDE DEF x
  <2> QED
    BY <1>1
<1>3. r = g * (k - q)
  <2> HIDE DEF q, r
  <2> QED
    BY <1>1, <1>2
<1>4. k - q = 0
  <2> HIDE DEF q, r
  <2>1. CASE k - q >= 1
    <3>1. PICK d \in Nat : k - q = d + 1
      <4>1. (k - q) - 1 \in Nat
        BY <1>1, <2>1
      <4> QED
        BY <1>1, <4>1
    <3>2. g * (k - q) = g * d + g /\ g * d \in Nat
      BY <1>1, <3>1
    <3> QED
      BY <1>1, <1>3, <3>2
  <2>2. CASE k - q <= -1
    <3>1. PICK d \in Nat : k - q = - (d + 1)
      <4>1. (q - k) - 1 \in Nat
        BY <1>1, <2>2
      <4> QED
        BY <1>1, <4>1
    <3>2. g * (k - q) = - (g * d + g) /\ g * d \in Nat
      BY <1>1, <3>1
    <3> QED
      BY <1>1, <1>3, <3>2
  <2> QED
    BY <1>1, <2>1, <2>2
<1> QED
  BY <1>3, <1>4

LEMMA StillMultiple ==
  ASSUME NEW g \in Nat \ {0}, NEW a \in Nat, a % g = 0
  PROVE  /\ (a + g) % g = 0
         /\ g <= a => (a - g) % g = 0
<1> DEFINE m == a \div g
<1>1. m \in Nat /\ a = g * m
  OBVIOUS
<1> HIDE DEF m
<1>2. (a + g) % g = 0
  <2>1. a + g = g * (m + 1)
    BY <1>1
  <2> QED
    BY <1>1, <2>1, ProductMod
<1>3. ASSUME g <= a PROVE (a - g) % g = 0
  <2>1. m # 0
    BY <1>1, <1>3
  <2>2. m - 1 \in Nat /\ a - g = g * (m - 1)
    BY <1>1, <2>1
  <2> QED
    BY <2>2, ProductMod
<1> QED
  BY <1>2, <1>3

(* An index around the ring wraps at most once. *)
LEMMA Wrap ==
  ASSUME NEW s \in Nat, NEW x \in Nat, x < 2 * s
  PROVE  x % s = IF x < s THEN x ELSE x - s
OBVIOUS

-----------------------------------------------------------------------------
LEMMA InitInv == Init => IInv
<1> SUFFICES ASSUME Init PROVE IInv
  OBVIOUS
<1>1. initial \in Nat /\ grow \in Nat /\ size = initial /\ start = 0 /\ count = 0
      /\ waiting = << >>
  BY DEF Init
<1>2. grow # 0 => (size - initial) % grow = 0
  BY <1>1
<1> QED
  BY <1>1, <1>2 DEF IInv, Bounds, Grown, Contents, Overrun

LEMMA AddInPlaceInv ==
  ASSUME IInv, ~ Overrun, NEW num \in Numbers, AddInPlace(num)
  PROVE  IInv'
<1> DEFINE at == (start + count) % size
<1>1. Bounds' /\ Grown'
  BY DEF IInv, Bounds, Grown, AddInPlace, sizes, Overrun
<1>2. /\ size \in Nat /\ start \in Nat /\ count \in Nat /\ start < size /\ count < size
      /\ size' = size /\ start' = start /\ count' = count + 1
  BY DEF IInv, Bounds, AddInPlace, Overrun
<1>3. waiting' \in Seq(Numbers) /\ Len(waiting') = count + 1 /\ waiting'[count + 1] = num
      /\ \A i \in 0 .. count - 1 : waiting'[i + 1] = waiting[i + 1]
  BY <1>2 DEF IInv, Contents, AddInPlace
<1>4. queue' = [i \in DOMAIN queue \cup {at} |-> IF i = at THEN num ELSE queue[i]]
  BY DEF AddInPlace, Store
<1>5. ASSUME NEW i \in 0 .. count - 1 PROVE (start + i) % size # at
  <2>1. (start + i) % size = IF start + i < size THEN start + i ELSE start + i - size
    BY <1>2
  <2>2. at = IF start + count < size THEN start + count ELSE start + count - size
    BY <1>2
  <2> HIDE DEF at
  <2> QED
    BY <1>2, <2>1, <2>2
<1> HIDE DEF at
<1>6. ASSUME NEW i \in 0 .. count' - 1
      PROVE  (start' + i) % size' \in DOMAIN queue' /\ queue'[(start' + i) % size'] = waiting'[i + 1]
  <2>1. CASE i = count
    <3>1. (start' + i) % size' = at
      BY <1>2, <2>1 DEF at
    <3> QED
      BY <1>3, <1>4, <2>1, <3>1
  <2>2. CASE i \in 0 .. count - 1
    <3>1. (start + i) % size \in DOMAIN queue /\ queue[(start + i) % size] = waiting[i + 1]
      BY <2>2 DEF IInv, Contents
    <3> QED
      BY <1>2, <1>3, <1>4, <1>5, <2>2, <3>1
  <2> QED
    BY <1>2, <2>1, <2>2
<1>7. Contents'
  BY <1>2, <1>3, <1>6 DEF Contents
<1> QED
  BY <1>1, <1>7 DEF IInv

LEMMA AddGrowInv ==
  ASSUME IInv, ~ Overrun, NEW num \in Numbers, AddGrow(num)
  PROVE  IInv'
<1>1. /\ size \in Nat /\ count \in Nat /\ size = count /\ grow \in Nat \ {0}
      /\ initial \in Nat /\ initial <= size
      /\ size' = size + grow /\ start' = 0 /\ count' = count + 1
      /\ initial' = initial /\ grow' = grow
  BY DEF IInv, Bounds, AddGrow, sizes
<1>2. /\ (size' - initial) % grow = 0
      /\ initial % grow = 0 => size' % grow = 0
  <2>1. size - initial \in Nat /\ (size - initial) % grow = 0
    BY <1>1 DEF IInv, Grown
  <2>2. ((size - initial) + grow) % grow = 0
    BY <1>1, <2>1, StillMultiple
  <2>3. size' - initial = (size - initial) + grow
    BY <1>1
  <2>4. initial % grow = 0 => size' % grow = 0
    BY <1>1, StillMultiple DEF IInv, Grown
  <2> QED
    BY <2>2, <2>3, <2>4
<1>3. Bounds' /\ Grown'
  BY <1>1, <1>2 DEF Bounds, Grown
<1>4. waiting' \in Seq(Numbers) /\ Len(waiting') = count + 1 /\ waiting'[count + 1] = num
      /\ \A i \in 0 .. count - 1 : waiting'[i + 1] = waiting[i + 1]
  BY <1>1 DEF IInv, Contents, AddGrow
<1>5. /\ DOMAIN queue' = 0 .. count
      /\ queue'[count] = num
      /\ \A i \in 0 .. count - 1 : queue'[i] = queue[(start + i) % size]
  BY <1>1 DEF AddGrow, Store, Copy
<1>6. ASSUME NEW i \in 0 .. count PROVE (start' + i) % size' = i
  BY <1>1, Wrap
<1>7. Contents'
  <2>1. ASSUME NEW i \in 0 .. count' - 1
        PROVE  (start' + i) % size' \in DOMAIN queue' /\ queue'[(start' + i) % size'] = waiting'[i + 1]
    <3>1. i \in 0 .. count /\ (start' + i) % size' = i
      BY <1>1, <1>6
    <3>2. CASE i = count
      BY <1>4, <1>5, <3>1, <3>2
    <3>3. CASE i \in 0 .. count - 1
      <4>1. queue[(start + i) % size] = waiting[i + 1]
        BY <3>3 DEF IInv, Contents
      <4> QED
        BY <1>4, <1>5, <3>1, <3>3, <4>1
    <3> QED
      BY <1>1, <3>1, <3>2, <3>3
  <2> QED
    BY <1>1, <1>4, <2>1 DEF Contents
<1> QED
  BY <1>3, <1>7 DEF IInv

(* Both forms of iqueue_next: what is behind the number that is taken. *)
LEMMA Behind ==
  ASSUME IInv, ~ Overrun, count > 0, NEW i \in 0 .. count - 2
  PROVE  /\ (start + 1 + i) % size \in DOMAIN queue
         /\ queue[(start + 1 + i) % size] = Tail(waiting)[i + 1]
<1>1. i + 1 \in 0 .. count - 1 /\ i + 1 \in 1 .. Len(waiting) - 1
  BY DEF IInv, Bounds, Contents
<1>2. start + (i + 1) = start + 1 + i
  BY DEF IInv, Bounds
<1>3. queue[(start + (i + 1)) % size] = waiting[(i + 1) + 1] /\ (start + (i + 1)) % size \in DOMAIN queue
  BY <1>1 DEF IInv, Contents
<1>4. Tail(waiting)[i + 1] = waiting[(i + 1) + 1]
  BY <1>1 DEF IInv, Contents
<1> QED
  BY <1>2, <1>3, <1>4

LEMMA TakeInv ==
  ASSUME IInv, ~ Overrun, Take
  PROVE  IInv'
<1>1. /\ size \in Nat /\ start \in Nat /\ count \in Nat /\ start < size /\ count > 0 /\ count <= size
      /\ size' = size /\ count' = count - 1 /\ queue' = queue
  BY DEF IInv, Bounds, Take, Overrun
<1>2. start' = IF start + 1 < size THEN start + 1 ELSE start + 1 - size
  BY <1>1 DEF Take
<1>3. Bounds' /\ Grown'
  BY <1>1, <1>2 DEF IInv, Bounds, Grown, Take, sizes
<1>4. waiting' = Tail(waiting) /\ waiting' \in Seq(Numbers) /\ Len(waiting') = count - 1
  BY <1>1 DEF IInv, Contents, Take
<1>5. ASSUME NEW i \in 0 .. count - 2 PROVE (start' + i) % size = (start + 1 + i) % size
  <2>1. i \in Nat /\ i < size
    BY <1>1
  <2>2. CASE start + 1 < size
    BY <1>1, <1>2, <2>2
  <2>3. CASE start + 1 = size
    <3>1. start' + i = i /\ start + 1 + i = size + i
      BY <1>1, <1>2, <2>1, <2>3
    <3>2. i % size = i
      BY <1>1, <2>1
    <3>3. (size + i) % size = i
      BY <1>1, <2>1
    <3> QED
      BY <3>1, <3>2, <3>3
  <2> QED
    BY <1>1, <2>2, <2>3
<1>6. Contents'
  <2>1. ASSUME NEW i \in 0 .. count' - 1
        PROVE  (start' + i) % size' \in DOMAIN queue' /\ queue'[(start' + i) % size'] = waiting'[i + 1]
    <3>1. i \in 0 .. count - 2
      BY <1>1
    <3> QED
      BY <1>1, <1>4, <1>5, <3>1, Behind
  <2> QED
    BY <1>1, <1>4, <2>1 DEF Contents
<1> QED
  BY <1>3, <1>6 DEF IInv

(* The ring shrinks to no less than its initial size.  If that is a        *)
(* multiple of grow, so is the size before, and what is left was smaller.  *)
LEMMA TakeShrinkInv ==
  ASSUME IInv, ~ Overrun, TakeShrink
  PROVE  IInv'
<1>1. /\ size \in Nat /\ start \in Nat /\ count \in Nat /\ count > 0 /\ count <= size
      /\ initial \in Nat /\ grow \in Nat \ {0}
      /\ size > initial /\ (count - 1) % grow = 0 /\ (size - initial) % grow = 0
      /\ size' = size - grow /\ start' = 0 /\ count' = count - 1
      /\ initial' = initial /\ grow' = grow
  BY DEF IInv, Bounds, Grown, TakeShrink, Shrinks, sizes, Overrun
<1>2. initial + grow <= size /\ (size' - initial) % grow = 0
  <2>1. size - initial \in Nat /\ 0 < size - initial /\ 0 % grow = 0
    BY <1>1
  <2>2. 0 + grow <= size - initial
    BY <1>1, <2>1, Multiples
  <2>3. ((size - initial) - grow) % grow = 0
    <3>1. grow <= size - initial
      BY <1>1, <2>2
    <3> QED
      BY <1>1, <2>1, <3>1, StillMultiple
  <2>4. size' - initial = (size - initial) - grow
    BY <1>1
  <2> QED
    BY <1>1, <2>2, <2>3, <2>4
<1>3. ASSUME initial % grow = 0 PROVE size' % grow = 0 /\ count' <= size'
  <2>1. size % grow = 0
    BY <1>1, <1>3 DEF IInv, Grown
  <2>2. count - 1 \in Nat /\ count - 1 < size
    BY <1>1
  <2>3. count - 1 + grow <= size
    BY <1>1, <2>1, <2>2, Multiples
  <2>4. (size - grow) % grow = 0
    <3>1. grow <= size
      BY <1>1, <1>2
    <3> QED
      BY <1>1, <2>1, <3>1, StillMultiple
  <2> QED
    BY <1>1, <2>3, <2>4
<1>4. Bounds'
  BY <1>1, <1>2 DEF Bounds
<1>5. Grown'
  BY <1>1, <1>2, <1>3 DEF Grown
<1>6. waiting' = Tail(waiting) /\ waiting' \in Seq(Numbers) /\ Len(waiting') = count - 1
  BY <1>1 DEF IInv, Contents, TakeShrink
<1>7. Contents'
  <2>1. ASSUME ~ Overrun', NEW i \in 0 .. count' - 1
        PROVE  (start' + i) % size' \in DOMAIN queue' /\ queue'[(start' + i) % size'] = waiting'[i + 1]
    <3>1. i \in 0 .. count - 2
      BY <1>1
    <3>2. (start' + i) % size' = i
      BY <1>1, <1>2, <2>1, Wrap DEF Overrun
    <3>3. i \in DOMAIN queue' /\ queue'[i] = queue[(start + 1 + i) % size]
      BY <3>1 DEF TakeShrink
    <3> QED
      BY <1>1, <1>6, <3>1, <3>2, <3>3, Behind
  <2> QED
    BY <1>1, <1>6, <2>1 DEF Contents
<1> QED
  BY <1>4, <1>5, <1>7 DEF IInv

LEMMA NextInv == IInv /\ [Next]_vars => IInv'
<1> SUFFICES ASSUME IInv, [Next]_vars PROVE IInv'
  OBVIOUS
<1>1. CASE ~ Overrun /\ Take
  BY <1>1, TakeInv
<1>2. CASE ~ Overrun /\ TakeShrink
  BY <1>2, TakeShrinkInv
<1>3. ASSUME ~ Overrun, NEW num \in Numbers, AddInPlace(num) PROVE IInv'
  BY <1>3, AddInPlaceInv
<1>4. ASSUME ~ Overrun, NEW num \in Numbers, AddGrow(num) PROVE IInv'
  BY <1>4, AddGrowInv
<1>5. CASE UNCHANGED vars
  BY <1>5 DEF vars, sizes, IInv, Bounds, Grown, Contents, Overrun
<1> QED
  BY <1>1, <1>2, <1>3, <1>4, <1>5 DEF Next

-----------------------------------------------------------------------------
(* However the ring grew and shrank before: when it was created with a     *)
(* multiple of grow, iqueue_next never copies more numbers into the        *)
(* smaller array than it has room for (iqueue.c:80).                       *)
THEOREM RingFits == Spec => []CountFits
<1>1. IInv => CountFits
  BY DEF IInv, Grown, CountFits
<1> QED
  BY InitInv, NextInv, <1>1, PTL DEF Spec

(* For all sizes, until it has written behind its array, the ring is a     *)
(* queue: it hands out what was added, in that order.                      *)
THEOREM FirstInFirstOut == Spec => []InOrder
<1>1. IInv => InOrder
  BY DEF IInv, Contents, InOrder
<1> QED
  BY InitInv, NextInv, <1>1, PTL DEF Spec
=============================================================================
