----------------------------- MODULE IrqProofs ------------------------------
(***************************************************************************)
(* Interrupt handlers for any number of threads, lines and processors: the *)
(* fast queues and the counters of the threads agree, a line is open       *)
(* exactly while it has handlers, and an interrupt no handler has taken    *)
(* yet still has one queued.                                               *)
(***************************************************************************)
EXTENDS Irq, FiniteSetTheorems, SequenceTheorems, TLAPS

-----------------------------------------------------------------------------
(* The fast queues, by their values: where a thread is in them, ... *)
Places(ft, t) == {x \in Cpu \X (1 .. MAX_FAST) : x[2] <= Len(ft[x[1]]) /\ ft[x[1]][x[2]] = t}

Seqs(ft) == ft \in [Cpu -> Seq(Thread)]

(* ... and what the counters of the threads and the queues have in common. *)
FastOK(cp, fq, ft) ==
  /\ cp \in [Thread -> Cpu \cup {NONE}] /\ fq \in [Thread -> Nat] /\ Seqs(ft)
  /\ \A t \in Thread : /\ fq[t] = Cardinality(Places(ft, t))
                       /\ cp[t] = NONE <=> fq[t] = 0
                       /\ cp[t] \in {NONE, Affinity[t]}
  /\ \A c \in Cpu : Len(ft[c]) <= MAX_FAST
  /\ \A c \in Cpu : \A i \in 1 .. Len(ft[c]) : cp[ft[c][i]] = c

(* ft2 is ft after t has been appended to the queue of d, ... *)
Queued(ft, ft2, d, t) ==
  /\ \A c \in Cpu : Len(ft2[c]) = IF c = d THEN Len(ft[c]) + 1 ELSE Len(ft[c])
  /\ \A c \in Cpu : \A i \in 1 .. Len(ft[c]) : ft2[c][i] = ft[c][i]
  /\ ft2[d][Len(ft[d]) + 1] = t

(* ... and after the oldest thread of the queue of d has left. *)
Dequeued(ft, ft2, d) ==
  /\ \A c \in Cpu : Len(ft2[c]) = IF c = d THEN Len(ft[c]) - 1 ELSE Len(ft[c])
  /\ \A c \in Cpu : \A i \in 1 .. Len(ft2[c]) : ft2[c][i] = ft[c][IF c = d THEN i + 1 ELSE i]

(* f2 is f but for its value at t. *)
Written(f, f2, t, v) == \A u \in Thread : f2[u] = IF u = t THEN v ELSE f[u]

LEMMA SeqsAre ==
  ASSUME NEW ft, Seqs(ft)
  PROVE  \A c \in Cpu : Len(ft[c]) \in Nat /\ \A i \in 1 .. Len(ft[c]) : ft[c][i] \in Thread
BY DEF Seqs

LEMMA QueuedIs ==
  ASSUME NEW ft \in [Cpu -> Seq(Thread)], NEW d \in Cpu, NEW t \in Thread,
         NEW ft2, ft2 = [ft EXCEPT ![d] = Append(@, t)]
  PROVE  Seqs(ft2) /\ Queued(ft, ft2, d, t)
<1> DEFINE a == Append(ft[d], t)
<1>1. a \in Seq(Thread) /\ Len(a) = Len(ft[d]) + 1 /\ a[Len(ft[d]) + 1] = t
  OBVIOUS
<1>2. \A i \in 1 .. Len(ft[d]) : a[i] = ft[d][i]
  OBVIOUS
<1>3. ft2 = [ft EXCEPT ![d] = a]
  OBVIOUS
<1> HIDE DEF a
<1>4. ft2 \in [Cpu -> Seq(Thread)] /\ ft2[d] = a /\ \A c \in Cpu : c # d => ft2[c] = ft[c]
  BY <1>1, <1>3
<1> QED
  BY <1>1, <1>2, <1>4 DEF Queued, Seqs

LEMMA DequeuedIs ==
  ASSUME NEW ft \in [Cpu -> Seq(Thread)], NEW d \in Cpu, ft[d] # <<>>,
         NEW ft2, ft2 = [ft EXCEPT ![d] = Tail(@)]
  PROVE  Seqs(ft2) /\ Dequeued(ft, ft2, d)
<1> DEFINE a == Tail(ft[d])
<1>1. a \in Seq(Thread) /\ Len(a) = Len(ft[d]) - 1
  OBVIOUS
<1>2. \A i \in 1 .. Len(a) : a[i] = ft[d][i + 1]
  OBVIOUS
<1>3. ft2 = [ft EXCEPT ![d] = a]
  OBVIOUS
<1> HIDE DEF a
<1>4. ft2 \in [Cpu -> Seq(Thread)] /\ ft2[d] = a /\ \A c \in Cpu : c # d => ft2[c] = ft[c]
  BY <1>1, <1>3
<1> QED
  BY <1>1, <1>2, <1>4 DEF Dequeued, Seqs

LEMMA PlacesFinite ==
  ASSUME NEW ft, NEW t
  PROVE  IsFiniteSet(Places(ft, t)) /\ Cardinality(Places(ft, t)) \in Nat
<1>1. IsFiniteSet(Cpu) /\ 1 \in Int /\ MAX_FAST \in Int
  BY IrqAssumption
<1>2. IsFiniteSet(1 .. MAX_FAST)
  BY <1>1, FS_Interval
<1>3. IsFiniteSet(Cpu \X (1 .. MAX_FAST))
  BY <1>1, <1>2, FS_Product
<1>4. Places(ft, t) \subseteq Cpu \X (1 .. MAX_FAST)
  BY DEF Places
<1> QED
  BY <1>3, <1>4, FS_Subset, FS_CardinalityType

LEMMA InPlaces ==
  ASSUME NEW ft, NEW t, NEW x
  PROVE  x \in Places(ft, t) <=>
           \E c \in Cpu, i \in 1 .. MAX_FAST : x = <<c, i>> /\ i <= Len(ft[c]) /\ ft[c][i] = t
BY DEF Places

(* A thread that is on a processor is in its queue. *)
LEMMA OnQueue ==
  ASSUME NEW cp, NEW fq, NEW ft, FastOK(cp, fq, ft), NEW t \in Thread, cp[t] # NONE
  PROVE  cp[t] \in Cpu /\ cp[t] = Affinity[t] /\ Len(ft[cp[t]]) \in Nat \ {0} /\ fq[t] \in Nat \ {0}
<1>1. cp[t] \in Cpu /\ cp[t] = Affinity[t] /\ fq[t] \in Nat \ {0} /\ fq[t] = Cardinality(Places(ft, t))
  BY IrqAssumption, SeqsAre DEF FastOK
<1>2. Places(ft, t) # {}
  BY <1>1, FS_EmptySet
<1>3. PICK c \in Cpu, i \in 1 .. MAX_FAST : i <= Len(ft[c]) /\ ft[c][i] = t
  BY <1>2, InPlaces
<1>4. Len(ft[c]) \in Nat /\ i \in 1 .. Len(ft[c])
  BY <1>3, IrqAssumption, SeqsAre DEF FastOK
<1>5. cp[t] = c
  BY <1>3, <1>4 DEF FastOK
<1> QED
  BY <1>1, <1>4, <1>5

(* Where the threads are once t has come to the end of the queue of d. *)
LEMMA QueuePlaces ==
  ASSUME NEW ft, NEW ft2, NEW d \in Cpu, NEW t, Len(ft[d]) < MAX_FAST,
         \A c \in Cpu : Len(ft[c]) \in Nat, Queued(ft, ft2, d, t)
  PROVE  /\ Cardinality(Places(ft2, t)) = Cardinality(Places(ft, t)) + 1
         /\ \A u \in Thread : u # t => Places(ft2, u) = Places(ft, u)
<1> DEFINE n == Len(ft[d])
<1>1. n \in Nat /\ n + 1 \in 1 .. MAX_FAST
  BY IrqAssumption
<1>11. ASSUME NEW c \in Cpu, NEW i \in 1 .. Len(ft2[c])
       PROVE  (c = d /\ i = n + 1) \/ (i \in 1 .. Len(ft[c]) /\ ~ (c = d /\ i = n + 1))
  BY DEF Queued
<1>14. Places(ft2, t) = Places(ft, t) \cup {<<d, n + 1>>} /\ <<d, n + 1>> \notin Places(ft, t)
  <2>1. <<d, n + 1>> \in Places(ft2, t)
    <3>1. n + 1 <= Len(ft2[d]) /\ ft2[d][n + 1] = t
      BY DEF Queued
    <3> QED
      BY <1>1, <3>1, InPlaces
  <2>2. <<d, n + 1>> \notin Places(ft, t)
    <3> SUFFICES ASSUME <<d, n + 1>> \in Places(ft, t) PROVE FALSE
      OBVIOUS
    <3>1. n + 1 <= n
      BY InPlaces
    <3> QED
      BY <3>1
  <2>3. ASSUME NEW x \in Places(ft, t) PROVE x \in Places(ft2, t)
    <3>1. PICK c \in Cpu, i \in 1 .. MAX_FAST : x = <<c, i>> /\ i <= Len(ft[c]) /\ ft[c][i] = t
      BY InPlaces
    <3>2. i \in 1 .. Len(ft[c]) /\ i <= Len(ft2[c])
      BY <3>1, IrqAssumption DEF Queued
    <3>3. ft2[c][i] = t
      BY <3>1, <3>2 DEF Queued
    <3> QED
      BY <3>1, <3>2, <3>3, InPlaces
  <2>4. ASSUME NEW x \in Places(ft2, t) PROVE x \in Places(ft, t) \cup {<<d, n + 1>>}
    <3>1. PICK c \in Cpu, i \in 1 .. MAX_FAST : x = <<c, i>> /\ i <= Len(ft2[c]) /\ ft2[c][i] = t
      BY <2>4, InPlaces
    <3>2. i \in 1 .. Len(ft2[c])
      BY <3>1, IrqAssumption DEF Queued
    <3>3. CASE c = d /\ i = n + 1
      BY <3>1, <3>3
    <3>4. CASE i \in 1 .. Len(ft[c])
      <4>1. ft[c][i] = t /\ i <= Len(ft[c])
        BY <3>1, <3>4 DEF Queued
      <4> QED
        BY <3>1, <4>1, InPlaces
    <3> QED
      BY <1>11, <3>2, <3>3, <3>4
  <2> QED
    BY <2>1, <2>2, <2>3, <2>4
<1>15. ASSUME NEW u \in Thread, u # t PROVE Places(ft2, u) = Places(ft, u)
  <2>1. ASSUME NEW x \in Places(ft, u) PROVE x \in Places(ft2, u)
    <3>1. PICK c \in Cpu, i \in 1 .. MAX_FAST : x = <<c, i>> /\ i <= Len(ft[c]) /\ ft[c][i] = u
      BY InPlaces
    <3>2. i \in 1 .. Len(ft[c]) /\ i <= Len(ft2[c])
      BY <3>1, IrqAssumption DEF Queued
    <3>3. ft2[c][i] = u
      BY <3>1, <3>2 DEF Queued
    <3> QED
      BY <3>1, <3>2, <3>3, InPlaces
  <2>2. ASSUME NEW x \in Places(ft2, u) PROVE x \in Places(ft, u)
    <3>1. PICK c \in Cpu, i \in 1 .. MAX_FAST : x = <<c, i>> /\ i <= Len(ft2[c]) /\ ft2[c][i] = u
      BY <2>2, InPlaces
    <3>2. i \in 1 .. Len(ft2[c])
      BY <3>1, IrqAssumption DEF Queued
    <3>3. ~ (c = d /\ i = n + 1)
      BY <1>15, <3>1 DEF Queued
    <3>4. i \in 1 .. Len(ft[c])
      BY <1>11, <3>2, <3>3
    <3>5. ft[c][i] = u /\ i <= Len(ft[c])
      BY <3>1, <3>4 DEF Queued
    <3> QED
      BY <3>1, <3>5, InPlaces
  <2> QED
    BY <2>1, <2>2
<1>16. Cardinality(Places(ft2, t)) = Cardinality(Places(ft, t)) + 1
  BY <1>14, PlacesFinite, FS_AddElement
<1> QED
  BY <1>15, <1>16

(* fast_queue. *)
LEMMA QueueOK ==
  ASSUME NEW cp, NEW fq, NEW ft, FastOK(cp, fq, ft), NEW t \in Thread, NEW d \in Cpu, Affinity[t] = d,
         Len(ft[d]) < MAX_FAST,
         NEW cp2 \in [Thread -> Cpu \cup {NONE}], Written(cp, cp2, t, d),
         NEW fq2 \in [Thread -> Nat], Written(fq, fq2, t, fq[t] + 1),
         NEW ft2, Seqs(ft2), Queued(ft, ft2, d, t)
  PROVE  FastOK(cp2, fq2, ft2)
<1>1. d # NONE
  BY IrqAssumption
<1>2. /\ cp \in [Thread -> Cpu \cup {NONE}] /\ fq \in [Thread -> Nat] /\ Seqs(ft)
      /\ \A c \in Cpu : Len(ft[c]) \in Nat /\ Len(ft[c]) <= MAX_FAST
  BY SeqsAre DEF FastOK
<1>3. /\ \A u \in Thread : cp2[u] = IF u = t THEN d ELSE cp[u]
      /\ \A u \in Thread : fq2[u] = IF u = t THEN fq[u] + 1 ELSE fq[u]
  BY DEF Written
<1> DEFINE n == Len(ft[d])
<1>4. n \in Nat /\ n + 1 \in 1 .. MAX_FAST
  BY <1>1, <1>2, IrqAssumption
<1>5. \A c \in Cpu : Len(ft2[c]) <= MAX_FAST
  <2> TAKE c \in Cpu
  <2>1. Len(ft2[c]) = IF c = d THEN Len(ft[c]) + 1 ELSE Len(ft[c])
    BY DEF Queued
  <2>2. Len(ft[d]) + 1 <= MAX_FAST
    BY <1>4
  <2> QED
    BY <1>2, <2>1, <2>2
<1>6. cp[t] \in {NONE, d}
  BY DEF FastOK
<1>7. ASSUME NEW c \in Cpu, NEW i \in 1 .. Len(ft2[c]) PROVE cp2[ft2[c][i]] = c
  <2>1. CASE c = d /\ i = n + 1
    BY <1>3, <2>1 DEF Queued
  <2>2. CASE i \in 1 .. Len(ft[c])
    <3>1. ft2[c][i] = ft[c][i] /\ ft[c][i] \in Thread /\ cp[ft[c][i]] = c
      BY <1>2, <2>2, SeqsAre DEF FastOK, Queued
    <3> QED
      BY <1>1, <1>3, <1>6, <3>1, IrqAssumption
  <2>3. (c = d /\ i = n + 1) \/ i \in 1 .. Len(ft[c])
    BY <1>2 DEF Queued
  <2> QED
    BY <2>1, <2>2, <2>3
<1>9. \A c \in Cpu : Len(ft[c]) \in Nat
  BY <1>2
<1> HIDE DEF n
<1>10. /\ Cardinality(Places(ft2, t)) = Cardinality(Places(ft, t)) + 1
       /\ \A u \in Thread : u # t => Places(ft2, u) = Places(ft, u)
  BY <1>9, QueuePlaces
<1>11. ASSUME NEW u \in Thread
       PROVE  /\ fq2[u] = Cardinality(Places(ft2, u))
              /\ cp2[u] = NONE <=> fq2[u] = 0
              /\ cp2[u] \in {NONE, Affinity[u]}
  <2>1. /\ fq[u] = Cardinality(Places(ft, u)) /\ fq[u] \in Nat
        /\ cp[u] = NONE <=> fq[u] = 0
        /\ cp[u] \in {NONE, Affinity[u]}
    BY DEF FastOK
  <2>2. CASE u = t
    BY <1>1, <1>3, <1>10, <2>1, <2>2
  <2>3. CASE u # t
    BY <1>3, <1>10, <2>1, <2>3
  <2> QED
    BY <2>2, <2>3
<1> QED
  BY <1>5, <1>7, <1>11 DEF FastOK

(* Where the threads are once t, the oldest of the queue of d, has left. *)
LEMMA DequeuePlaces ==
  ASSUME NEW ft, NEW ft2, NEW d \in Cpu, NEW t, ft[d][1] = t,
         \A c \in Cpu : Len(ft[c]) \in Nat /\ Len(ft[c]) <= MAX_FAST, Len(ft[d]) # 0,
         Dequeued(ft, ft2, d)
  PROVE  \A u : Cardinality(Places(ft2, u)) =
                  IF u = t THEN Cardinality(Places(ft, u)) - 1 ELSE Cardinality(Places(ft, u))
<1> TAKE u
<1>1. <<d, 1>> \in Places(ft, t)
  BY IrqAssumption, InPlaces
<1>2. ASSUME u # t PROVE <<d, 1>> \notin Places(ft, u)
  <2> SUFFICES ASSUME <<d, 1>> \in Places(ft, u) PROVE FALSE
    OBVIOUS
  <2>1. ft[d][1] = u
    BY InPlaces
  <2> QED
    BY <1>2, <2>1
<1> DEFINE A == Places(ft2, u)
           B == Places(ft, u) \ {<<d, 1>>}
           up(x) == <<x[1], IF x[1] = d THEN x[2] + 1 ELSE x[2]>>
           f == [x \in A |-> up(x)]
<1>3. ASSUME NEW x \in A PROVE f[x] \in B
  <2>1. PICK c \in Cpu, i \in 1 .. MAX_FAST : x = <<c, i>> /\ i <= Len(ft2[c]) /\ ft2[c][i] = u
    BY <1>3, InPlaces
  <2> DEFINE j == IF c = d THEN i + 1 ELSE i
  <2>2. f[x] = <<c, j>>
    BY <1>3, <2>1
  <2>3. i \in 1 .. Len(ft2[c]) /\ j \in 1 .. MAX_FAST /\ j <= Len(ft[c]) /\ ~ (c = d /\ j = 1)
    BY <2>1, IrqAssumption DEF Dequeued
  <2>4. ft[c][j] = u
    BY <2>1, <2>3 DEF Dequeued
  <2> HIDE DEF j
  <2>5. <<c, j>> \in Places(ft, u)
    BY <2>3, <2>4, InPlaces
  <2> QED
    BY <2>2, <2>3, <2>5
<1>4. ASSUME NEW x \in A, NEW y \in A, f[x] = f[y] PROVE x = y
  <2>1. PICK c \in Cpu, i \in 1 .. MAX_FAST : x = <<c, i>>
    BY <1>4, InPlaces
  <2>2. PICK e \in Cpu, k \in 1 .. MAX_FAST : y = <<e, k>>
    BY <1>4, InPlaces
  <2>3. f[x] = <<c, IF c = d THEN i + 1 ELSE i>> /\ f[y] = <<e, IF e = d THEN k + 1 ELSE k>>
    BY <1>4, <2>1, <2>2
  <2>4. c = e /\ (IF c = d THEN i + 1 ELSE i) = (IF e = d THEN k + 1 ELSE k)
    BY <1>4, <2>3
  <2> QED
    BY <2>1, <2>2, <2>4, IrqAssumption
<1>5. ASSUME NEW y \in B PROVE \E x \in A : f[x] = y
  <2>1. PICK c \in Cpu, j \in 1 .. MAX_FAST : y = <<c, j>> /\ j <= Len(ft[c]) /\ ft[c][j] = u
    BY <1>5, InPlaces
  <2>2. ~ (c = d /\ j = 1)
    BY <1>5, <2>1
  <2> DEFINE i == IF c = d THEN j - 1 ELSE j
  <2>3. i \in 1 .. MAX_FAST /\ i <= Len(ft2[c]) /\ i \in 1 .. Len(ft2[c]) /\ j = IF c = d THEN i + 1 ELSE i
    BY <2>1, <2>2, IrqAssumption DEF Dequeued
  <2>4. ft2[c][i] = u
    BY <2>1, <2>3 DEF Dequeued
  <2> HIDE DEF i
  <2>5. <<c, i>> \in A
    BY <2>3, <2>4, InPlaces
  <2>6. f[<<c, i>>] = y
    BY <2>1, <2>3, <2>5
  <2> QED
    BY <2>5, <2>6
<1>6. f \in Bijection(A, B)
  <2> HIDE DEF A, B
  <2>1. f \in [A -> B]
    BY <1>3
  <2> HIDE DEF f
  <2> QED
    BY <1>4, <1>5, <2>1 DEF Bijection, Injection, Surjection, IsInjective
<1>7. IsFiniteSet(A) /\ IsFiniteSet(B)
  BY PlacesFinite, FS_Subset
<1>8. Cardinality(A) = Cardinality(B)
  <2> HIDE DEF A, B, f
  <2>1. ExistsBijection(A, B)
    BY <1>6 DEF ExistsBijection
  <2> QED
    BY <1>7, <2>1, FS_Bijection
<1>9. CASE u = t
  BY <1>1, <1>8, <1>9, PlacesFinite, FS_RemoveElement
<1>10. CASE u # t
  <2>1. B = Places(ft, u)
    BY <1>2, <1>10
  <2> QED
    BY <1>8, <1>10, <2>1
<1> QED
  BY <1>9, <1>10

(* fast_dequeue, by the thread at the head. *)
LEMMA DequeueOK ==
  ASSUME NEW cp, NEW fq, NEW ft, FastOK(cp, fq, ft), NEW t \in Thread, NEW d \in Cpu, cp[t] = d,
         ft[d][1] = t,
         NEW cp2 \in [Thread -> Cpu \cup {NONE}], Written(cp, cp2, t, IF fq[t] = 1 THEN NONE ELSE d),
         NEW fq2 \in [Thread -> Nat], Written(fq, fq2, t, fq[t] - 1),
         NEW ft2, Seqs(ft2), Dequeued(ft, ft2, d)
  PROVE  FastOK(cp2, fq2, ft2)
<1>1. d # NONE
  BY IrqAssumption
<1>2. /\ cp \in [Thread -> Cpu \cup {NONE}] /\ fq \in [Thread -> Nat] /\ Seqs(ft)
      /\ \A c \in Cpu : Len(ft[c]) \in Nat /\ Len(ft[c]) <= MAX_FAST
  BY SeqsAre DEF FastOK
<1>3. /\ \A u \in Thread : cp2[u] = IF u = t THEN (IF fq[t] = 1 THEN NONE ELSE d) ELSE cp[u]
      /\ \A u \in Thread : fq2[u] = IF u = t THEN fq[u] - 1 ELSE fq[u]
  BY DEF Written
<1>4. d = Affinity[t] /\ Len(ft[d]) # 0 /\ fq[t] # 0
  BY <1>1, OnQueue
<1>5. \A c \in Cpu : Len(ft2[c]) <= MAX_FAST
  <2> TAKE c \in Cpu
  <2>1. Len(ft2[c]) = IF c = d THEN Len(ft[c]) - 1 ELSE Len(ft[c])
    BY DEF Dequeued
  <2> QED
    BY <1>2, <2>1, IrqAssumption
<1>6. \A c \in Cpu : Len(ft[c]) \in Nat /\ Len(ft[c]) <= MAX_FAST
  BY <1>2
<1>7. \A u : Cardinality(Places(ft2, u)) =
               IF u = t THEN Cardinality(Places(ft, u)) - 1 ELSE Cardinality(Places(ft, u))
  BY <1>4, <1>6, DequeuePlaces
<1>9. ASSUME NEW u \in Thread
      PROVE  /\ fq2[u] = Cardinality(Places(ft2, u))
             /\ cp2[u] = NONE <=> fq2[u] = 0
             /\ cp2[u] \in {NONE, Affinity[u]}
  <2>1. /\ fq[u] = Cardinality(Places(ft, u)) /\ fq[u] \in Nat
        /\ cp[u] = NONE <=> fq[u] = 0
        /\ cp[u] \in {NONE, Affinity[u]}
    BY DEF FastOK
  <2>2. CASE u = t
    BY <1>1, <1>3, <1>4, <1>7, <2>1, <2>2
  <2>3. CASE u # t
    BY <1>3, <1>7, <2>1, <2>3
  <2> QED
    BY <2>2, <2>3
<1>10. ASSUME NEW c \in Cpu, NEW i \in 1 .. Len(ft2[c]) PROVE cp2[ft2[c][i]] = c
  <2> DEFINE j == IF c = d THEN i + 1 ELSE i
             u == ft[c][j]
  <2>1. j \in 1 .. Len(ft[c]) /\ ft2[c][i] = u
    <3>1. Len(ft2[c]) = IF c = d THEN Len(ft[c]) - 1 ELSE Len(ft[c])
      BY DEF Dequeued
    <3>2. ft2[c][i] = u
      BY DEF Dequeued
    <3>3. j \in 1 .. Len(ft[c])
      BY <1>6, <3>1
    <3> QED
      BY <3>2, <3>3
  <2>2. u \in Thread /\ cp[u] = c
    BY <2>1, SeqsAre DEF FastOK
  <2>3. CASE u = t /\ fq[t] = 1
    <3>1. Len(ft2[c]) \in Nat /\ i <= Len(ft2[c]) /\ i \in Nat \ {0} /\ Len(ft2[c]) <= MAX_FAST
      BY <1>5, SeqsAre
    <3>2. i \in 1 .. MAX_FAST
      BY <3>1, IrqAssumption
    <3>3. ft2[c][i] = t
      BY <2>1, <2>3
    <3> HIDE DEF j, u
    <3>4. <<c, i>> \in Places(ft2, t)
      BY <3>1, <3>2, <3>3, InPlaces
    <3>5. Cardinality(Places(ft2, t)) = 0
      BY <1>7, <2>3 DEF FastOK
    <3> QED
      BY <3>4, <3>5, PlacesFinite, FS_EmptySet
  <2> QED
    BY <1>3, <2>1, <2>2, <2>3
<1> QED
  BY <1>5, <1>9, <1>10 DEF FastOK

(* fast_queue and fast_dequeue, as steps between two values of the queues. *)
QueueStep(cp, fq, ft, cp2, fq2, ft2, t) ==
  /\ cp2 = [cp EXCEPT ![t] = Affinity[t]]
  /\ fq2 = [fq EXCEPT ![t] = @ + 1]
  /\ ft2 = [ft EXCEPT ![Affinity[t]] = Append(@, t)]

DequeueStep(cp, fq, ft, cp2, fq2, ft2, t) ==
  /\ cp2 = [cp EXCEPT ![t] = IF fq[t] = 1 THEN NONE ELSE @]
  /\ fq2 = [fq EXCEPT ![t] = @ - 1]
  /\ ft2 = [ft EXCEPT ![cp[t]] = Tail(@)]

(* The asserts of fast_dequeue hold for t. *)
Leads(cp, ft, t) == cp[t] # NONE /\ ft[cp[t]][1] = t

LEMMA LeadsIs ==
  ASSUME NEW cp, NEW fq, NEW ft, FastOK(cp, fq, ft), NEW t \in Thread
  PROVE  Leads(cp, ft, t) <=> cp[t] # NONE /\ Head(ft[cp[t]]) = t
<1>1. SUFFICES ASSUME cp[t] # NONE PROVE Head(ft[cp[t]]) = ft[cp[t]][1]
  BY DEF Leads
<1>2. cp[t] \in Cpu /\ Len(ft[cp[t]]) # 0
  BY <1>1, OnQueue
<1>3. ft[cp[t]] \in Seq(Thread)
  BY <1>2 DEF FastOK, Seqs
<1> QED
  BY <1>2, <1>3

LEMMA QueueFacts ==
  ASSUME NEW cp, NEW fq, NEW ft, FastOK(cp, fq, ft), NEW t \in Thread,
         NEW cp2, NEW fq2, NEW ft2, QueueStep(cp, fq, ft, cp2, fq2, ft2, t)
  PROVE  /\ Affinity[t] \in Cpu
         /\ cp2 \in [Thread -> Cpu \cup {NONE}] /\ Written(cp, cp2, t, Affinity[t])
         /\ fq2 \in [Thread -> Nat] /\ Written(fq, fq2, t, fq[t] + 1)
         /\ Seqs(ft2) /\ Queued(ft, ft2, Affinity[t], t)
<1>1. Affinity[t] \in Cpu
  BY IrqAssumption
<1>2. cp \in [Thread -> Cpu \cup {NONE}] /\ fq \in [Thread -> Nat] /\ ft \in [Cpu -> Seq(Thread)]
  BY DEF FastOK, Seqs
<1>3. cp2 \in [Thread -> Cpu \cup {NONE}] /\ Written(cp, cp2, t, Affinity[t])
  BY <1>1, <1>2 DEF QueueStep, Written
<1>4. fq2 \in [Thread -> Nat] /\ Written(fq, fq2, t, fq[t] + 1)
  BY <1>2 DEF QueueStep, Written
<1>5. ft2 = [ft EXCEPT ![Affinity[t]] = Append(@, t)]
  BY DEF QueueStep
<1>6. Seqs(ft2) /\ Queued(ft, ft2, Affinity[t], t)
  BY <1>1, <1>2, <1>5, QueuedIs
<1> QED
  BY <1>1, <1>3, <1>4, <1>6

LEMMA DequeueFacts ==
  ASSUME NEW cp, NEW fq, NEW ft, FastOK(cp, fq, ft), NEW t \in Thread, Leads(cp, ft, t),
         NEW cp2, NEW fq2, NEW ft2, DequeueStep(cp, fq, ft, cp2, fq2, ft2, t)
  PROVE  /\ cp[t] \in Cpu /\ ft[cp[t]][1] = t
         /\ cp2 \in [Thread -> Cpu \cup {NONE}] /\ Written(cp, cp2, t, IF fq[t] = 1 THEN NONE ELSE cp[t])
         /\ fq2 \in [Thread -> Nat] /\ Written(fq, fq2, t, fq[t] - 1)
         /\ Seqs(ft2) /\ Dequeued(ft, ft2, cp[t])
<1>1. cp[t] \in Cpu /\ Len(ft[cp[t]]) # 0 /\ fq[t] \in Nat \ {0} /\ ft[cp[t]][1] = t
  BY OnQueue DEF Leads
<1>2. cp \in [Thread -> Cpu \cup {NONE}] /\ fq \in [Thread -> Nat] /\ ft \in [Cpu -> Seq(Thread)]
  BY DEF FastOK, Seqs
<1>3. cp2 \in [Thread -> Cpu \cup {NONE}] /\ Written(cp, cp2, t, IF fq[t] = 1 THEN NONE ELSE cp[t])
  BY <1>1, <1>2 DEF DequeueStep, Written
<1>4. fq2 \in [Thread -> Nat] /\ Written(fq, fq2, t, fq[t] - 1)
  BY <1>1, <1>2 DEF DequeueStep, Written
<1>5. ft2 = [ft EXCEPT ![cp[t]] = Tail(@)]
  BY DEF DequeueStep
<1>6. ft[cp[t]] # <<>>
  BY <1>1, <1>2
<1>7. Seqs(ft2) /\ Dequeued(ft, ft2, cp[t])
  BY <1>1, <1>2, <1>5, <1>6, DequeuedIs
<1> QED
  BY <1>1, <1>3, <1>4, <1>7

(* A line some queued thread serves. *)
Serves(ft, ir, l) == \E c \in Cpu : \E i \in 1 .. Len(ft[c]) : ir[ft[c][i]] = l

(* fast_queue keeps the queues and the counters together. *)
LEMMA QueueSound ==
  ASSUME NEW cp, NEW fq, NEW ft, FastOK(cp, fq, ft), NEW t \in Thread, Len(ft[Affinity[t]]) < MAX_FAST,
         NEW cp2, NEW fq2, NEW ft2, QueueStep(cp, fq, ft, cp2, fq2, ft2, t)
  PROVE  /\ FastOK(cp2, fq2, ft2)
         /\ Affinity[t] \in Cpu /\ Queued(ft, ft2, Affinity[t], t)
<1> DEFINE d == Affinity[t]
<1>1. /\ d \in Cpu
      /\ cp2 \in [Thread -> Cpu \cup {NONE}] /\ Written(cp, cp2, t, d)
      /\ fq2 \in [Thread -> Nat] /\ Written(fq, fq2, t, fq[t] + 1)
      /\ Seqs(ft2) /\ Queued(ft, ft2, d, t)
  BY QueueFacts
<1>2. Len(ft[d]) < MAX_FAST /\ Affinity[t] = d
  OBVIOUS
<1> HIDE DEF d
<1>3. FastOK(cp2, fq2, ft2)
  BY <1>1, <1>2, QueueOK
<1> QED
  BY <1>1, <1>2, <1>3

LEMMA QueueServes ==
  ASSUME NEW ft, NEW ft2, NEW d \in Cpu, NEW t, Queued(ft, ft2, d, t), \A c \in Cpu : Len(ft[c]) \in Nat, NEW ir
  PROVE  /\ \A l : Serves(ft, ir, l) => Serves(ft2, ir, l)
         /\ Serves(ft2, ir, ir[t])
<1>1. ASSUME NEW l, Serves(ft, ir, l) PROVE Serves(ft2, ir, l)
  <2>1. PICK c \in Cpu : \E i \in 1 .. Len(ft[c]) : ir[ft[c][i]] = l
    BY <1>1 DEF Serves
  <2>2. PICK i \in 1 .. Len(ft[c]) : ir[ft[c][i]] = l
    BY <2>1
  <2>3. i \in 1 .. Len(ft2[c]) /\ ft2[c][i] = ft[c][i]
    BY DEF Queued
  <2> QED
    BY <2>2, <2>3 DEF Serves
<1>2. Serves(ft2, ir, ir[t])
  <2>1. Len(ft[d]) + 1 \in 1 .. Len(ft2[d]) /\ ft2[d][Len(ft[d]) + 1] = t
    BY DEF Queued
  <2> QED
    BY <2>1 DEF Serves
<1> QED
  BY <1>1, <1>2

(* fast_dequeue does, too. *)
LEMMA DequeueSound ==
  ASSUME NEW cp, NEW fq, NEW ft, FastOK(cp, fq, ft), NEW t \in Thread, Leads(cp, ft, t),
         NEW cp2, NEW fq2, NEW ft2, DequeueStep(cp, fq, ft, cp2, fq2, ft2, t)
  PROVE  /\ FastOK(cp2, fq2, ft2)
         /\ cp[t] \in Cpu /\ Dequeued(ft, ft2, cp[t])
<1> DEFINE d == cp[t]
<1>1. /\ d \in Cpu /\ ft[d][1] = t
      /\ cp2 \in [Thread -> Cpu \cup {NONE}] /\ Written(cp, cp2, t, IF fq[t] = 1 THEN NONE ELSE d)
      /\ fq2 \in [Thread -> Nat] /\ Written(fq, fq2, t, fq[t] - 1)
      /\ Seqs(ft2) /\ Dequeued(ft, ft2, d)
  BY DequeueFacts
<1>2. cp[t] = d
  OBVIOUS
<1> HIDE DEF d
<1>3. FastOK(cp2, fq2, ft2)
  BY <1>1, <1>2, DequeueOK
<1> QED
  BY <1>1, <1>2, <1>3

LEMMA DequeueServes ==
  ASSUME NEW ft, NEW ft2, NEW d \in Cpu, Dequeued(ft, ft2, d), \A c \in Cpu : Len(ft[c]) \in Nat, NEW ir,
         NEW c \in Cpu, NEW i \in 1 .. Len(ft[c]), ~ (c = d /\ i = 1)
  PROVE  Serves(ft2, ir, ir[ft[c][i]])
<1> DEFINE k == IF c = d THEN i - 1 ELSE i
<1>1. Len(ft2[c]) = IF c = d THEN Len(ft[c]) - 1 ELSE Len(ft[c])
  BY DEF Dequeued
<1>2. k \in 1 .. Len(ft2[c]) /\ i = IF c = d THEN k + 1 ELSE k
  BY <1>1
<1> HIDE DEF k
<1>3. ft2[c][k] = ft[c][i]
  BY <1>2 DEF Dequeued
<1> QED
  BY <1>2, <1>3 DEF Serves

-----------------------------------------------------------------------------
(* Sequences of handlers. *)
LEMMA Part ==
  ASSUME NEW s \in Seq(Thread), NEW m \in 1 .. Len(s) + 1, NEW n \in m - 1 .. Len(s), NEW r, r = SubSeq(s, m, n)
  PROVE  /\ r \in Seq(Thread) /\ Len(r) = n - m + 1
         /\ \A i \in 1 .. n - m + 1 : r[i] = s[m + i - 1]
<1>1. m \in Int /\ n \in Int /\ \A i \in m .. n : s[i] \in Thread
  OBVIOUS
<1>2. /\ SubSeq(s, m, n) \in Seq(Thread)
      /\ Len(SubSeq(s, m, n)) = IF m <= n THEN n - m + 1 ELSE 0
      /\ \A i \in 1 .. n - m + 1 : SubSeq(s, m, n)[i] = s[m + i - 1]
  BY <1>1, SubSeqProperties
<1>3. (IF m <= n THEN n - m + 1 ELSE 0) = n - m + 1
  OBVIOUS
<1> QED
  BY <1>2, <1>3, Zenon

LEMMA RemoveOne ==
  ASSUME NEW s \in Seq(Thread), NEW k \in 1 .. Len(s), NEW r, r = RemoveAt(s, k)
  PROVE  /\ r \in Seq(Thread) /\ Len(r) = Len(s) - 1
         /\ \A i \in 1 .. Len(r) : r[i] = IF i < k THEN s[i] ELSE s[i + 1]
<1> DEFINE a == SubSeq(s, 1, k - 1)
           b == SubSeq(s, k + 1, Len(s))
<1>0. Len(s) \in Nat /\ k \in Nat /\ k <= Len(s) /\ k >= 1
  OBVIOUS
<1>1. r = a \o b
  BY DEF RemoveAt
<1>2. a \in Seq(Thread) /\ Len(a) = (k - 1) - 1 + 1 /\ \A i \in 1 .. (k - 1) - 1 + 1 : a[i] = s[1 + i - 1]
  <2>1. 1 \in 1 .. Len(s) + 1 /\ k - 1 \in 1 - 1 .. Len(s)
    BY <1>0
  <2> QED
    BY <2>1, Part
<1>3. b \in Seq(Thread) /\ Len(b) = Len(s) - (k + 1) + 1 /\ \A i \in 1 .. Len(s) - (k + 1) + 1 : b[i] = s[(k + 1) + i - 1]
  <2>1. k + 1 \in 1 .. Len(s) + 1 /\ Len(s) \in (k + 1) - 1 .. Len(s)
    BY <1>0
  <2> QED
    BY <2>1, Part
<1> HIDE DEF a, b
<1>4. /\ r \in Seq(Thread) /\ Len(r) = Len(a) + Len(b)
      /\ \A i \in 1 .. Len(a) : r[i] = a[i]
      /\ \A i \in 1 .. Len(b) : r[Len(a) + i] = b[i]
  <2>1. a \in Seq(Thread) /\ b \in Seq(Thread)
    BY <1>2, <1>3
  <2>2. a \o b \in Seq(Thread) /\ Len(a \o b) = Len(a) + Len(b)
    BY <2>1
  <2>3. \A i \in 1 .. Len(a) : (a \o b)[i] = a[i]
    BY <2>1
  <2>4. \A i \in 1 .. Len(b) : (a \o b)[Len(a) + i] = b[i]
    BY <2>1
  <2> QED
    BY <1>1, <2>2, <2>3, <2>4, Zenon
<1>5. Len(r) = Len(s) - 1 /\ Len(a) = k - 1
  BY <1>0, <1>2, <1>3, <1>4
<1>6. ASSUME NEW i \in 1 .. Len(r) PROVE r[i] = IF i < k THEN s[i] ELSE s[i + 1]
  <2>1. CASE i < k
    <3>1. i \in 1 .. Len(a) /\ i \in 1 .. (k - 1) - 1 + 1 /\ 1 + i - 1 = i
      BY <1>0, <1>5, <2>1
    <3>2. r[i] = a[i] /\ a[i] = s[1 + i - 1]
      BY <1>2, <1>4, <3>1, Zenon
    <3> QED
      BY <2>1, <3>1, <3>2
  <2>2. CASE ~ (i < k)
    <3> DEFINE j == i - (k - 1)
    <3>1. j \in 1 .. Len(b) /\ j \in 1 .. Len(s) - (k + 1) + 1 /\ Len(a) + j = i /\ (k + 1) + j - 1 = i + 1
      BY <1>0, <1>3, <1>5, <2>2
    <3> HIDE DEF j
    <3>2. r[Len(a) + j] = b[j] /\ b[j] = s[(k + 1) + j - 1]
      BY <1>3, <1>4, <3>1, Zenon
    <3> QED
      BY <2>2, <3>1, <3>2
  <2> QED
    BY <2>1, <2>2
<1> QED
  BY <1>4, <1>5, <1>6

LEMMA AppendOne ==
  ASSUME NEW s \in Seq(Thread), NEW t \in Thread, NEW r, r = Append(s, t)
  PROVE  /\ r \in Seq(Thread) /\ Len(r) = Len(s) + 1 /\ r[Len(s) + 1] = t
         /\ \A i \in 1 .. Len(s) : r[i] = s[i]
OBVIOUS

(* One handler of a line leaves: the others move, each from a place of its *)
(* own that was not that of the one that left.                             *)
Left(s, k, r) ==
  /\ r \in Seq(Thread) /\ Len(r) = Len(s) - 1
  /\ \A i \in 1 .. Len(r) : \E m \in 1 .. Len(s) : m # k /\ r[i] = s[m]
  /\ \A i, j \in 1 .. Len(r) : i # j =>
       \E m, n \in 1 .. Len(s) : m # n /\ r[i] = s[m] /\ r[j] = s[n]

LEMMA Leave ==
  ASSUME NEW s \in Seq(Thread), NEW k \in 1 .. Len(s), NEW r, r = RemoveAt(s, k)
  PROVE  Left(s, k, r)
<1>1. /\ r \in Seq(Thread) /\ Len(r) = Len(s) - 1 /\ Len(s) \in Nat
      /\ \A i \in 1 .. Len(r) : r[i] = IF i < k THEN s[i] ELSE s[i + 1]
  BY RemoveOne
<1> DEFINE at(i) == IF i < k THEN i ELSE i + 1
<1>2. ASSUME NEW i \in 1 .. Len(r) PROVE at(i) \in 1 .. Len(s) /\ at(i) # k
  BY <1>1
<1>3. ASSUME NEW i \in 1 .. Len(r) PROVE r[i] = s[at(i)]
  BY <1>1
<1>4. ASSUME NEW i \in 1 .. Len(r), NEW j \in 1 .. Len(r), i # j PROVE at(i) # at(j)
  BY <1>1, <1>4
<1> HIDE DEF at
<1>5. \A i \in 1 .. Len(r) : \E m \in 1 .. Len(s) : m # k /\ r[i] = s[m]
  BY <1>2, <1>3
<1>6. ASSUME NEW i \in 1 .. Len(r), NEW j \in 1 .. Len(r), i # j
      PROVE  \E m, n \in 1 .. Len(s) : m # n /\ r[i] = s[m] /\ r[j] = s[n]
  <2>1. at(i) \in 1 .. Len(s) /\ at(j) \in 1 .. Len(s) /\ at(i) # at(j)
    BY <1>2, <1>4, <1>6
  <2>2. r[i] = s[at(i)] /\ r[j] = s[at(j)]
    BY <1>3
  <2> QED
    BY <2>1, <2>2
<1> QED
  BY <1>1, <1>5, <1>6 DEF Left

-----------------------------------------------------------------------------
(***************************************************************************)
(* The inductive invariant.                                                *)
(***************************************************************************)
Types ==
  /\ stubs \in [Line -> Seq(Thread)] /\ index \in [Line -> Nat] /\ last \in [Line -> Nat]
  /\ unmasked \subseteq Line /\ open \subseteq Line
  /\ state \in [Thread -> {"SUSPENDED", "RUNNING", "IRQ"}]
  /\ irq \in [Thread -> Line \cup {NONE}]
  /\ position \in [Thread -> Nat] /\ stopped \in BOOLEAN

(* Only a thread in state THREAD_IRQ serves a line. *)
Idle == \A t \in Thread : state[t] # "IRQ" => irq[t] = NONE

(* What a thread inside irq_complete found still holds. *)
Completing ==
  \A t \in Thread : position[t] # 0 =>
    irq[t] \in Line /\ position[t] \in 1 .. count(irq[t]) /\ stubs[irq[t]][position[t]] = t

(* The assert of fast_queue has not failed: each ring has a free slot. *)
Room == ~ stopped => \A c \in Cpu : Len(fast[c]) < MAX_FAST

Going == ~ stopped => \A l \in open : Serves(fast, irq, l)

IInv ==
  /\ Types /\ Idle /\ Hooked /\ Completing
  /\ FastOK(cpu, fast_queued, fast) /\ Room /\ Going

LEMMA InitIInv == Init => IInv
<1> SUFFICES ASSUME Init PROVE IInv
  OBVIOUS
<1>1. Types
  <2>1. stubs \in [Line -> Seq(Thread)] /\ index \in [Line -> Nat] /\ last \in [Line -> Nat]
    BY DEF Init
  <2>2. state \in [Thread -> {"SUSPENDED", "RUNNING", "IRQ"}]
    BY DEF Init
  <2>3. irq \in [Thread -> Line \cup {NONE}] /\ position \in [Thread -> Nat]
    BY DEF Init
  <2>4. unmasked \subseteq Line /\ open \subseteq Line /\ stopped \in BOOLEAN
    BY DEF Init
  <2> QED
    BY <2>1, <2>2, <2>3, <2>4 DEF Types
<1>5. Idle /\ Completing /\ Going
  BY DEF Init, Idle, Completing, Going
<1>2. Hooked
  BY DEF Init, Hooked, count
<1>3. Room
  BY IrqAssumption DEF Init, Room
<1>4. FastOK(cpu, fast_queued, fast)
  <2>1. \A c \in Cpu : fast[c] = <<>> /\ Len(fast[c]) = 0
    BY DEF Init
  <2>2. ASSUME NEW t \in Thread PROVE Places(fast, t) = {}
    <3> SUFFICES ASSUME NEW x \in Places(fast, t) PROVE FALSE
      OBVIOUS
    <3>1. \E c \in Cpu, i \in 1 .. MAX_FAST : x = <<c, i>> /\ i <= Len(fast[c])
      BY InPlaces
    <3> QED
      BY <2>1, <3>1, IrqAssumption
  <2>3. ASSUME NEW t \in Thread PROVE Cardinality(Places(fast, t)) = 0
    BY <2>2, FS_EmptySet
  <2>4. cpu \in [Thread -> Cpu \cup {NONE}] /\ fast_queued \in [Thread -> Nat] /\ Seqs(fast)
    BY DEF Init, Seqs
  <2>5. \A t \in Thread : cpu[t] = NONE /\ fast_queued[t] = 0
    BY DEF Init
  <2>6. \A c \in Cpu : Len(fast[c]) <= MAX_FAST /\ \A i \in 1 .. Len(fast[c]) : cpu[fast[c][i]] = c
    BY <2>1, IrqAssumption
  <2> QED
    BY <2>3, <2>4, <2>5, <2>6 DEF FastOK
<1> QED
  BY <1>1, <1>2, <1>3, <1>4, <1>5 DEF IInv

-----------------------------------------------------------------------------
(* Hooked and Completing, of two values of the stubs. *)
LEMMA HookedIs ==
  Hooked <=> \A m \in Line :
    /\ m \in unmasked <=> Len(stubs[m]) > 0
    /\ \A i \in 1 .. Len(stubs[m]) : Process[stubs[m][i]] \notin astray =>
         /\ irq[stubs[m][i]] = m /\ state[stubs[m][i]] = "IRQ"
         /\ \A j \in 1 .. Len(stubs[m]) : stubs[m][j] = stubs[m][i] => j = i
BY DEF Hooked, count

LEMMA CompletingIs ==
  Completing <=> \A u \in Thread : position[u] # 0 =>
    irq[u] \in Line /\ position[u] \in 1 .. Len(stubs[irq[u]]) /\ stubs[irq[u]][position[u]] = u
BY DEF Completing, count

(* The fast queues do not change, nor what a queued thread serves as long  *)
(* as a line is open.                                                      *)
LEMMA GoingStays ==
  ASSUME IInv, UNCHANGED <<fast, stopped>>,
         \A m \in open' : m \in open /\ \A x \in Thread : cpu[x] # NONE /\ irq[x] = m => irq'[x] = m
  PROVE  Going'
<1> SUFFICES ASSUME ~ stopped, NEW m \in open' PROVE Serves(fast, irq', m)
  BY DEF Going, Serves
<1>1. Serves(fast, irq, m)
  BY DEF IInv, Going
<1>2. PICK c \in Cpu : \E i \in 1 .. Len(fast[c]) : irq[fast[c][i]] = m
  BY <1>1 DEF Serves
<1>3. PICK i \in 1 .. Len(fast[c]) : irq[fast[c][i]] = m
  BY <1>2
<1>4. fast[c][i] \in Thread /\ cpu[fast[c][i]] # NONE
  BY SeqsAre, IrqAssumption DEF IInv, FastOK
<1>5. irq'[fast[c][i]] = m
  BY <1>3, <1>4
<1> QED
  BY <1>5 DEF Serves

-----------------------------------------------------------------------------
(* request_irq: a thread that is suspended serves no line, and is the      *)
(* handler of none unless its process is astray.                           *)
LEMMA RequestInv ==
  ASSUME IInv, NEW t \in Thread, NEW l \in Line, request_irq(t, l)
  PROVE  IInv'
<1>1. /\ state[t] = "SUSPENDED" /\ stubs' = [stubs EXCEPT ![l] = Append(@, t)]
      /\ irq' = [irq EXCEPT ![t] = l] /\ state' = [state EXCEPT ![t] = "IRQ"]
      /\ unmasked' = IF count(l) = 0 THEN unmasked \cup {l} ELSE unmasked
      /\ UNCHANGED <<index, last, position, astray, open, stopped, cpu, fast_queued, fast>>
  BY DEF request_irq, fastVars
<1>2. /\ stubs \in [Line -> Seq(Thread)] /\ irq \in [Thread -> Line \cup {NONE}]
      /\ state \in [Thread -> {"SUSPENDED", "RUNNING", "IRQ"}]
  BY DEF IInv, Types
<1>3. irq[t] = NONE /\ position[t] = 0
  BY <1>1, IrqAssumption DEF IInv, Idle, Completing
<1> DEFINE r == Append(stubs[l], t)
           n == Len(stubs[l])
<1>4. n \in Nat /\ stubs[l] \in Seq(Thread)
  BY <1>2
<1>5. /\ r \in Seq(Thread) /\ Len(r) = n + 1 /\ r[n + 1] = t
      /\ \A i \in 1 .. n : r[i] = stubs[l][i]
  BY <1>4, AppendOne
<1>6. stubs' = [stubs EXCEPT ![l] = r]
  BY <1>1
<1> HIDE DEF r
<1>7. stubs' \in [Line -> Seq(Thread)] /\ stubs'[l] = r /\ \A m \in Line : m # l => stubs'[m] = stubs[m]
  BY <1>2, <1>5, <1>6
<1>8. /\ irq' \in [Thread -> Line \cup {NONE}] /\ state' \in [Thread -> {"SUSPENDED", "RUNNING", "IRQ"}]
      /\ \A u \in Thread : irq'[u] = IF u = t THEN l ELSE irq[u]
      /\ \A u \in Thread : state'[u] = IF u = t THEN "IRQ" ELSE state[u]
  BY <1>1, <1>2
<1>9. /\ l \in unmasked' /\ \A m \in Line : m # l => (m \in unmasked' <=> m \in unmasked)
      /\ \A m \in Line : m \in unmasked <=> Len(stubs[m]) > 0
  <2>1. \A m \in Line : m \in unmasked <=> Len(stubs[m]) > 0
    BY HookedIs DEF IInv
  <2> QED
    BY <1>1, <1>4, <2>1 DEF count
<1> HIDE DEF n
<1>10. Types'
  BY <1>1, <1>7, <1>8 DEF IInv, Types
<1>11. Idle'
  BY <1>8 DEF IInv, Idle
<1>12. ASSUME NEW m \in Line, NEW i \in 1 .. Len(stubs[m]), Process[stubs[m][i]] \notin astray
       PROVE  /\ stubs[m][i] \in Thread /\ stubs[m][i] # t
              /\ irq'[stubs[m][i]] = m /\ state'[stubs[m][i]] = "IRQ"
              /\ \A j \in 1 .. Len(stubs[m]) : stubs[m][j] = stubs[m][i] => j = i
  <2>1. stubs[m][i] \in Thread
    BY <1>2
  <2>2. /\ irq[stubs[m][i]] = m /\ state[stubs[m][i]] = "IRQ"
        /\ \A j \in 1 .. Len(stubs[m]) : stubs[m][j] = stubs[m][i] => j = i
    BY <1>12, HookedIs DEF IInv
  <2> QED
    BY <1>1, <1>8, <2>1, <2>2
<1>13. ASSUME NEW i \in 1 .. Len(r), Process[r[i]] \notin astray
       PROVE  /\ irq'[r[i]] = l /\ state'[r[i]] = "IRQ"
              /\ \A j \in 1 .. Len(r) : r[j] = r[i] => j = i
  <2>1. \A j \in 1 .. Len(r) : j \in 1 .. n \/ j = n + 1
    BY <1>4, <1>5 DEF n
  <2>2. ASSUME NEW j \in 1 .. n, Process[r[j]] \notin astray
        PROVE  /\ r[j] # t /\ irq'[r[j]] = l /\ state'[r[j]] = "IRQ"
               /\ \A k \in 1 .. n : r[k] = r[j] => k = j
    BY <1>5, <1>12, <2>2 DEF n
  <2>3. CASE i = n + 1
    <3>1. r[i] = t
      BY <1>5, <2>3
    <3>2. ASSUME NEW j \in 1 .. n PROVE r[j] # t
      BY <1>13, <2>2, <3>1
    <3> QED
      BY <1>8, <2>1, <2>3, <3>1, <3>2
  <2>4. CASE i \in 1 .. n
    BY <1>5, <1>13, <2>1, <2>2, <2>4
  <2> QED
    BY <2>1, <2>3, <2>4
<1>14. Hooked'
  <2> SUFFICES ASSUME NEW m \in Line
               PROVE  /\ m \in unmasked' <=> Len(stubs'[m]) > 0
                      /\ \A i \in 1 .. Len(stubs'[m]) : Process[stubs'[m][i]] \notin astray =>
                           /\ irq'[stubs'[m][i]] = m /\ state'[stubs'[m][i]] = "IRQ"
                           /\ \A j \in 1 .. Len(stubs'[m]) : stubs'[m][j] = stubs'[m][i] => j = i
    BY <1>1 DEF Hooked, count
  <2>1. CASE m = l
    <3>1. Len(r) > 0
      BY <1>4, <1>5 DEF n
    <3> QED
      BY <1>7, <1>9, <1>13, <2>1, <3>1
  <2>2. CASE m # l
    <3>1. stubs'[m] = stubs[m] /\ (m \in unmasked' <=> Len(stubs[m]) > 0)
      BY <1>7, <1>9, <2>2
    <3> QED
      BY <1>12, <3>1
  <2> QED
    BY <2>1, <2>2
<1>15. Completing'
  <2> SUFFICES ASSUME NEW u \in Thread, position[u] # 0
               PROVE  /\ irq'[u] \in Line /\ position[u] \in 1 .. Len(stubs'[irq'[u]])
                      /\ stubs'[irq'[u]][position[u]] = u
    BY <1>1 DEF Completing, count
  <2>1. irq[u] \in Line /\ position[u] \in 1 .. Len(stubs[irq[u]]) /\ stubs[irq[u]][position[u]] = u
    BY CompletingIs DEF IInv
  <2>2. irq'[u] = irq[u]
    BY <1>3, <1>8
  <2>3. CASE irq[u] = l
    BY <1>4, <1>5, <1>7, <2>1, <2>2, <2>3 DEF n
  <2>4. CASE irq[u] # l
    BY <1>7, <2>1, <2>2, <2>4
  <2> QED
    BY <2>3, <2>4
<1>16. Going'
  <2>1. \A m \in open' : m \in open /\ m # NONE
    BY <1>1, IrqAssumption DEF IInv, Types
  <2>2. \A x \in Thread : irq[x] # NONE => irq'[x] = irq[x]
    BY <1>3, <1>8
  <2> QED
    BY <1>1, <2>1, <2>2, GoingStays
<1>17. FastOK(cpu', fast_queued', fast') /\ Room'
  BY <1>1 DEF IInv, Room
<1> QED
  BY <1>10, <1>11, <1>14, <1>15, <1>16, <1>17 DEF IInv

-----------------------------------------------------------------------------
(* release_irq: the stub that goes is one of the caller, unless it was the *)
(* only one.                                                               *)
LEMMA Leaving ==
  ASSUME IInv, NEW t \in Thread, NEW l \in Line, count(l) > 0, Found(t, l), NEW r, r = Without(t, l)
  PROVE  /\ r \in Seq(Thread) /\ (r = <<>> <=> Len(stubs[l]) = 1)
         /\ Len(r) # 0 => \E k \in 1 .. Len(stubs[l]) : stubs[l][k] = t /\ Left(stubs[l], k, r)
<1>1. stubs[l] \in Seq(Thread) /\ count(l) \in Nat \ {0} /\ count(l) = Len(stubs[l])
  BY DEF IInv, Types, count
<1>2. CASE count(l) = 1
  <2>1. r = <<>> /\ Len(r) = 0
    BY <1>2 DEF Without
  <2> QED
    BY <1>1, <1>2, <2>1
<1>3. CASE count(l) # 1
  <2> DEFINE k == CHOOSE i \in Stubs(t, l) : TRUE
  <2>1. k \in Stubs(t, l)
    BY <1>3 DEF Found
  <2>2. r = RemoveAt(stubs[l], k)
    BY <1>3 DEF Without
  <2> HIDE DEF k
  <2>3. k \in 1 .. Len(stubs[l]) /\ stubs[l][k] = t
    BY <1>1, <2>1 DEF Stubs
  <2>4. Left(stubs[l], k, r)
    BY <1>1, <2>2, <2>3, Leave
  <2>5. r \in Seq(Thread) /\ Len(r) # 0
    BY <1>1, <1>3, <2>4 DEF Left
  <2> QED
    BY <1>1, <1>3, <2>3, <2>4, <2>5
<1> QED
  BY <1>2, <1>3

LEMMA ReleaseInv ==
  ASSUME IInv, NEW t \in Thread, NEW l \in Line, release_irq(t, l)
  PROVE  IInv'
<1> DEFINE r == Without(t, l)
<1>1. /\ position[t] = 0 /\ Unlocked(l) /\ count(l) > 0 /\ Found(t, l)
      /\ stubs' = [stubs EXCEPT ![l] = r]
      /\ irq' = [irq EXCEPT ![t] = NONE] /\ state' = [state EXCEPT ![t] = "SUSPENDED"]
      /\ unmasked' = IF r = <<>> THEN unmasked \ {l} ELSE unmasked
      /\ index' = [index EXCEPT ![l] = IF @ >= Len(r) /\ @ > 0 THEN @ - 1 ELSE @]
      /\ last' = [last EXCEPT ![l] = IF @ >= Len(r) /\ @ > 0 THEN @ + 1 ELSE @]
      /\ astray' = IF irq[t] \in {l, NONE} THEN astray ELSE astray \cup {Process[t]}
      /\ open' = IF cpu[t] # NONE THEN open \ {irq[t]} ELSE open
      /\ UNCHANGED <<position, stopped, cpu, fast_queued, fast>>
  BY DEF release_irq, fastVars, MaskedIfLast, Calls
<1>2. /\ stubs \in [Line -> Seq(Thread)] /\ irq \in [Thread -> Line \cup {NONE}]
      /\ state \in [Thread -> {"SUSPENDED", "RUNNING", "IRQ"}]
      /\ index \in [Line -> Nat] /\ last \in [Line -> Nat]
  BY DEF IInv, Types
<1>4. /\ r \in Seq(Thread) /\ (r = <<>> <=> Len(stubs[l]) = 1)
      /\ Len(r) # 0 => \E k \in 1 .. Len(stubs[l]) : stubs[l][k] = t /\ Left(stubs[l], k, r)
  BY <1>1, Leaving
<1> HIDE DEF r
<1>5. stubs' \in [Line -> Seq(Thread)] /\ stubs'[l] = r /\ \A m \in Line : m # l => stubs'[m] = stubs[m]
  BY <1>1, <1>2, <1>4
<1>6. /\ irq' \in [Thread -> Line \cup {NONE}] /\ state' \in [Thread -> {"SUSPENDED", "RUNNING", "IRQ"}]
      /\ \A u \in Thread : irq'[u] = IF u = t THEN NONE ELSE irq[u]
      /\ \A u \in Thread : state'[u] = IF u = t THEN "SUSPENDED" ELSE state[u]
  BY <1>1, <1>2
<1>7. index' \in [Line -> Nat] /\ last' \in [Line -> Nat]
  <2>1. index[l] \in Nat /\ last[l] \in Nat
    BY <1>2
  <2> DEFINE a == IF index[l] >= Len(r) /\ index[l] > 0 THEN index[l] - 1 ELSE index[l]
             b == IF last[l] >= Len(r) /\ last[l] > 0 THEN last[l] + 1 ELSE last[l]
  <2>2. a \in Nat /\ b \in Nat
    BY <2>1
  <2>3. index' = [index EXCEPT ![l] = a] /\ last' = [last EXCEPT ![l] = b]
    BY <1>1
  <2> HIDE DEF a, b
  <2> QED
    BY <1>2, <2>2, <2>3
<1>8. Types'
  <2>1. unmasked' \subseteq Line /\ open' \subseteq Line
    BY <1>1 DEF IInv, Types
  <2> QED
    BY <1>1, <1>5, <1>6, <1>7, <2>1 DEF IInv, Types
<1>9. Idle'
  BY <1>6 DEF IInv, Idle
<1>10. ASSUME NEW m \in Line, NEW i \in 1 .. Len(stubs[m]), Process[stubs[m][i]] \notin astray'
       PROVE  /\ stubs[m][i] \in Thread /\ irq[stubs[m][i]] = m /\ state[stubs[m][i]] = "IRQ"
              /\ \A j \in 1 .. Len(stubs[m]) : stubs[m][j] = stubs[m][i] => j = i
              /\ stubs[m][i] = t => m = l
              /\ stubs[m][i] # t => irq'[stubs[m][i]] = m /\ state'[stubs[m][i]] = "IRQ"
  <2>1. Process[stubs[m][i]] \notin astray /\ stubs[m][i] \in Thread
    BY <1>1, <1>2, <1>10
  <2>2. /\ irq[stubs[m][i]] = m /\ state[stubs[m][i]] = "IRQ"
        /\ \A j \in 1 .. Len(stubs[m]) : stubs[m][j] = stubs[m][i] => j = i
    BY <2>1, HookedIs DEF IInv
  <2>3. stubs[m][i] = t => m = l
    BY <1>1, <1>10, <2>2, IrqAssumption
  <2> QED
    BY <1>6, <2>1, <2>2, <2>3
<1>11. ASSUME NEW i \in 1 .. Len(r), Process[r[i]] \notin astray'
       PROVE  /\ irq'[r[i]] = l /\ state'[r[i]] = "IRQ"
              /\ \A j \in 1 .. Len(r) : r[j] = r[i] => j = i
  <2>1. Len(r) # 0
    OBVIOUS
  <2>2. PICK k \in 1 .. Len(stubs[l]) : stubs[l][k] = t /\ Left(stubs[l], k, r)
    BY <1>4, <2>1
  <2>3. PICK m \in 1 .. Len(stubs[l]) : m # k /\ r[i] = stubs[l][m]
    BY <2>2 DEF Left
  <2>4. \A j \in 1 .. Len(stubs[l]) : stubs[l][j] = stubs[l][m] => j = m
    BY <1>10, <1>11, <2>3
  <2>5. r[i] # t
    BY <2>2, <2>3, <2>4
  <2>6. ASSUME NEW j \in 1 .. Len(r), r[j] = r[i], j # i PROVE FALSE
    <3>1. PICK x, y \in 1 .. Len(stubs[l]) : x # y /\ r[j] = stubs[l][x] /\ r[i] = stubs[l][y]
      BY <2>2, <2>6 DEF Left
    <3> QED
      BY <2>3, <2>4, <2>6, <3>1
  <2> QED
    BY <1>10, <1>11, <2>3, <2>5, <2>6
<1>12. Hooked'
  <2> SUFFICES ASSUME NEW m \in Line
               PROVE  /\ m \in unmasked' <=> Len(stubs'[m]) > 0
                      /\ \A i \in 1 .. Len(stubs'[m]) : Process[stubs'[m][i]] \notin astray' =>
                           /\ irq'[stubs'[m][i]] = m /\ state'[stubs'[m][i]] = "IRQ"
                           /\ \A j \in 1 .. Len(stubs'[m]) : stubs'[m][j] = stubs'[m][i] => j = i
    BY DEF Hooked, count
  <2>1. m \in unmasked <=> Len(stubs[m]) > 0
    BY HookedIs DEF IInv
  <2>2. CASE m = l
    <3>1. l \in unmasked' <=> r # <<>>
      BY <1>1, <2>1, <2>2 DEF count
    <3>2. Len(r) > 0 <=> r # <<>>
      BY <1>4
    <3> QED
      BY <1>5, <1>11, <2>2, <3>1, <3>2
  <2>3. CASE m # l
    <3>1. m \in unmasked' <=> m \in unmasked
      BY <1>1, <2>3
    <3> QED
      BY <1>5, <1>10, <2>1, <2>3, <3>1
  <2> QED
    BY <2>2, <2>3
<1>13. Completing'
  <2> SUFFICES ASSUME NEW u \in Thread, position[u] # 0
               PROVE  /\ irq'[u] \in Line /\ position[u] \in 1 .. Len(stubs'[irq'[u]])
                      /\ stubs'[irq'[u]][position[u]] = u
    BY <1>1 DEF Completing, count
  <2>1. irq[u] \in Line /\ position[u] \in 1 .. Len(stubs[irq[u]]) /\ stubs[irq[u]][position[u]] = u
    BY CompletingIs DEF IInv
  <2>2. irq'[u] = irq[u] /\ irq[u] # l
    BY <1>1, <1>6 DEF Unlocked
  <2> QED
    BY <1>5, <2>1, <2>2
<1>14. Going'
  <2>1. ASSUME NEW m \in open' PROVE m \in open /\ \A x \in Thread : cpu[x] # NONE /\ irq[x] = m => irq'[x] = m
    BY <1>1, <1>6
  <2> QED
    BY <1>1, <2>1, GoingStays
<1>15. FastOK(cpu', fast_queued', fast') /\ Room'
  BY <1>1 DEF IInv, Room
<1> QED
  BY <1>8, <1>9, <1>12, <1>13, <1>14, <1>15 DEF IInv

-----------------------------------------------------------------------------
(* The hooks of the lines are not touched by the other actions. *)
LEMMA HooksStay ==
  ASSUME IInv, UNCHANGED <<stubs, unmasked, state, irq, astray>>
  PROVE  Idle' /\ Hooked'
BY DEF IInv, Idle, Hooked, count

(* Who runs, which lines wait for an acknowledgement and that an assert    *)
(* fails is nothing the invariant sees.                                    *)
LEMMA StayInv ==
  ASSUME IInv, stopped' \in BOOLEAN, ~ stopped' => ~ stopped,
         UNCHANGED <<stubs, index, last, unmasked, state, irq, position, astray, open, cpu, fast_queued, fast>>
  PROVE  IInv'
<1>1. Idle' /\ Hooked'
  BY HooksStay
<1>2. Completing'
  BY DEF IInv, Completing, count
<1>3. FastOK(cpu', fast_queued', fast') /\ Room' /\ Going'
  BY DEF IInv, Room, Going
<1>4. Types'
  BY DEF IInv, Types
<1> QED
  BY <1>1, <1>2, <1>3, <1>4 DEF IInv

(* irq_handler. *)
LEMMA HandlerInv ==
  ASSUME IInv, NEW l \in Line, irq_handler(l)
  PROVE  IInv'
<1>1. /\ ~ stopped /\ index' = [index EXCEPT ![l] = 0]
      /\ UNCHANGED <<stubs, last, unmasked, state, irq, position, astray>>
  BY DEF irq_handler, threadVars
<1>2. Idle' /\ Hooked'
  BY <1>1, HooksStay
<1>3. Completing'
  BY <1>1 DEF IInv, Completing, count
<1>4. index' \in [Line -> Nat]
  BY <1>1 DEF IInv, Types
<1>5. CASE last[l] < count(l)
  <2> DEFINE t == stubs[l][last[l] + 1]
  <2>1. last[l] + 1 \in 1 .. count(l)
    BY <1>5 DEF IInv, Types, count
  <2>2. t \in Thread /\ (Process[t] \notin astray => irq[t] = l)
    BY <2>1 DEF IInv, Types, Hooked, count
  <2>3. fast_queue(t) /\ open' = IF Process[t] \in astray THEN open \ {l} ELSE open \cup {l}
    BY <1>5 DEF irq_handler
  <2> HIDE DEF t
  <2>4. stopped' = (Len(fast[Affinity[t]]) + 1 = MAX_FAST)
    BY <2>3 DEF fast_queue
  <2>5. QueueStep(cpu, fast_queued, fast, cpu', fast_queued', fast', t)
    BY <2>3 DEF fast_queue, QueueStep
  <2>6. Affinity[t] \in Cpu /\ \A c \in Cpu : Len(fast[c]) \in Nat /\ Len(fast[c]) < MAX_FAST
    BY <1>1, <2>2, SeqsAre, IrqAssumption DEF IInv, Room, FastOK
  <2>7. /\ FastOK(cpu', fast_queued', fast')
        /\ Affinity[t] \in Cpu /\ Queued(fast, fast', Affinity[t], t)
    BY <2>2, <2>5, <2>6, QueueSound DEF IInv
  <2>9. Room'
    <3> SUFFICES ASSUME ~ stopped', NEW c \in Cpu PROVE Len(fast'[c]) < MAX_FAST
      BY DEF Room
    <3>1. Len(fast'[c]) = IF c = Affinity[t] THEN Len(fast[c]) + 1 ELSE Len(fast[c])
      BY <2>7 DEF Queued
    <3>2. Len(fast[Affinity[t]]) + 1 # MAX_FAST
      BY <2>4
    <3> QED
      BY <2>6, <3>1, <3>2, IrqAssumption
  <2>10. /\ \A m : Serves(fast, irq, m) => Serves(fast', irq, m)
         /\ Serves(fast', irq, irq[t])
    BY <2>6, <2>7, QueueServes
  <2>11. Going'
    BY <1>1, <2>2, <2>3, <2>10 DEF IInv, Going
  <2>12. Types'
    BY <1>1, <1>4, <2>3, <2>4 DEF IInv, Types
  <2> QED
    BY <1>2, <1>3, <2>7, <2>9, <2>11, <2>12 DEF IInv
<1>6. CASE ~ (last[l] < count(l))
  <2>1. stopped' = TRUE /\ UNCHANGED <<cpu, fast_queued, fast, open>>
    BY <1>6 DEF irq_handler, fastVars
  <2>2. FastOK(cpu', fast_queued', fast') /\ Room' /\ Going'
    BY <1>1, <2>1 DEF IInv, Room, Going
  <2>3. Types'
    BY <1>1, <1>4, <2>1 DEF IInv, Types
  <2> QED
    BY <1>2, <1>3, <2>2, <2>3 DEF IInv
<1> QED
  BY <1>5, <1>6

LEMMA Modulo == \A a \in Nat, n \in Nat \ {0} : a % n \in 0 .. n - 1
OBVIOUS

(* irq_complete, up to the point where it has found the handler. *)
LEMMA CompleteInv ==
  ASSUME IInv, NEW t \in Thread, irq_complete(t)
  PROVE  IInv'
<1> DEFINE l == irq[t]
           p == Position(l)
<1>1. /\ l # NONE /\ count(l) > 0 /\ stubs[l][p + 1] = t
      /\ position' = [position EXCEPT ![t] = p + 1]
      /\ UNCHANGED <<stubs, index, last, unmasked, state, irq, astray, open, stopped, cpu, fast_queued, fast>>
  BY DEF irq_complete, hookVars, threadVars, fastVars
<1>2. l \in Line /\ index[l] + last[l] \in Nat /\ count(l) \in Nat \ {0}
  BY <1>1 DEF IInv, Types, count
<1>3. p \in 0 .. count(l) - 1
  BY <1>2, Modulo DEF Position
<1> HIDE DEF l, p
<1>4. p + 1 \in 1 .. count(l) /\ p + 1 \in Nat
  BY <1>2, <1>3
<1>5. position' \in [Thread -> Nat] /\ \A u \in Thread : position'[u] = IF u = t THEN p + 1 ELSE position[u]
  BY <1>1, <1>4 DEF IInv, Types
<1>7. Idle' /\ Hooked'
  BY <1>1, HooksStay
<1>8. Types'
  BY <1>1, <1>5 DEF IInv, Types
<1>9. Completing'
  <2> SUFFICES ASSUME NEW u \in Thread, position'[u] # 0
               PROVE  irq[u] \in Line /\ position'[u] \in 1 .. count(irq[u]) /\ stubs[irq[u]][position'[u]] = u
    BY <1>1 DEF Completing, count
  <2>1. CASE u = t
    BY <1>1, <1>2, <1>4, <1>5, <2>1 DEF l
  <2>2. CASE u # t
    BY <1>5, <2>2 DEF IInv, Completing
  <2> QED
    BY <2>1, <2>2
<1>10. FastOK(cpu', fast_queued', fast') /\ Room' /\ Going'
  BY <1>1 DEF IInv, Room, Going
<1> QED
  BY <1>7, <1>8, <1>9, <1>10 DEF IInv

(* The handler is done: what irq_complete found is forgotten. *)
LEMMA DoneInv ==
  ASSUME Types, Completing, NEW t \in Thread, position' = [position EXCEPT ![t] = 0], UNCHANGED <<stubs, irq>>
  PROVE  position' \in [Thread -> Nat] /\ Completing'
<1>1. position' \in [Thread -> Nat] /\ \A u \in Thread : position'[u] = IF u = t THEN 0 ELSE position[u]
  BY DEF Types
<1>2. Completing'
  <2> SUFFICES ASSUME NEW u \in Thread, position'[u] # 0
               PROVE  irq[u] \in Line /\ position'[u] \in 1 .. count(irq[u]) /\ stubs[irq[u]][position'[u]] = u
    BY DEF Completing, count
  <2> QED
    BY <1>1 DEF Completing
<1> QED
  BY <1>1, <1>2

(* Leaving the queue shortens it, and keeps every line served but the one  *)
(* the thread at the head serves.                                          *)
LEMMA DoneGoing ==
  ASSUME NEW ft, NEW ft2, NEW d \in Cpu, Dequeued(ft, ft2, d), \A c \in Cpu : Len(ft[c]) \in Nat /\ Len(ft[c]) < MAX_FAST,
         NEW ir
  PROVE  /\ \A c \in Cpu : Len(ft2[c]) < MAX_FAST
         /\ \A m : m # ir[ft[d][1]] /\ Serves(ft, ir, m) => Serves(ft2, ir, m)
<1>1. ASSUME NEW c \in Cpu PROVE Len(ft2[c]) < MAX_FAST
  BY IrqAssumption DEF Dequeued
<1>2. ASSUME NEW m, m # ir[ft[d][1]], Serves(ft, ir, m) PROVE Serves(ft2, ir, m)
  <2>1. PICK c \in Cpu : \E i \in 1 .. Len(ft[c]) : ir[ft[c][i]] = m
    BY <1>2 DEF Serves
  <2>2. PICK i \in 1 .. Len(ft[c]) : ir[ft[c][i]] = m
    BY <2>1
  <2>3. ~ (c = d /\ i = 1)
    BY <1>2, <2>2
  <2>4. \A e \in Cpu : Len(ft[e]) \in Nat
    OBVIOUS
  <2>5. Serves(ft2, ir, ir[ft[c][i]])
    BY <2>3, <2>4, DequeueServes
  <2> QED
    BY <2>2, <2>5
<1> QED
  BY <1>1, <1>2

(* irq_complete, when the handler took the interrupt. *)
LEMMA AcceptInv ==
  ASSUME IInv, NEW t \in Thread, Accept(t)
  PROVE  IInv'
<1> DEFINE l == irq[t]
<1>1. /\ ~ stopped /\ position[t] # 0 /\ last' = [last EXCEPT ![l] = position[t] - 1]
      /\ Leading(t, Queues) /\ fast_dequeue(t, Queues)
      /\ position' = [position EXCEPT ![t] = 0] /\ open' = open \ {l}
      /\ UNCHANGED <<stubs, index, unmasked, state, irq, astray, stopped>>
  BY DEF Accept, threadVars
<1>2. DequeueStep(cpu, fast_queued, fast, cpu', fast_queued', fast', t)
  BY <1>1 DEF fast_dequeue, Queues, DequeueStep
<1>3. Leads(cpu, fast, t)
  BY <1>1, LeadsIs DEF IInv, Leading, Queues
<1>4. FastOK(cpu', fast_queued', fast') /\ cpu[t] \in Cpu /\ Dequeued(fast, fast', cpu[t])
  BY <1>2, <1>3, DequeueSound DEF IInv
<1>5. fast[cpu[t]][1] = t
  BY <1>3 DEF Leads
<1>6. position' \in [Thread -> Nat] /\ Completing'
  BY <1>1, DoneInv DEF IInv
<1>7. last' \in [Line -> Nat]
  <2>1. l \in Line /\ position[t] - 1 \in Nat
    BY <1>1 DEF IInv, Completing, Types
  <2> QED
    BY <1>1, <2>1 DEF IInv, Types
<1>8. Idle' /\ Hooked'
  BY <1>1, HooksStay
<1>9. Types'
  BY <1>1, <1>6, <1>7 DEF IInv, Types
<1>11. \A c \in Cpu : Len(fast[c]) \in Nat /\ Len(fast[c]) < MAX_FAST
  BY <1>1, SeqsAre DEF IInv, FastOK, Room
<1>12. /\ \A c \in Cpu : Len(fast'[c]) < MAX_FAST
       /\ \A m : m # irq[fast[cpu[t]][1]] /\ Serves(fast, irq, m) => Serves(fast', irq, m)
  BY <1>4, <1>11, DoneGoing
<1>13. Room'
  BY <1>12 DEF Room
<1>14. Going'
  <2> SUFFICES ASSUME NEW m \in open \ {l} PROVE Serves(fast', irq, m)
    BY <1>1 DEF Going
  <2>1. Serves(fast, irq, m)
    BY <1>1 DEF IInv, Going
  <2> QED
    BY <1>5, <1>12, <2>1
<1> QED
  BY <1>4, <1>6, <1>8, <1>9, <1>13, <1>14 DEF IInv

(* irq_complete, when it did not: the next handler is queued before this   *)
(* one leaves.                                                             *)
LEMMA RejectInv ==
  ASSUME IInv, NEW t \in Thread, Reject(t)
  PROVE  IInv'
<1> DEFINE l == irq[t]
           next == Following(t)
           more == More(l)
<1>1. /\ ~ stopped /\ position[t] # 0 /\ index' = [index EXCEPT ![l] = @ + 1]
      /\ Leading(t, AfterReject(t)) /\ fast_dequeue(t, AfterReject(t))
      /\ AfterReject(t) = (IF more THEN QueuesWith(next) ELSE Queues)
      /\ stopped' = (more /\ Len(fast[Affinity[next]]) + 1 = MAX_FAST)
      /\ position' = [position EXCEPT ![t] = 0]
      /\ open' = IF more THEN Owed(l, next) ELSE open \ {l}
      /\ UNCHANGED <<stubs, last, unmasked, state, irq, astray>>
  BY DEF Reject, threadVars, AfterReject, More
<1>3. position' \in [Thread -> Nat] /\ Completing'
  BY <1>1, DoneInv DEF IInv
<1>4. l \in Line /\ position[t] \in 1 .. count(l) /\ count(l) \in Nat /\ stubs[l][position[t]] = t
  BY <1>1 DEF IInv, Completing, Types, count
<1>5. next \in Thread /\ (more /\ Process[next] \notin astray => irq[next] = l /\ next # t)
  <2>1. position[t] \in Nat /\ count(l) \in Nat \ {0}
    BY <1>4
  <2>2. position[t] % count(l) \in 0 .. count(l) - 1
    BY <2>1, Modulo
  <2> DEFINE k == (position[t] % count(l)) + 1
  <2>3. k \in 1 .. count(l) /\ next = stubs[l][k]
    BY <2>1, <2>2 DEF Following
  <2>4. more => k # position[t]
    <3> SUFFICES ASSUME more PROVE k # position[t]
      OBVIOUS
    <3>1. index[l] \in Nat /\ count(l) > 1
      BY <1>4 DEF IInv, Types, More
    <3>2. CASE position[t] = count(l)
      <4>1. position[t] % count(l) = 0
        BY <2>1, <3>2
      <4> QED
        BY <3>1, <3>2, <4>1
    <3>3. CASE position[t] < count(l)
      <4>1. position[t] % count(l) = position[t]
        BY <2>1, <3>3
      <4> QED
        BY <2>1, <4>1
    <3> QED
      BY <1>4, <3>2, <3>3
  <2> HIDE DEF k, l, next, more
  <2>5. stubs[l][k] \in Thread
    BY <1>4, <2>3 DEF IInv, Types, count
  <2>6. Process[next] \notin astray => irq[next] = l /\ \A j \in 1 .. count(l) : stubs[l][j] = next => j = k
    BY <1>4, <2>3 DEF IInv, Hooked
  <2> QED
    BY <1>4, <2>3, <2>4, <2>5, <2>6
<1>6. index' \in [Line -> Nat]
  BY <1>1, <1>4 DEF IInv, Types
<1>7. Idle' /\ Hooked'
  BY <1>1, HooksStay
<1>8. Types'
  <2>1. open' \subseteq Line /\ stopped' \in BOOLEAN
    BY <1>1 DEF IInv, Types, Owed
  <2> QED
    BY <1>1, <1>3, <1>6, <2>1 DEF IInv, Types
<1>9. \A c \in Cpu : Len(fast[c]) \in Nat /\ Len(fast[c]) < MAX_FAST
  BY <1>1, SeqsAre DEF IInv, FastOK, Room
<1> HIDE DEF next, more
<1>10. CASE ~ more
  <2>1. DequeueStep(cpu, fast_queued, fast, cpu', fast_queued', fast', t)
    BY <1>1, <1>10 DEF fast_dequeue, Queues, DequeueStep
  <2>7. Leads(cpu, fast, t)
    BY <1>1, <1>10, LeadsIs DEF IInv, Leading, Queues
  <2>2. FastOK(cpu', fast_queued', fast') /\ cpu[t] \in Cpu /\ Dequeued(fast, fast', cpu[t])
    BY <2>1, <2>7, DequeueSound DEF IInv
  <2>3. /\ \A c \in Cpu : Len(fast'[c]) < MAX_FAST
        /\ \A m : m # irq[fast[cpu[t]][1]] /\ Serves(fast, irq, m) => Serves(fast', irq, m)
    BY <1>9, <2>2, DoneGoing
  <2>4. fast[cpu[t]][1] = t
    BY <2>7 DEF Leads
  <2>5. Room'
    BY <2>3 DEF Room
  <2>6. Going'
    <3> SUFFICES ASSUME NEW m \in open \ {l} PROVE Serves(fast', irq, m)
      BY <1>1, <1>10 DEF Going
    <3>1. Serves(fast, irq, m)
      BY <1>1 DEF IInv, Going
    <3> QED
      BY <2>3, <2>4, <3>1
  <2> QED
    BY <1>3, <1>7, <1>8, <2>2, <2>5, <2>6 DEF IInv
<1>11. CASE more
  <2> DEFINE cp == [cpu EXCEPT ![next] = Affinity[next]]
             fq == [fast_queued EXCEPT ![next] = @ + 1]
             ft == [fast EXCEPT ![Affinity[next]] = Append(@, next)]
  <2>1. QueueStep(cpu, fast_queued, fast, cp, fq, ft, next)
    BY DEF QueueStep
  <2>2. DequeueStep(cp, fq, ft, cpu', fast_queued', fast', t)
    BY <1>1, <1>11 DEF fast_dequeue, QueuesWith, DequeueStep
  <2> HIDE DEF cp, fq, ft
  <2>3. Affinity[next] \in Cpu /\ Len(fast[Affinity[next]]) < MAX_FAST
    BY <1>5, <1>9, IrqAssumption
  <2>4. /\ FastOK(cp, fq, ft)
        /\ Affinity[next] \in Cpu /\ Queued(fast, ft, Affinity[next], next)
    BY <1>5, <2>1, <2>3, QueueSound DEF IInv
  <2>13. cp[t] # NONE /\ Head(ft[cp[t]]) = t
    BY <1>1, <1>11 DEF Leading, QueuesWith, cp, ft
  <2>5. Leads(cp, ft, t)
    BY <2>4, <2>13, LeadsIs
  <2>6. FastOK(cpu', fast_queued', fast') /\ cp[t] \in Cpu /\ Dequeued(ft, fast', cp[t])
    BY <2>2, <2>4, <2>5, DequeueSound
  <2>8. \A c \in Cpu : Len(ft[c]) \in Nat
    BY <2>4, SeqsAre DEF FastOK
  <2>9. ft[cp[t]][1] = t
    BY <2>5 DEF Leads
  <2>10. Room'
    <3> SUFFICES ASSUME ~ stopped', NEW c \in Cpu PROVE Len(fast'[c]) < MAX_FAST
      BY DEF Room
    <3>1. Len(ft[c]) = IF c = Affinity[next] THEN Len(fast[c]) + 1 ELSE Len(fast[c])
      BY <2>4 DEF Queued
    <3>2. Len(fast[Affinity[next]]) + 1 # MAX_FAST
      BY <1>1, <1>11
    <3>3. Len(ft[c]) < MAX_FAST
      BY <1>9, <3>1, <3>2, IrqAssumption
    <3>4. Len(fast'[c]) = IF c = cp[t] THEN Len(ft[c]) - 1 ELSE Len(ft[c])
      BY <2>6 DEF Dequeued
    <3> QED
      BY <2>8, <3>3, <3>4, IrqAssumption
  <2>11. Process[next] \notin astray => Serves(fast', irq, l)
    <3> SUFFICES ASSUME Process[next] \notin astray PROVE Serves(fast', irq, l)
      OBVIOUS
    <3> DEFINE d == Affinity[next]
               i == Len(fast[d]) + 1
    <3>1. i \in 1 .. Len(ft[d]) /\ ft[d][i] = next
      BY <1>9, <2>3, <2>4 DEF Queued
    <3>2. ~ (d = cp[t] /\ i = 1)
      BY <1>5, <1>11, <2>9, <3>1
    <3> HIDE DEF i, d
    <3>3. d \in Cpu
      BY <2>3 DEF d
    <3>4. Serves(fast', irq, irq[ft[d][i]])
      BY <2>6, <2>8, <3>1, <3>2, <3>3, DequeueServes
    <3> QED
      BY <1>5, <1>11, <3>1, <3>4
  <2>12. Going'
    <3> SUFFICES ASSUME NEW m \in open, m # l PROVE Serves(fast', irq, m)
      BY <1>1, <1>11, <2>11 DEF Going, Owed
    <3>1. Serves(fast, irq, m)
      BY <1>1 DEF IInv, Going
    <3>2. \A c \in Cpu : Len(fast[c]) \in Nat
      BY <1>9
    <3>3. Serves(ft, irq, m)
      BY <2>4, <3>1, <3>2, QueueServes
    <3>4. PICK c \in Cpu : \E i \in 1 .. Len(ft[c]) : irq[ft[c][i]] = m
      BY <3>3 DEF Serves
    <3>5. PICK i \in 1 .. Len(ft[c]) : irq[ft[c][i]] = m
      BY <3>4
    <3>6. ~ (c = cp[t] /\ i = 1)
      BY <2>9, <3>5
    <3>7. Serves(fast', irq, irq[ft[c][i]])
      BY <2>6, <2>8, <3>6, DequeueServes
    <3> QED
      BY <3>5, <3>7
  <2> QED
    BY <1>3, <1>7, <1>8, <2>6, <2>10, <2>12 DEF IInv
<1> QED
  BY <1>10, <1>11

-----------------------------------------------------------------------------
LEMMA NextIInv == IInv /\ [Next]_vars => IInv'
<1> SUFFICES ASSUME IInv, [Next]_vars PROVE IInv'
  OBVIOUS
<1>1. CASE UNCHANGED vars
  <2>1. stopped' \in BOOLEAN /\ (~ stopped' => ~ stopped)
    BY <1>1 DEF IInv, Types, vars
  <2> QED
    BY <1>1, <2>1, StayInv DEF vars
<1>2. ASSUME NEW t \in Thread, NEW l \in Line, request_irq(t, l) \/ release_irq(t, l) PROVE IInv'
  BY <1>2, RequestInv, ReleaseInv
<1>3. ASSUME NEW l \in Line, irq_handler(l) PROVE IInv'
  BY <1>3, HandlerInv
<1>4. ASSUME NEW t \in Thread, irq_complete(t) \/ Accept(t) \/ Reject(t) PROVE IInv'
  BY <1>4, CompleteInv, AcceptInv, RejectInv
<1>5. ASSUME NEW c \in Cpu, Dispatch(c) \/ Preempt(c) PROVE IInv'
  <2>1. UNCHANGED <<stubs, index, last, unmasked, state, irq, position, astray, open, cpu, fast_queued, fast, stopped>>
    BY <1>5 DEF Dispatch, Preempt, hookVars, threadVars, fastVars
  <2>2. stopped' \in BOOLEAN /\ (~ stopped' => ~ stopped)
    BY <2>1 DEF IInv, Types
  <2> QED
    BY <2>1, <2>2, StayInv
<1>6. ASSUME NEW t \in Thread, NEW l \in Line, ReleaseFails(t, l) \/ irq_ack(t, l) \/ DivideByZero(t, l) PROVE IInv'
  <2>1. UNCHANGED <<stubs, index, last, unmasked, state, irq, position, astray, open, cpu, fast_queued, fast>>
    BY <1>6 DEF ReleaseFails, irq_ack, DivideByZero, hookVars, threadVars, fastVars
  <2>2. stopped' \in BOOLEAN /\ (~ stopped' => ~ stopped)
    BY <1>6 DEF ReleaseFails, irq_ack, DivideByZero, IInv, Types, Calls
  <2> QED
    BY <2>1, <2>2, StayInv
<1>7. ASSUME NEW t \in Thread, DequeueFails(t) PROVE IInv'
  <2>1. /\ UNCHANGED <<stubs, index, last, unmasked, state, irq, position, astray, open, cpu, fast_queued, fast>>
        /\ stopped' = TRUE
    BY <1>7 DEF DequeueFails, hookVars, threadVars, fastVars
  <2> QED
    BY <2>1, StayInv
<1> QED
  BY <1>1, <1>2, <1>3, <1>4, <1>5, <1>6, <1>7 DEF Next

(* The hooks, the fast queues, their counters and the handlers that are in *)
(* the middle of irq_complete fit together after any sequence of requests, *)
(* releases, interrupts and completions, up to a failed assert (irq.c,     *)
(* scheduler.c).                                                           *)
THEOREM HandlersInductive == Spec => []IInv
BY InitIInv, NextIInv, PTL DEF Spec

(* fast_queued of a thread is how often it is in the fast queues, all in   *)
(* the queue of its processor: fast_queue and fast_dequeue count right     *)
(* even when a handler declines and completes again at once, or an assert  *)
(* of fast_dequeue fails.                                                  *)
THEOREM CountersExact == Spec => []FastExact
<1>1. IInv => FastExact
  <2> SUFFICES ASSUME IInv PROVE FastExact
    OBVIOUS
  <2>1. FastOK(cpu, fast_queued, fast)
    BY DEF IInv
  <2>2. ASSUME NEW t \in Thread
        PROVE  /\ fast_queued[t] = Cardinality({x \in Cpu \X (1 .. MAX_FAST) :
                                          x[2] <= Len(fast[x[1]]) /\ fast[x[1]][x[2]] = t})
               /\ cpu[t] = NONE <=> fast_queued[t] = 0
    BY <2>1 DEF FastOK, Places
  <2>3. \A c \in Cpu : \A i \in 1 .. Len(fast[c]) : cpu[fast[c][i]] = c
    BY <2>1 DEF FastOK
  <2> QED
    BY <2>2, <2>3 DEF FastExact
<1> QED
  BY <1>1, HandlersInductive, PTL

(* request_irq and release_irq keep a line open at the controller exactly  *)
(* while it has handlers, each of them once and in state THREAD_IRQ, but   *)
(* for processes that gave back a line by a thread that served another.    *)
THEOREM LinesHooked == Spec => []Hooked
<1>1. IInv => Hooked
  BY DEF IInv
<1> QED
  BY <1>1, HandlersInductive, PTL

(* Whatever irq_handler interrupts, an interrupt that no handler took and  *)
(* not all declined has a handler of its line on a fast queue, unless the  *)
(* queued one gave its line back or is of a process gone astray.           *)
THEOREM RoundNotLost == Spec => []RoundGoesOn
<1>1. IInv => RoundGoesOn
  BY DEF IInv, Going, Serves, RoundGoesOn
<1> QED
  BY <1>1, HandlersInductive, PTL
=============================================================================
