-------------------------- MODULE SchedulerProofs --------------------------
(***************************************************************************)
(* The queues of the scheduler, for any number of threads and processors:  *)
(* a thread is queued once, the index of the round robin stays inside the  *)
(* queue, sleepers are sorted by their time and have their timers, and     *)
(* whoever runs is queued.  Where every processor has room for its         *)
(* threads, whoever could run is queued too and only the assertions of     *)
(* wakers can fail.  Nobody a sender has found asleep is left asleep.      *)
(***************************************************************************)
EXTENDS Scheduler, FiniteSetTheorems, WellFoundedInduction, SequenceTheorems, TLAPS

-----------------------------------------------------------------------------
(* Searching, taking from and putting into a sequence. *)
LEMMA MinIs ==
  ASSUME NEW T, T \subseteq Nat, T # {}
  PROVE  Min(T) \in T /\ \A y \in T : Min(T) <= y
<1> DEFINE R == OpToRel(<, Nat)
<1>1. IsWellFoundedOn(R, Nat)
  BY NatLessThanWellFounded
<1>2. \A x, y \in Nat : <<y, x>> \in R <=> y < x
  BY DEF OpToRel
<1> HIDE DEF R
<1>3. PICK x \in T : \A y \in T : ~ (<<y, x>> \in R)
  BY <1>1, WFMin
<1>4. \A y \in T : x <= y
  <2>1. SUFFICES ASSUME NEW y \in T PROVE x <= y
    OBVIOUS
  <2>2. x \in Nat /\ y \in Nat
    OBVIOUS
  <2>3. ~ (y < x)
    BY <1>2, <1>3, <2>2
  <2> QED
    BY <2>2, <2>3
<1> QED
  BY <1>4 DEF Min

LEMMA Part ==
  ASSUME NEW S, NEW s \in Seq(S), NEW m \in 1 .. Len(s) + 1, NEW n \in m - 1 .. Len(s), NEW r, r = SubSeq(s, m, n)
  PROVE  /\ r \in Seq(S) /\ Len(r) = n - m + 1
         /\ \A i \in 1 .. n - m + 1 : r[i] = s[m + i - 1]
<1>1. m \in Int /\ n \in Int /\ \A i \in m .. n : s[i] \in S
  OBVIOUS
<1>2. /\ SubSeq(s, m, n) \in Seq(S)
      /\ Len(SubSeq(s, m, n)) = IF m <= n THEN n - m + 1 ELSE 0
      /\ \A i \in 1 .. n - m + 1 : SubSeq(s, m, n)[i] = s[m + i - 1]
  BY <1>1, SubSeqProperties
<1>3. (IF m <= n THEN n - m + 1 ELSE 0) = n - m + 1
  OBVIOUS
<1> QED
  BY <1>2, <1>3, Zenon

LEMMA RemoveOne ==
  ASSUME NEW S, NEW s \in Seq(S), NEW k \in 1 .. Len(s), NEW r, r = RemoveAt(s, k)
  PROVE  /\ r \in Seq(S) /\ Len(r) = Len(s) - 1
         /\ \A i \in 1 .. Len(r) : r[i] = IF i < k THEN s[i] ELSE s[i + 1]
<1> DEFINE a == SubSeq(s, 1, k - 1)
           b == SubSeq(s, k + 1, Len(s))
<1>0. Len(s) \in Nat /\ k \in Nat /\ k <= Len(s) /\ k >= 1
  OBVIOUS
<1>1. r = a \o b
  BY DEF RemoveAt
<1>2. a \in Seq(S) /\ Len(a) = (k - 1) - 1 + 1 /\ \A i \in 1 .. (k - 1) - 1 + 1 : a[i] = s[1 + i - 1]
  <2>1. 1 \in 1 .. Len(s) + 1 /\ k - 1 \in 1 - 1 .. Len(s)
    BY <1>0
  <2> QED
    BY <2>1, Part
<1>3. b \in Seq(S) /\ Len(b) = Len(s) - (k + 1) + 1 /\ \A i \in 1 .. Len(s) - (k + 1) + 1 : b[i] = s[(k + 1) + i - 1]
  <2>1. k + 1 \in 1 .. Len(s) + 1 /\ Len(s) \in (k + 1) - 1 .. Len(s)
    BY <1>0
  <2> QED
    BY <2>1, Part
<1> HIDE DEF a, b
<1>4. /\ r \in Seq(S) /\ Len(r) = Len(a) + Len(b)
      /\ \A i \in 1 .. Len(a) : r[i] = a[i]
      /\ \A i \in 1 .. Len(b) : r[Len(a) + i] = b[i]
  <2>1. a \in Seq(S) /\ b \in Seq(S)
    BY <1>2, <1>3
  <2>2. a \o b \in Seq(S) /\ Len(a \o b) = Len(a) + Len(b)
    BY <2>1
  <2>3. \A i \in 1 .. Len(a) : (a \o b)[i] = a[i]
    BY <2>1
  <2>4. \A i \in 1 .. Len(b) : (a \o b)[Len(a) + i] = b[i]
    BY <2>1
  <2> QED
    BY <1>1, <2>2, <2>3, <2>4, Zenon
<1>5. Len(r) = Len(s) - 1 /\ Len(a) = k - 1
  BY <1>0, <1>2, <1>3, <1>4
<1>6. ASSUME NEW i \in 1 .. Len(r) PROVE r[i] = IF i < k THEN s[i] ELSE s[i + 1]
  <2>1. CASE i < k
    <3>1. i \in 1 .. Len(a) /\ i \in 1 .. (k - 1) - 1 + 1 /\ 1 + i - 1 = i
      BY <1>0, <1>5, <2>1
    <3>2. r[i] = a[i] /\ a[i] = s[1 + i - 1]
      BY <1>2, <1>4, <3>1, Zenon
    <3> QED
      BY <2>1, <3>1, <3>2
  <2>2. CASE ~ (i < k)
    <3> DEFINE j == i - (k - 1)
    <3>1. j \in 1 .. Len(b) /\ j \in 1 .. Len(s) - (k + 1) + 1 /\ Len(a) + j = i /\ (k + 1) + j - 1 = i + 1
      BY <1>0, <1>3, <1>5, <2>2
    <3> HIDE DEF j
    <3>2. r[Len(a) + j] = b[j] /\ b[j] = s[(k + 1) + j - 1]
      BY <1>3, <1>4, <3>1, Zenon
    <3> QED
      BY <2>2, <3>1, <3>2
  <2> QED
    BY <2>1, <2>2
<1> QED
  BY <1>4, <1>5, <1>6

Inserted(S, s, k, e, r) ==
  /\ r \in Seq(S) /\ Len(r) = Len(s) + 1
  /\ \A i \in 1 .. Len(r) : r[i] = IF i < k THEN s[i] ELSE IF i = k THEN e ELSE s[i - 1]

LEMMA InsertOne ==
  ASSUME NEW S, NEW s \in Seq(S), NEW k \in 1 .. Len(s), NEW e \in S, NEW r, r = InsertAt(s, k, e)
  PROVE  Inserted(S, s, k, e, r)
<1> DEFINE a == SubSeq(s, 1, k - 1)
           b == SubSeq(s, k, Len(s))
<1>0. Len(s) \in Nat /\ k \in Nat /\ k <= Len(s) /\ k >= 1
  OBVIOUS
<1>1. r = (a \o <<e>>) \o b
  BY DEF InsertAt
<1>2. a \in Seq(S) /\ Len(a) = (k - 1) - 1 + 1 /\ \A i \in 1 .. (k - 1) - 1 + 1 : a[i] = s[1 + i - 1]
  <2>1. 1 \in 1 .. Len(s) + 1 /\ k - 1 \in 1 - 1 .. Len(s)
    BY <1>0
  <2> QED
    BY <2>1, Part
<1>3. b \in Seq(S) /\ Len(b) = Len(s) - k + 1 /\ \A i \in 1 .. Len(s) - k + 1 : b[i] = s[k + i - 1]
  <2>1. k \in 1 .. Len(s) + 1 /\ Len(s) \in k - 1 .. Len(s)
    BY <1>0
  <2> QED
    BY <2>1, Part
<1> HIDE DEF a, b
<1> DEFINE d == a \o <<e>>
<1>4. d \in Seq(S) /\ Len(d) = Len(a) + 1 /\ d[Len(a) + 1] = e /\ \A i \in 1 .. Len(a) : d[i] = a[i]
  <2>1. a \in Seq(S)
    BY <1>2
  <2>2. d = Append(a, e)
    BY <2>1
  <2> HIDE DEF d
  <2> QED
    BY <2>1, <2>2
<1>5. r = d \o b
  BY <1>1
<1> HIDE DEF d
<1>6. /\ r \in Seq(S) /\ Len(r) = Len(d) + Len(b)
      /\ \A i \in 1 .. Len(d) : r[i] = d[i]
      /\ \A i \in 1 .. Len(b) : r[Len(d) + i] = b[i]
  <2>1. d \in Seq(S) /\ b \in Seq(S)
    BY <1>3, <1>4
  <2>2. d \o b \in Seq(S) /\ Len(d \o b) = Len(d) + Len(b)
    BY <2>1
  <2>3. \A i \in 1 .. Len(d) : (d \o b)[i] = d[i]
    BY <2>1
  <2>4. \A i \in 1 .. Len(b) : (d \o b)[Len(d) + i] = b[i]
    BY <2>1
  <2> QED
    BY <1>5, <2>2, <2>3, <2>4, Zenon
<1>7. Len(a) = k - 1 /\ Len(d) = k /\ Len(b) = Len(s) - k + 1 /\ Len(r) = Len(s) + 1
  BY <1>0, <1>2, <1>3, <1>4, <1>6
<1>8. ASSUME NEW i \in 1 .. Len(r) PROVE r[i] = IF i < k THEN s[i] ELSE IF i = k THEN e ELSE s[i - 1]
  <2>1. CASE i < k
    <3>1. i \in 1 .. Len(a) /\ i \in 1 .. Len(d) /\ i \in 1 .. (k - 1) - 1 + 1 /\ 1 + i - 1 = i
      BY <1>0, <1>7, <2>1
    <3>2. r[i] = d[i] /\ d[i] = a[i] /\ a[i] = s[1 + i - 1]
      BY <1>2, <1>4, <1>6, <3>1, Zenon
    <3> QED
      BY <2>1, <3>1, <3>2
  <2>2. CASE i = k
    <3>1. i \in 1 .. Len(d) /\ Len(a) + 1 = i
      BY <1>0, <1>7, <2>2
    <3>2. r[i] = d[i] /\ d[Len(a) + 1] = e
      BY <1>4, <1>6, <3>1, Zenon
    <3> QED
      BY <2>2, <3>1, <3>2
  <2>3. CASE i > k
    <3> DEFINE j == i - k
    <3>1. j \in 1 .. Len(b) /\ j \in 1 .. Len(s) - k + 1 /\ Len(d) + j = i /\ k + j - 1 = i - 1
      BY <1>0, <1>7, <2>3
    <3> HIDE DEF j
    <3>2. r[Len(d) + j] = b[j] /\ b[j] = s[k + j - 1]
      BY <1>3, <1>6, <3>1, Zenon
    <3> QED
      BY <2>3, <3>1, <3>2
  <2> QED
    BY <1>0, <2>1, <2>2, <2>3
<1> QED
  BY <1>6, <1>7, <1>8 DEF Inserted

LEMMA FirstIs ==
  ASSUME NEW s, NEW e, \E i \in 1 .. Len(s) : s[i] = e
  PROVE  \E k \in 1 .. Len(s) : s[k] = e /\ RemoveFirst(s, e) = RemoveAt(s, k)
<1> DEFINE k == SelectInSeq(s, LAMBDA v : v = e)
           I == {i \in 1 .. Len(s) : s[i] = e}
<1>1. RemoveFirst(s, e) = RemoveAt(s, k)
  BY DEF RemoveFirst
<1>2. I # {} /\ I \subseteq Nat
  OBVIOUS
<1>3. k = Min(I)
  BY <1>2 DEF SelectInSeq
<1> HIDE DEF I, k
<1>4. k \in I
  BY <1>2, <1>3, MinIs
<1> QED
  BY <1>1, <1>4 DEF I

-----------------------------------------------------------------------------
(* A queue to run, q, and a queue of sleepers, p, of processor c. *)
RunQueue(q, c) ==
  /\ q \in Seq(Thread) /\ Len(q) <= SchedSize
  /\ \A i \in 1 .. Len(q) : Home[q[i]] = c
  /\ \A i, j \in 1 .. Len(q) : q[i] = q[j] => i = j

Sleepers(p, c) ==
  /\ p \in Seq(Entry) /\ Len(p) <= PauseSize
  /\ \A i \in 1 .. Len(p) : Home[p[i].tr] = c /\ p[i].state = "RUNNING"
  /\ \A i, j \in 1 .. Len(p) : p[i].tr = p[j].tr => i = j
  /\ \A i, j \in 1 .. Len(p) : i < j => p[i].left <= p[j].left

Has(p, t) == \E i \in 1 .. Len(p) : p[i].tr = t

LEMMA GapSeq ==
  ASSUME NEW c, NEW q, NEW t, RunQueue(q, c), Contains(q, t), NEW r, r = RemoveFirst(q, t)
  PROVE  /\ RunQueue(r, c) /\ Len(r) = Len(q) - 1
         /\ \A u : Contains(r, u) <=> Contains(q, u) /\ u # t
<1>0. q \in Seq(Thread) /\ Len(q) \in Nat
  BY DEF RunQueue
<1>1. PICK k \in 1 .. Len(q) : q[k] = t /\ r = RemoveAt(q, k)
  BY FirstIs DEF Contains
<1>2. /\ r \in Seq(Thread) /\ Len(r) = Len(q) - 1
      /\ \A i \in 1 .. Len(r) : r[i] = IF i < k THEN q[i] ELSE q[i + 1]
  <2>1. q \in Seq(Thread) /\ k \in 1 .. Len(q) /\ r = RemoveAt(q, k)
    BY <1>0, <1>1
  <2> QED
    BY <2>1, RemoveOne
<1>3. \A i \in 1 .. Len(r) : /\ i < k => i \in 1 .. Len(q)
                             /\ ~ (i < k) => i + 1 \in 1 .. Len(q) /\ i + 1 # k
  BY <1>0, <1>2
<1>4. \A i \in 1 .. Len(q) : /\ i < k => i \in 1 .. Len(r)
                             /\ i > k => i - 1 \in 1 .. Len(r) /\ ~ (i - 1 < k) /\ (i - 1) + 1 = i
                             /\ i < k \/ i = k \/ i > k
  BY <1>0, <1>2
<1>5. \A i, j \in 1 .. Len(q) : q[i] = q[j] => i = j
  BY DEF RunQueue
<1>6. Len(r) <= SchedSize
  BY <1>0, <1>2, SizeAssumption DEF RunQueue
<1>7. \A i \in 1 .. Len(r) : Home[r[i]] = c
  BY <1>2, <1>3 DEF RunQueue
<1>8. \A i, j \in 1 .. Len(r) : r[i] = r[j] => i = j
  <2>1. SUFFICES ASSUME NEW i \in 1 .. Len(r), NEW j \in 1 .. Len(r), r[i] = r[j] PROVE i = j
    OBVIOUS
  <2>2. CASE i < k /\ j < k
    BY <1>2, <1>3, <1>5, <2>1, <2>2
  <2>3. CASE ~ (i < k) /\ ~ (j < k)
    BY <1>2, <1>3, <1>5, <2>1, <2>3
  <2>4. CASE i < k /\ ~ (j < k)
    BY <1>2, <1>3, <1>5, <2>1, <2>4
  <2>5. CASE ~ (i < k) /\ j < k
    BY <1>2, <1>3, <1>5, <2>1, <2>5
  <2> QED
    BY <2>2, <2>3, <2>4, <2>5
<1>9. ASSUME NEW u, Contains(r, u) PROVE Contains(q, u) /\ u # t
  <2>1. PICK i \in 1 .. Len(r) : r[i] = u
    BY <1>9 DEF Contains
  <2>2. CASE i < k
    <3>1. i \in 1 .. Len(q) /\ q[i] = u /\ i # k
      BY <1>2, <1>3, <2>1, <2>2
    <3> QED
      BY <1>1, <1>5, <3>1 DEF Contains
  <2>3. CASE ~ (i < k)
    <3>1. i + 1 \in 1 .. Len(q) /\ q[i + 1] = u /\ i + 1 # k
      BY <1>2, <1>3, <2>1, <2>3
    <3> QED
      BY <1>1, <1>5, <3>1 DEF Contains
  <2> QED
    BY <2>2, <2>3
<1>10. ASSUME NEW u, Contains(q, u), u # t PROVE Contains(r, u)
  <2>1. PICK i \in 1 .. Len(q) : q[i] = u
    BY <1>10 DEF Contains
  <2>2. CASE i < k
    <3>1. i \in 1 .. Len(r) /\ r[i] = u
      BY <1>2, <1>4, <2>1, <2>2
    <3> QED
      BY <3>1 DEF Contains
  <2>3. CASE i > k
    <3>1. i - 1 \in 1 .. Len(r) /\ r[i - 1] = u
      BY <1>2, <1>4, <2>1, <2>3
    <3> QED
      BY <3>1 DEF Contains
  <2> QED
    BY <1>1, <1>4, <1>10, <2>1, <2>2, <2>3
<1> QED
  BY <1>2, <1>6, <1>7, <1>8, <1>9, <1>10 DEF RunQueue

LEMMA AppendSeq ==
  ASSUME NEW c, NEW q, NEW t \in Thread, RunQueue(q, c), Home[t] = c, ~ Contains(q, t),
         Len(q) # SchedSize, NEW r, r = Append(q, t)
  PROVE  /\ RunQueue(r, c) /\ Len(r) = Len(q) + 1
         /\ \A u : Contains(r, u) <=> Contains(q, u) \/ u = t
<1>0. q \in Seq(Thread) /\ Len(q) \in Nat /\ Len(q) <= SchedSize
  BY DEF RunQueue
<1>1. /\ r \in Seq(Thread) /\ Len(r) = Len(q) + 1 /\ r[Len(q) + 1] = t
      /\ \A i \in 1 .. Len(q) : r[i] = q[i]
  BY <1>0
<1>2. \A i \in 1 .. Len(r) : i \in 1 .. Len(q) \/ i = Len(q) + 1
  BY <1>0, <1>1
<1>3. \A i \in 1 .. Len(q) : i \in 1 .. Len(r)
  BY <1>0, <1>1
<1>4. Len(q) + 1 \in 1 .. Len(r)
  BY <1>0, <1>1
<1>5. Len(r) <= SchedSize
  BY <1>0, <1>1, SizeAssumption
<1>6. \A i \in 1 .. Len(r) : Home[r[i]] = c
  BY <1>1, <1>2 DEF RunQueue
<1>7. \A i, j \in 1 .. Len(r) : r[i] = r[j] => i = j
  <2>1. SUFFICES ASSUME NEW i \in 1 .. Len(r), NEW j \in 1 .. Len(r), r[i] = r[j] PROVE i = j
    OBVIOUS
  <2>2. CASE i \in 1 .. Len(q) /\ j \in 1 .. Len(q)
    BY <1>1, <2>1, <2>2 DEF RunQueue
  <2>3. CASE i \in 1 .. Len(q) /\ j = Len(q) + 1
    BY <1>1, <2>1, <2>3, Zenon DEF Contains
  <2>4. CASE i = Len(q) + 1 /\ j \in 1 .. Len(q)
    BY <1>1, <2>1, <2>4, Zenon DEF Contains
  <2> QED
    BY <1>2, <2>2, <2>3, <2>4
<1>8. \A u : Contains(r, u) <=> Contains(q, u) \/ u = t
  BY <1>1, <1>2, <1>3, <1>4, Zenon DEF Contains
<1> QED
  BY <1>1, <1>5, <1>6, <1>7, <1>8 DEF RunQueue

LEMMA EntryFields ==
  ASSUME NEW e \in Entry
  PROVE  e.tr \in Thread /\ e.left \in Nat
BY DEF Entry

LEMMA EntryElapsed ==
  ASSUME NEW e \in Entry, NEW l \in Nat, NEW w \in {0, 1}
  PROVE  LET g == [e EXCEPT !.left = l, !.slept = w]
         IN  g \in Entry /\ g.tr = e.tr /\ g.state = e.state /\ g.left = l
<1>1. ASSUME NEW g, g = [e EXCEPT !.left = l, !.slept = w]
      PROVE  g \in Entry /\ g.tr = e.tr /\ g.state = e.state /\ g.left = l
  BY <1>1 DEF Entry
<1> QED
  BY <1>1, Zenon

LEMMA EntryDue ==
  ASSUME NEW e \in Entry, NEW g, g = [e EXCEPT !.left = 0]
  PROVE  g \in Entry /\ g.tr = e.tr /\ g.state = e.state /\ g.left = 0
BY DEF Entry

LEMMA ElapseSeq ==
  ASSUME NEW c, NEW p, Sleepers(p, c), NEW d \in Nat, NEW r, r = Elapse(p, d)
  PROVE  /\ Sleepers(r, c) /\ \A u : Has(r, u) <=> Has(p, u)
         /\ Len(r) = Len(p) /\ \A i \in 1 .. Len(p) : r[i].tr = p[i].tr
         /\ \A i \in 1 .. Len(p) : p[i].left = 0 => r[i].left = 0
<1>0. p \in Seq(Entry) /\ Len(p) \in Nat /\ Len(p) <= PauseSize /\ DOMAIN p = 1 .. Len(p)
  BY DEF Sleepers
<1> DEFINE f(i) == [p[i] EXCEPT !.left = IF @ > d THEN @ - d ELSE 0,
                                !.slept = IF d > 0 THEN 1 ELSE @]
<1>1. r = [i \in 1 .. Len(p) |-> f(i)]
  BY <1>0 DEF Elapse
<1>2. \A i \in 1 .. Len(p) : p[i] \in Entry
  BY <1>0
<1>3. ASSUME NEW e \in Entry
      PROVE  LET g == [e EXCEPT !.left = IF @ > d THEN @ - d ELSE 0,
                                !.slept = IF d > 0 THEN 1 ELSE @]
             IN  g \in Entry /\ g.tr = e.tr /\ g.state = e.state
                 /\ g.left = IF e.left > d THEN e.left - d ELSE 0
  <2> DEFINE l == IF e.left > d THEN e.left - d ELSE 0
             w == IF d > 0 THEN 1 ELSE e.slept
  <2>1. l \in Nat /\ w \in {0, 1}
    BY DEF Entry
  <2> HIDE DEF l, w
  <2> QED
    <3> DEFINE g == [e EXCEPT !.left = l, !.slept = w]
    <3>1. g \in Entry /\ g.tr = e.tr /\ g.state = e.state /\ g.left = l
      BY <2>1, EntryElapsed, Zenon
    <3> QED
      BY <3>1, Zenon DEF l, w
<1>4. \A i \in 1 .. Len(p) : /\ f(i) \in Entry /\ f(i).tr = p[i].tr /\ f(i).state = p[i].state
                             /\ f(i).left = IF p[i].left > d THEN p[i].left - d ELSE 0
  BY <1>2, <1>3
<1> HIDE DEF f
<1>5. r \in Seq(Entry) /\ Len(r) = Len(p) /\ \A i \in 1 .. Len(p) : r[i] = f(i)
  BY <1>0, <1>1, <1>4
<1>6. \A i \in 1 .. Len(p) : /\ r[i].tr = p[i].tr /\ r[i].state = p[i].state
                             /\ r[i].left = IF p[i].left > d THEN p[i].left - d ELSE 0
  BY <1>4, <1>5
<1>7. \A i, j \in 1 .. Len(r) : i < j => r[i].left <= r[j].left
  <2>1. SUFFICES ASSUME NEW i \in 1 .. Len(p), NEW j \in 1 .. Len(p), i < j
                 PROVE  r[i].left <= r[j].left
    BY <1>5
  <2>2. p[i].left \in Nat /\ p[j].left \in Nat
    BY <1>2, EntryFields
  <2>3. p[i].left <= p[j].left
    BY <2>1 DEF Sleepers
  <2>4. /\ r[i].left = IF p[i].left > d THEN p[i].left - d ELSE 0
        /\ r[j].left = IF p[j].left > d THEN p[j].left - d ELSE 0
    BY <1>6
  <2> QED
    BY <2>2, <2>3, <2>4
<1>8. Len(r) <= PauseSize
  BY <1>0, <1>5
<1>9. \A i \in 1 .. Len(r) : Home[r[i].tr] = c /\ r[i].state = "RUNNING"
  BY <1>5, <1>6, Zenon DEF Sleepers
<1>10. \A i, j \in 1 .. Len(r) : r[i].tr = r[j].tr => i = j
  BY <1>5, <1>6, Zenon DEF Sleepers
<1>11. \A u : Has(r, u) <=> Has(p, u)
  BY <1>5, <1>6, Zenon DEF Has
<1>12. \A i \in 1 .. Len(p) : p[i].left = 0 => r[i].left = 0
  BY <1>6
<1> QED
  BY <1>5, <1>6, <1>7, <1>8, <1>9, <1>10, <1>11, <1>12, Zenon DEF Sleepers

LEMMA TailSeq ==
  ASSUME NEW c, NEW p, Sleepers(p, c), p # <<>>, NEW r, r = Tail(p)
  PROVE  /\ Sleepers(r, c) /\ \A u : Has(r, u) <=> Has(p, u) /\ u # p[1].tr
<1>0. p \in Seq(Entry) /\ Len(p) \in Nat /\ Len(p) <= PauseSize /\ Len(p) >= 1
  BY DEF Sleepers
<1>1. r \in Seq(Entry) /\ Len(r) = Len(p) - 1 /\ \A i \in 1 .. Len(r) : r[i] = p[i + 1]
  BY <1>0
<1>2. \A i \in 1 .. Len(r) : i + 1 \in 1 .. Len(p) /\ i + 1 # 1
  BY <1>0, <1>1
<1>3. \A i \in 1 .. Len(p) : i = 1 \/ (i - 1 \in 1 .. Len(r) /\ (i - 1) + 1 = i)
  BY <1>0, <1>1
<1>4. Len(r) <= PauseSize /\ 1 \in 1 .. Len(p)
  BY <1>0, <1>1, SizeAssumption
<1>5. \A i \in 1 .. Len(r) : Home[r[i].tr] = c /\ r[i].state = "RUNNING"
  BY <1>1, <1>2, ZenonT(60) DEF Sleepers
<1>6. \A i, j \in 1 .. Len(r) : r[i].tr = r[j].tr => i = j
  <2>1. SUFFICES ASSUME NEW i \in 1 .. Len(r), NEW j \in 1 .. Len(r), r[i].tr = r[j].tr PROVE i = j
    OBVIOUS
  <2>2. p[i + 1].tr = p[j + 1].tr
    BY <1>1, <2>1
  <2>3. i + 1 = j + 1
    BY <1>2, <2>2, Zenon DEF Sleepers
  <2> QED
    BY <2>3
<1>7. \A i, j \in 1 .. Len(r) : i < j => r[i].left <= r[j].left
  <2>1. SUFFICES ASSUME NEW i \in 1 .. Len(r), NEW j \in 1 .. Len(r), i < j PROVE r[i].left <= r[j].left
    OBVIOUS
  <2>2. i + 1 < j + 1
    BY <2>1
  <2>3. p[i + 1].left <= p[j + 1].left
    BY <1>2, <2>2, Zenon DEF Sleepers
  <2> QED
    BY <1>1, <2>3
<1>8. ASSUME NEW u, Has(r, u) PROVE Has(p, u) /\ u # p[1].tr
  <2>1. PICK i \in 1 .. Len(r) : r[i].tr = u
    BY <1>8 DEF Has
  <2>2. i + 1 \in 1 .. Len(p) /\ p[i + 1].tr = u /\ i + 1 # 1
    BY <1>1, <1>2, <2>1
  <2> QED
    BY <1>4, <2>2, Zenon DEF Has, Sleepers
<1>9. ASSUME NEW u, Has(p, u), u # p[1].tr PROVE Has(r, u)
  <2>1. PICK i \in 1 .. Len(p) : p[i].tr = u
    BY <1>9 DEF Has
  <2>2. i # 1
    BY <1>9, <2>1
  <2>3. i - 1 \in 1 .. Len(r) /\ r[i - 1] = p[i]
    BY <1>1, <1>3, <2>2
  <2> QED
    BY <2>1, <2>3 DEF Has
<1> QED
  BY <1>1, <1>4, <1>5, <1>6, <1>7, <1>8, <1>9, Zenon DEF Sleepers

LEMMA InsertSeq ==
  ASSUME NEW c, NEW p, Sleepers(p, c), NEW e \in Entry, e.state = "RUNNING", Home[e.tr] = c,
         ~ Has(p, e.tr), Len(p) # PauseSize, NEW r, r = PauseInsert(p, e)
  PROVE  /\ Sleepers(r, c) /\ \A u : Has(r, u) <=> Has(p, u) \/ u = e.tr
<1>0. p \in Seq(Entry) /\ Len(p) \in Nat /\ Len(p) <= PauseSize /\ e.left \in Nat
  BY DEF Sleepers, Entry
<1> DEFINE I == {i \in 1 .. Len(p) : p[i].left > e.left}
           later == SelectInSeq(p, LAMBDA x : x.left > e.left)
<1>1. \A i \in 1 .. Len(p) : p[i] \in Entry /\ p[i].left \in Nat
  BY <1>0, EntryFields
<1>2. \E k \in 1 .. Len(p) + 1 :
        /\ r \in Seq(Entry) /\ Len(r) = Len(p) + 1
        /\ \A i \in 1 .. Len(r) : r[i] = IF i < k THEN p[i] ELSE IF i = k THEN e ELSE p[i - 1]
        /\ \A i \in 1 .. Len(p) : IF i < k THEN p[i].left <= e.left ELSE e.left <= p[i].left
  <2>1. CASE I = {}
    <3>1. later = 0
      BY <2>1 DEF SelectInSeq
    <3>2. r = Append(p, e)
      BY <3>1 DEF PauseInsert
    <3>3. /\ r \in Seq(Entry) /\ Len(r) = Len(p) + 1 /\ r[Len(p) + 1] = e
          /\ \A i \in 1 .. Len(p) : r[i] = p[i]
      BY <1>0, <3>2
    <3> DEFINE k == Len(p) + 1
    <3>4. k \in 1 .. Len(p) + 1 /\ \A i \in 1 .. Len(p) : i < k
      BY <1>0
    <3>5. \A i \in 1 .. Len(r) : i = k \/ (i < k /\ i \in 1 .. Len(p))
      BY <1>0, <3>3
    <3>6. \A i \in 1 .. Len(p) : p[i].left <= e.left
      BY <1>0, <1>1, <2>1
    <3> HIDE DEF k
    <3>7. \A i \in 1 .. Len(r) : r[i] = IF i < k THEN p[i] ELSE IF i = k THEN e ELSE p[i - 1]
      BY <1>0, <3>3, <3>5, <3>4 DEF k
    <3> QED
      BY <3>3, <3>4, <3>6, <3>7
  <2>2. CASE I # {}
    <3>1. I \subseteq Nat
      OBVIOUS
    <3>2. later = Min(I)
      BY <2>2 DEF SelectInSeq
    <3>3. later \in I /\ \A y \in I : later <= y
      <4> HIDE DEF I, later
      <4> QED
        BY <2>2, <3>1, <3>2, MinIs
    <3>4. later # 0 /\ later \in 1 .. Len(p)
      BY <3>3
    <3>5. r = InsertAt(p, later, e)
      BY <3>4 DEF PauseInsert
    <3>6. later \in 1 .. Len(p) + 1 /\ p[later].left > e.left
      BY <1>0, <3>3
    <3>7. \A i \in 1 .. Len(p) : i < later => ~ (p[i].left > e.left)
      <4>1. \A i \in 1 .. Len(p) : p[i].left > e.left => later <= i
        BY <3>3
      <4> HIDE DEF later, I
      <4> QED
        BY <1>0, <3>4, <4>1
    <3> HIDE DEF later
    <3>8. /\ r \in Seq(Entry) /\ Len(r) = Len(p) + 1
          /\ \A i \in 1 .. Len(r) : r[i] = IF i < later THEN p[i] ELSE IF i = later THEN e ELSE p[i - 1]
      <4> HIDE DEF I
      <4>1. p \in Seq(Entry) /\ later \in 1 .. Len(p) /\ r = InsertAt(p, later, e)
        BY <1>0, <3>4, <3>5
      <4> QED
        <5>1. Inserted(Entry, p, later, e, r)
          BY <4>1, InsertOne
        <5> QED
          BY <5>1 DEF Inserted
    <3>9. ASSUME NEW i \in 1 .. Len(p)
          PROVE  IF i < later THEN p[i].left <= e.left ELSE e.left <= p[i].left
      <4>1. p[i].left \in Nat /\ p[later].left \in Nat
        BY <1>1, <3>4
      <4>2. later < i => p[later].left <= p[i].left
        BY <3>4 DEF Sleepers
      <4>3. i < later \/ i = later \/ later < i
        BY <3>4
      <4> QED
        BY <1>0, <3>6, <3>7, <4>1, <4>2, <4>3
    <3> QED
      BY <3>6, <3>8, <3>9
  <2> QED
    BY <2>1, <2>2
<1> HIDE DEF I, later
<1>3. PICK k \in 1 .. Len(p) + 1 :
        /\ r \in Seq(Entry) /\ Len(r) = Len(p) + 1
        /\ \A i \in 1 .. Len(r) : r[i] = IF i < k THEN p[i] ELSE IF i = k THEN e ELSE p[i - 1]
        /\ \A i \in 1 .. Len(p) : IF i < k THEN p[i].left <= e.left ELSE e.left <= p[i].left
  BY <1>2
<1>4. ASSUME NEW i \in 1 .. Len(r)
      PROVE  \/ i < k /\ i \in 1 .. Len(p) /\ r[i] = p[i]
             \/ i = k /\ r[i] = e
             \/ k < i /\ i - 1 \in 1 .. Len(p) /\ ~ (i - 1 < k) /\ r[i] = p[i - 1]
  <2>1. i < k => i \in 1 .. Len(p)
    BY <1>0, <1>3
  <2>2. k < i => i - 1 \in 1 .. Len(p) /\ ~ (i - 1 < k) /\ ~ (i < k) /\ i # k
    BY <1>0, <1>3
  <2>3. (i < k \/ i = k \/ k < i) /\ (i = k => ~ (i < k))
    BY <1>0
  <2>4. r[i] = IF i < k THEN p[i] ELSE IF i = k THEN e ELSE p[i - 1]
    BY <1>3
  <2> QED
    BY <2>1, <2>2, <2>3, <2>4
<1>5. \A i \in 1 .. Len(p) : \/ i < k /\ i \in 1 .. Len(r) /\ r[i] = p[i]
                             \/ i + 1 \in 1 .. Len(r) /\ r[i + 1] = p[i]
  <2>1. SUFFICES ASSUME NEW i \in 1 .. Len(p)
                 PROVE  \/ i < k /\ i \in 1 .. Len(r) /\ r[i] = p[i]
                        \/ i + 1 \in 1 .. Len(r) /\ r[i + 1] = p[i]
    OBVIOUS
  <2>2. i \in 1 .. Len(r) /\ i + 1 \in 1 .. Len(r) /\ (i + 1) - 1 = i
    BY <1>0, <1>3
  <2>3. ~ (i < k) => ~ (i + 1 < k) /\ i + 1 # k
    BY <1>0, <1>3
  <2> QED
    BY <1>3, <2>2, <2>3
<1>6. k \in 1 .. Len(r) /\ r[k] = e
  BY <1>0, <1>3
<1>7. Len(r) <= PauseSize
  BY <1>0, <1>3, SizeAssumption
<1>8. \A i \in 1 .. Len(r) : Home[r[i].tr] = c /\ r[i].state = "RUNNING"
  <2>1. SUFFICES ASSUME NEW i \in 1 .. Len(r)
                 PROVE  Home[r[i].tr] = c /\ r[i].state = "RUNNING"
    OBVIOUS
  <2>2. \A m \in 1 .. Len(p) : Home[p[m].tr] = c /\ p[m].state = "RUNNING"
    BY DEF Sleepers
  <2> QED
    BY <1>4, <2>2
<1>9. \A i, j \in 1 .. Len(r) : r[i].tr = r[j].tr => i = j
  <2>1. SUFFICES ASSUME NEW i \in 1 .. Len(r), NEW j \in 1 .. Len(r), r[i].tr = r[j].tr PROVE i = j
    OBVIOUS
  <2>2. \A m \in 1 .. Len(p) : p[m].tr # e.tr
    BY DEF Has
  <2>3. \A m, n \in 1 .. Len(p) : p[m].tr = p[n].tr => m = n
    BY DEF Sleepers
  <2>4. CASE i = k \/ j = k
    <3>1. \A m \in 1 .. Len(r) : m # k => r[m].tr # e.tr
      BY <1>4, <2>2, Zenon
    <3>2. r[k].tr = e.tr
      BY <1>6
    <3> QED
      BY <2>1, <2>4, <3>1, <3>2, Zenon
  <2>5. CASE i < k /\ j < k
    BY <1>4, <2>1, <2>3, <2>5
  <2>6. CASE k < i /\ k < j
    BY <1>4, <2>1, <2>3, <2>6
  <2>7. CASE i < k /\ k < j
    <3>1. i \in 1 .. Len(p) /\ r[i] = p[i]
      BY <1>4, <2>7
    <3>2. j - 1 \in 1 .. Len(p) /\ r[j] = p[j - 1] /\ ~ (j - 1 < k)
      BY <1>4, <2>7
    <3> QED
      BY <2>1, <2>3, <2>7, <3>1, <3>2
  <2>8. CASE k < i /\ j < k
    <3>1. j \in 1 .. Len(p) /\ r[j] = p[j]
      BY <1>4, <2>8
    <3>2. i - 1 \in 1 .. Len(p) /\ r[i] = p[i - 1] /\ ~ (i - 1 < k)
      BY <1>4, <2>8
    <3> QED
      BY <2>1, <2>3, <2>8, <3>1, <3>2
  <2> QED
    BY <1>0, <2>4, <2>5, <2>6, <2>7, <2>8
<1>10. \A i, j \in 1 .. Len(r) : i < j => r[i].left <= r[j].left
  <2>1. SUFFICES ASSUME NEW i \in 1 .. Len(r), NEW j \in 1 .. Len(r), i < j PROVE r[i].left <= r[j].left
    OBVIOUS
  <2>2. \A m, n \in 1 .. Len(p) : m < n => p[m].left <= p[n].left
    BY DEF Sleepers
  <2>3. \A m \in 1 .. Len(p) : IF m < k THEN p[m].left <= e.left ELSE e.left <= p[m].left
    BY <1>3
  <2>4. CASE i = k
    BY <1>4, <2>1, <2>3, <2>4
  <2>5. CASE j = k
    BY <1>4, <2>1, <2>3, <2>5
  <2>6. CASE i < k /\ j < k
    <3>1. i \in 1 .. Len(p) /\ r[i] = p[i] /\ j \in 1 .. Len(p) /\ r[j] = p[j]
      BY <1>4, <2>6
    <3> QED
      BY <2>1, <2>2, <3>1, Zenon
  <2>7. CASE k < i /\ k < j
    <3>1. i - 1 \in 1 .. Len(p) /\ r[i] = p[i - 1] /\ j - 1 \in 1 .. Len(p) /\ r[j] = p[j - 1]
      BY <1>4, <2>7
    <3>2. i - 1 < j - 1
      BY <2>1
    <3> QED
      BY <2>2, <3>1, <3>2
  <2>8. CASE i < k /\ k < j
    <3>1. i \in 1 .. Len(p) /\ r[i] = p[i] /\ j - 1 \in 1 .. Len(p) /\ r[j] = p[j - 1] /\ ~ (j - 1 < k)
      BY <1>4, <2>8
    <3>2. p[i].left \in Nat /\ p[j - 1].left \in Nat /\ e.left \in Nat
      BY <1>0, <1>1, <3>1
    <3>3. p[i].left <= e.left /\ e.left <= p[j - 1].left
      BY <2>3, <2>8, <3>1
    <3> QED
      BY <3>1, <3>2, <3>3
  <2> QED
    BY <1>0, <2>1, <2>4, <2>5, <2>6, <2>7, <2>8
<1>11. \A u : Has(r, u) <=> Has(p, u) \/ u = e.tr
  BY <1>4, <1>5, <1>6, ZenonT(60) DEF Has
<1> QED
  BY <1>3, <1>7, <1>8, <1>9, <1>10, <1>11, Zenon DEF Sleepers

LEMMA SleeperAt ==
  ASSUME NEW p, NEW t, NEW k, k = SelectInSeq(p, LAMBDA x : x.tr = t)
  PROVE  /\ k # 0 => k \in 1 .. Len(p) /\ p[k].tr = t
         /\ k = 0 => ~ Has(p, t)
<1> DEFINE I == {i \in 1 .. Len(p) : p[i].tr = t}
<1>1. CASE I = {}
  <2>1. k = 0
    BY <1>1 DEF SelectInSeq
  <2> QED
    BY <1>1, <2>1 DEF Has
<1>2. CASE I # {}
  <2>1. k = Min(I)
    BY <1>2 DEF SelectInSeq
  <2>2. I \subseteq Nat
    OBVIOUS
  <2>3. k \in I
    <3> HIDE DEF I
    <3> QED
      BY <1>2, <2>1, <2>2, MinIs
  <2> QED
    BY <2>3
<1> QED
  BY <1>1, <1>2

(* The entry at k has become the first one, and is due. *)
Moved(p, k, r) ==
  /\ r \in Seq(Entry) /\ Len(r) = Len(p)
  /\ r[1].tr = p[k].tr /\ r[1].state = p[k].state /\ r[1].left = 0
  /\ \A i \in 2 .. Len(p) : r[i] = IF i - 1 < k THEN p[i - 1] ELSE p[i]

Prefixed(S, g, a, r) ==
  /\ r \in Seq(S) /\ Len(r) = Len(a) + 1 /\ r[1] = g
  /\ \A i \in 1 .. Len(a) : r[1 + i] = a[i]

LEMMA PutFirst ==
  ASSUME NEW S, NEW g \in S, NEW a \in Seq(S), NEW r, r = <<g>> \o a
  PROVE  Prefixed(S, g, a, r)
<1>1. PICK h : h = <<g>>
  OBVIOUS
<1>2. h \in Seq(S) /\ Len(h) = 1 /\ h[1] = g
  BY <1>1
<1>3. r = h \o a
  BY <1>1
<1>4. h \o a \in Seq(S) /\ Len(h \o a) = Len(h) + Len(a)
  BY <1>2, ConcatProperties, Zenon
<1>5. \A i \in 1 .. Len(h) + Len(a) : (h \o a)[i] = IF i <= Len(h) THEN h[i] ELSE a[i - Len(h)]
  BY <1>2, ConcatProperties, Zenon
<1>6. Len(a) \in Nat
  OBVIOUS
<1>7. r \in Seq(S) /\ Len(r) = 1 + Len(a)
  BY <1>2, <1>3, <1>4, Zenon
<1>8. \A i \in 1 .. 1 + Len(a) : r[i] = IF i <= 1 THEN h[i] ELSE a[i - 1]
  BY <1>2, <1>3, <1>5, Zenon
<1>9. 1 \in 1 .. 1 + Len(a) /\ \A i \in 1 .. Len(a) : 1 + i \in 1 .. 1 + Len(a) /\ ~ (1 + i <= 1) /\ (1 + i) - 1 = i
  BY <1>6
<1>10. r[1] = g
  BY <1>2, <1>8, <1>9
<1>11. ASSUME NEW i \in 1 .. Len(a) PROVE r[1 + i] = a[i]
  BY <1>8, <1>9
<1> QED
  BY <1>6, <1>7, <1>10, <1>11 DEF Prefixed

LEMMA MovedIs ==
  ASSUME NEW p \in Seq(Entry), NEW k \in 1 .. Len(p), NEW r,
         r = <<[p[k] EXCEPT !.left = 0]>> \o RemoveAt(p, k)
  PROVE  Moved(p, k, r)
<1>0. Len(p) \in Nat /\ p[k] \in Entry
  OBVIOUS
<1>2. /\ RemoveAt(p, k) \in Seq(Entry) /\ Len(RemoveAt(p, k)) = Len(p) - 1
      /\ \A i \in 1 .. Len(RemoveAt(p, k)) : RemoveAt(p, k)[i] = IF i < k THEN p[i] ELSE p[i + 1]
  BY RemoveOne
<1>3. PICK g : g = [p[k] EXCEPT !.left = 0]
  OBVIOUS
<1>4. g \in Entry /\ g.tr = p[k].tr /\ g.state = p[k].state /\ g.left = 0
  BY <1>0, <1>3, EntryDue
<1>5. PICK a : a = RemoveAt(p, k)
  OBVIOUS
<1>6. r \in Seq(Entry) /\ Len(r) = Len(a) + 1 /\ r[1] = g /\ \A i \in 1 .. Len(a) : r[1 + i] = a[i]
  <2>1. a \in Seq(Entry) /\ r = <<g>> \o a
    BY <1>2, <1>3, <1>5
  <2>2. Prefixed(Entry, g, a, r)
    BY <1>4, <2>1, PutFirst
  <2> QED
    BY <2>2 DEF Prefixed
<1>7. Len(a) = Len(p) - 1 /\ \A i \in 1 .. Len(a) : a[i] = IF i < k THEN p[i] ELSE p[i + 1]
  BY <1>2, <1>5, Zenon
<1>8. Len(r) = Len(p)
  BY <1>0, <1>6, <1>7
<1>9. ASSUME NEW i \in 2 .. Len(p) PROVE r[i] = IF i - 1 < k THEN p[i - 1] ELSE p[i]
  <2>1. i - 1 \in 1 .. Len(a) /\ 1 + (i - 1) = i /\ (i - 1) + 1 = i
    BY <1>0, <1>7
  <2> DEFINE j == i - 1
  <2>2. r[1 + j] = a[j] /\ a[j] = IF j < k THEN p[j] ELSE p[j + 1]
    BY <1>6, <1>7, <2>1, Zenon
  <2> QED
    BY <2>1, <2>2
<1> QED
  BY <1>4, <1>6, <1>8, <1>9 DEF Moved

LEMMA MovedSeq ==
  ASSUME NEW c, NEW p, Sleepers(p, c), NEW k \in 1 .. Len(p), NEW r, Moved(p, k, r)
  PROVE  /\ Sleepers(r, c) /\ \A u : Has(r, u) <=> Has(p, u)
<1>0. Len(p) \in Nat /\ Len(p) <= PauseSize /\ k \in Nat /\ 1 <= k /\ k <= Len(p) /\ 1 \in 1 .. Len(p)
  BY DEF Sleepers
<1>1. r \in Seq(Entry) /\ Len(r) = Len(p) /\ r[1].left = 0 /\ r[1].tr = p[k].tr /\ r[1].state = p[k].state
  BY DEF Moved
<1>2. ASSUME NEW i \in 1 .. Len(p), i # 1
      PROVE  \E m \in 1 .. Len(p) : r[i] = p[m] /\ ((m = i - 1 /\ m < k) \/ (m = i /\ k < m))
  <2>1. i \in 2 .. Len(p) /\ i - 1 \in 1 .. Len(p)
    BY <1>0, <1>2
  <2>2. r[i] = IF i - 1 < k THEN p[i - 1] ELSE p[i]
    BY <2>1 DEF Moved
  <2>3. ~ (i - 1 < k) => k < i
    BY <1>0
  <2> QED
    BY <2>1, <2>2, <2>3
<1>3. ASSUME NEW i \in 1 .. Len(p)
      PROVE  \E m \in 1 .. Len(p) : /\ r[i].tr = p[m].tr /\ r[i].state = p[m].state
                                    /\ ((i = 1 /\ m = k) \/ (i # 1 /\ m = i - 1 /\ m < k) \/ (i # 1 /\ m = i /\ k < m))
  BY <1>1, <1>2, Zenon
<1>4. ASSUME NEW i \in 1 .. Len(p) PROVE \E j \in 1 .. Len(p) : r[j].tr = p[i].tr
  <2>1. CASE i = k
    BY <1>0, <1>1, <2>1, Zenon
  <2>2. CASE i < k
    <3>1. i + 1 \in 2 .. Len(p) /\ i + 1 \in 1 .. Len(p) /\ (i + 1) - 1 = i
      BY <1>0, <2>2
    <3>2. r[i + 1] = p[i]
      BY <2>2, <3>1 DEF Moved
    <3> QED
      BY <3>1, <3>2, Zenon
  <2>3. CASE k < i
    <3>1. i \in 2 .. Len(p) /\ ~ (i - 1 < k)
      BY <1>0, <2>3
    <3>2. r[i] = p[i]
      BY <3>1 DEF Moved
    <3> QED
      BY <3>2, Zenon
  <2> QED
    BY <1>0, <2>1, <2>2, <2>3
<1>5. \A i \in 1 .. Len(r) : Home[r[i].tr] = c /\ r[i].state = "RUNNING"
  <2>1. \A m \in 1 .. Len(p) : Home[p[m].tr] = c /\ p[m].state = "RUNNING"
    BY DEF Sleepers
  <2> QED
    <3>1. SUFFICES ASSUME NEW i \in 1 .. Len(p) PROVE Home[r[i].tr] = c /\ r[i].state = "RUNNING"
      BY <1>1
    <3>2. PICK m \in 1 .. Len(p) : r[i].tr = p[m].tr /\ r[i].state = p[m].state
      BY <1>3, Zenon
    <3> QED
      BY <2>1, <3>2
<1>6. \A i, j \in 1 .. Len(r) : r[i].tr = r[j].tr => i = j
  <2>1. SUFFICES ASSUME NEW i \in 1 .. Len(p), NEW j \in 1 .. Len(p), r[i].tr = r[j].tr PROVE i = j
    BY <1>1
  <2>2. \A m, n \in 1 .. Len(p) : p[m].tr = p[n].tr => m = n
    BY DEF Sleepers
  <2>4. PICK m \in 1 .. Len(p) : /\ r[i].tr = p[m].tr
                                 /\ ((i = 1 /\ m = k) \/ (i # 1 /\ m = i - 1 /\ m < k) \/ (i # 1 /\ m = i /\ k < m))
    BY <1>3, Zenon
  <2>5. PICK n \in 1 .. Len(p) : /\ r[j].tr = p[n].tr
                                 /\ ((j = 1 /\ n = k) \/ (j # 1 /\ n = j - 1 /\ n < k) \/ (j # 1 /\ n = j /\ k < n))
    BY <1>3, Zenon
  <2>6. m = n
    BY <2>1, <2>2, <2>4, <2>5, Zenon
  <2> QED
    BY <1>0, <2>4, <2>5, <2>6
<1>7. \A i, j \in 1 .. Len(r) : i < j => r[i].left <= r[j].left
  <2>1. SUFFICES ASSUME NEW i \in 1 .. Len(p), NEW j \in 1 .. Len(p), i < j PROVE r[i].left <= r[j].left
    BY <1>1
  <2>2. \A m, n \in 1 .. Len(p) : m < n => p[m].left <= p[n].left
    BY DEF Sleepers
  <2>3. r[j] \in Entry /\ r[j].left \in Nat
    BY <1>1, EntryFields
  <2>4. CASE i = 1
    BY <1>1, <2>3, <2>4
  <2>5. CASE i # 1
    <3>1. PICK m \in 1 .. Len(p) : r[i] = p[m] /\ ((m = i - 1 /\ m < k) \/ (m = i /\ k < m))
      BY <1>2, <2>5, Zenon
    <3>2. j # 1
      BY <2>1
    <3>3. PICK n \in 1 .. Len(p) : r[j] = p[n] /\ ((n = j - 1 /\ n < k) \/ (n = j /\ k < n))
      BY <1>2, <3>2, Zenon
    <3>4. m < n
      BY <1>0, <2>1, <3>1, <3>3
    <3> QED
      BY <2>2, <3>1, <3>3, <3>4, Zenon
  <2> QED
    BY <2>4, <2>5
<1>8. \A u : Has(r, u) <=> Has(p, u)
  <2>1. \A i \in 1 .. Len(p) : \E m \in 1 .. Len(p) : r[i].tr = p[m].tr
    BY <1>3, Zenon
  <2>2. \A i \in 1 .. Len(p) : \E m \in 1 .. Len(p) : r[m].tr = p[i].tr
    BY <1>4, Zenon
  <2>3. 1 .. Len(r) = 1 .. Len(p)
    BY <1>1
  <2>4. ASSUME NEW u, Has(r, u) PROVE Has(p, u)
    BY <2>1, <2>3, <2>4, Zenon DEF Has
  <2>5. ASSUME NEW u, Has(p, u) PROVE Has(r, u)
    BY <2>2, <2>3, <2>5, Zenon DEF Has
  <2> QED
    BY <2>4, <2>5
<1> QED
  BY <1>0, <1>1, <1>5, <1>6, <1>7, <1>8, Zenon DEF Sleepers

-----------------------------------------------------------------------------
(* What the queues say about threads, and the thread of the first timer. *)
queued == {t \in Thread : Contains(sched_queue[Home[t]], t)}
asleep == {t \in Thread : Has(pause_queue[Home[t]], t)}
first == [c \in CPU |-> pause_queue[c][1].tr]

RunQueues ==
  /\ sched_queue \in [CPU -> Seq(Thread)] /\ position \in [CPU -> Nat]
  /\ \A c \in CPU : /\ RunQueue(sched_queue[c], c)
                    /\ position[c] = 0 \/ position[c] < Len(sched_queue[c])

SleepQueues ==
  /\ pause_queue \in [CPU -> Seq(Entry)]
  /\ \A c \in CPU : Sleepers(pause_queue[c], c)

LEMMA HomeIsCPU ==
  ASSUME NEW t \in Thread
  PROVE  Home[t] \in CPU
BY CPUAssumption

LEMMA Remainder ==
  ASSUME NEW a \in Int, NEW n \in Nat \ {0}
  PROVE  a % n \in Nat /\ a % n < n
OBVIOUS

LEMMA BackInside ==
  ASSUME NEW p \in Nat, NEW n \in Nat
  PROVE  PositionBack(p, n) \in Nat /\ (PositionBack(p, n) = 0 \/ PositionBack(p, n) < n)
<1>1. CASE n = 0
  BY <1>1 DEF PositionBack
<1>2. CASE n # 0 /\ p = 0
  <2> DEFINE m == 65536 % n
             k == m * m + n - 1
  <2>1. m \in Nat
    BY <1>2, Remainder
  <2> HIDE DEF m
  <2>2. k \in Int
    BY <2>1
  <2>3. PositionBack(p, n) = k % n
    BY <1>2 DEF PositionBack, m
  <2> HIDE DEF k
  <2> QED
    BY <1>2, <2>2, <2>3, Remainder
<1>3. CASE n # 0 /\ p # 0
  <2>1. p - 1 \in Int /\ PositionBack(p, n) = (p - 1) % n
    BY <1>3 DEF PositionBack
  <2> QED
    BY <1>3, <2>1, Remainder
<1> QED
  BY <1>1, <1>2, <1>3

LEMMA QueuesKept ==
  ASSUME RunQueues, UNCHANGED <<sched_queue, position>>
  PROVE  RunQueues' /\ queued' = queued
BY DEF RunQueues, queued, RunQueue, Contains

LEMMA Gap ==
  ASSUME RunQueues, NEW t \in queued, CloseGap(Home[t], t)
  PROVE  RunQueues' /\ queued' = queued \ {t}
<1> DEFINE c == Home[t]
           q == sched_queue[c]
           r == RemoveFirst(q, t)
<1>0. t \in Thread /\ c \in CPU /\ Contains(q, t) /\ RunQueue(q, c)
  BY HomeIsCPU DEF queued, RunQueues
<1>1. RunQueue(r, c) /\ Len(r) = Len(q) - 1 /\ \A u : Contains(r, u) <=> Contains(q, u) /\ u # t
  <2> HIDE DEF c, q
  <2> QED
    BY <1>0, GapSeq
<1>2. Len(q) \in Nat /\ Len(q) >= 1 /\ r \in Seq(Thread)
  BY <1>0, <1>1 DEF RunQueue, Contains
<1>3. position[c] \in Nat /\ sched_queue \in [CPU -> Seq(Thread)] /\ position \in [CPU -> Nat]
  BY <1>0 DEF RunQueues
<1> DEFINE b == PositionBack(position[c], Len(q) - 1)
<1>4. sched_queue' = [sched_queue EXCEPT ![c] = r] /\ position' = [position EXCEPT ![c] = b]
  BY DEF CloseGap
<1>5. b \in Nat /\ (b = 0 \/ b < Len(r))
  <2>1. Len(q) - 1 \in Nat
    BY <1>2
  <2> QED
    BY <1>1, <1>3, <2>1, BackInside
<1> HIDE DEF r, b
<1>6. sched_queue' \in [CPU -> Seq(Thread)] /\ position' \in [CPU -> Nat]
  BY <1>2, <1>3, <1>4, <1>5
<1>7. ASSUME NEW d \in CPU
      PROVE  /\ RunQueue(sched_queue'[d], d)
             /\ position'[d] = 0 \/ position'[d] < Len(sched_queue'[d])
  <2>1. CASE d = c
    <3>1. sched_queue'[d] = r /\ position'[d] = b
      BY <1>3, <1>4, <2>1
    <3> QED
      BY <1>1, <1>5, <2>1, <3>1
  <2>2. CASE d # c
    <3>1. sched_queue'[d] = sched_queue[d] /\ position'[d] = position[d]
      BY <1>3, <1>4, <2>2
    <3> QED
      BY <3>1 DEF RunQueues
  <2> QED
    BY <2>1, <2>2
<1>8. RunQueues'
  BY <1>6, <1>7 DEF RunQueues, RunQueue
<1>9. ASSUME NEW u \in Thread
      PROVE  Contains(sched_queue'[Home[u]], u) <=> Contains(sched_queue[Home[u]], u) /\ u # t
  <2>1. CASE Home[u] = c
    <3>1. sched_queue'[Home[u]] = r
      BY <1>0, <1>3, <1>4, <2>1
    <3> QED
      BY <1>1, <2>1, <3>1
  <2>2. CASE Home[u] # c
    <3>1. sched_queue'[Home[u]] = sched_queue[Home[u]] /\ u # t
      BY <1>3, <1>4, <2>2, HomeIsCPU
    <3> QED
      BY <3>1
  <2> QED
    BY <2>1, <2>2
<1>10. queued' = {u \in Thread : Contains(sched_queue'[Home[u]], u)}
  BY DEF queued, Contains
<1>11. queued' = queued \ {t}
  BY <1>9, <1>10, Zenon DEF queued
<1> QED
  BY <1>8, <1>11

LEMMA Appended ==
  ASSUME RunQueues, NEW t \in Thread, t \notin queued, Append1(Home[t], t), UNCHANGED position
  PROVE  /\ RunQueues'
         /\ queued' = IF Len(sched_queue[Home[t]]) = SchedSize THEN queued ELSE queued \cup {t}
<1> DEFINE c == Home[t]
           q == sched_queue[c]
           r == IF Len(q) = SchedSize THEN q ELSE Append(q, t)
<1>0. c \in CPU /\ ~ Contains(q, t) /\ RunQueue(q, c)
  BY HomeIsCPU DEF queued, RunQueues
<1>1. /\ RunQueue(r, c) /\ Len(r) >= Len(q)
      /\ \A u : Contains(r, u) <=> Contains(q, u) \/ (u = t /\ Len(q) # SchedSize)
  <2>1. CASE Len(q) = SchedSize
    BY <1>0, <2>1 DEF RunQueue
  <2>2. CASE Len(q) # SchedSize
    <3>1. r = Append(q, t) /\ Home[t] = c /\ Len(q) \in Nat
      BY <1>0, <2>2 DEF RunQueue
    <3> HIDE DEF c, q, r
    <3>2. RunQueue(r, c) /\ Len(r) = Len(q) + 1 /\ \A u : Contains(r, u) <=> Contains(q, u) \/ u = t
      BY <1>0, <2>2, <3>1, AppendSeq
    <3> QED
      BY <2>2, <3>1, <3>2
  <2> QED
    BY <2>1, <2>2
<1>2. Len(q) \in Nat /\ Len(r) \in Nat /\ r \in Seq(Thread)
  BY <1>0, <1>1 DEF RunQueue
<1>3. /\ position[c] \in Nat /\ (position[c] = 0 \/ position[c] < Len(q))
      /\ sched_queue \in [CPU -> Seq(Thread)] /\ position \in [CPU -> Nat]
  BY <1>0 DEF RunQueues
<1>4. sched_queue' = [sched_queue EXCEPT ![c] = r] /\ position' = position
  BY DEF Append1
<1> HIDE DEF r
<1>6. sched_queue' \in [CPU -> Seq(Thread)]
  BY <1>2, <1>3, <1>4
<1>7. ASSUME NEW d \in CPU
      PROVE  /\ RunQueue(sched_queue'[d], d)
             /\ position[d] = 0 \/ position[d] < Len(sched_queue'[d])
  <2>1. CASE d = c
    <3>1. sched_queue'[d] = r
      BY <1>3, <1>4, <2>1
    <3>2. position[c] = 0 \/ position[c] < Len(r)
      BY <1>1, <1>2, <1>3
    <3> QED
      BY <1>1, <2>1, <3>1, <3>2
  <2>2. CASE d # c
    <3>1. sched_queue'[d] = sched_queue[d]
      BY <1>3, <1>4, <2>2
    <3> QED
      BY <3>1 DEF RunQueues
  <2> QED
    BY <2>1, <2>2
<1>8. RunQueues'
  BY <1>3, <1>4, <1>6, <1>7 DEF RunQueues, RunQueue
<1>9. ASSUME NEW u \in Thread
      PROVE  Contains(sched_queue'[Home[u]], u) <=>
               Contains(sched_queue[Home[u]], u) \/ (u = t /\ Len(q) # SchedSize)
  <2>1. CASE Home[u] = c
    <3>1. sched_queue'[Home[u]] = r
      BY <1>0, <1>3, <1>4, <2>1
    <3> QED
      BY <1>1, <2>1, <3>1
  <2>2. CASE Home[u] # c
    <3>1. sched_queue'[Home[u]] = sched_queue[Home[u]] /\ u # t
      BY <1>3, <1>4, <2>2, HomeIsCPU
    <3> QED
      BY <3>1
  <2> QED
    BY <2>1, <2>2
<1>10. queued' = {u \in Thread : Contains(sched_queue'[Home[u]], u)}
  BY DEF queued, Contains
<1>11. queued' = IF Len(q) = SchedSize THEN queued ELSE queued \cup {t}
  BY <1>9, <1>10, Zenon DEF queued
<1> QED
  BY <1>8, <1>11

LEMMA SleepersKept ==
  ASSUME SleepQueues, UNCHANGED pause_queue
  PROVE  SleepQueues' /\ asleep' = asleep /\ first' = first
BY DEF SleepQueues, asleep, first, Sleepers, Has

(* The queue of sleepers of c becomes r. *)
NewSleepers(c, r) == pause_queue' = [pause_queue EXCEPT ![c] = r]
FirstKept(c) == \A d \in CPU \ {c} : first'[d] = first[d]

LEMMA SleepersChange ==
  ASSUME SleepQueues, NEW c \in CPU, NEW r, Sleepers(r, c), NewSleepers(c, r)
  PROVE  /\ SleepQueues' /\ FirstKept(c) /\ first'[c] = r[1].tr
         /\ \A u \in Thread : u \in asleep' <=> IF Home[u] = c THEN Has(r, u) ELSE u \in asleep
<1>0. pause_queue \in [CPU -> Seq(Entry)] /\ r \in Seq(Entry)
  BY DEF SleepQueues, Sleepers
<1>1. /\ pause_queue' \in [CPU -> Seq(Entry)] /\ pause_queue'[c] = r
      /\ \A d \in CPU : d # c => pause_queue'[d] = pause_queue[d]
  BY <1>0 DEF NewSleepers
<1>2. \A d \in CPU : Sleepers(pause_queue'[d], d)
  BY <1>1 DEF SleepQueues
<1>3. SleepQueues'
  BY <1>1, <1>2 DEF SleepQueues, Sleepers
<1>4. first' = [d \in CPU |-> pause_queue'[d][1].tr]
  BY DEF first
<1>5. FirstKept(c)
  <2>1. SUFFICES ASSUME NEW d \in CPU \ {c} PROVE first'[d] = first[d]
    BY DEF FirstKept
  <2>2. pause_queue'[d] = pause_queue[d]
    BY <1>1
  <2> QED
    BY <1>4, <2>2 DEF first
<1>6. first'[c] = r[1].tr
  BY <1>1, <1>4
<1>7. asleep' = {u \in Thread : Has(pause_queue'[Home[u]], u)}
  BY DEF asleep, Has
<1>8. ASSUME NEW u \in Thread
      PROVE  u \in asleep' <=> IF Home[u] = c THEN Has(r, u) ELSE u \in asleep
  <2>1. u \in asleep' <=> Has(pause_queue'[Home[u]], u)
    BY <1>7
  <2>2. CASE Home[u] = c
    BY <1>1, <2>1, <2>2
  <2>3. CASE Home[u] # c
    <3>1. pause_queue'[Home[u]] = pause_queue[Home[u]]
      BY <1>1, <2>3, HomeIsCPU
    <3> QED
      BY <2>1, <2>3, <3>1 DEF asleep
  <2> QED
    BY <2>2, <2>3
<1> QED
  BY <1>3, <1>5, <1>6, <1>8

LEMMA Elapsed ==
  ASSUME SleepQueues, NEW c \in CPU, NEW d \in 0 .. MaxTick,
         pause_queue' = [pause_queue EXCEPT ![c] = Elapse(@, d)]
  PROVE  SleepQueues' /\ asleep' = asleep /\ FirstKept(c)
<1>1. PICK p, r : p = pause_queue[c] /\ r = Elapse(p, d)
  OBVIOUS
<1>2. Sleepers(p, c) /\ d \in Nat
  BY <1>1, TimeAssumption DEF SleepQueues
<1>3. Sleepers(r, c) /\ \A u : Has(r, u) <=> Has(p, u)
  BY <1>1, <1>2, ElapseSeq
<1>4. NewSleepers(c, r)
  BY <1>1 DEF NewSleepers
<1>5. /\ SleepQueues' /\ FirstKept(c)
      /\ \A u \in Thread : u \in asleep' <=> IF Home[u] = c THEN Has(r, u) ELSE u \in asleep
  BY <1>3, <1>4, SleepersChange
<1>6. \A u \in Thread : Home[u] = c => (Has(p, u) <=> u \in asleep)
  BY <1>1 DEF asleep
<1>7. asleep' \subseteq Thread /\ asleep \subseteq Thread
  BY DEF asleep
<1>8. \A u \in Thread : u \in asleep' <=> u \in asleep
  BY <1>3, <1>5, <1>6, Zenon
<1> QED
  BY <1>5, <1>7, <1>8

LEMMA FellAsleep ==
  ASSUME SleepQueues, NEW t \in Thread, t \notin asleep, NEW m \in Nat,
         Len(pause_queue[Home[t]]) # PauseSize,
         pause_queue' = [pause_queue EXCEPT ![Home[t]] =
           PauseInsert(@, [tr |-> t, state |-> "RUNNING", left |-> m, slept |-> 0])]
  PROVE  SleepQueues' /\ asleep' = asleep \cup {t} /\ FirstKept(Home[t])
<1> DEFINE c == Home[t]
<1>0. c \in CPU
  BY HomeIsCPU
<1>1. PICK e : e = [tr |-> t, state |-> "RUNNING", left |-> m, slept |-> 0]
  OBVIOUS
<1>2. e \in Entry /\ e.tr = t /\ e.state = "RUNNING"
  BY <1>1 DEF Entry
<1>3. PICK p, r : p = pause_queue[c] /\ r = PauseInsert(p, e)
  OBVIOUS
<1>4. NewSleepers(c, r)
  BY <1>1, <1>3 DEF NewSleepers
<1>5. Sleepers(p, c) /\ ~ Has(p, e.tr) /\ Len(p) # PauseSize /\ Home[e.tr] = c
  BY <1>0, <1>2, <1>3 DEF SleepQueues, asleep
<1> HIDE DEF c
<1>6. Sleepers(r, c) /\ \A u : Has(r, u) <=> Has(p, u) \/ u = e.tr
  BY <1>2, <1>3, <1>5, InsertSeq
<1>7. /\ SleepQueues' /\ FirstKept(c)
      /\ \A u \in Thread : u \in asleep' <=> IF Home[u] = c THEN Has(r, u) ELSE u \in asleep
  BY <1>0, <1>4, <1>6, SleepersChange
<1>8. \A u \in Thread : Home[u] = c => (Has(p, u) <=> u \in asleep)
  BY <1>3 DEF asleep
<1>9. asleep' \subseteq Thread /\ asleep \subseteq Thread
  BY DEF asleep
<1>10. \A u \in Thread : u \in asleep' <=> u \in asleep \/ u = t
  BY <1>2, <1>6, <1>7, <1>8, Zenon DEF c
<1> QED
  BY <1>7, <1>9, <1>10 DEF c

LEMMA Restarted ==
  ASSUME SleepQueues, NEW t \in Thread, NEW k \in 1 .. Len(pause_queue[Home[t]]),
         pause_queue' = [pause_queue EXCEPT ![Home[t]] =
           <<[@[k] EXCEPT !.left = 0]>> \o RemoveAt(@, k)]
  PROVE  SleepQueues' /\ asleep' = asleep /\ FirstKept(Home[t])
<1> DEFINE c == Home[t]
<1>0. c \in CPU
  BY HomeIsCPU
<1>1. PICK p, r : p = pause_queue[c] /\ r = <<[p[k] EXCEPT !.left = 0]>> \o RemoveAt(p, k)
  OBVIOUS
<1>2. NewSleepers(c, r)
  BY <1>1 DEF NewSleepers
<1>3. Sleepers(p, c) /\ p \in Seq(Entry) /\ k \in 1 .. Len(p)
  BY <1>0, <1>1 DEF SleepQueues, Sleepers
<1>4. Moved(p, k, r)
  BY <1>1, <1>3, MovedIs
<1> HIDE DEF c
<1>5. Sleepers(r, c) /\ \A u : Has(r, u) <=> Has(p, u)
  BY <1>3, <1>4, MovedSeq
<1>6. /\ SleepQueues' /\ FirstKept(c)
      /\ \A u \in Thread : u \in asleep' <=> IF Home[u] = c THEN Has(r, u) ELSE u \in asleep
  BY <1>0, <1>2, <1>5, SleepersChange
<1>7. \A u \in Thread : Home[u] = c => (Has(p, u) <=> u \in asleep)
  BY <1>1 DEF asleep
<1>8. asleep' \subseteq Thread /\ asleep \subseteq Thread
  BY DEF asleep
<1>9. \A u \in Thread : u \in asleep' <=> u \in asleep
  BY <1>5, <1>6, <1>7, Zenon
<1> QED
  BY <1>6, <1>8, <1>9 DEF c

LEMMA WokeUp ==
  ASSUME SleepQueues, NEW c \in CPU, first[c] \in asleep, Home[first[c]] = c,
         pause_queue' = [pause_queue EXCEPT ![c] = Tail(@)]
  PROVE  SleepQueues' /\ asleep' = asleep \ {first[c]} /\ FirstKept(c)
<1>1. PICK p, r : p = pause_queue[c] /\ r = Tail(p)
  OBVIOUS
<1>2. NewSleepers(c, r)
  BY <1>1 DEF NewSleepers
<1>3. Sleepers(p, c) /\ first[c] = p[1].tr /\ p # <<>>
  BY <1>1 DEF SleepQueues, first, asleep, Has
<1>4. Sleepers(r, c) /\ \A u : Has(r, u) <=> Has(p, u) /\ u # p[1].tr
  BY <1>1, <1>3, TailSeq
<1>6. /\ SleepQueues' /\ FirstKept(c)
      /\ \A u \in Thread : u \in asleep' <=> IF Home[u] = c THEN Has(r, u) ELSE u \in asleep
  BY <1>2, <1>4, SleepersChange
<1>7. \A u \in Thread : Home[u] = c => (Has(p, u) <=> u \in asleep)
  BY <1>1 DEF asleep
<1>8. asleep' \subseteq Thread /\ asleep \subseteq Thread
  BY DEF asleep
<1>9. \A u \in Thread : u \in asleep' <=> u \in asleep /\ u # first[c]
  BY <1>3, <1>4, <1>6, <1>7, Zenon
<1> QED
  BY <1>6, <1>8, <1>9

-----------------------------------------------------------------------------
Firing == {"t_duration", "t_cpu"}
Moving == {"dequeued", "s_store", "queue", "q_cpu", "sub_queue"}

(* A thread that has asked to sleep and still runs; its timer goes off. *)
Window(t) == requesting_thread[Home[t]] = t /\ mode[Home[t]] \in {"run", "back"}
Fires(t) == mode[Home[t]] \in Firing /\ first[Home[t]] = t

Types ==
  /\ requesting_thread \in [CPU -> Thread \cup {NoThread}]
  /\ current_thread \in [CPU -> Thread \cup {NoThread}]
  /\ mode \in [CPU -> {"run", "back", "last", "timers", "t_duration", "t_cpu"}]
  /\ state \in [Thread -> {"RUNNING", "DORMANT", "SUSPENDED"}]
  /\ cpu \in [Thread -> CPU \cup {-1}]
  /\ duration \in [Thread -> {0, 1}]
  /\ pc \in [Thread -> {"user", "waiting", "yield", "woken", "commit"} \cup Waking]
  /\ dest \in [Thread -> Thread]
  /\ lock \in [Thread -> Thread \cup {NoThread}]
  /\ roused \in [Thread -> BOOLEAN]
  /\ failed \in Assertion \cup {"none"}

(* What is pending on processor c: a thread that asked to sleep is on its  *)
(* way out, the thread that runs is queued, and one whose timer goes off   *)
(* is runnable and not queued yet.                                         *)
ProcessorOK(c) ==
  /\ requesting_thread[c] # NoThread =>
       /\ Home[requesting_thread[c]] = c /\ state[requesting_thread[c]] # "SUSPENDED"
       /\ mode[c] \in {"run", "back", "last"}
       /\ mode[c] = "run" => pc[requesting_thread[c]] = "yield"
       /\ mode[c] # "run" => pc[requesting_thread[c]] = "woken"
       /\ mode[c] = "last" <=> requesting_thread[c] \notin queued
  /\ mode[c] = "last" => requesting_thread[c] # NoThread
  /\ mode[c] = "run" /\ current_thread[c] # NoThread =>
       Home[current_thread[c]] = c /\ current_thread[c] \in queued
  /\ mode[c] \in Firing =>
       /\ first[c] \in asleep /\ Home[first[c]] = c
       /\ state[first[c]] = "RUNNING" /\ first[c] \notin queued

(* Queues, state and timer of thread t agree. *)
ThreadOK(t) ==
  /\ t \in queued => state[t] = "RUNNING"
  /\ state[t] = "SUSPENDED" => t \notin asleep /\ pc[t] = "user"
  /\ t \in asleep => (state[t] = "DORMANT" /\ duration[t] # 0) \/ Window(t) \/ Fires(t)
  /\ state[t] = "DORMANT" /\ duration[t] # 0 => t \in asleep
  /\ Window(t) => (t \in asleep <=> duration[t] # 0)
  /\ pc[t] = "yield" => mode[Home[t]] = "run" /\ current_thread[Home[t]] = t
  /\ pc[t] = "waiting" => lock[t] = t

(* What a thread s that wakes another one has found out stays true. *)
WakerOK(s) ==
  pc[s] \in Waking \cup {"commit"} =>
  /\ dest[s] # s /\ lock[dest[s]] = s /\ state[dest[s]] # "SUSPENDED"
  /\ pc[s] \in Waking \ {"sent"} => ~ Window(dest[s]) /\ pc[dest[s]] # "yield"
  /\ pc[s] = "s_running" => (dest[s] \in asleep => state[dest[s]] = "RUNNING")
  /\ pc[s] \in {"dequeue", "sub_dequeue", "queue", "q_cpu", "sub_queue"} =>
       state[dest[s]] = "RUNNING"
  /\ pc[s] \in Moving => dest[s] \notin asleep /\ dest[s] \notin queued

Control ==
  /\ Types
  /\ \A c \in CPU : ProcessorOK(c)
  /\ \A t \in Thread : ThreadOK(t)
  /\ \A s \in Thread : WakerOK(s)

Inv == RunQueues /\ SleepQueues /\ Control

LEMMA Parts ==
  ASSUME Inv
  PROVE  /\ RunQueues /\ SleepQueues /\ Types /\ queued \subseteq Thread /\ asleep \subseteq Thread
         /\ (\A c \in CPU : ProcessorOK(c)) /\ (\A t \in Thread : ThreadOK(t))
         /\ \A s \in Thread : WakerOK(s)
BY DEF Inv, Control, queued, asleep

LEMMA RemoveLastKeeps ==
  ASSUME Inv, NEW c \in CPU, RemoveLast(c)
  PROVE  Inv'
<1> DEFINE t == requesting_thread[c]
<1>0. /\ RunQueues /\ SleepQueues /\ Types /\ queued \subseteq Thread /\ asleep \subseteq Thread
      /\ (\A d \in CPU : ProcessorOK(d)) /\ (\A u \in Thread : ThreadOK(u))
      /\ \A u \in Thread : WakerOK(u)
  BY Parts
<1>1. SleepQueues' /\ asleep' = asleep /\ FirstKept(c)
  BY <1>0, Elapsed DEF RemoveLast
<1>2. CASE t # NoThread
  <2>1. t \in queued /\ Home[t] = c /\ mode[c] = "back" /\ t \in Thread
    BY <1>0, <1>2 DEF ProcessorOK, RemoveLast, At
  <2>2. Contains(sched_queue[c], t)
    BY <2>1 DEF queued
  <2>3. /\ CloseGap(c, t)
        /\ state' = [state EXCEPT ![t] = "DORMANT"] /\ mode' = [mode EXCEPT ![c] = "last"]
        /\ UNCHANGED <<requesting_thread, current_thread, cpu, duration, pc, dest, lock, roused, failed>>
    BY <1>2, <2>2 DEF RemoveLast, callVars
  <2> HIDE DEF t
  <2>4. RunQueues' /\ queued' = queued \ {t}
    BY <1>0, <2>1, <2>3, Gap
  <2>5. Types'
    BY <1>0, <2>1, <2>3 DEF Types
  <2>6. \A d \in CPU : ProcessorOK(d)'
    <3>1. SUFFICES ASSUME NEW d \in CPU PROVE ProcessorOK(d)'
      OBVIOUS
    <3>2. CASE d = c
      <4>1. /\ mode'[c] = "last" /\ requesting_thread'[c] = t /\ state'[t] = "DORMANT"
            /\ pc'[t] = "woken" /\ t # NoThread /\ t \notin queued'
        BY <1>0, <1>2, <2>1, <2>3, <2>4 DEF Types, ProcessorOK, t
      <4> QED
        BY <2>1, <3>2, <4>1 DEF ProcessorOK, Firing
    <3>3. CASE d # c
      <4>1. /\ mode'[d] = mode[d] /\ first'[d] = first[d] /\ ProcessorOK(d)
            /\ \A u \in Thread : u # t => state'[u] = state[u]
        BY <1>0, <1>1, <2>3, <3>3 DEF Types, FirstKept
      <4> QED
        BY <1>0, <1>1, <2>1, <2>3, <2>4, <3>3, <4>1 DEF Types, ProcessorOK, Firing
    <3> QED
      BY <3>2, <3>3
  <2>7. \A u \in Thread : ThreadOK(u)'
    BY <1>0, <1>1, <2>1, <2>3, <2>4, HomeIsCPU DEF Types, ThreadOK, FirstKept, Firing, Window, Fires, ProcessorOK, t
  <2>8. \A u \in Thread : WakerOK(u)'
    BY <1>0, <1>1, <2>1, <2>3, <2>4, HomeIsCPU DEF Types, WakerOK, Window, Waking, Moving, t
  <2> QED
    BY <1>1, <2>4, <2>5, <2>6, <2>7, <2>8 DEF Inv, Control
<1>3. CASE t = NoThread
  <2>3. /\ mode[c] = "back"
        /\ requesting_thread' = [requesting_thread EXCEPT ![c] = NoThread] /\ mode' = [mode EXCEPT ![c] = "timers"]
        /\ UNCHANGED <<sched_queue, position, state, current_thread, cpu, duration, pc, dest, lock, roused, failed>>
    BY <1>3 DEF RemoveLast, callVars, At
  <2>4. RunQueues' /\ queued' = queued
    BY <1>0, <2>3, QueuesKept
  <2>5. Types'
    BY <1>0, <2>3 DEF Types
  <2>6. \A d \in CPU : ProcessorOK(d)'
    BY <1>0, <1>1, <2>3, <2>4 DEF Types, ProcessorOK, FirstKept, Firing
  <2>7. \A u \in Thread : ThreadOK(u)'
    BY <1>0, <1>1, <1>3, <2>3, <2>4, HomeIsCPU, NoThreadAssumption DEF Types, ThreadOK, FirstKept, Firing, Window, Fires
  <2>8. \A u \in Thread : WakerOK(u)'
    BY <1>0, <1>1, <1>3, <2>3, <2>4, HomeIsCPU, NoThreadAssumption DEF Types, WakerOK, Window, Waking, Moving
  <2> QED
    BY <1>1, <2>4, <2>5, <2>6, <2>7, <2>8 DEF Inv, Control
<1> QED
  BY <1>2, <1>3

LEMMA RemoveLastCpuKeeps ==
  ASSUME Inv, NEW c \in CPU, RemoveLastCpu(c)
  PROVE  Inv'
<1>0. /\ RunQueues /\ SleepQueues /\ Types /\ queued \subseteq Thread /\ asleep \subseteq Thread
      /\ (\A d \in CPU : ProcessorOK(d)) /\ (\A u \in Thread : ThreadOK(u))
      /\ \A u \in Thread : WakerOK(u)
  BY Parts
<1>1. /\ mode[c] = "last" /\ requesting_thread[c] \in Thread
      /\ requesting_thread' = [requesting_thread EXCEPT ![c] = NoThread] /\ mode' = [mode EXCEPT ![c] = "timers"]
      /\ UNCHANGED <<sched_queue, pause_queue, position, current_thread, state, duration, pc, dest, lock, roused, failed>>
  BY <1>0 DEF RemoveLastCpu, At, callVars, Types, ProcessorOK
<1>2. RunQueues' /\ queued' = queued
  BY <1>0, <1>1, QueuesKept
<1>3. SleepQueues' /\ asleep' = asleep /\ first' = first
  BY <1>0, <1>1, SleepersKept
<1>4. Types'
  BY <1>0, <1>1 DEF Types, RemoveLastCpu
<1>5. \A d \in CPU : ProcessorOK(d)'
  BY <1>0, <1>1, <1>2, <1>3 DEF Types, ProcessorOK, Firing
<1>6. \A u \in Thread : ThreadOK(u)'
  BY <1>0, <1>1, <1>2, <1>3, HomeIsCPU, NoThreadAssumption DEF Types, ThreadOK, Firing, Window, Fires
<1>7. \A u \in Thread : WakerOK(u)'
  BY <1>0, <1>1, <1>2, <1>3, HomeIsCPU, NoThreadAssumption DEF Types, WakerOK, Window, Waking, Moving
<1> QED
  BY <1>2, <1>3, <1>4, <1>5, <1>6, <1>7 DEF Inv, Control

LEMMA TimerStateKeeps ==
  ASSUME Inv, NEW c \in CPU, TimerState(c)
  PROVE  Inv'
<1>0. /\ RunQueues /\ SleepQueues /\ Types /\ queued \subseteq Thread /\ asleep \subseteq Thread
      /\ (\A d \in CPU : ProcessorOK(d)) /\ (\A u \in Thread : ThreadOK(u))
      /\ \A u \in Thread : WakerOK(u)
  BY Parts
<1> DEFINE t == first[c]
<1>1. t \in asleep /\ Home[t] = c /\ Head(pause_queue[c]).tr = t /\ Head(pause_queue[c]).state = "RUNNING"
  <2>1. Sleepers(pause_queue[c], c) /\ pause_queue[c] # <<>> /\ t = pause_queue[c][1].tr
    BY <1>0 DEF SleepQueues, TimerState, Due, first
  <2>2. 1 \in 1 .. Len(pause_queue[c]) /\ pause_queue[c][1] \in Entry /\ Head(pause_queue[c]) = pause_queue[c][1]
    BY <2>1 DEF Sleepers
  <2>3. t \in Thread /\ Home[t] = c /\ pause_queue[c][1].state = "RUNNING"
    BY <2>1, <2>2, EntryFields DEF Sleepers
  <2>4. Has(pause_queue[Home[t]], t)
    BY <2>1, <2>2, <2>3 DEF Has
  <2> QED
    BY <2>1, <2>2, <2>3, <2>4 DEF asleep
<1>2. /\ mode[c] = "timers" /\ mode' = [mode EXCEPT ![c] = "t_duration"] /\ state' = [state EXCEPT ![t] = "RUNNING"]
      /\ UNCHANGED <<sched_queue, pause_queue, position, requesting_thread, current_thread, cpu, duration, pc, dest, lock, roused, failed>>
  BY <1>1 DEF TimerState, At, callVars, queueVars
<1> HIDE DEF t
<1>3. RunQueues' /\ queued' = queued
  BY <1>0, <1>2, QueuesKept
<1>4. SleepQueues' /\ asleep' = asleep /\ first' = first
  BY <1>0, <1>2, SleepersKept
<1>5. Types'
  BY <1>0, <1>2 DEF Types
<1>6. t \in Thread /\ t \notin queued /\ state[t] = "DORMANT" /\ requesting_thread[c] = NoThread
  BY <1>0, <1>1, <1>2 DEF ThreadOK, ProcessorOK, Window, Fires, Firing
<1>7. \A d \in CPU : ProcessorOK(d)'
  BY <1>0, <1>1, <1>2, <1>3, <1>4, <1>6 DEF Types, ProcessorOK, Firing, t
<1>8. \A u \in Thread : ThreadOK(u)'
  BY <1>0, <1>1, <1>2, <1>3, <1>4, <1>6, HomeIsCPU DEF Types, ThreadOK, Firing, Window, Fires, t
<1>9. \A u \in Thread : WakerOK(u)'
  BY <1>0, <1>1, <1>2, <1>3, <1>4, <1>6, HomeIsCPU DEF Types, WakerOK, Window, Waking, Moving
<1> QED
  BY <1>3, <1>4, <1>5, <1>7, <1>8, <1>9 DEF Inv, Control

LEMMA FirstIsHead ==
  ASSUME SleepQueues, NEW c \in CPU, first[c] \in asleep, Home[first[c]] = c
  PROVE  Head(pause_queue[c]).tr = first[c] /\ Head(pause_queue[c]) \in Entry
<1>1. Sleepers(pause_queue[c], c) /\ pause_queue[c] # <<>> /\ first[c] = pause_queue[c][1].tr
  BY DEF SleepQueues, first, asleep, Has
<1>2. Head(pause_queue[c]) = pause_queue[c][1] /\ pause_queue[c][1] \in Entry
  BY <1>1 DEF Sleepers
<1> QED
  BY <1>1, <1>2

LEMMA TimerDurationKeeps ==
  ASSUME Inv, NEW c \in CPU, TimerDuration(c)
  PROVE  Inv'
<1>0. /\ RunQueues /\ SleepQueues /\ Types /\ queued \subseteq Thread /\ asleep \subseteq Thread
      /\ (\A d \in CPU : ProcessorOK(d)) /\ (\A u \in Thread : ThreadOK(u))
      /\ \A u \in Thread : WakerOK(u)
  BY Parts
<1> DEFINE t == first[c]
<1>1. t \in asleep /\ Home[t] = c /\ state[t] = "RUNNING" /\ mode[c] = "t_duration" /\ t \in Thread
  BY <1>0 DEF TimerDuration, At, ProcessorOK, Firing
<1>2. Head(pause_queue[c]).tr = t /\ Head(pause_queue[c]).slept \in {0, 1}
  BY <1>0, <1>1, FirstIsHead DEF Entry
<1>3. /\ mode' = [mode EXCEPT ![c] = "t_cpu"] /\ duration' = [duration EXCEPT ![t] = Head(pause_queue[c]).slept]
      /\ UNCHANGED <<sched_queue, pause_queue, position, requesting_thread, current_thread, state, cpu, pc, dest, lock, roused, failed>>
  BY <1>2 DEF TimerDuration, callVars, queueVars
<1> HIDE DEF t
<1>4. RunQueues' /\ queued' = queued
  BY <1>0, <1>3, QueuesKept
<1>5. SleepQueues' /\ asleep' = asleep /\ first' = first
  BY <1>0, <1>3, SleepersKept
<1>6. Types'
  BY <1>0, <1>2, <1>3 DEF Types
<1>7. \A d \in CPU : ProcessorOK(d)'
  BY <1>0, <1>1, <1>3, <1>4, <1>5 DEF Types, ProcessorOK, Firing
<1>8. \A u \in Thread : ThreadOK(u)'
  BY <1>0, <1>1, <1>3, <1>4, <1>5, HomeIsCPU DEF Types, ThreadOK, Firing, Window, Fires, t
<1>9. \A u \in Thread : WakerOK(u)'
  BY <1>0, <1>1, <1>3, <1>4, <1>5, HomeIsCPU DEF Types, WakerOK, Window, Waking, Moving
<1> QED
  BY <1>4, <1>5, <1>6, <1>7, <1>8, <1>9 DEF Inv, Control

LEMMA TimerCpuKeeps ==
  ASSUME Inv, NEW c \in CPU, TimerCpu(c)
  PROVE  Inv'
<1>0. /\ RunQueues /\ SleepQueues /\ Types /\ queued \subseteq Thread /\ asleep \subseteq Thread
      /\ (\A d \in CPU : ProcessorOK(d)) /\ (\A u \in Thread : ThreadOK(u))
      /\ \A u \in Thread : WakerOK(u)
  BY Parts
<1> DEFINE t == first[c]
<1>1. t \in asleep /\ Home[t] = c /\ state[t] = "RUNNING" /\ mode[c] = "t_cpu" /\ t \in Thread /\ t \notin queued
  BY <1>0 DEF TimerCpu, At, ProcessorOK, Firing
<1>2. Head(pause_queue[c]).tr = t
  BY <1>0, <1>1, FirstIsHead
<1>3. /\ mode' = [mode EXCEPT ![c] = "timers"] /\ cpu' = [cpu EXCEPT ![t] = c]
      /\ UNCHANGED <<requesting_thread, current_thread, state, duration, pc, dest, lock, roused>>
  BY <1>2 DEF TimerCpu, callVars
<1>4. SleepQueues' /\ asleep' = asleep \ {t} /\ FirstKept(c)
  <2>1. pause_queue' = [pause_queue EXCEPT ![c] = Tail(@)]
    BY DEF TimerCpu
  <2> QED
    BY <1>0, <1>1, <2>1, WokeUp
<1> HIDE DEF t
<1>5. RunQueues' /\ queued \subseteq queued' /\ queued' \subseteq queued \cup {t}
  <2>1. Append1(Home[t], t) /\ UNCHANGED position
    BY <1>1, <1>2 DEF TimerCpu
  <2> QED
    BY <1>0, <1>1, <2>1, Appended
<1>6. Types'
  <2>1. failed' \in Assertion \cup {"none"}
    BY <1>0 DEF TimerCpu, Check, Types, Assertion
  <2> QED
    BY <1>0, <1>1, <1>3, <2>1 DEF Types
<1>7. \A d \in CPU : ProcessorOK(d)'
  <2>1. SUFFICES ASSUME NEW d \in CPU PROVE ProcessorOK(d)'
    OBVIOUS
  <2>2. CASE d = c
    BY <1>0, <1>1, <1>3, <2>2 DEF Types, ProcessorOK, Firing
  <2>3. CASE d # c
    <3>1. mode'[d] = mode[d] /\ first'[d] = first[d] /\ ProcessorOK(d)
      BY <1>0, <1>3, <1>4, <2>3 DEF Types, FirstKept
    <3> QED
      BY <1>0, <1>1, <1>3, <1>4, <1>5, <2>3, <3>1 DEF Types, ProcessorOK, Firing
  <2> QED
    BY <2>2, <2>3
<1>8. \A u \in Thread : ThreadOK(u)'
  BY <1>0, <1>1, <1>3, <1>4, <1>5, HomeIsCPU DEF Types, ThreadOK, Firing, Window, Fires, FirstKept, t
<1>9. \A u \in Thread : WakerOK(u)'
  BY <1>0, <1>1, <1>3, <1>4, <1>5, HomeIsCPU DEF Types, WakerOK, Window, Waking, Moving
<1> QED
  BY <1>4, <1>5, <1>6, <1>7, <1>8, <1>9 DEF Inv, Control

LEMMA PickKeeps ==
  ASSUME Inv, NEW c \in CPU, Pick(c)
  PROVE  Inv'
<1>0. /\ RunQueues /\ SleepQueues /\ Types /\ queued \subseteq Thread /\ asleep \subseteq Thread
      /\ (\A d \in CPU : ProcessorOK(d)) /\ (\A u \in Thread : ThreadOK(u))
      /\ \A u \in Thread : WakerOK(u)
  BY Parts
<1> DEFINE q == sched_queue[c]
<1>1. /\ mode[c] = "timers" /\ mode' = [mode EXCEPT ![c] = "run"]
      /\ UNCHANGED <<sched_queue, pause_queue, requesting_thread, state, cpu, duration, pc, dest, lock, roused, failed>>
  BY DEF Pick, At, callVars, fieldVars
<1>2. RunQueue(q, c) /\ q \in Seq(Thread) /\ position[c] \in Nat /\ (position[c] = 0 \/ position[c] < Len(q))
  BY <1>0 DEF RunQueues
<1>3. /\ position' \in [CPU -> Nat] /\ \A d \in CPU : position'[d] = 0 \/ position'[d] < Len(sched_queue[d])
      /\ \E u \in queued \cup {NoThread} :
           current_thread' = [current_thread EXCEPT ![c] = u] /\ (u # NoThread => Home[u] = c)
  <2>1. CASE q = <<>>
    BY <1>0, <2>1 DEF Pick, RunQueues
  <2>2. CASE q # <<>>
    <3>1. /\ current_thread' = [current_thread EXCEPT ![c] = q[position[c] + 1]]
          /\ position' = [position EXCEPT ![c] = (@ + 1) % Len(q)]
      BY <2>2 DEF Pick
    <3>2. Len(q) \in Nat \ {0} /\ position[c] + 1 \in 1 .. Len(q)
      BY <1>2, <2>2
    <3>3. (position[c] + 1) % Len(q) \in Nat /\ (position[c] + 1) % Len(q) < Len(q)
      BY <1>2, <3>2, Remainder
    <3>4. q[position[c] + 1] \in Thread /\ Home[q[position[c] + 1]] = c
      BY <1>2, <3>2 DEF RunQueue
    <3>5. Contains(q, q[position[c] + 1])
      BY <3>2 DEF Contains
    <3>6. q[position[c] + 1] \in queued
      BY <3>4, <3>5 DEF queued
    <3>7. position \in [CPU -> Nat] /\ \A d \in CPU : position[d] = 0 \/ position[d] < Len(sched_queue[d])
      BY <1>0 DEF RunQueues
    <3>8. position' \in [CPU -> Nat] /\ \A d \in CPU : position'[d] = 0 \/ position'[d] < Len(sched_queue[d])
      BY <3>1, <3>3, <3>7
    <3> QED
      BY <3>1, <3>4, <3>6, <3>8
  <2> QED
    BY <2>1, <2>2
<1> HIDE DEF q
<1>4. RunQueues'
  BY <1>0, <1>1, <1>3 DEF RunQueues, RunQueue
<1>5. queued' = queued
  BY <1>1 DEF queued, Contains
<1>6. SleepQueues' /\ asleep' = asleep /\ first' = first
  BY <1>0, <1>1, SleepersKept
<1>7. Types'
  BY <1>0, <1>1, <1>3 DEF Types
<1>8. \A d \in CPU : ProcessorOK(d)'
  BY <1>0, <1>1, <1>3, <1>5, <1>6 DEF Types, ProcessorOK, Firing
<1>9. requesting_thread[c] = NoThread
  BY <1>0, <1>1 DEF ProcessorOK
<1>10. \A u \in Thread : ThreadOK(u)'
  BY <1>0, <1>1, <1>3, <1>5, <1>6, <1>9, HomeIsCPU, NoThreadAssumption DEF Types, ThreadOK, Firing, Window, Fires
<1>11. \A u \in Thread : WakerOK(u)'
  BY <1>0, <1>1, <1>5, <1>6, <1>9, HomeIsCPU, NoThreadAssumption DEF Types, WakerOK, Window, Waking, Moving
<1> QED
  BY <1>4, <1>5, <1>6, <1>7, <1>8, <1>10, <1>11 DEF Inv, Control

LEMMA SwitchOutKeeps ==
  ASSUME Inv, NEW c \in CPU, SwitchOut(c)
  PROVE  Inv'
<1>0. /\ RunQueues /\ SleepQueues /\ Types /\ queued \subseteq Thread /\ asleep \subseteq Thread
      /\ (\A d \in CPU : ProcessorOK(d)) /\ (\A u \in Thread : ThreadOK(u))
      /\ \A u \in Thread : WakerOK(u)
  BY Parts
<1> DEFINE t == current_thread[c]
<1>1. /\ mode[c] = "run" /\ mode' = [mode EXCEPT ![c] = "back"]
      /\ current_thread' = [current_thread EXCEPT ![c] = NoThread]
      /\ pc' = [u \in Thread |-> IF u = t /\ pc[u] = "yield" THEN "woken" ELSE pc[u]]
      /\ UNCHANGED <<sched_queue, pause_queue, position, requesting_thread, state, cpu, duration, dest, lock, roused, failed>>
  BY DEF SwitchOut, At, fieldVars, queueVars
<1> HIDE DEF t
<1>2. RunQueues' /\ queued' = queued
  BY <1>0, <1>1, QueuesKept
<1>3. SleepQueues' /\ asleep' = asleep /\ first' = first
  BY <1>0, <1>1, SleepersKept
<1>4. Types'
  BY <1>0, <1>1 DEF Types
<1>5. \A u \in Thread : /\ pc[u] = "yield" /\ Home[u] = c => pc'[u] = "woken"
                        /\ pc[u] = "yield" /\ Home[u] # c => pc'[u] = pc[u]
                        /\ pc[u] # "yield" => pc'[u] = pc[u]
  <2>1. t # NoThread => Home[t] = c
    BY <1>0, <1>1 DEF ProcessorOK, t
  <2>2. \A u \in Thread : pc[u] = "yield" /\ Home[u] = c => u = t
    BY <1>0 DEF ThreadOK, t
  <2> QED
    BY <1>1, <2>1, <2>2, NoThreadAssumption
<1>6. \A d \in CPU : ProcessorOK(d)'
  BY <1>0, <1>1, <1>2, <1>3, <1>5 DEF Types, ProcessorOK, Firing
<1>7. \A u \in Thread : ThreadOK(u)'
  BY <1>0, <1>1, <1>2, <1>3, <1>5, HomeIsCPU DEF Types, ThreadOK, Firing, Window, Fires
<1>8. \A u \in Thread : WakerOK(u)'
  BY <1>0, <1>1, <1>2, <1>3, <1>5, HomeIsCPU DEF Types, WakerOK, Window, Waking, Moving
<1> QED
  BY <1>2, <1>3, <1>4, <1>6, <1>7, <1>8 DEF Inv, Control

(* A thread that runs is queued, and nobody on its processor is about to   *)
(* go to sleep.                                                            *)
LEMMA Running ==
  ASSUME Inv, NEW t \in Thread, Runs(t), pc[t] # "yield"
  PROVE  /\ Home[t] \in CPU /\ mode[Home[t]] = "run" /\ current_thread[Home[t]] = t
         /\ t \in queued /\ state[t] = "RUNNING" /\ t \notin asleep
         /\ requesting_thread[Home[t]] = NoThread /\ failed = "none"
<1>0. /\ RunQueues /\ SleepQueues /\ Types /\ queued \subseteq Thread /\ asleep \subseteq Thread
      /\ (\A d \in CPU : ProcessorOK(d)) /\ (\A u \in Thread : ThreadOK(u))
      /\ \A u \in Thread : WakerOK(u)
  BY Parts
<1>1. Home[t] \in CPU /\ mode[Home[t]] = "run" /\ current_thread[Home[t]] = t /\ failed = "none"
  BY HomeIsCPU DEF Runs, At
<1>2. t \in queued /\ state[t] = "RUNNING"
  BY <1>0, <1>1, NoThreadAssumption DEF ProcessorOK, ThreadOK
<1>3. requesting_thread[Home[t]] = NoThread
  <2>1. SUFFICES ASSUME requesting_thread[Home[t]] # NoThread PROVE FALSE
    OBVIOUS
  <2> DEFINE u == requesting_thread[Home[t]]
  <2>2. u \in Thread
    BY <1>0, <1>1, <2>1 DEF Types
  <2>3. Home[u] = Home[t] /\ pc[u] = "yield"
    BY <1>0, <1>1, <2>1 DEF ProcessorOK
  <2>4. u = t
    BY <1>0, <1>1, <2>2, <2>3 DEF ThreadOK
  <2> QED
    BY <2>3, <2>4
<1>4. t \notin asleep
  BY <1>0, <1>1, <1>2, <1>3, NoThreadAssumption DEF ThreadOK, Window, Fires, Firing
<1> QED
  BY <1>1, <1>2, <1>3, <1>4

(* A step of s that moves it on and touches no other part of the state     *)
(* that these invariants are about keeps them, if what it knows at its new *)
(* place is true.                                                          *)
LEMMA WakerMoves ==
  ASSUME Inv, NEW s \in Thread, pc[s] \in Waking, NEW to \in Waking \cup {"commit"},
         pc' = [pc EXCEPT ![s] = to], Types',
         UNCHANGED <<sched_queue, pause_queue, position, requesting_thread, current_thread, mode,
                     state, duration, dest, lock>>,
         to \in Waking \ {"sent"} => ~ Window(dest[s]) /\ pc[dest[s]] # "yield",
         to = "s_running" => (dest[s] \in asleep => state[dest[s]] = "RUNNING"),
         to \in {"dequeue", "sub_dequeue", "queue", "q_cpu", "sub_queue"} =>
           state[dest[s]] = "RUNNING",
         to \in Moving => dest[s] \notin asleep /\ dest[s] \notin queued
  PROVE  Inv'
<1>0. /\ RunQueues /\ SleepQueues /\ Types /\ queued \subseteq Thread /\ asleep \subseteq Thread
      /\ (\A d \in CPU : ProcessorOK(d)) /\ (\A u \in Thread : ThreadOK(u))
      /\ \A u \in Thread : WakerOK(u)
  BY Parts
<1>1. RunQueues' /\ queued' = queued
  BY <1>0, QueuesKept
<1>2. SleepQueues' /\ asleep' = asleep /\ first' = first
  BY <1>0, SleepersKept
<1>3. /\ pc[s] \notin {"user", "waiting", "yield", "woken"} /\ to \notin {"user", "waiting", "yield", "woken"}
      /\ pc'[s] = to /\ \A u \in Thread : u # s => pc'[u] = pc[u]
  BY <1>0 DEF Types, Waking
<1>4. \A d \in CPU : ProcessorOK(d)'
  BY <1>0, <1>1, <1>2, <1>3 DEF Types, ProcessorOK, Firing
<1>5. \A u \in Thread : ThreadOK(u)'
  BY <1>0, <1>1, <1>2, <1>3 DEF Types, ThreadOK, Window, Fires
<1>6. \A u \in Thread : WakerOK(u)'
  <2>1. SUFFICES ASSUME NEW u \in Thread PROVE WakerOK(u)'
    OBVIOUS
  <2>2. CASE u # s
    <3>1. WakerOK(u) /\ pc'[u] = pc[u] /\ dest[u] \in Thread
      BY <1>0, <1>3, <2>2 DEF Types
    <3>2. pc'[dest[u]] = "yield" => pc[dest[u]] = "yield"
      BY <1>3, <3>1
    <3> QED
      BY <1>1, <1>2, <3>1, <3>2 DEF WakerOK, Window
  <2>3. CASE u = s
    <3>1. dest[s] # s /\ lock[dest[s]] = s /\ state[dest[s]] # "SUSPENDED" /\ dest[s] \in Thread
      BY <1>0 DEF WakerOK, Types
    <3>2. pc'[dest[s]] = pc[dest[s]]
      BY <1>3, <3>1
    <3> QED
      BY <1>1, <1>2, <1>3, <2>3, <3>1, <3>2 DEF WakerOK, Window
  <2> QED
    BY <2>2, <2>3
<1> QED
  BY <1>1, <1>2, <1>4, <1>5, <1>6 DEF Inv, Control

LEMMA StartThreadKeeps ==
  ASSUME Inv, NEW t \in Thread, StartThread(t)
  PROVE  Inv'
<1>0. /\ RunQueues /\ SleepQueues /\ Types /\ queued \subseteq Thread /\ asleep \subseteq Thread
      /\ (\A d \in CPU : ProcessorOK(d)) /\ (\A u \in Thread : ThreadOK(u))
      /\ \A u \in Thread : WakerOK(u)
  BY Parts
<1>1. /\ state[t] = "SUSPENDED" /\ mode[Home[t]] \in {"run", "back"}
      /\ state' = [state EXCEPT ![t] = "RUNNING"] /\ cpu' = [cpu EXCEPT ![t] = Home[t]]
      /\ UNCHANGED <<requesting_thread, current_thread, mode, duration, pc, dest, lock, roused, failed>>
  BY DEF StartThread, Light, cpuVars, callVars
<1>2. t \notin queued /\ t \notin asleep /\ Home[t] \in CPU
  BY <1>0, <1>1, HomeIsCPU DEF ThreadOK
<1>3. RunQueues' /\ queued \subseteq queued' /\ queued' \subseteq queued \cup {t}
  <2>1. Append1(Home[t], t) /\ UNCHANGED position
    BY DEF StartThread
  <2> QED
    BY <1>0, <1>2, <2>1, Appended
<1>4. SleepQueues' /\ asleep' = asleep /\ first' = first
  BY <1>0, SleepersKept DEF StartThread
<1>5. Types'
  BY <1>0, <1>1, <1>2 DEF Types
<1>6. \A d \in CPU : ProcessorOK(d)'
  BY <1>0, <1>1, <1>2, <1>3, <1>4 DEF Types, ProcessorOK, Firing
<1>7. \A u \in Thread : ThreadOK(u)'
  BY <1>0, <1>1, <1>2, <1>3, <1>4 DEF Types, ThreadOK, Window, Fires, ProcessorOK
<1>8. \A u \in Thread : WakerOK(u)'
  BY <1>0, <1>1, <1>2, <1>3, <1>4 DEF Types, WakerOK, Window, Waking, Moving
<1> QED
  BY <1>3, <1>4, <1>5, <1>6, <1>7, <1>8 DEF Inv, Control

(* A thread asks to sleep, with or without a timer. *)
LEMMA RequestKeeps ==
  ASSUME Inv, NEW t \in Thread, RequestDormant(t), RunQueues', SleepQueues', FirstKept(Home[t]),
         queued' = queued, NEW timed \in BOOLEAN,
         asleep' = (IF timed THEN asleep \cup {t} ELSE asleep),
         duration' = [duration EXCEPT ![t] = IF timed THEN 1 ELSE 0],
         failed' \in Assertion \cup {"none"}
  PROVE  Inv'
<1>0. /\ RunQueues /\ SleepQueues /\ Types /\ queued \subseteq Thread /\ asleep \subseteq Thread
      /\ (\A d \in CPU : ProcessorOK(d)) /\ (\A u \in Thread : ThreadOK(u))
      /\ \A u \in Thread : WakerOK(u)
  BY Parts
<1>1. /\ Runs(t) /\ pc[t] = "waiting" /\ pc' = [pc EXCEPT ![t] = "yield"]
      /\ requesting_thread' = [requesting_thread EXCEPT ![Home[t]] = t]
      /\ lock' = [lock EXCEPT ![t] = NoThread]
      /\ roused' = [roused EXCEPT ![t] = FALSE]
      /\ UNCHANGED <<current_thread, mode, state, cpu, dest>>
  BY DEF RequestDormant, Goto, cpuVars
<1>2. /\ Home[t] \in CPU /\ mode[Home[t]] = "run" /\ current_thread[Home[t]] = t
      /\ t \in queued /\ state[t] = "RUNNING" /\ t \notin asleep
      /\ requesting_thread[Home[t]] = NoThread
  BY <1>1, Running
<1>3. Types'
  BY <1>0, <1>1, <1>2 DEF Types
<1>4. lock[t] = t
  BY <1>0, <1>1 DEF ThreadOK
<1>5. \A d \in CPU : ProcessorOK(d)'
  <2>1. SUFFICES ASSUME NEW d \in CPU PROVE ProcessorOK(d)'
    OBVIOUS
  <2>2. CASE d = Home[t]
    <3>1. requesting_thread'[d] = t /\ pc'[t] = "yield"
      BY <1>0, <1>1, <1>2, <2>2 DEF Types
    <3> QED
      BY <1>1, <1>2, <2>2, <3>1 DEF ProcessorOK, Firing
  <2>3. CASE d # Home[t]
    <3>1. ProcessorOK(d) /\ requesting_thread'[d] = requesting_thread[d] /\ first'[d] = first[d]
      BY <1>0, <1>1, <2>3 DEF Types, FirstKept
    <3>2. requesting_thread[d] # NoThread => requesting_thread[d] \in Thread /\ requesting_thread[d] # t
      BY <1>0, <2>3, <3>1 DEF ProcessorOK, Types
    <3>3. \A u \in Thread : u # t => pc'[u] = pc[u]
      BY <1>0, <1>1 DEF Types
    <3> QED
      BY <1>1, <3>1, <3>2, <3>3 DEF ProcessorOK, Firing
  <2> QED
    BY <2>2, <2>3
<1>6. \A u \in Thread : ThreadOK(u)'
  <2>1. SUFFICES ASSUME NEW u \in Thread PROVE ThreadOK(u)'
    OBVIOUS
  <2>2. CASE u = t
    <3>1. /\ pc'[t] = "yield" /\ requesting_thread'[Home[t]] = t
          /\ duration'[t] = (IF timed THEN 1 ELSE 0)
      BY <1>0, <1>1, <1>2 DEF Types
    <3> QED
      BY <1>1, <1>2, <2>2, <3>1 DEF ThreadOK, Window
  <2>3. CASE u # t
    <3>1. ThreadOK(u) /\ pc'[u] = pc[u] /\ lock'[u] = lock[u] /\ duration'[u] = duration[u]
      BY <1>0, <1>1, <2>3 DEF Types
    <3>2. Window(u)' <=> Window(u)
      BY <1>0, <1>1, <1>2, <2>3, HomeIsCPU, NoThreadAssumption DEF Types, Window
    <3>3. Fires(u)' <=> Fires(u)
      BY <1>1, <1>2, HomeIsCPU DEF Fires, FirstKept, Firing
    <3> QED
      BY <1>1, <2>3, <3>1, <3>2, <3>3 DEF ThreadOK
  <2> QED
    BY <2>2, <2>3
<1>7. \A u \in Thread : WakerOK(u)'
  <2>1. SUFFICES ASSUME NEW u \in Thread, pc'[u] \in Waking \cup {"commit"} PROVE WakerOK(u)'
    BY DEF WakerOK
  <2>2. u # t /\ pc'[u] = pc[u]
    BY <1>0, <1>1, <2>1 DEF Types, Waking
  <2>3. WakerOK(u) /\ dest[u] \in Thread /\ dest[u] # t
    BY <1>0, <1>4, <2>1, <2>2 DEF WakerOK, Types
  <2>4. pc'[dest[u]] = pc[dest[u]] /\ lock'[dest[u]] = lock[dest[u]]
    BY <1>0, <1>1, <2>3 DEF Types
  <2>5. Window(dest[u])' => Window(dest[u])
    BY <1>0, <1>1, <1>2, <2>3, HomeIsCPU, NoThreadAssumption DEF Types, Window
  <2> QED
    BY <1>1, <2>2, <2>3, <2>4, <2>5 DEF WakerOK
<1> QED
  BY <1>3, <1>5, <1>6, <1>7 DEF Inv, Control

LEMMA GoDormantKeeps ==
  ASSUME Inv, NEW t \in Thread, GoDormant(t)
  PROVE  Inv'
<1>0. /\ RunQueues /\ SleepQueues /\ Types /\ queued \subseteq Thread /\ asleep \subseteq Thread
      /\ (\A d \in CPU : ProcessorOK(d)) /\ (\A u \in Thread : ThreadOK(u))
      /\ \A u \in Thread : WakerOK(u)
  BY Parts
<1>1. RunQueues' /\ queued' = queued
  BY <1>0, QueuesKept DEF GoDormant, RequestDormant
<1>2. SleepQueues' /\ asleep' = asleep /\ first' = first
  BY <1>0, SleepersKept DEF GoDormant
<1>3. failed' \in Assertion \cup {"none"}
  BY <1>0 DEF GoDormant, Check, Types, Assertion
<1>4. RequestDormant(t) /\ duration' = [duration EXCEPT ![t] = 0]
  BY DEF GoDormant
<1>5. FirstKept(Home[t])
  BY <1>2 DEF FirstKept
<1>6. /\ asleep' = (IF FALSE THEN asleep \cup {t} ELSE asleep)
      /\ duration' = [duration EXCEPT ![t] = IF FALSE THEN 1 ELSE 0]
  BY <1>2, <1>4
<1> QED
  BY <1>1, <1>2, <1>3, <1>4, <1>5, <1>6, RequestKeeps

LEMMA GoDormantForKeeps ==
  ASSUME Inv, NEW t \in Thread, NEW m \in Timeouts, GoDormantFor(t, m)
  PROVE  Inv'
<1>0. /\ RunQueues /\ SleepQueues /\ Types /\ queued \subseteq Thread /\ asleep \subseteq Thread
      /\ (\A d \in CPU : ProcessorOK(d)) /\ (\A u \in Thread : ThreadOK(u))
      /\ \A u \in Thread : WakerOK(u)
  BY Parts
<1>1. RunQueues' /\ queued' = queued
  BY <1>0, QueuesKept DEF GoDormantFor, RequestDormant
<1>2. t \notin asleep /\ state[t] = "RUNNING"
  BY Running DEF GoDormantFor, RequestDormant, Goto
<1>3. SleepQueues' /\ asleep' = asleep \cup {t} /\ FirstKept(Home[t])
  <2>1. /\ Len(pause_queue[Home[t]]) # PauseSize /\ m \in Nat
        /\ pause_queue' = [pause_queue EXCEPT ![Home[t]] =
             PauseInsert(@, [tr |-> t, state |-> "RUNNING", left |-> m, slept |-> 0])]
    BY <1>2, TimeAssumption DEF GoDormantFor
  <2> QED
    BY <1>0, <1>2, <2>1, FellAsleep
<1>4. failed' \in Assertion \cup {"none"}
  BY <1>0 DEF GoDormantFor, Check, Types, Assertion
<1>5. RequestDormant(t) /\ duration' = [duration EXCEPT ![t] = 1]
  BY DEF GoDormantFor
<1>6. /\ asleep' = (IF TRUE THEN asleep \cup {t} ELSE asleep)
      /\ duration' = [duration EXCEPT ![t] = IF TRUE THEN 1 ELSE 0]
  BY <1>3, <1>5
<1> QED
  BY <1>1, <1>3, <1>4, <1>5, <1>6, RequestKeeps

(* What s knows of the thread it wakes. *)
LEMMA Woken ==
  ASSUME Inv, NEW s \in Thread, pc[s] \in Waking \cup {"commit"}
  PROVE  /\ dest[s] \in Thread /\ dest[s] # s /\ lock[dest[s]] = s /\ Home[dest[s]] \in CPU
         /\ state[dest[s]] \in {"RUNNING", "DORMANT"}
         /\ \A u \in Thread : u # s /\ pc[u] \in Waking \cup {"commit"} => dest[u] # dest[s]
<1>0. /\ RunQueues /\ SleepQueues /\ Types /\ queued \subseteq Thread /\ asleep \subseteq Thread
      /\ (\A d \in CPU : ProcessorOK(d)) /\ (\A u \in Thread : ThreadOK(u))
      /\ \A u \in Thread : WakerOK(u)
  BY Parts
<1>1. \A u \in Thread : pc[u] \in Waking \cup {"commit"} =>
        dest[u] \in Thread /\ dest[u] # u /\ lock[dest[u]] = u /\ state[dest[u]] # "SUSPENDED"
  BY <1>0 DEF WakerOK, Types
<1>2. dest[s] \in Thread /\ dest[s] # s /\ lock[dest[s]] = s
  BY <1>1
<1>3. state[dest[s]] \in {"RUNNING", "DORMANT"}
  BY <1>0, <1>1 DEF Types
<1>4. Home[dest[s]] \in CPU
  BY <1>1, HomeIsCPU
<1>5. \A u \in Thread : u # s /\ pc[u] \in Waking \cup {"commit"} => dest[u] # dest[s]
  BY <1>1
<1> QED
  BY <1>2, <1>3, <1>4, <1>5

LEMMA RestartKeeps ==
  ASSUME Inv, NEW s \in Thread, Restart(s)
  PROVE  Inv'
<1>0. /\ RunQueues /\ SleepQueues /\ Types /\ queued \subseteq Thread /\ asleep \subseteq Thread
      /\ (\A d \in CPU : ProcessorOK(d)) /\ (\A u \in Thread : ThreadOK(u))
      /\ \A u \in Thread : WakerOK(u)
  BY Parts
<1> DEFINE t == dest[s]
           c == Home[t]
<1>1. /\ pc[s] = "restart" /\ pc' = [pc EXCEPT ![s] = "commit"] /\ Runs(s)
      /\ UNCHANGED <<sched_queue, position, requesting_thread, current_thread, mode, state, cpu,
                     duration, dest, lock, roused>>
  BY DEF Restart, Goto, cpuVars, fieldVars
<1>2. t \in Thread /\ c \in CPU /\ t # s
  BY <1>1, Woken DEF Waking
<1>3. mode[c] \in {"run", "back"}
  BY DEF Restart, LightOrComplete, Light
<1>4. RunQueues' /\ queued' = queued
  BY <1>0, <1>1, QueuesKept
<1>5. SleepQueues' /\ asleep' = asleep /\ FirstKept(c)
  <2> DEFINE k == SelectInSeq(pause_queue[c], LAMBDA x : x.tr = t)
  <2>1. pause_queue' = IF k = 0 THEN pause_queue
          ELSE [pause_queue EXCEPT ![c] = <<[@[k] EXCEPT !.left = 0]>> \o RemoveAt(@, k)]
    BY DEF Restart
  <2>2. k # 0 => k \in 1 .. Len(pause_queue[c])
    BY SleeperAt
  <2> HIDE DEF k
  <2>3. CASE k = 0
    BY <1>0, <2>1, <2>3, SleepersKept DEF FirstKept
  <2>4. CASE k # 0
    BY <1>0, <1>2, <2>1, <2>2, <2>4, Restarted
  <2> QED
    BY <2>3, <2>4
<1> HIDE DEF t, c
<1>6. Types'
  <2>1. failed' \in Assertion \cup {"none"}
    BY <1>0 DEF Restart, Check, Types, Assertion
  <2> QED
    BY <1>0, <1>1, <2>1 DEF Types
<1>7. \A u \in Thread : pc'[u] = IF u = s THEN "commit" ELSE pc[u]
  BY <1>0, <1>1 DEF Types
<1>8. \A d \in CPU : ProcessorOK(d)'
  <2>1. SUFFICES ASSUME NEW d \in CPU PROVE ProcessorOK(d)'
    OBVIOUS
  <2>2. ProcessorOK(d) /\ (mode[d] \in Firing => first'[d] = first[d])
    BY <1>0, <1>3, <1>5 DEF FirstKept, Firing
  <2>3. requesting_thread[d] # NoThread => requesting_thread[d] \in Thread
    BY <1>0 DEF Types
  <2> QED
    BY <1>1, <1>4, <1>5, <1>7, <2>2, <2>3 DEF ProcessorOK
<1>9. \A u \in Thread : ThreadOK(u)'
  <2>1. SUFFICES ASSUME NEW u \in Thread PROVE ThreadOK(u)'
    OBVIOUS
  <2>2. Fires(u)' <=> Fires(u)
    BY <1>1, <1>3, <1>5, HomeIsCPU DEF Fires, FirstKept, Firing
  <2> QED
    BY <1>0, <1>1, <1>4, <1>5, <1>7, <2>2 DEF ThreadOK, Window
<1>10. \A u \in Thread : WakerOK(u)'
  <2>1. SUFFICES ASSUME NEW u \in Thread PROVE WakerOK(u)'
    OBVIOUS
  <2>2. WakerOK(u) /\ WakerOK(s) /\ dest[u] \in Thread
    BY <1>0 DEF Types
  <2> QED
    BY <1>1, <1>4, <1>5, <1>7, <2>2 DEF WakerOK, Window, Waking, Moving
<1> QED
  BY <1>4, <1>5, <1>6, <1>8, <1>9, <1>10 DEF Inv, Control

(* The thread that s moves from or to a queue is nobody else's business:   *)
(* it is not running, asleep, about to sleep or about to be woken.         *)
LEMMA MoverKeeps ==
  ASSUME Inv, NEW s \in Thread, Runs(s), pc[s] \in {"sub_dequeue", "s_store", "sub_queue"},
         NEW to \in {"dequeued", "queue", "commit"}, pc' = [pc EXCEPT ![s] = to],
         to = "queue" <=> pc[s] = "s_store",
         mode[Home[dest[s]]] \in {"run", "back"} \/ pc[s] = "s_store",
         current_thread[Home[dest[s]]] # dest[s] \/ mode[Home[dest[s]]] # "run",
         UNCHANGED <<pause_queue, requesting_thread, current_thread, mode, cpu, duration, dest, lock, roused>>,
         failed' \in Assertion \cup {"none"},
         RunQueues', queued \ {dest[s]} \subseteq queued', queued' \subseteq queued \cup {dest[s]},
         to = "commit" => queued \subseteq queued',
         to # "commit" => dest[s] \notin queued' /\ dest[s] \notin asleep,
         state' = (IF to = "queue" THEN [state EXCEPT ![dest[s]] = "RUNNING"] ELSE state)
  PROVE  Inv'
<1>0. /\ RunQueues /\ SleepQueues /\ Types /\ queued \subseteq Thread /\ asleep \subseteq Thread
      /\ (\A d \in CPU : ProcessorOK(d)) /\ (\A u \in Thread : ThreadOK(u))
      /\ \A u \in Thread : WakerOK(u)
  BY Parts
<1> DEFINE t == dest[s]
<1>1. /\ t \in Thread /\ t # s /\ lock[t] = s /\ Home[t] \in CPU
      /\ \A u \in Thread : u # s /\ pc[u] \in Waking \cup {"commit"} => dest[u] # t
  BY Woken DEF Waking
<1>2. WakerOK(s) /\ ~ Window(t) /\ pc[t] # "yield" /\ state[t] # "SUSPENDED"
  BY <1>0 DEF WakerOK, Waking
<1>3. to # "queue" => state[t] = "RUNNING"
  BY <1>2 DEF WakerOK, Waking
<1>4. SleepQueues' /\ asleep' = asleep /\ first' = first
  BY <1>0, SleepersKept
<1>5. Types'
  BY <1>0, <1>1 DEF Types, Waking
<1> HIDE DEF t
<1>6. \A u \in Thread : pc'[u] = IF u = s THEN to ELSE pc[u]
  BY <1>0 DEF Types
<1>7. \A u \in Thread : u # t => state'[u] = state[u]
  BY <1>0 DEF Types, t
<1>8. state'[t] = "RUNNING"
  BY <1>0, <1>1, <1>3 DEF Types, t
<1>9. \A d \in CPU : ProcessorOK(d)'
  <2>1. SUFFICES ASSUME NEW d \in CPU PROVE ProcessorOK(d)'
    OBVIOUS
  <2>2. ProcessorOK(d)
    BY <1>0
  <2>3. requesting_thread[d] # NoThread => requesting_thread[d] \in Thread /\ pc'[requesting_thread[d]] = pc[requesting_thread[d]]
    BY <1>0, <1>6, <2>2 DEF ProcessorOK, Types
  <2>4. mode[d] = "run" /\ current_thread[d] # NoThread => current_thread[d] # t
    BY <2>2 DEF ProcessorOK, t
  <2>5. mode[d] \in Firing => first[d] \in Thread /\ first[d] # t
    <3>1. pc[s] = "s_store" => t \notin asleep
      BY <1>2 DEF WakerOK, Waking, Moving, t
    <3> QED
      BY <1>0, <2>2, <3>1 DEF ProcessorOK, Firing, t
  <2>6. requesting_thread[d] = t => mode[d] = "last" /\ pc[s] = "s_store"
    BY <1>0, <1>1, <1>2, <2>2, NoThreadAssumption DEF ProcessorOK, Window, t
  <2> QED
    BY <1>4, <1>6, <1>7, <1>8, <2>2, <2>3, <2>4, <2>5, <2>6 DEF ProcessorOK, t
<1>10. \A u \in Thread : ThreadOK(u)'
  <2>1. SUFFICES ASSUME NEW u \in Thread PROVE ThreadOK(u)'
    OBVIOUS
  <2>2. (Window(u)' <=> Window(u)) /\ (Fires(u)' <=> Fires(u))
    BY <1>4 DEF Window, Fires
  <2>3. CASE u = t
    BY <1>0, <1>1, <1>2, <1>4, <1>6, <1>8, <2>2, <2>3 DEF ThreadOK, t
  <2>4. CASE u # t
    BY <1>0, <1>4, <1>6, <1>7, <2>2, <2>4 DEF ThreadOK, t
  <2> QED
    BY <2>3, <2>4
<1>11. \A u \in Thread : WakerOK(u)'
  <2>1. SUFFICES ASSUME NEW u \in Thread, pc'[u] \in Waking \cup {"commit"} PROVE WakerOK(u)'
    BY DEF WakerOK
  <2>2. dest[u] \in Thread /\ (Window(dest[u])' <=> Window(dest[u])) /\ (pc'[dest[u]] = "yield" => pc[dest[u]] = "yield")
    BY <1>0, <1>6 DEF Types, Window
  <2>3. CASE u = s
    BY <1>1, <1>2, <1>4, <1>6, <1>8, <2>2, <2>3 DEF WakerOK, Waking, Moving, t
  <2>4. CASE u # s
    <3>1. pc'[u] = pc[u] /\ dest[u] # t /\ WakerOK(u)
      BY <1>0, <1>1, <1>6, <2>1, <2>4
    <3>2. dest[u] \in queued' <=> dest[u] \in queued
      BY <3>1 DEF t
    <3> QED
      BY <1>4, <1>7, <2>2, <3>1, <3>2 DEF WakerOK
  <2> QED
    BY <2>3, <2>4
<1> QED
  BY <1>4, <1>5, <1>9, <1>10, <1>11 DEF Inv, Control

LEMMA SubDequeueKeeps ==
  ASSUME Inv, NEW s \in Thread, SubDequeue(s)
  PROVE  Inv'
<1>0. /\ RunQueues /\ SleepQueues /\ Types /\ queued \subseteq Thread /\ asleep \subseteq Thread
      /\ (\A d \in CPU : ProcessorOK(d)) /\ (\A u \in Thread : ThreadOK(u))
      /\ \A u \in Thread : WakerOK(u)
  BY Parts
<1> DEFINE t == dest[s]
           c == Home[t]
<1>1. /\ pc[s] = "sub_dequeue" /\ pc' = [pc EXCEPT ![s] = "dequeued"] /\ Runs(s)
      /\ LightOrComplete(Home[s], c)
      /\ UNCHANGED <<pause_queue, requesting_thread, current_thread, mode, state, cpu, duration, dest, lock, roused>>
  BY DEF SubDequeue, Goto, cpuVars, fieldVars
<1>2. t \in Thread /\ c \in CPU /\ t # s /\ state[t] = "RUNNING" /\ ~ Window(t)
  BY <1>0, <1>1, Woken DEF Waking, WakerOK
<1>3. mode[c] \in {"run", "back"} /\ (current_thread[c] # t \/ mode[c] # "run")
  BY <1>1, <1>2 DEF LightOrComplete, Light, Runs, At
<1>4. t \notin asleep
  BY <1>0, <1>2, <1>3 DEF ThreadOK, Fires, Firing
<1>5. RunQueues' /\ queued' = queued \ {t}
  <2>1. CASE t \in queued
    <3>1. CloseGap(c, t)
      BY <2>1 DEF SubDequeue, queued
    <3> QED
      BY <1>0, <2>1, <3>1, Gap
  <2>2. CASE t \notin queued
    <3>1. ~ Contains(sched_queue[c], t)
      BY <1>2, <2>2 DEF queued
    <3>2. UNCHANGED <<sched_queue, position>>
      BY <3>1 DEF SubDequeue
    <3>3. RunQueues' /\ queued' = queued
      BY <1>0, <3>2, QueuesKept
    <3> QED
      BY <2>2, <3>3
  <2> QED
    BY <2>1, <2>2
<1>6. failed' \in Assertion \cup {"none"}
  BY <1>0 DEF SubDequeue, Check, Types, Assertion
<1> QED
  BY <1>1, <1>3, <1>4, <1>5, <1>6, MoverKeeps

LEMMA SetStateKeeps ==
  ASSUME Inv, NEW s \in Thread, SetState(s)
  PROVE  Inv'
<1>0. /\ RunQueues /\ SleepQueues /\ Types /\ queued \subseteq Thread /\ asleep \subseteq Thread
      /\ (\A d \in CPU : ProcessorOK(d)) /\ (\A u \in Thread : ThreadOK(u))
      /\ \A u \in Thread : WakerOK(u)
  BY Parts
<1> DEFINE t == dest[s]
           c == Home[t]
<1>1. /\ pc[s] = "s_store" /\ pc' = [pc EXCEPT ![s] = "queue"] /\ Runs(s)
      /\ state' = [state EXCEPT ![t] = "RUNNING"]
      /\ UNCHANGED <<sched_queue, position, pause_queue, requesting_thread, current_thread, mode,
                     cpu, duration, dest, lock, roused, failed>>
  BY DEF SetState, Goto, cpuVars, queueVars
<1>2. t \notin queued /\ t \notin asleep /\ t \in Thread /\ c \in CPU
  BY <1>0, <1>1, Woken DEF WakerOK, Waking, Moving
<1>3. current_thread[c] # t \/ mode[c] # "run"
  BY <1>0, <1>2, NoThreadAssumption DEF ProcessorOK
<1>4. RunQueues' /\ queued' = queued
  BY <1>0, <1>1, QueuesKept
<1>5. failed' \in Assertion \cup {"none"}
  BY <1>0, <1>1 DEF Types
<1> QED
  BY <1>1, <1>2, <1>3, <1>4, <1>5, MoverKeeps

LEMMA SubQueueKeeps ==
  ASSUME Inv, NEW s \in Thread, SubQueue(s)
  PROVE  Inv'
<1>0. /\ RunQueues /\ SleepQueues /\ Types /\ queued \subseteq Thread /\ asleep \subseteq Thread
      /\ (\A d \in CPU : ProcessorOK(d)) /\ (\A u \in Thread : ThreadOK(u))
      /\ \A u \in Thread : WakerOK(u)
  BY Parts
<1> DEFINE t == dest[s]
           c == Home[t]
<1>1. /\ pc[s] = "sub_queue" /\ pc' = [pc EXCEPT ![s] = "commit"] /\ Runs(s)
      /\ Light(c) /\ Append1(c, t)
      /\ UNCHANGED <<position, pause_queue, requesting_thread, current_thread, mode, state,
                     cpu, duration, dest, lock, roused, failed>>
  BY DEF SubQueue, Goto, cpuVars, fieldVars
<1>2. t \notin queued /\ t \in Thread /\ c \in CPU
  BY <1>0, <1>1, Woken DEF WakerOK, Waking, Moving
<1>3. current_thread[c] # t \/ mode[c] # "run"
  BY <1>0, <1>2, NoThreadAssumption DEF ProcessorOK
<1>4. RunQueues' /\ queued \subseteq queued' /\ queued' \subseteq queued \cup {t}
  BY <1>0, <1>1, <1>2, Appended
<1>5. failed' \in Assertion \cup {"none"}
  BY <1>0, <1>1 DEF Types
<1>6. mode[c] \in {"run", "back"}
  BY <1>1 DEF Light
<1> HIDE DEF t, c
<1> QED
  BY <1>1, <1>3, <1>4, <1>5, <1>6, MoverKeeps DEF t, c

(* Where a thread that wakes another one goes after a test, and what it    *)
(* has seen there.                                                         *)
Tested(s, to) ==
  \/ pc[s] = "sent" /\ to = "s_same" /\ state[dest[s]] = "DORMANT"
  \/ pc[s] \in {"sent", "s_same"} /\ to = "commit"
  \/ pc[s] = "s_same" /\ to = "s_dormant"
  \/ pc[s] = "s_dormant" /\ to = "s_duration"
  \/ pc[s] = "s_dormant" /\ to = "s_running" /\ state[dest[s]] # "DORMANT"
  \/ pc[s] = "s_duration" /\ to = "restart"
  \/ pc[s] = "s_duration" /\ to = "s_running" /\ duration[dest[s]] = 0
  \/ pc[s] = "s_running" /\ to = "dequeue" /\ state[dest[s]] = "RUNNING"
  \/ pc[s] = "s_running" /\ to = "s_store" /\ state[dest[s]] # "RUNNING"
  \/ pc[s] = "dequeue" /\ to = "sub_dequeue"
  \/ pc[s] = "dequeued" /\ to = "s_store"
  \/ pc[s] = "queue" /\ to = "q_cpu"
  \/ pc[s] = "q_cpu" /\ to = "sub_queue"

LEMMA WakerTests ==
  ASSUME Inv, NEW s \in Thread,
         \/ SendQuietly(s) \/ SendTest(s) \/ SetTestSame(s) \/ SetTestDormant(s)
         \/ SetTestDuration(s) \/ SetTestRunning(s) \/ DequeueTest(s) \/ DequeueCpu(s)
         \/ QueueTest(s) \/ QueueCpu(s)
  PROVE  Inv'
<1>0. /\ RunQueues /\ SleepQueues /\ Types /\ queued \subseteq Thread /\ asleep \subseteq Thread
      /\ (\A d \in CPU : ProcessorOK(d)) /\ (\A u \in Thread : ThreadOK(u))
      /\ \A u \in Thread : WakerOK(u)
  BY Parts
<1> DEFINE t == dest[s]
<1>1. PICK to \in Waking \cup {"commit"} : pc' = [pc EXCEPT ![s] = to] /\ Tested(s, to)
  <2>1. CASE SendTest(s)
    <3>1. CASE state[t] = "DORMANT"
      BY <2>1, <3>1 DEF SendTest, Goto, Waking, Tested
    <3>2. CASE ~ (state[t] = "DORMANT")
      BY <2>1, <3>2 DEF SendTest, Goto, Waking, Tested
    <3> QED
      BY <3>1, <3>2
  <2>2. CASE SetTestSame(s)
    <3>1. CASE state[t] = "RUNNING"
      BY <2>2, <3>1 DEF SetTestSame, Read, Goto, Waking, Tested
    <3>2. CASE ~ (state[t] = "RUNNING")
      BY <2>2, <3>2 DEF SetTestSame, Read, Goto, Waking, Tested
    <3> QED
      BY <3>1, <3>2
  <2>3. CASE SetTestDormant(s)
    <3>1. CASE state[t] = "DORMANT"
      BY <2>3, <3>1 DEF SetTestDormant, Read, Goto, Waking, Tested
    <3>2. CASE ~ (state[t] = "DORMANT")
      BY <2>3, <3>2 DEF SetTestDormant, Read, Goto, Waking, Tested
    <3> QED
      BY <3>1, <3>2
  <2>4. CASE SetTestDuration(s)
    <3>1. CASE duration[t] # 0
      BY <2>4, <3>1 DEF SetTestDuration, Read, Goto, Waking, Tested
    <3>2. CASE ~ (duration[t] # 0)
      BY <2>4, <3>2 DEF SetTestDuration, Read, Goto, Waking, Tested
    <3> QED
      BY <3>1, <3>2
  <2>5. CASE SetTestRunning(s)
    <3>1. CASE state[t] = "RUNNING"
      BY <2>5, <3>1 DEF SetTestRunning, Read, Goto, Waking, Tested
    <3>2. CASE ~ (state[t] = "RUNNING")
      BY <2>5, <3>2 DEF SetTestRunning, Read, Goto, Waking, Tested
    <3> QED
      BY <3>1, <3>2
  <2>6. CASE DequeueTest(s)
    BY <2>6 DEF DequeueTest, Goto, Waking, Tested
  <2>7. CASE DequeueCpu(s)
    BY <2>7 DEF DequeueCpu, Goto, Waking, Tested
  <2>8. CASE QueueTest(s)
    BY <2>8 DEF QueueTest, Goto, Waking, Tested
  <2>9. CASE QueueCpu(s)
    BY <2>9 DEF QueueCpu, Goto, Waking, Tested
  <2>10. CASE SendQuietly(s)
    BY <2>10 DEF SendQuietly, Goto, Waking, Tested
  <2> QED
    BY <2>1, <2>2, <2>3, <2>4, <2>5, <2>6, <2>7, <2>8, <2>9, <2>10
<1>2. /\ UNCHANGED <<sched_queue, pause_queue, position, requesting_thread, current_thread, mode,
                     state, duration, dest, lock>>
      /\ Runs(s)
  BY DEF SendQuietly, SendTest, SetTestSame, SetTestDormant, SetTestDuration, SetTestRunning, DequeueTest, DequeueCpu,
         QueueTest, QueueCpu, Read, Goto, queueVars, cpuVars, fieldVars
<1>3. pc[s] \in Waking /\ t \in Thread /\ t # s /\ state[t] \in {"RUNNING", "DORMANT"} /\ Home[t] \in CPU
  <2>1. pc[s] \in Waking
    BY <1>1 DEF Waking, Tested
  <2> QED
    BY <2>1, Woken
<1>4. Types'
  <2>1. cpu' \in [Thread -> CPU \cup {-1}]
    BY <1>0, <1>3 DEF Types, SendQuietly, SendTest, SetTestSame, SetTestDormant, SetTestDuration,
         SetTestRunning, DequeueTest, DequeueCpu,
         QueueTest, QueueCpu, Read, fieldVars
  <2>2. failed' \in Assertion \cup {"none"}
    BY <1>0 DEF Types, SendQuietly, SendTest, SetTestSame, SetTestDormant, SetTestDuration,
         SetTestRunning, DequeueTest, DequeueCpu, QueueTest, QueueCpu, Read, Check, Assertion
  <2>3. roused' \in [Thread -> BOOLEAN]
    <3>1. CASE SendTest(s)
      BY <1>0, <3>1, Zenon DEF Types, SendTest
    <3>2. CASE UNCHANGED roused
      BY <1>0, <3>2 DEF Types
    <3> QED
      BY <3>1, <3>2 DEF SendQuietly, SetTestSame, SetTestDormant, SetTestDuration, SetTestRunning,
         DequeueTest, DequeueCpu, QueueTest, QueueCpu, Read
  <2> QED
    BY <1>0, <1>1, <1>2, <2>1, <2>2, <2>3 DEF Types
<1>5. WakerOK(s) /\ ThreadOK(t) /\ ProcessorOK(Home[t])
  BY <1>0, <1>3
<1>6. state[t] = "DORMANT" => ~ Window(t) /\ pc[t] # "yield"
  BY <1>0, <1>3, <1>5, NoThreadAssumption DEF ThreadOK, ProcessorOK, Window
<1>7. Fires(t) => state[t] = "RUNNING"
  BY <1>5 DEF Fires, ProcessorOK
<1>8. to \in Waking \ {"sent"} => ~ Window(t) /\ pc[t] # "yield"
  BY <1>1, <1>5, <1>6 DEF WakerOK, Waking, Tested
<1>9. to = "s_running" => (t \in asleep => state[t] = "RUNNING")
  BY <1>1, <1>3, <1>5, <1>7, <1>8 DEF ThreadOK, Waking, Tested
<1>10. to \in {"dequeue", "sub_dequeue", "queue", "q_cpu", "sub_queue"} => state[t] = "RUNNING"
  BY <1>1, <1>5 DEF WakerOK, Waking, Tested
<1>11. to \in Moving => t \notin asleep /\ t \notin queued
  BY <1>1, <1>5 DEF WakerOK, Waking, Moving, ThreadOK, Tested
<1> QED
  BY <1>1, <1>2, <1>3, <1>4, <1>8, <1>9, <1>10, <1>11, WakerMoves

(* A step of t on its own fields keeps the invariants if the lock of every *)
(* receiver stays with its sender, and if what t knows is true.            *)
LEMMA CallKeeps ==
  ASSUME Inv, NEW t \in Thread, Runs(t), pc[t] # "yield", Types',
         UNCHANGED <<sched_queue, pause_queue, position, requesting_thread, current_thread, mode, state>>,
         \A u \in Thread : u # t => pc'[u] = pc[u] /\ dest'[u] = dest[u] /\ duration'[u] = duration[u],
         \A u \in Thread : pc'[u] = "waiting" => lock'[u] = u,
         \A u \in Thread : u # t /\ pc[u] \in Waking \cup {"commit"} =>
           lock'[dest[u]] = u /\ (pc'[t] = "yield" => dest[u] # t),
         WakerOK(t)'
  PROVE  Inv'
<1>0. /\ RunQueues /\ SleepQueues /\ Types /\ queued \subseteq Thread /\ asleep \subseteq Thread
      /\ (\A d \in CPU : ProcessorOK(d)) /\ (\A u \in Thread : ThreadOK(u))
      /\ \A u \in Thread : WakerOK(u)
  BY Parts
<1>1. /\ Home[t] \in CPU /\ mode[Home[t]] = "run" /\ current_thread[Home[t]] = t
      /\ t \in queued /\ state[t] = "RUNNING" /\ t \notin asleep
      /\ requesting_thread[Home[t]] = NoThread
  BY Running
<1>2. RunQueues' /\ queued' = queued
  BY <1>0, QueuesKept
<1>3. SleepQueues' /\ asleep' = asleep /\ first' = first
  BY <1>0, SleepersKept
<1>4. \A d \in CPU : ProcessorOK(d)'
  <2>1. SUFFICES ASSUME NEW d \in CPU PROVE ProcessorOK(d)'
    OBVIOUS
  <2>2. ProcessorOK(d)
    BY <1>0
  <2>3. requesting_thread[d] # NoThread =>
          requesting_thread[d] \in Thread /\ pc'[requesting_thread[d]] = pc[requesting_thread[d]]
    BY <1>0, <1>1, <2>2 DEF Types, ProcessorOK
  <2> QED
    BY <1>2, <1>3, <2>2, <2>3 DEF ProcessorOK
<1>5. \A u \in Thread : ThreadOK(u)'
  <2>1. SUFFICES ASSUME NEW u \in Thread PROVE ThreadOK(u)'
    OBVIOUS
  <2>2. (Window(u)' <=> Window(u)) /\ (Fires(u)' <=> Fires(u))
    BY <1>3 DEF Window, Fires
  <2>3. CASE u = t
    <3>1. ~ Window(t)
      BY <1>1, NoThreadAssumption DEF Window
    <3> QED
      BY <1>1, <1>2, <1>3, <2>2, <2>3, <3>1 DEF ThreadOK
  <2>4. CASE u # t
    BY <1>0, <1>2, <1>3, <2>2, <2>4 DEF ThreadOK
  <2> QED
    BY <2>3, <2>4
<1>6. \A u \in Thread : WakerOK(u)'
  <2>1. SUFFICES ASSUME NEW u \in Thread, u # t, pc[u] \in Waking \cup {"commit"} PROVE WakerOK(u)'
    BY DEF WakerOK
  <2>2. /\ WakerOK(u) /\ pc'[u] = pc[u] /\ dest'[u] = dest[u] /\ dest[u] \in Thread
        /\ lock'[dest[u]] = u
    BY <1>0, <2>1 DEF Types
  <2>3. pc'[dest[u]] = "yield" => pc[dest[u]] = "yield"
    BY <2>1, <2>2
  <2> QED
    BY <1>2, <1>3, <2>1, <2>2, <2>3 DEF WakerOK, Window
<1> QED
  BY <1>2, <1>3, <1>4, <1>5, <1>6 DEF Inv, Control

(* Steps of go_dormant, with the own process. *)
LEMMA OwnCallKeeps ==
  ASSUME Inv, NEW t \in Thread,
         GoDormantCheckout(t) \/ GoDormantFull(t) \/ GoDormantReturn(t)
  PROVE  Inv'
<1>0. /\ RunQueues /\ SleepQueues /\ Types /\ queued \subseteq Thread /\ asleep \subseteq Thread
      /\ (\A d \in CPU : ProcessorOK(d)) /\ (\A u \in Thread : ThreadOK(u))
      /\ \A u \in Thread : WakerOK(u)
  BY Parts
<1>1. /\ Runs(t) /\ pc[t] \in {"user", "waiting", "woken"}
      /\ UNCHANGED <<sched_queue, pause_queue, position, requesting_thread, current_thread, mode,
                     state, cpu, dest, roused, failed>>
  BY DEF GoDormantCheckout, GoDormantFull, GoDormantReturn, Goto, queueVars, cpuVars, fieldVars
<1>2. PICK to \in {"user", "waiting", "yield"}, l \in {t, NoThread, lock[t]} :
        /\ pc' = [pc EXCEPT ![t] = to] /\ lock' = [lock EXCEPT ![t] = l]
        /\ to = "waiting" => l = t
        /\ to = "yield" => pc[t] = "waiting"
        /\ l = lock[t] \/ lock[t] \in {t, NoThread}
  <2>1. CASE GoDormantCheckout(t)
    BY <2>1 DEF GoDormantCheckout, Goto
  <2>3. CASE GoDormantFull(t)
    BY <1>0, <2>3 DEF GoDormantFull, Goto, ThreadOK
  <2>4. CASE GoDormantReturn(t)
    BY <1>0, <2>4 DEF GoDormantReturn, Goto, Types
  <2> QED
    BY <2>1, <2>3, <2>4
<1>3. Types'
  <2>1. duration' \in [Thread -> {0, 1}]
    BY <1>0 DEF Types, GoDormantCheckout, GoDormantFull, GoDormantReturn, fieldVars
  <2> QED
    BY <1>0, <1>1, <1>2, <2>1 DEF Types
<1>4. \A u \in Thread : u # t => pc'[u] = pc[u] /\ dest'[u] = dest[u] /\ duration'[u] = duration[u]
  <2>1. \A u \in Thread : u # t => duration'[u] = duration[u]
    BY <1>0 DEF Types, GoDormantCheckout, GoDormantFull, GoDormantReturn, fieldVars
  <2> QED
    BY <1>0, <1>1, <1>2, <2>1 DEF Types
<1>5. pc'[t] = to /\ lock'[t] = l /\ \A u \in Thread : u # t => lock'[u] = lock[u]
  BY <1>0, <1>2 DEF Types
<1>6. \A u \in Thread : pc'[u] = "waiting" => lock'[u] = u
  BY <1>0, <1>2, <1>4, <1>5 DEF ThreadOK
<1>7. ASSUME NEW u \in Thread, u # t, pc[u] \in Waking \cup {"commit"}
      PROVE  lock'[dest[u]] = u /\ (pc'[t] = "yield" => dest[u] # t)
  <2>1. dest[u] \in Thread /\ lock[dest[u]] = u
    BY <1>7, Woken
  <2>2. dest[u] = t => l = lock[t]
    BY <1>2, <1>7, <2>1, NoThreadAssumption
  <2>3. pc[t] = "waiting" => dest[u] # t
    BY <1>0, <1>7, <2>1 DEF ThreadOK
  <2> QED
    BY <1>2, <1>5, <2>1, <2>2, <2>3
<1>8. WakerOK(t)'
  BY <1>2, <1>5 DEF WakerOK, Waking
<1>9. pc[t] # "yield"
  BY <1>1
<1> QED
  BY <1>1, <1>3, <1>4, <1>6, <1>7, <1>8, <1>9, CallKeeps

LEMMA SendKeeps ==
  ASSUME Inv, NEW s \in Thread, NEW t \in Thread, Send(s, t)
  PROVE  Inv'
<1>0. /\ RunQueues /\ SleepQueues /\ Types /\ queued \subseteq Thread /\ asleep \subseteq Thread
      /\ (\A d \in CPU : ProcessorOK(d)) /\ (\A u \in Thread : ThreadOK(u))
      /\ \A u \in Thread : WakerOK(u)
  BY Parts
<1>1. /\ s # t /\ state[t] # "SUSPENDED" /\ Runs(s) /\ pc[s] = "user" /\ pc' = [pc EXCEPT ![s] = "sent"]
      /\ lock[t] = NoThread /\ lock' = [lock EXCEPT ![t] = s] /\ dest' = [dest EXCEPT ![s] = t]
      /\ UNCHANGED <<sched_queue, pause_queue, position, requesting_thread, current_thread, mode,
                     state, cpu, duration, roused, failed>>
  BY DEF Send, Goto, queueVars, cpuVars, fieldVars
<1>2. Types'
  BY <1>0, <1>1 DEF Types, Waking
<1>3. \A u \in Thread : u # s => pc'[u] = pc[u] /\ dest'[u] = dest[u] /\ duration'[u] = duration[u]
  BY <1>0, <1>1 DEF Types
<1>4. pc'[s] = "sent" /\ dest'[s] = t /\ lock'[t] = s /\ \A u \in Thread : u # t => lock'[u] = lock[u]
  BY <1>0, <1>1 DEF Types
<1>5. \A u \in Thread : pc'[u] = "waiting" => lock'[u] = u
  BY <1>0, <1>1, <1>3, <1>4, NoThreadAssumption DEF ThreadOK
<1>6. ASSUME NEW u \in Thread, u # s, pc[u] \in Waking \cup {"commit"}
      PROVE  lock'[dest[u]] = u /\ (pc'[s] = "yield" => dest[u] # s)
  BY <1>1, <1>4, <1>6, Woken, NoThreadAssumption
<1>7. WakerOK(s)'
  BY <1>1, <1>4 DEF WakerOK, Waking, Moving
<1>8. pc[s] # "yield"
  BY <1>1
<1> QED
  BY <1>1, <1>2, <1>3, <1>5, <1>6, <1>7, <1>8, CallKeeps

LEMMA CommitKeeps ==
  ASSUME Inv, NEW s \in Thread, Commit(s)
  PROVE  Inv'
<1>0. /\ RunQueues /\ SleepQueues /\ Types /\ queued \subseteq Thread /\ asleep \subseteq Thread
      /\ (\A d \in CPU : ProcessorOK(d)) /\ (\A u \in Thread : ThreadOK(u))
      /\ \A u \in Thread : WakerOK(u)
  BY Parts
<1> DEFINE t == dest[s]
<1>1. /\ Runs(s) /\ pc[s] = "commit" /\ pc' = [pc EXCEPT ![s] = "user"]
      /\ lock' = [lock EXCEPT ![t] = NoThread] /\ dest' = [dest EXCEPT ![s] = s]
      /\ UNCHANGED <<sched_queue, pause_queue, position, requesting_thread, current_thread, mode,
                     state, cpu, duration, roused, failed>>
  BY DEF Commit, Goto, queueVars, cpuVars, fieldVars
<1>2. /\ t \in Thread /\ t # s /\ lock[t] = s
      /\ \A u \in Thread : u # s /\ pc[u] \in Waking \cup {"commit"} =>
           dest[u] # t /\ lock[dest[u]] = u /\ dest[u] \in Thread
  BY <1>1, Woken
<1> HIDE DEF t
<1>3. Types'
  BY <1>0, <1>1 DEF Types
<1>4. \A u \in Thread : u # s => pc'[u] = pc[u] /\ dest'[u] = dest[u] /\ duration'[u] = duration[u]
  BY <1>0, <1>1 DEF Types
<1>5. pc'[s] = "user" /\ \A u \in Thread : u # t => lock'[u] = lock[u]
  BY <1>0, <1>1 DEF Types
<1>6. \A u \in Thread : pc'[u] = "waiting" => lock'[u] = u
  BY <1>0, <1>2, <1>4, <1>5 DEF ThreadOK
<1>7. \A u \in Thread : u # s /\ pc[u] \in Waking \cup {"commit"} =>
        lock'[dest[u]] = u /\ (pc'[s] = "yield" => dest[u] # s)
  BY <1>2, <1>5
<1>8. WakerOK(s)'
  BY <1>5 DEF WakerOK, Waking
<1>9. pc[s] # "yield"
  BY <1>1
<1> QED
  BY <1>1, <1>3, <1>4, <1>6, <1>7, <1>8, <1>9, CallKeeps

-----------------------------------------------------------------------------
LEMMA InvInit ==
  Init => Inv
<1> SUFFICES ASSUME Init PROVE Inv
  OBVIOUS
<1>1. \A c \in CPU : sched_queue[c] = <<>> /\ pause_queue[c] = <<>> /\ position[c] = 0
  BY DEF Init
<1>2. RunQueues
  BY <1>1, SizeAssumption DEF Init, RunQueues, RunQueue
<1>3. SleepQueues
  BY <1>1, SizeAssumption DEF Init, SleepQueues, Sleepers
<1>4. queued = {} /\ asleep = {}
  BY <1>1, HomeIsCPU DEF queued, asleep, Contains, Has
<1>5. Types
  BY DEF Init, Types
<1>6. \A c \in CPU : ProcessorOK(c)
  BY <1>4 DEF Init, ProcessorOK, Firing
<1>7. \A t \in Thread : ThreadOK(t)
  BY <1>4, HomeIsCPU, NoThreadAssumption DEF Init, ThreadOK, Window
<1>8. \A s \in Thread : WakerOK(s)
  BY DEF Init, WakerOK, Waking
<1> QED
  BY <1>2, <1>3, <1>5, <1>6, <1>7, <1>8 DEF Inv, Control

LEMMA InvNext ==
  Inv /\ [Next]_vars => Inv'
<1> SUFFICES ASSUME Inv, [Next]_vars PROVE Inv'
  OBVIOUS
<1>1. ASSUME NEW c \in CPU, Schedule(c) PROVE Inv'
  BY <1>1, RemoveLastKeeps, RemoveLastCpuKeeps, TimerStateKeeps, TimerDurationKeeps, TimerCpuKeeps,
     PickKeeps, SwitchOutKeeps DEF Schedule
<1>2. ASSUME NEW t \in Thread, Proceed(t) PROVE Inv'
  BY <1>2, OwnCallKeeps, GoDormantKeeps, GoDormantForKeeps, WakerTests, RestartKeeps,
     SubDequeueKeeps, SetStateKeeps, SubQueueKeeps, CommitKeeps DEF Proceed
<1>3. ASSUME NEW t \in Thread, StartThread(t) PROVE Inv'
  BY <1>3, StartThreadKeeps
<1>4. ASSUME NEW t \in Thread, GoDormantCheckout(t) PROVE Inv'
  BY <1>4, OwnCallKeeps
<1>5. ASSUME NEW t \in Thread, NEW u \in Thread, Send(t, u) PROVE Inv'
  BY <1>5, SendKeeps
<1>6. CASE UNCHANGED vars
  <2>1. UNCHANGED <<sched_queue, pause_queue, position, requesting_thread, current_thread, mode,
                    state, cpu, duration, pc, dest, lock, roused, failed>>
    BY <1>6 DEF vars, queueVars, cpuVars, fieldVars, callVars
  <2>2. RunQueues /\ SleepQueues
    BY DEF Inv
  <2>3. RunQueues' /\ queued' = queued /\ SleepQueues' /\ asleep' = asleep /\ first' = first
    BY <2>1, <2>2, QueuesKept, SleepersKept
  <2> QED
    BY <2>1, <2>3 DEF Inv, Control, Types, ProcessorOK, ThreadOK, WakerOK, Window, Fires
<1> QED
  BY <1>1, <1>2, <1>3, <1>4, <1>5, <1>6 DEF Next

LEMMA Inductive ==
  Spec => []Inv
<1>1. Init => Inv
  BY InvInit
<1>2. Inv /\ [Next]_vars => Inv'
  BY InvNext
<1> QED
  BY <1>1, <1>2, PTL DEF Spec

LEMMA InvGivesQueuesSound ==
  Inv => QueuesSound
<1> SUFFICES ASSUME Inv PROVE QueuesSound
  OBVIOUS
<1>0. RunQueues /\ SleepQueues /\ Types
  BY DEF Inv, Control
<1>1. ASSUME NEW c \in CPU
      PROVE  /\ sched_queue[c] \in Seq(Thread) /\ DOMAIN sched_queue[c] = 1 .. Len(sched_queue[c])
             /\ pause_queue[c] \in Seq(Entry) /\ DOMAIN pause_queue[c] = 1 .. Len(pause_queue[c])
  BY <1>0 DEF RunQueues, SleepQueues
<1>2. TypeOK
  BY <1>0 DEF TypeOK, Types, RunQueues, SleepQueues, RunQueue, Sleepers
<1>3. ASSUME NEW c \in CPU
      PROVE  /\ IsInjective(sched_queue[c])
             /\ IsInjective([i \in DOMAIN pause_queue[c] |-> pause_queue[c][i].tr])
  <2>1. IsInjective(sched_queue[c])
    BY <1>0, <1>1 DEF IsInjective, RunQueues, RunQueue
  <2>2. \A i, j \in 1 .. Len(pause_queue[c]) : pause_queue[c][i].tr = pause_queue[c][j].tr => i = j
    BY <1>0 DEF SleepQueues, Sleepers
  <2> QED
    BY <1>1, <2>1, <2>2 DEF IsInjective
<1>4. PositionInside
  BY <1>0 DEF PositionInside, RunQueues
<1> QED
  BY <1>2, <1>3, <1>4 DEF QueuesSound, QueuedOnce

(* Whatever the number of processors and threads, the sizes of the queues  *)
(* and the interleaving of sub_queue, sub_dequeue, remove_last, pause,     *)
(* restart and remove_timers (scheduler/scheduler.c): a thread is queued   *)
(* once and sleeps once, and the index of the round robin stays inside.    *)
THEOREM QueuesStaySound ==
  Spec => []QueuesSound
BY Inductive, InvGivesQueuesSound, PTL

(* Whatever pause and restart insert and however the clock advances, the   *)
(* first entry that remove_timers looks at is the first one due.           *)
THEOREM SleepersSorted ==
  Spec => []PauseSorted
<1>1. Inv => PauseSorted
  <2> SUFFICES ASSUME Inv, NEW c \in CPU, NEW i \in DOMAIN pause_queue[c],
                      NEW j \in DOMAIN pause_queue[c], i < j
               PROVE  pause_queue[c][i].left <= pause_queue[c][j].left
    BY DEF PauseSorted
  <2>1. Sleepers(pause_queue[c], c) /\ DOMAIN pause_queue[c] = 1 .. Len(pause_queue[c])
    BY DEF Inv, SleepQueues, Sleepers
  <2> QED
    BY <2>1 DEF Sleepers
<1> QED
  BY <1>1, Inductive, PTL

(* The thread that a processor runs is in its queue: neither a dequeue on  *)
(* behalf of set_thread_state nor remove_last takes it out while it runs.  *)
THEOREM WhoRunsIsQueued ==
  Spec => []RunningIsQueued
<1>1. Inv => RunningIsQueued
  <2> SUFFICES ASSUME Inv, NEW c \in CPU, mode[c] = "run", current_thread[c] # NoThread
               PROVE  Contains(sched_queue[c], current_thread[c])
    BY DEF RunningIsQueued
  <2>1. current_thread[c] \in queued /\ Home[current_thread[c]] = c
    BY Parts DEF ProcessorOK
  <2> QED
    BY <2>1 DEF queued
<1> QED
  BY <1>1, Inductive, PTL

(* A dormant thread is in no run queue, and one that sleeps for a time has *)
(* the timer that ends its sleep, from go_dormant to remove_timers.        *)
THEOREM SleepersHaveTimers ==
  Spec => []SleeperHasTimer
<1>1. Inv => SleeperHasTimer
  <2> SUFFICES ASSUME Inv, NEW t \in Thread, state[t] = "DORMANT"
               PROVE  /\ ~ Contains(sched_queue[Home[t]], t)
                      /\ duration[t] # 0 => \E i \in DOMAIN pause_queue[Home[t]] :
                                              pause_queue[Home[t]][i].tr = t
    BY DEF SleeperHasTimer
  <2>1. t \notin queued /\ (duration[t] # 0 => t \in asleep)
    BY Parts DEF ThreadOK
  <2>2. DOMAIN pause_queue[Home[t]] = 1 .. Len(pause_queue[Home[t]])
    BY HomeIsCPU DEF Inv, SleepQueues
  <2> QED
    BY <2>1, <2>2 DEF queued, asleep, Has
<1> QED
  BY <1>1, Inductive, PTL

-----------------------------------------------------------------------------
(* Every processor has room for all of its threads. *)
Room ==
  \A c \in CPU : /\ IsFiniteSet({t \in Thread : Home[t] = c})
                 /\ Cardinality({t \in Thread : Home[t] = c}) <= SchedSize

LEMMA RoomForOne ==
  ASSUME Room, RunQueues, NEW t \in Thread, t \notin queued
  PROVE  Len(sched_queue[Home[t]]) # SchedSize
<1> DEFINE c == Home[t]
           q == sched_queue[c]
           H == {u \in Thread : Home[u] = c}
<1>1. c \in CPU /\ RunQueue(q, c) /\ ~ Contains(q, t)
  BY HomeIsCPU DEF RunQueues, queued
<1>2. IsFiniteSet(H) /\ Cardinality(H) <= SchedSize /\ t \in H
  BY <1>1 DEF Room
<1>3. /\ q \in Seq(Thread) /\ Len(q) \in Nat /\ DOMAIN q = 1 .. Len(q)
      /\ \A i \in 1 .. Len(q) : q[i] \in H \ {t}
      /\ \A i, j \in 1 .. Len(q) : q[i] = q[j] => i = j
  BY <1>1 DEF RunQueue, Contains
<1> HIDE DEF q, H
<1>4. q \in [1 .. Len(q) -> H \ {t}]
  BY <1>3
<1>5. q \in Injection(1 .. Len(q), H \ {t})
  BY <1>3, <1>4 DEF Injection, IsInjective
<1>6. IsFiniteSet(H \ {t}) /\ Cardinality(H \ {t}) = Cardinality(H) - 1
  BY <1>2, FS_RemoveElement
<1>7. Cardinality(1 .. Len(q)) <= Cardinality(H \ {t})
  BY <1>5, <1>6, FS_Injection
<1>8. Cardinality(1 .. Len(q)) = Len(q)
  BY <1>3, FS_Interval
<1>9. Cardinality(H) \in Nat
  BY <1>2, FS_CardinalityType
<1>10. Len(q) < SchedSize
  BY <1>2, <1>3, <1>6, <1>7, <1>8, <1>9, SizeAssumption, SMTT(30)
<1> QED
  BY <1>10 DEF q

(* A thread that went to sleep and whose cpu is not reset yet. *)
Leaving(t) == mode[Home[t]] = "last" /\ requesting_thread[Home[t]] = t

(* cpu names the processor of a queued thread; a runnable thread is queued *)
(* unless its timer or a thread that wakes it is about to queue it; and    *)
(* what the latter has stored in cpu stays there.                          *)
KnownCpu == \A t \in Thread : t \in queued \/ Leaving(t) => cpu[t] = Home[t]
KeptPlace ==
  \A t \in Thread : state[t] = "RUNNING" =>
    t \in queued \/ Fires(t) \/ \E s \in Thread : s # t /\ dest[s] = t /\ pc[s] \in Moving
MoverCpu ==
  \A s \in Thread : /\ pc[s] = "dequeued" => ~ Leaving(dest[s])
                    /\ pc[s] = "q_cpu" => cpu[dest[s]] = -1
                    /\ pc[s] = "sub_queue" => cpu[dest[s]] = Home[dest[s]] /\ ~ Leaving(dest[s])
Placement == failed = "none" => KnownCpu /\ KeptPlace /\ MoverCpu

LEMMA PlacementFrame ==
  ASSUME Inv, KnownCpu, KeptPlace, MoverCpu, UNCHANGED <<cpu>>, queued' = queued,
         \A t \in Thread : state'[t] = "RUNNING" => state[t] = "RUNNING",
         \A t \in Thread : (Fires(t) => Fires(t)') /\ (Leaving(t)' => Leaving(t)),
         \A s \in Thread : pc[s] \in Moving => pc'[s] \in Moving /\ dest'[s] = dest[s],
         \A s \in Thread : pc'[s] \in {"dequeued", "q_cpu", "sub_queue"} =>
           pc'[s] = pc[s] /\ dest'[s] = dest[s]
  PROVE  Placement'
<1>0. \A s \in Thread : dest[s] \in Thread
  BY Parts DEF Types
<1>1. KnownCpu'
  BY DEF KnownCpu
<1>2. KeptPlace'
  BY DEF KeptPlace
<1>3. MoverCpu'
  BY <1>0 DEF MoverCpu, Moving
<1> QED
  BY <1>1, <1>2, <1>3 DEF Placement

(* Steps that neither move a thread nor write its state or cpu. *)
Quiet(t) ==
  \/ GoDormantCheckout(t) \/ GoDormant(t) \/ GoDormantFull(t) \/ GoDormantReturn(t)
  \/ \E m \in Timeouts : GoDormantFor(t, m)
  \/ SendQuietly(t) \/ SendTest(t) \/ SetTestSame(t) \/ SetTestDormant(t)
  \/ SetTestDuration(t) \/ SetTestRunning(t) \/ Restart(t) \/ DequeueTest(t) \/ Commit(t)
  \/ \E u \in Thread : Send(t, u)

LEMMA QuietCall ==
  ASSUME Inv, NEW t \in Thread, Quiet(t)
  PROVE  /\ Runs(t) /\ UNCHANGED <<cpu, state, mode, sched_queue, position>> /\ queued' = queued
         /\ \A u \in Thread : (Fires(u)' <=> Fires(u)) /\ (Leaving(u)' <=> Leaving(u))
         /\ pc[t] \notin Moving /\ pc'[t] \notin {"dequeued", "q_cpu", "sub_queue"}
         /\ \A u \in Thread : u # t => pc'[u] = pc[u] /\ dest'[u] = dest[u]
<1>0. RunQueues /\ SleepQueues /\ Types /\ Runs(t)
  BY Parts DEF Quiet, GoDormantCheckout, GoDormant, RequestDormant, GoDormantFull,
     GoDormantReturn, GoDormantFor, SendQuietly, SendTest, SetTestSame, SetTestDormant,
     SetTestDuration, SetTestRunning, Restart, DequeueTest, Commit, Send, Read, Goto
<1>1. UNCHANGED <<cpu, state, mode, sched_queue, position>>
  BY DEF Quiet, GoDormantCheckout, GoDormant, RequestDormant, GoDormantFull,
     GoDormantReturn, GoDormantFor, SendQuietly, SendTest, SetTestSame, SetTestDormant,
     SetTestDuration, SetTestRunning, Restart, DequeueTest, Commit, Send, Read,
     Goto, queueVars, cpuVars, fieldVars
<1>2. queued' = queued
  BY <1>0, <1>1, QueuesKept
<1>3. \A d \in CPU : mode[d] \in Firing => pause_queue'[d] = pause_queue[d]
  <2>1. CASE \E m \in Timeouts : GoDormantFor(t, m)
    BY <1>0, <2>1, HomeIsCPU DEF GoDormantFor, Runs, At, Firing, SleepQueues
  <2>2. CASE Restart(t)
    BY <1>0, <2>2 DEF Restart, LightOrComplete, Light, Firing, SleepQueues
  <2>3. CASE UNCHANGED pause_queue
    BY <2>3
  <2> QED
    BY <2>1, <2>2, <2>3 DEF Quiet, GoDormantCheckout, GoDormant, GoDormantFull,
     GoDormantReturn, SendQuietly, SendTest, SetTestSame, SetTestDormant, SetTestDuration,
     SetTestRunning, DequeueTest, Commit, Send, Read, queueVars
<1>4. \A u \in Thread : Fires(u)' <=> Fires(u)
  <2>1. first' = [d \in CPU |-> pause_queue'[d][1].tr]
    BY DEF first
  <2> QED
    BY <1>1, <1>3, <2>1, HomeIsCPU DEF Fires, first
<1>5. \A u \in Thread : Leaving(u)' <=> Leaving(u)
  <2>1. CASE UNCHANGED requesting_thread
    BY <1>1, <2>1 DEF Leaving
  <2>2. CASE requesting_thread' = [requesting_thread EXCEPT ![Home[t]] = t]
    BY <1>0, <1>1, <2>2, HomeIsCPU DEF Leaving, Runs, At, Types
  <2> QED
    BY <2>1, <2>2 DEF Quiet, GoDormantCheckout, GoDormant, RequestDormant, GoDormantFull,
     GoDormantReturn, GoDormantFor, SendQuietly, SendTest, SetTestSame, SetTestDormant,
     SetTestDuration, SetTestRunning, Restart, DequeueTest, Commit, Send, Read, queueVars
<1>6. /\ pc[t] \notin Moving /\ pc'[t] \notin {"dequeued", "q_cpu", "sub_queue"}
      /\ \A u \in Thread : u # t => pc'[u] = pc[u] /\ dest'[u] = dest[u]
  BY <1>0, ZenonT(60) DEF Quiet, GoDormantCheckout, GoDormant, RequestDormant, GoDormantFull,
     GoDormantReturn, GoDormantFor, SendQuietly, SendTest, SetTestSame, SetTestDormant,
     SetTestDuration, SetTestRunning, Restart, DequeueTest, Commit, Send, Read,
     Goto, Types, Moving
<1> QED
  BY <1>0, <1>1, <1>2, <1>4, <1>5, <1>6

LEMMA QuietSteps ==
  ASSUME Inv, KnownCpu, KeptPlace, MoverCpu, NEW t \in Thread, Quiet(t)
  PROVE  Placement'
BY QuietCall, PlacementFrame

LEMMA QuietDispatch ==
  ASSUME Inv, KnownCpu, KeptPlace, MoverCpu, NEW c \in CPU,
         TimerDuration(c) \/ Pick(c) \/ SwitchOut(c)
  PROVE  Placement'
<1>0. /\ RunQueues /\ SleepQueues /\ Types /\ queued \subseteq Thread /\ asleep \subseteq Thread
      /\ (\A d \in CPU : ProcessorOK(d)) /\ (\A u \in Thread : ThreadOK(u))
      /\ \A u \in Thread : WakerOK(u)
  BY Parts
<1>1. UNCHANGED <<cpu, state, sched_queue, pause_queue, requesting_thread, dest>>
  BY DEF TimerDuration, Pick, SwitchOut, queueVars, fieldVars, callVars
<1>2. queued' = queued /\ first' = first
  BY <1>1 DEF queued, first, Contains
<1>3. \A u \in Thread : (Fires(u) => Fires(u)') /\ (Leaving(u)' => Leaving(u))
  <2>1. \E m \in {"run", "back", "t_cpu"} : mode' = [mode EXCEPT ![c] = m]
    BY DEF TimerDuration, Pick, SwitchOut
  <2>2. mode[c] \in Firing => mode'[c] \in Firing
    BY <1>0 DEF TimerDuration, Pick, SwitchOut, At, Types, Firing
  <2> QED
    BY <1>0, <1>1, <1>2, <2>1, <2>2, HomeIsCPU DEF Types, Fires, Leaving
<1>4. \A u \in Thread : \/ pc'[u] = pc[u]
                        \/ pc[u] = "yield" /\ pc'[u] = "woken"
  BY <1>0 DEF TimerDuration, Pick, SwitchOut, callVars, Types
<1> QED
  BY <1>1, <1>2, <1>3, <1>4, PlacementFrame DEF Moving

LEMMA RemoveLastPlaces ==
  ASSUME Inv, KnownCpu, KeptPlace, MoverCpu, NEW c \in CPU, RemoveLast(c)
  PROVE  Placement'
<1>0. /\ RunQueues /\ SleepQueues /\ Types /\ queued \subseteq Thread /\ asleep \subseteq Thread
      /\ (\A d \in CPU : ProcessorOK(d)) /\ (\A u \in Thread : ThreadOK(u))
      /\ \A u \in Thread : WakerOK(u)
  BY Parts
<1> DEFINE t == requesting_thread[c]
<1>1. /\ mode[c] = "back" /\ UNCHANGED <<current_thread, cpu, pc, dest>>
      /\ \A d \in CPU : d # c => pause_queue'[d] = pause_queue[d]
  BY <1>0 DEF RemoveLast, At, callVars, SleepQueues
<1>2. first' = [d \in CPU |-> pause_queue'[d][1].tr]
  BY DEF first
<1>3. CASE t # NoThread
  <2>1. t \in queued /\ Home[t] = c /\ t \in Thread /\ Window(t)
    BY <1>0, <1>1, <1>3 DEF ProcessorOK, Window
  <2>2. Contains(sched_queue[c], t)
    BY <2>1 DEF queued
  <2>3. /\ CloseGap(Home[t], t) /\ state' = [state EXCEPT ![t] = "DORMANT"]
        /\ mode' = [mode EXCEPT ![c] = "last"] /\ UNCHANGED requesting_thread
    BY <1>3, <2>1, <2>2 DEF RemoveLast
  <2> HIDE DEF t
  <2>4. queued' = queued \ {t}
    BY <1>0, <2>1, <2>3, Gap
  <2>5. cpu[t] = Home[t]
    BY <2>1 DEF KnownCpu
  <2>6. /\ state'[t] = "DORMANT" /\ \A u \in Thread : u # t => state'[u] = state[u]
    BY <1>0, <2>1, <2>3 DEF Types
  <2>7. \A u \in Thread : (u # t => (Leaving(u)' => Leaving(u))) /\ (Fires(u) => Fires(u)')
    BY <1>0, <1>1, <1>2, <2>1, <2>3, HomeIsCPU DEF Leaving, Fires, Firing, Types, first, t
  <2>8. KnownCpu'
    BY <1>1, <2>4, <2>5, <2>7 DEF KnownCpu
  <2>9. KeptPlace'
    BY <1>1, <2>4, <2>6, <2>7 DEF KeptPlace
  <2>10. \A s \in Thread : pc[s] \in Moving => dest[s] # t /\ dest[s] \in Thread
    BY <1>0, <2>1 DEF WakerOK, Waking, Moving, Types
  <2>11. MoverCpu'
    BY <1>1, <2>7, <2>10 DEF MoverCpu, Moving
  <2> QED
    BY <2>8, <2>9, <2>11 DEF Placement
<1>4. CASE t = NoThread
  <2>1. /\ UNCHANGED <<sched_queue, position, state>> /\ mode' = [mode EXCEPT ![c] = "timers"]
        /\ requesting_thread' = [requesting_thread EXCEPT ![c] = NoThread]
    BY <1>4 DEF RemoveLast
  <2>2. queued' = queued
    BY <1>0, <2>1, QueuesKept
  <2>3. \A u \in Thread : (Leaving(u)' => Leaving(u)) /\ (Fires(u) => Fires(u)')
    BY <1>0, <1>1, <1>2, <2>1, HomeIsCPU DEF Leaving, Fires, Firing, Types, first
  <2> QED
    BY <1>1, <2>1, <2>2, <2>3, PlacementFrame
<1> QED
  BY <1>3, <1>4

LEMMA RemoveLastCpuPlaces ==
  ASSUME Inv, KnownCpu, KeptPlace, MoverCpu, NEW c \in CPU, RemoveLastCpu(c)
  PROVE  Placement'
<1>0. /\ RunQueues /\ SleepQueues /\ Types /\ queued \subseteq Thread /\ asleep \subseteq Thread
      /\ (\A d \in CPU : ProcessorOK(d)) /\ (\A u \in Thread : ThreadOK(u))
      /\ \A u \in Thread : WakerOK(u)
  BY Parts
<1> DEFINE t == requesting_thread[c]
<1>1. /\ mode[c] = "last" /\ cpu' = [cpu EXCEPT ![t] = -1]
      /\ requesting_thread' = [requesting_thread EXCEPT ![c] = NoThread]
      /\ mode' = [mode EXCEPT ![c] = "timers"]
      /\ UNCHANGED <<sched_queue, position, pause_queue, state, pc, dest>>
  BY DEF RemoveLastCpu, At, callVars
<1>2. t \in Thread /\ Home[t] = c /\ t \notin queued /\ Leaving(t)
  BY <1>0, <1>1 DEF ProcessorOK, Types, Leaving
<1>3. queued' = queued /\ first' = first
  BY <1>0, <1>1, QueuesKept, SleepersKept
<1> HIDE DEF t
<1>4. \A u \in Thread : (Leaving(u)' => Leaving(u) /\ u # t) /\ (Fires(u) => Fires(u)')
  BY <1>0, <1>1, <1>2, <1>3, HomeIsCPU, NoThreadAssumption DEF Leaving, Fires, Firing, Types
<1>5. cpu'[t] = -1 /\ \A u \in Thread : u # t => cpu'[u] = cpu[u]
  BY <1>0, <1>1, <1>2 DEF Types
<1>6. \A s \in Thread : dest[s] \in Thread
  BY <1>0 DEF Types
<1>7. KnownCpu'
  BY <1>2, <1>3, <1>4, <1>5 DEF KnownCpu
<1>8. KeptPlace'
  BY <1>1, <1>3, <1>4 DEF KeptPlace
<1>9. MoverCpu'
  BY <1>1, <1>2, <1>4, <1>5, <1>6 DEF MoverCpu
<1> QED
  BY <1>7, <1>8, <1>9 DEF Placement

LEMMA TimerStatePlaces ==
  ASSUME Inv, KnownCpu, KeptPlace, MoverCpu, NEW c \in CPU, TimerState(c)
  PROVE  Placement'
<1>0. /\ RunQueues /\ SleepQueues /\ Types /\ queued \subseteq Thread /\ asleep \subseteq Thread
      /\ (\A d \in CPU : ProcessorOK(d)) /\ (\A u \in Thread : ThreadOK(u))
      /\ \A u \in Thread : WakerOK(u)
  BY Parts
<1> DEFINE t == first[c]
<1>1. Home[t] = c /\ t \in Thread /\ Head(pause_queue[c]).tr = t
  <2>1. Sleepers(pause_queue[c], c) /\ pause_queue[c] # <<>> /\ t = pause_queue[c][1].tr
    BY <1>0 DEF SleepQueues, TimerState, Due, first
  <2>2. 1 \in 1 .. Len(pause_queue[c]) /\ pause_queue[c][1] \in Entry /\ Head(pause_queue[c]) = pause_queue[c][1]
    BY <2>1 DEF Sleepers
  <2> QED
    BY <2>1, <2>2, EntryFields DEF Sleepers
<1>2. /\ mode[c] = "timers" /\ mode' = [mode EXCEPT ![c] = "t_duration"]
      /\ UNCHANGED <<sched_queue, position, pause_queue, requesting_thread, cpu, pc, dest>>
      /\ \A u \in Thread : u # t => state'[u] = state[u]
  BY <1>0, <1>1 DEF TimerState, At, callVars, queueVars, Types
<1>3. queued' = queued /\ first' = first
  BY <1>0, <1>2, QueuesKept, SleepersKept
<1>4. \A u \in Thread : u = t => Fires(u)'
  <2>1. mode'[c] = "t_duration"
    BY <1>0, <1>2 DEF Types
  <2> QED
    BY <1>1, <1>3, <2>1 DEF Fires, Firing
<1>5. \A u \in Thread : (Leaving(u)' => Leaving(u)) /\ (Fires(u) => Fires(u)')
  BY <1>0, <1>2, <1>3, HomeIsCPU DEF Leaving, Fires, Firing, Types
<1> HIDE DEF t
<1>6. KnownCpu'
  BY <1>2, <1>3, <1>5 DEF KnownCpu
<1>7. KeptPlace'
  BY <1>2, <1>3, <1>4, <1>5 DEF KeptPlace
<1>8. \A s \in Thread : dest[s] \in Thread
  BY <1>0 DEF Types
<1>9. MoverCpu'
  BY <1>2, <1>5, <1>8 DEF MoverCpu
<1> QED
  BY <1>6, <1>7, <1>9 DEF Placement

LEMMA TimerCpuPlaces ==
  ASSUME Inv, KnownCpu, KeptPlace, MoverCpu, NEW c \in CPU, TimerCpu(c), failed' = "none"
  PROVE  Placement'
<1>0. /\ RunQueues /\ SleepQueues /\ Types /\ queued \subseteq Thread /\ asleep \subseteq Thread
      /\ (\A d \in CPU : ProcessorOK(d)) /\ (\A u \in Thread : ThreadOK(u))
      /\ \A u \in Thread : WakerOK(u)
  BY Parts
<1> DEFINE t == first[c]
<1>1. t \in asleep /\ Home[t] = c /\ state[t] = "RUNNING" /\ mode[c] = "t_cpu" /\ t \in Thread /\ t \notin queued
  BY <1>0 DEF TimerCpu, At, ProcessorOK, Firing
<1>2. Head(pause_queue[c]).tr = t
  BY <1>0, <1>1, FirstIsHead
<1>3. /\ mode' = [mode EXCEPT ![c] = "timers"] /\ cpu' = [cpu EXCEPT ![t] = c]
      /\ UNCHANGED <<requesting_thread, state, pc, dest>>
      /\ Append1(Home[t], t) /\ UNCHANGED position
  BY <1>1, <1>2 DEF TimerCpu, callVars
<1>4. Len(sched_queue[Home[t]]) # SchedSize
  BY <1>1 DEF TimerCpu, Check
<1>5. \A d \in CPU : d # c => pause_queue'[d] = pause_queue[d]
  BY <1>0 DEF TimerCpu, SleepQueues
<1>6. first' = [d \in CPU |-> pause_queue'[d][1].tr]
  BY DEF first
<1>7. \A u \in Thread : (Leaving(u)' => Leaving(u)) /\ (Fires(u) /\ u # t => Fires(u)')
  BY <1>0, <1>1, <1>3, <1>5, <1>6, HomeIsCPU DEF Leaving, Fires, Firing, Types, first
<1> HIDE DEF t
<1>8. queued' = queued \cup {t}
  BY <1>0, <1>1, <1>3, <1>4, Appended
<1>9. cpu'[t] = Home[t] /\ \A u \in Thread : u # t => cpu'[u] = cpu[u]
  BY <1>0, <1>1, <1>3 DEF Types
<1>10. KnownCpu'
  BY <1>7, <1>8, <1>9 DEF KnownCpu
<1>11. KeptPlace'
  BY <1>3, <1>7, <1>8 DEF KeptPlace
<1>12. \A s \in Thread : pc[s] \in Moving => dest[s] # t /\ dest[s] \in Thread
  BY <1>0, <1>1 DEF WakerOK, Waking, Moving, Types
<1>13. MoverCpu'
  BY <1>3, <1>7, <1>9, <1>12 DEF MoverCpu, Moving
<1> QED
  BY <1>10, <1>11, <1>13 DEF Placement

LEMMA StartThreadPlaces ==
  ASSUME Room, Inv, KnownCpu, KeptPlace, MoverCpu, NEW t \in Thread, StartThread(t)
  PROVE  Placement'
<1>0. /\ RunQueues /\ SleepQueues /\ Types /\ queued \subseteq Thread /\ asleep \subseteq Thread
      /\ (\A d \in CPU : ProcessorOK(d)) /\ (\A u \in Thread : ThreadOK(u))
      /\ \A u \in Thread : WakerOK(u)
  BY Parts
<1>1. /\ state[t] = "SUSPENDED" /\ state' = [state EXCEPT ![t] = "RUNNING"]
      /\ cpu' = [cpu EXCEPT ![t] = Home[t]] /\ Append1(Home[t], t)
      /\ UNCHANGED <<position, pause_queue, requesting_thread, mode, pc, dest>>
  BY DEF StartThread, cpuVars, callVars
<1>2. t \notin queued /\ first' = first
  BY <1>0, <1>1, SleepersKept DEF ThreadOK
<1>3. queued' = queued \cup {t}
  BY <1>0, <1>1, <1>2, Appended, RoomForOne
<1>4. \A u \in Thread : (Leaving(u)' <=> Leaving(u)) /\ (Fires(u)' <=> Fires(u))
  BY <1>1, <1>2 DEF Leaving, Fires
<1>5. cpu'[t] = Home[t] /\ \A u \in Thread : u # t => cpu'[u] = cpu[u] /\ state'[u] = state[u]
  BY <1>0, <1>1, HomeIsCPU DEF Types
<1>6. KnownCpu'
  BY <1>3, <1>4, <1>5 DEF KnownCpu
<1>7. KeptPlace'
  BY <1>1, <1>3, <1>4, <1>5 DEF KeptPlace
<1>8. \A s \in Thread : pc[s] \in Moving => dest[s] # t /\ dest[s] \in Thread
  BY <1>0, <1>1 DEF WakerOK, Waking, Moving, Types
<1>9. MoverCpu'
  BY <1>1, <1>4, <1>5, <1>8 DEF MoverCpu, Moving
<1> QED
  BY <1>6, <1>7, <1>9 DEF Placement

(* The steps of s that move the thread it wakes. *)
LEMMA MoverPlaces ==
  ASSUME Room, Inv, KnownCpu, KeptPlace, MoverCpu, failed = "none", failed' = "none", NEW s \in Thread,
         \/ SubDequeue(s) \/ DequeueCpu(s) \/ SetState(s) \/ QueueTest(s) \/ QueueCpu(s)
         \/ SubQueue(s)
  PROVE  Placement'
<1>0. /\ RunQueues /\ SleepQueues /\ Types /\ queued \subseteq Thread /\ asleep \subseteq Thread
      /\ (\A d \in CPU : ProcessorOK(d)) /\ (\A u \in Thread : ThreadOK(u))
      /\ \A u \in Thread : WakerOK(u)
  BY Parts
<1>1. /\ UNCHANGED <<pause_queue, mode, requesting_thread, dest>> /\ Runs(s)
      /\ pc[s] \in Waking
  BY DEF SubDequeue, DequeueCpu, SetState, QueueTest, QueueCpu, SubQueue, Goto, queueVars, cpuVars, Waking
<1>2. PICK t \in Thread : t = dest[s] /\ t # s /\ Home[t] \in CPU
  BY <1>1, Woken
<1>3. \A u \in Thread : u # s /\ pc[u] \in Waking \cup {"commit"} => dest[u] # t
  BY <1>1, <1>2, Woken
<1>4. first' = first
  BY <1>0, <1>1, SleepersKept
<1>5. \A u \in Thread : (Leaving(u)' <=> Leaving(u)) /\ (Fires(u)' <=> Fires(u))
  BY <1>1, <1>4 DEF Leaving, Fires
<1>6. \A u \in Thread : dest[u] \in Thread
  BY <1>0 DEF Types
<1>7. /\ \A u \in Thread : u # s => pc'[u] = pc[u]
      /\ \A u \in Thread : u # t => cpu'[u] = cpu[u] /\ state'[u] = state[u]
  BY <1>0, <1>2 DEF SubDequeue, DequeueCpu, SetState, QueueTest, QueueCpu, SubQueue, Goto, Types, fieldVars
<1>8. WakerOK(s) /\ pc[s] \in Moving => t \notin queued
  BY <1>0, <1>2 DEF WakerOK, Waking, Moving
<1>9. CASE SubDequeue(s)
  <2>1. pc'[s] = "dequeued" /\ UNCHANGED <<cpu, state>> /\ ~ Leaving(t)
    BY <1>0, <1>2, <1>9 DEF SubDequeue, Goto, Types, fieldVars, LightOrComplete, Light, Leaving
  <2>2. t \in queued
    BY <1>2, <1>9 DEF SubDequeue, Check, queued
  <2>3. CloseGap(Home[t], t)
    BY <1>2, <1>9, <2>2 DEF SubDequeue, queued
  <2>4. queued' = queued \ {t}
    BY <1>0, <2>2, <2>3, Gap
  <2>5. KnownCpu'
    BY <1>5, <2>1, <2>4 DEF KnownCpu
  <2>6. KeptPlace'
    BY <1>1, <1>2, <1>5, <1>7, <2>1, <2>4 DEF KeptPlace, Moving
  <2>7. MoverCpu'
    BY <1>1, <1>2, <1>5, <1>6, <1>7, <2>1 DEF MoverCpu
  <2> QED
    BY <2>5, <2>6, <2>7 DEF Placement
<1>10. CASE DequeueCpu(s)
  <2>1. /\ pc[s] = "dequeued" /\ pc'[s] = "s_store" /\ UNCHANGED <<sched_queue, position, state>>
        /\ cpu'[t] = -1 /\ ~ Leaving(t) /\ t \notin queued
    BY <1>0, <1>2, <1>8, <1>10 DEF DequeueCpu, Goto, Types, queueVars, MoverCpu, Moving
  <2>2. queued' = queued
    BY <1>0, <2>1, QueuesKept
  <2>3. KnownCpu'
    BY <1>5, <1>7, <2>1, <2>2 DEF KnownCpu
  <2>4. KeptPlace'
    BY <1>1, <1>2, <1>5, <1>7, <2>1, <2>2 DEF KeptPlace, Moving
  <2>5. MoverCpu'
    BY <1>1, <1>3, <1>5, <1>6, <1>7, <2>1 DEF MoverCpu, Waking
  <2> QED
    BY <2>3, <2>4, <2>5 DEF Placement
<1>11. CASE SetState(s)
  <2>1. pc[s] = "s_store" /\ pc'[s] = "queue" /\ UNCHANGED <<sched_queue, position, cpu>>
    BY <1>0, <1>11 DEF SetState, Goto, Types, queueVars
  <2>2. queued' = queued
    BY <1>0, <2>1, QueuesKept
  <2>3. KnownCpu'
    BY <1>5, <2>1, <2>2 DEF KnownCpu
  <2>4. KeptPlace'
    BY <1>1, <1>2, <1>5, <1>7, <2>1, <2>2 DEF KeptPlace, Moving
  <2>5. MoverCpu'
    BY <1>1, <1>5, <1>6, <1>7, <2>1 DEF MoverCpu
  <2> QED
    BY <2>3, <2>4, <2>5 DEF Placement
<1>12. CASE QueueTest(s)
  <2>1. pc[s] = "queue" /\ pc'[s] = "q_cpu" /\ UNCHANGED <<sched_queue, position, cpu, state>>
    BY <1>0, <1>12 DEF QueueTest, Goto, Types, queueVars, fieldVars
  <2>2. queued' = queued
    BY <1>0, <2>1, QueuesKept
  <2>3. cpu[t] = -1
    <3>1. cpu[t] < 0
      BY <1>2, <1>12 DEF QueueTest, Check
    <3>2. cpu[t] \in CPU \cup {-1}
      BY <1>0 DEF Types
    <3> QED
      BY <3>1, <3>2, CPUAssumption DEF CPU
  <2>4. KnownCpu'
    BY <1>5, <2>1, <2>2 DEF KnownCpu
  <2>5. KeptPlace'
    BY <1>1, <1>2, <1>5, <1>7, <2>1, <2>2 DEF KeptPlace, Moving
  <2>6. MoverCpu'
    BY <1>1, <1>2, <1>5, <1>6, <1>7, <2>1, <2>3 DEF MoverCpu
  <2> QED
    BY <2>4, <2>5, <2>6 DEF Placement
<1>13. CASE QueueCpu(s)
  <2>1. /\ pc[s] = "q_cpu" /\ pc'[s] = "sub_queue" /\ UNCHANGED <<sched_queue, position, state>>
        /\ cpu'[t] = Home[t] /\ cpu[t] = -1
    BY <1>0, <1>2, <1>13 DEF QueueCpu, Goto, Types, queueVars, MoverCpu
  <2>2. queued' = queued
    BY <1>0, <2>1, QueuesKept
  <2>3. ~ Leaving(t)
    <3>1. Home[t] # -1
      BY <1>2, CPUAssumption DEF CPU
    <3> QED
      BY <2>1, <3>1 DEF KnownCpu
  <2>4. KnownCpu'
    BY <1>5, <1>7, <2>1, <2>2 DEF KnownCpu
  <2>5. KeptPlace'
    BY <1>1, <1>2, <1>5, <1>7, <2>1, <2>2 DEF KeptPlace, Moving
  <2>6. MoverCpu'
    BY <1>1, <1>2, <1>3, <1>5, <1>6, <1>7, <2>1, <2>3 DEF MoverCpu, Waking
  <2> QED
    BY <2>4, <2>5, <2>6 DEF Placement
<1>14. CASE SubQueue(s)
  <2>1. /\ pc[s] = "sub_queue" /\ pc'[s] = "commit" /\ UNCHANGED <<position, cpu, state>>
        /\ Append1(Home[t], t) /\ cpu[t] = Home[t] /\ t \notin queued
    BY <1>0, <1>2, <1>8, <1>14 DEF SubQueue, Goto, Types, fieldVars, MoverCpu, Moving
  <2>2. queued' = queued \cup {t}
    BY <1>0, <2>1, Appended, RoomForOne
  <2>3. KnownCpu'
    BY <1>5, <2>1, <2>2 DEF KnownCpu
  <2>4. KeptPlace'
    BY <1>1, <1>2, <1>5, <1>7, <2>1, <2>2 DEF KeptPlace, Moving
  <2>5. MoverCpu'
    BY <1>1, <1>5, <1>6, <1>7, <2>1 DEF MoverCpu
  <2> QED
    BY <2>3, <2>4, <2>5 DEF Placement
<1> QED
  BY <1>9, <1>10, <1>11, <1>12, <1>13, <1>14

LEMMA PlacementInit ==
  Init => Placement
<1> SUFFICES ASSUME Init PROVE KnownCpu /\ KeptPlace /\ MoverCpu
  BY DEF Placement
<1>1. queued = {}
  BY HomeIsCPU DEF Init, queued, Contains
<1>2. KnownCpu
  BY <1>1, HomeIsCPU DEF Init, KnownCpu, Leaving
<1>3. KeptPlace /\ MoverCpu
  BY DEF Init, KeptPlace, MoverCpu
<1> QED
  BY <1>2, <1>3

LEMMA StepsUnlessFailed ==
  Next => failed = "none"
<1>1. ASSUME NEW c \in CPU, Schedule(c) PROVE failed = "none"
  BY <1>1 DEF Schedule, RemoveLast, RemoveLastCpu, TimerState, TimerDuration, TimerCpu, Pick,
     SwitchOut, At
<1>2. ASSUME NEW t \in Thread, Proceed(t) PROVE failed = "none"
  <2>1. ASSUME GoDormant(t) \/ GoDormantFull(t) \/ GoDormantReturn(t)
        PROVE  failed = "none"
    BY <2>1 DEF GoDormant, GoDormantFull, GoDormantReturn, RequestDormant, Goto, Runs, At
  <2>2. ASSUME SendQuietly(t) \/ SendTest(t) \/ SetTestSame(t) \/ SetTestDormant(t) \/ SetTestDuration(t) \/ SetTestRunning(t) \/ DequeueTest(t) \/ QueueTest(t)
        PROVE  failed = "none"
    BY <2>2 DEF SendQuietly, SendTest, SetTestSame, SetTestDormant, SetTestDuration, SetTestRunning, DequeueTest, QueueTest, Read, Goto, Runs, At
  <2>3. ASSUME Restart(t) \/ SubDequeue(t) \/ SubQueue(t)
        PROVE  failed = "none"
    BY <2>3 DEF Restart, SubDequeue, SubQueue, Goto, Runs, At
  <2>4. ASSUME DequeueCpu(t) \/ SetState(t) \/ QueueCpu(t) \/ Commit(t)
        PROVE  failed = "none"
    BY <2>4 DEF DequeueCpu, SetState, QueueCpu, Commit, Goto, Runs, At
  <2>5. ASSUME NEW m \in Timeouts, GoDormantFor(t, m) PROVE failed = "none"
    BY <2>5 DEF GoDormantFor, RequestDormant, Goto, Runs, At
  <2> QED
    BY <1>2, <2>1, <2>2, <2>3, <2>4, <2>5 DEF Proceed
<1>3. ASSUME NEW t \in Thread,
             StartThread(t) \/ GoDormantCheckout(t) \/ \E u \in Thread : Send(t, u)
      PROVE  failed = "none"
  BY <1>3 DEF StartThread, GoDormantCheckout, Send, Goto, Runs, At
<1> QED
  BY <1>1, <1>2, <1>3 DEF Next

LEMMA PlacementNext ==
  ASSUME Room
  PROVE  Inv /\ Placement /\ [Next]_vars => Placement'
<1> SUFFICES ASSUME Inv, Placement, [Next]_vars, failed' = "none" PROVE Placement'
  BY DEF Placement
<1>1. CASE Next
  <2>1. failed = "none"
    BY <1>1, StepsUnlessFailed
  <2>2. KnownCpu /\ KeptPlace /\ MoverCpu
    BY <2>1 DEF Placement
  <2>3. ASSUME NEW c \in CPU, Schedule(c) PROVE Placement'
    BY <2>2, <2>3, RemoveLastPlaces, RemoveLastCpuPlaces, TimerStatePlaces, TimerCpuPlaces,
       QuietDispatch DEF Schedule
  <2>4. ASSUME NEW t \in Thread, Proceed(t) PROVE Placement'
    BY <2>1, <2>2, <2>4, QuietSteps, MoverPlaces DEF Proceed, Quiet
  <2>5. ASSUME NEW t \in Thread, StartThread(t) PROVE Placement'
    BY <2>2, <2>5, StartThreadPlaces
  <2>6. ASSUME NEW t \in Thread, GoDormantCheckout(t) \/ \E u \in Thread : Send(t, u)
        PROVE  Placement'
    BY <2>2, <2>6, QuietSteps DEF Quiet
  <2> QED
    BY <1>1, <2>3, <2>4, <2>5, <2>6 DEF Next
<1>2. CASE UNCHANGED vars
  <2>1. UNCHANGED <<sched_queue, pause_queue, position, requesting_thread, mode, state, cpu, pc, dest, failed>>
    BY <1>2 DEF vars, queueVars, cpuVars, fieldVars, callVars
  <2>2. RunQueues /\ SleepQueues
    BY DEF Inv
  <2>3. queued' = queued /\ first' = first
    BY <2>1, <2>2, QueuesKept, SleepersKept
  <2> QED
    BY <2>1, <2>3 DEF Placement, KnownCpu, KeptPlace, MoverCpu, Leaving, Fires
<1> QED
  BY <1>1, <1>2

(* Nobody is forgotten: where every processor has room for its threads, a  *)
(* runnable thread has a place in the queue of its processor, and its cpu  *)
(* says so, unless set_thread_state or remove_timers is about to queue it. *)
(* Where there is no room, sub_queue turns the thread away and none of its *)
(* callers looks.                                                          *)
THEOREM RunnableIsPlaced ==
  ASSUME Room
  PROVE  Spec => []RunnableIsQueued
<1>1. Init => Placement
  BY PlacementInit
<1>2. Inv /\ Placement /\ [Next]_vars => Placement'
  BY PlacementNext
<1>3. Inv /\ Placement => RunnableIsQueued
  <2> SUFFICES ASSUME Inv, Placement, failed = "none", NEW t \in Thread, state[t] = "RUNNING",
                      ~ InTransit(t)
               PROVE  Contains(sched_queue[Home[t]], t) /\ cpu[t] = Home[t]
    BY DEF RunnableIsQueued
  <2>1. ~ \E s \in Thread : s # t /\ dest[s] = t /\ pc[s] \in Moving
    BY DEF InTransit, Moving
  <2>2. ~ Fires(t)
    <3>1. SUFFICES ASSUME Fires(t) PROVE FALSE
      OBVIOUS
    <3>2. Home[t] \in CPU /\ first[Home[t]] = t /\ mode[Home[t]] \in Firing
      BY <3>1, HomeIsCPU DEF Fires
    <3>3. first[Home[t]] \in asleep /\ SleepQueues
      BY <3>2, Parts DEF ProcessorOK
    <3>4. Head(pause_queue[Home[t]]).tr = t
      BY <3>2, <3>3, FirstIsHead
    <3> QED
      BY <3>2, <3>4 DEF InTransit, Firing
  <2>3. t \in queued /\ cpu[t] = Home[t]
    BY <2>1, <2>2 DEF Placement, KeptPlace, KnownCpu
  <2> QED
    BY <2>3 DEF queued
<1> QED
  BY <1>1, <1>2, <1>3, Inductive, PTL DEF Spec

-----------------------------------------------------------------------------
(* t has an entry that is due, among the sleepers p. *)
Ripe(p, t) == \E i \in 1 .. Len(p) : p[i].tr = t /\ p[i].left = 0

LEMMA ElapseRipe ==
  ASSUME NEW c, NEW p, Sleepers(p, c), NEW d \in Nat, NEW t, Ripe(p, t), NEW r, r = Elapse(p, d)
  PROVE  Ripe(r, t)
<1>1. PICK i \in 1 .. Len(p) : p[i].tr = t /\ p[i].left = 0
  BY DEF Ripe
<1>2. Len(r) = Len(p) /\ r[i].tr = p[i].tr /\ r[i].left = 0
  BY <1>1, ElapseSeq
<1> QED
  BY <1>1, <1>2, Zenon DEF Ripe

LEMMA TailRipe ==
  ASSUME NEW p \in Seq(Entry), NEW t, Ripe(p, t), p[1].tr # t, NEW r, r = Tail(p)
  PROVE  Ripe(r, t)
<1>1. PICK i \in 1 .. Len(p) : p[i].tr = t /\ p[i].left = 0
  BY DEF Ripe
<1>2. p # <<>> /\ i # 1
  BY <1>1
<1>3. Len(r) = Len(p) - 1 /\ i - 1 \in 1 .. Len(r) /\ r[i - 1] = p[i]
  BY <1>2
<1> QED
  BY <1>1, <1>3 DEF Ripe

LEMMA InsertRipe ==
  ASSUME NEW p \in Seq(Entry), NEW e \in Entry, NEW t, Ripe(p, t), NEW r, r = PauseInsert(p, e)
  PROVE  Ripe(r, t)
<1>1. PICK i \in 1 .. Len(p) : p[i].tr = t /\ p[i].left = 0
  BY DEF Ripe
<1> DEFINE I == {j \in 1 .. Len(p) : p[j].left > e.left}
           later == SelectInSeq(p, LAMBDA x : x.left > e.left)
<1>2. CASE I = {}
  <2>1. later = 0
    BY <1>2 DEF SelectInSeq
  <2>2. r = Append(p, e)
    BY <2>1 DEF PauseInsert
  <2>3. i \in 1 .. Len(r) /\ r[i] = p[i]
    BY <2>2
  <2> QED
    BY <1>1, <2>3 DEF Ripe
<1>3. CASE I # {}
  <2>1. later = Min(I) /\ I \subseteq Nat
    BY <1>3 DEF SelectInSeq
  <2>2. later \in I
    <3> HIDE DEF I, later
    <3> QED
      BY <1>3, <2>1, MinIs
  <2>3. later # 0 /\ later \in 1 .. Len(p)
    BY <2>2
  <2>4. r = InsertAt(p, later, e)
    BY <2>3 DEF PauseInsert
  <2> HIDE DEF I, later
  <2>5. Inserted(Entry, p, later, e, r)
    BY <2>3, <2>4, InsertOne
  <2>6. CASE i < later
    BY <1>1, <2>3, <2>5, <2>6 DEF Inserted, Ripe
  <2>7. CASE ~ (i < later)
    <3>1. i + 1 \in 1 .. Len(r) /\ r[i + 1] = p[i]
      BY <2>3, <2>5, <2>7 DEF Inserted
    <3> QED
      BY <1>1, <3>1 DEF Ripe
  <2> QED
    BY <2>6, <2>7
<1> QED
  BY <1>2, <1>3

LEMMA MovedRipe ==
  ASSUME NEW p \in Seq(Entry), NEW k \in 1 .. Len(p), NEW r, Moved(p, k, r),
         NEW t, Ripe(p, t) \/ p[k].tr = t
  PROVE  Ripe(r, t)
<1>0. Len(p) \in Nat /\ Len(r) = Len(p) /\ 1 \in 1 .. Len(p)
  BY DEF Moved
<1>1. CASE p[k].tr = t
  BY <1>0, <1>1 DEF Moved, Ripe
<1>2. CASE p[k].tr # t
  <2>1. PICK i \in 1 .. Len(p) : p[i].tr = t /\ p[i].left = 0
    BY <1>2 DEF Ripe
  <2>2. CASE i < k
    <3>1. i + 1 \in 2 .. Len(p) /\ (i + 1) - 1 < k /\ (i + 1) - 1 = i
      BY <1>0, <2>2
    <3>2. r[i + 1] = p[i] /\ i + 1 \in 1 .. Len(r)
      BY <1>0, <3>1 DEF Moved
    <3> QED
      BY <2>1, <3>2 DEF Ripe
  <2>3. CASE k < i
    <3>1. i \in 2 .. Len(p) /\ ~ (i - 1 < k)
      BY <1>0, <2>3
    <3>2. r[i] = p[i] /\ i \in 1 .. Len(r)
      BY <1>0, <3>1 DEF Moved
    <3> QED
      BY <2>1, <3>2 DEF Ripe
  <2> QED
    BY <1>2, <2>1, <2>2, <2>3
<1> QED
  BY <1>1, <1>2

-----------------------------------------------------------------------------
(* No sender has found asleep who has asked to sleep and still runs; whom  *)
(* a sender has found asleep is being woken or due.                        *)
Found == Waking \ {"sent"}
AsksUnread == \A t \in Thread : Window(t) => ~ roused[t]
BeingWoken(t) == \E s \in Thread : s # t /\ dest[s] = t /\ pc[s] \in Found
NobodyMissed ==
  \A t \in Thread : state[t] = "DORMANT" /\ roused[t] =>
    BeingWoken(t) \/ Ripe(pause_queue[Home[t]], t)
Wakes == failed = "none" => AsksUnread /\ NobodyMissed

LEMMA WakesFrame ==
  ASSUME Inv, AsksUnread, NobodyMissed,
         \A t \in Thread : state'[t] = "DORMANT" => state[t] = "DORMANT" \/ ~ roused'[t],
         \A t \in Thread : roused'[t] => roused[t],
         \A t \in Thread : Window(t)' => Window(t) \/ ~ roused'[t],
         \A t \in Thread : Ripe(pause_queue[Home[t]], t) =>
           Ripe(pause_queue'[Home[t]], t) \/ state'[t] # "DORMANT",
         \A s \in Thread : pc[s] \in Found =>
           \/ pc'[s] \in Found /\ dest'[s] = dest[s]
           \/ state'[dest[s]] # "DORMANT"
           \/ Ripe(pause_queue'[Home[dest[s]]], dest[s])
  PROVE  Wakes'
<1>1. AsksUnread'
  BY DEF AsksUnread
<1>2. NobodyMissed'
  <2> SUFFICES ASSUME NEW t \in Thread, state'[t] = "DORMANT", roused'[t],
                      ~ Ripe(pause_queue'[Home[t]], t)
               PROVE  \E s \in Thread : s # t /\ dest'[s] = t /\ pc'[s] \in Found
    BY DEF NobodyMissed, BeingWoken, Ripe, Found, Waking
  <2>1. BeingWoken(t)
    BY DEF NobodyMissed
  <2>2. PICK s \in Thread : s # t /\ dest[s] = t /\ pc[s] \in Found
    BY <2>1 DEF BeingWoken
  <2> QED
    BY <2>2
<1> QED
  BY <1>1, <1>2 DEF Wakes

(* Steps of threads that have found nobody asleep, and of Commit. *)
LEMMA OwnStepWakes ==
  ASSUME Inv, AsksUnread, NobodyMissed, NEW t \in Thread,
         \/ GoDormantCheckout(t) \/ GoDormantFull(t) \/ GoDormantReturn(t)
         \/ SendQuietly(t) \/ Commit(t) \/ \E u \in Thread : Send(t, u)
  PROVE  Wakes'
<1>0. Types
  BY Parts
<1>1. UNCHANGED <<state, requesting_thread, mode, pause_queue, roused>>
  BY DEF GoDormantCheckout, GoDormantFull, GoDormantReturn, SendQuietly, Commit, Send,
     queueVars, cpuVars, fieldVars
<1>2. pc[t] \notin Found /\ \A u \in Thread : u # t => pc'[u] = pc[u] /\ dest'[u] = dest[u]
  BY <1>0 DEF GoDormantCheckout, GoDormantFull, GoDormantReturn, SendQuietly, Commit, Send,
     Goto, Types, Waking, Found
<1>3. \A u \in Thread : Window(u)' => Window(u)
  BY <1>1 DEF Window
<1> QED
  BY <1>1, <1>2, <1>3, WakesFrame

(* The sender that finds its receiver asleep goes on to wake it; the       *)
(* receiver is not one that has only asked.                                *)
LEMMA SendTestWakes ==
  ASSUME Inv, AsksUnread, NobodyMissed, NEW s \in Thread, SendTest(s)
  PROVE  Wakes'
<1> DEFINE t == dest[s]
<1>0. Types /\ WakerOK(s) /\ t \in Thread /\ ThreadOK(t) /\ ProcessorOK(Home[t]) /\ Home[t] \in CPU
  BY Parts, HomeIsCPU DEF Types
<1>1. /\ UNCHANGED <<state, requesting_thread, mode, pause_queue, dest>> /\ pc[s] = "sent"
      /\ pc' = [pc EXCEPT ![s] = IF state[t] = "DORMANT" THEN "s_same" ELSE "commit"]
  BY DEF SendTest, Goto, queueVars, cpuVars, fieldVars
<1>2. /\ \A u \in Thread : u # s => pc'[u] = pc[u]
      /\ state[t] = "DORMANT" => pc'[s] = "s_same"
  BY <1>0, <1>1 DEF Types
<1>3. \A u \in Thread : roused'[u] => roused[u] \/ (u = t /\ state[t] = "DORMANT")
  <2>1. roused' = [roused EXCEPT ![t] = roused[t] \/ state[t] = "DORMANT"]
    BY DEF SendTest
  <2>2. roused'[t] = (roused[t] \/ state[t] = "DORMANT") /\ \A u \in Thread : u # t => roused'[u] = roused[u]
    BY <1>0, <2>1, Zenon DEF Types
  <2> QED
    BY <2>2, Zenon
<1>4. s # t
  BY <1>0, <1>1 DEF WakerOK, Waking
<1> HIDE DEF t
<1>5. \A u \in Thread : Window(u)' <=> Window(u)
  BY <1>1 DEF Window
<1>6. state[t] = "DORMANT" => ~ Window(t)
  BY <1>0, NoThreadAssumption DEF ThreadOK, ProcessorOK, Window
<1>7. AsksUnread'
  BY <1>3, <1>5, <1>6 DEF AsksUnread
<1>8. NobodyMissed'
  <2> SUFFICES ASSUME NEW u \in Thread, state[u] = "DORMANT", roused'[u],
                      ~ Ripe(pause_queue[Home[u]], u)
               PROVE  \E w \in Thread : w # u /\ dest'[w] = u /\ pc'[w] \in Found
    BY <1>1 DEF NobodyMissed, BeingWoken, Ripe, Found, Waking
  <2>1. CASE u = t /\ state[t] = "DORMANT"
    BY <1>1, <1>2, <1>4, <2>1 DEF Found, Waking, t
  <2>2. CASE roused[u]
    <3>1. PICK w \in Thread : w # u /\ dest[w] = u /\ pc[w] \in Found
      BY <2>2 DEF NobodyMissed, BeingWoken
    <3> QED
      BY <1>1, <1>2, <3>1 DEF Found
  <2> QED
    BY <1>3, <2>1, <2>2
<1> QED
  BY <1>7, <1>8 DEF Wakes

LEMMA WakerStepWakes ==
  ASSUME Inv, AsksUnread, NobodyMissed, NEW s \in Thread,
         \/ SetTestSame(s) \/ SetTestDormant(s) \/ SetTestDuration(s)
         \/ SetTestRunning(s) \/ DequeueTest(s) \/ SubDequeue(s) \/ DequeueCpu(s) \/ SetState(s)
         \/ QueueTest(s) \/ QueueCpu(s) \/ SubQueue(s)
  PROVE  Wakes'
<1>0. Types /\ WakerOK(s)
  BY Parts
<1>1. UNCHANGED <<roused, requesting_thread, mode, pause_queue, dest>>
  BY DEF SetTestSame, SetTestDormant, SetTestDuration, SetTestRunning, DequeueTest, SubDequeue,
     DequeueCpu, SetState, QueueTest, QueueCpu, SubQueue, Read, queueVars, cpuVars
<1>2. \A u \in Thread : state'[u] = "DORMANT" => state[u] = "DORMANT"
  BY <1>0 DEF SetTestSame, SetTestDormant, SetTestDuration, SetTestRunning, DequeueTest, SubDequeue,
     DequeueCpu, SetState, QueueTest, QueueCpu, SubQueue, Read, fieldVars, Types
<1>3. pc'[s] \in Found \/ state'[dest[s]] # "DORMANT"
  <2>1. CASE SetTestSame(s) \/ SetTestDormant(s) \/ SetTestDuration(s) \/ SetTestRunning(s)
    BY <1>0, <2>1 DEF SetTestSame, SetTestDormant, SetTestDuration, SetTestRunning, Read, Goto,
       Types, Waking, Found, fieldVars
  <2>2. CASE SubQueue(s)
    BY <1>0, <2>2 DEF SubQueue, Goto, WakerOK, Waking, fieldVars
  <2>3. CASE DequeueTest(s) \/ SubDequeue(s) \/ DequeueCpu(s) \/ SetState(s) \/ QueueTest(s) \/ QueueCpu(s)
    BY <1>0, <2>3, ZenonT(60) DEF DequeueTest, SubDequeue, DequeueCpu, SetState, QueueTest, QueueCpu, Goto, Types, Waking, Found
  <2> QED
    BY <2>1, <2>2, <2>3
<1>4. \A u \in Thread : u # s => pc'[u] = pc[u]
  BY <1>0 DEF SetTestSame, SetTestDormant, SetTestDuration, SetTestRunning, DequeueTest, SubDequeue,
     DequeueCpu, SetState, QueueTest, QueueCpu, SubQueue, Read, Goto, Types
<1>5. \A u \in Thread : Window(u)' => Window(u)
  BY <1>1 DEF Window
<1> QED
  BY <1>1, <1>2, <1>3, <1>4, <1>5, WakesFrame

LEMMA RestartWakes ==
  ASSUME Inv, AsksUnread, NobodyMissed, NEW s \in Thread, Restart(s), failed' = "none"
  PROVE  Wakes'
<1>0. Types /\ SleepQueues
  BY Parts
<1> DEFINE t == dest[s]
           d == Home[t]
           k == SelectInSeq(pause_queue[d], LAMBDA x : x.tr = t)
<1>1. /\ UNCHANGED <<roused, requesting_thread, mode, state, dest>>
      /\ \A u \in Thread : (u # s => pc'[u] = pc[u]) /\ (Window(u)' => Window(u))
  BY <1>0 DEF Restart, cpuVars, fieldVars, Goto, Types, Window
<1>2. t \in Thread /\ d \in CPU
  BY <1>0, HomeIsCPU DEF Types
<1>3. k # 0 /\ pause_queue' = [pause_queue EXCEPT ![d] = <<[@[k] EXCEPT !.left = 0]>> \o RemoveAt(@, k)]
  BY DEF Restart, Check, Goto, Runs, At
<1>4. PICK p, r : p = pause_queue[d] /\ r = <<[p[k] EXCEPT !.left = 0]>> \o RemoveAt(p, k)
  OBVIOUS
<1>5. p \in Seq(Entry) /\ pause_queue'[d] = r /\ \A c \in CPU : c # d => pause_queue'[c] = pause_queue[c]
  BY <1>0, <1>2, <1>3, <1>4 DEF SleepQueues
<1>6. k \in 1 .. Len(p) /\ p[k].tr = t
  BY <1>3, <1>4, SleeperAt
<1> HIDE DEF k
<1>7. Moved(p, k, r)
  BY <1>4, <1>5, <1>6, MovedIs
<1>8. Ripe(r, t) /\ \A u : Ripe(p, u) => Ripe(r, u)
  BY <1>5, <1>6, <1>7, MovedRipe
<1>9. \A u \in Thread : Ripe(pause_queue[Home[u]], u) => Ripe(pause_queue'[Home[u]], u)
  BY <1>4, <1>5, <1>8, HomeIsCPU
<1>10. Ripe(pause_queue'[Home[dest[s]]], dest[s])
  BY <1>5, <1>8
<1> QED
  BY <1>1, <1>9, <1>10, WakesFrame

LEMMA AsksWakes ==
  ASSUME Inv, AsksUnread, NobodyMissed, NEW t \in Thread,
         GoDormant(t) \/ \E m \in Timeouts : GoDormantFor(t, m)
  PROVE  Wakes'
<1>0. Types /\ SleepQueues /\ Home[t] \in CPU
  BY Parts, HomeIsCPU
<1>1. RequestDormant(t)
  BY DEF GoDormant, GoDormantFor
<1>2. /\ UNCHANGED <<state, mode, dest>> /\ ~ roused'[t]
      /\ \A u \in Thread : roused'[u] => roused[u]
      /\ \A u \in Thread : Window(u)' => Window(u) \/ u = t
      /\ pc[t] \notin Found /\ \A u \in Thread : u # t => pc'[u] = pc[u]
  BY <1>0, <1>1, HomeIsCPU DEF RequestDormant, Goto, Types, Waking, Found, cpuVars, Window
<1>3. \A u \in Thread : Ripe(pause_queue[Home[u]], u) => Ripe(pause_queue'[Home[u]], u)
  <2>1. CASE GoDormant(t)
    BY <2>1 DEF GoDormant
  <2>2. ASSUME NEW m \in Timeouts, GoDormantFor(t, m)
        PROVE  \A u \in Thread : Ripe(pause_queue[Home[u]], u) => Ripe(pause_queue'[Home[u]], u)
    <3>1. PICK p, r, e : /\ p = pause_queue[Home[t]] /\ r = PauseInsert(p, e)
                         /\ e = [tr |-> t, state |-> state[t], left |-> m, slept |-> 0]
      OBVIOUS
    <3>2. e \in Entry
      BY <1>0, <3>1, TimeAssumption DEF Entry, Types
    <3>3. /\ p \in Seq(Entry) /\ pause_queue'[Home[t]] = r
          /\ \A c \in CPU : c # Home[t] => pause_queue'[c] = pause_queue[c]
      BY <1>0, <2>2, <3>1 DEF GoDormantFor, SleepQueues
    <3>4. \A u : Ripe(p, u) => Ripe(r, u)
      BY <3>1, <3>2, <3>3, InsertRipe
    <3> QED
      BY <3>1, <3>3, <3>4, HomeIsCPU
  <2> QED
    BY <2>1, <2>2
<1> QED
  BY <1>2, <1>3, WakesFrame

LEMMA StartThreadWakes ==
  ASSUME Inv, AsksUnread, NobodyMissed, NEW t \in Thread, StartThread(t)
  PROVE  Wakes'
<1>1. UNCHANGED <<roused, requesting_thread, mode, pause_queue, pc, dest>>
  BY DEF StartThread, callVars, cpuVars
<1>2. \A u \in Thread : state'[u] = "DORMANT" => state[u] = "DORMANT"
  BY Parts DEF StartThread, Types
<1>3. \A u \in Thread : Window(u)' => Window(u)
  BY <1>1 DEF Window
<1> QED
  BY <1>1, <1>2, <1>3, WakesFrame

LEMMA ScheduleWakes ==
  ASSUME Inv, AsksUnread, NobodyMissed, NEW c \in CPU, Schedule(c)
  PROVE  Wakes'
<1>0. /\ Types /\ SleepQueues /\ ProcessorOK(c) /\ pause_queue[c] \in Seq(Entry)
      /\ Sleepers(pause_queue[c], c)
  BY Parts DEF SleepQueues
<1>1. CASE RemoveLast(c)
  <2> DEFINE t == requesting_thread[c]
  <2>1. PICK d \in 0 .. MaxTick : pause_queue' = [pause_queue EXCEPT ![c] = Elapse(@, d)]
    BY <1>1 DEF RemoveLast
  <2>2. PICK p, r : p = pause_queue[c] /\ r = Elapse(p, d)
    OBVIOUS
  <2>3. d \in Nat /\ pause_queue'[c] = r /\ \A b \in CPU : b # c => pause_queue'[b] = pause_queue[b]
    BY <1>0, <2>1, <2>2, TimeAssumption DEF SleepQueues
  <2>4. \A u : Ripe(p, u) => Ripe(r, u)
    BY <1>0, <2>2, <2>3, ElapseRipe
  <2>5. \A u \in Thread : Ripe(pause_queue[Home[u]], u) => Ripe(pause_queue'[Home[u]], u)
    BY <2>2, <2>3, <2>4, HomeIsCPU
  <2>6. UNCHANGED <<roused, pc, dest>>
    BY <1>1 DEF RemoveLast, callVars
  <2>7. \A u \in Thread : Window(u)' => Window(u)
    BY <1>0, <1>1, HomeIsCPU, NoThreadAssumption DEF RemoveLast, At, Types, Window
  <2>8. t # NoThread => t \in Thread /\ Home[t] = c /\ ~ roused[t]
    BY <1>0, <1>1 DEF RemoveLast, At, ProcessorOK, Types, AsksUnread, Window
  <2>9. \A u \in Thread : state'[u] = "DORMANT" => state[u] = "DORMANT" \/ ~ roused[u]
    BY <1>0, <1>1, <2>8 DEF RemoveLast, Types
  <2> QED
    BY <2>5, <2>6, <2>7, <2>9, WakesFrame
<1>2. CASE RemoveLastCpu(c) \/ Pick(c) \/ TimerDuration(c) \/ SwitchOut(c)
  <2>1. UNCHANGED <<state, roused, pause_queue, dest>>
    BY <1>2 DEF RemoveLastCpu, Pick, TimerDuration, SwitchOut, callVars, queueVars, fieldVars
  <2>2. \A u \in Thread : Window(u)' => Window(u)
    <3>1. CASE RemoveLastCpu(c)
      BY <1>0, <3>1, HomeIsCPU, NoThreadAssumption DEF RemoveLastCpu, Types, Window
    <3>2. CASE Pick(c) \/ TimerDuration(c)
      BY <1>0, <3>2, HomeIsCPU, NoThreadAssumption DEF Pick, TimerDuration, At, queueVars, Types,
         Window, ProcessorOK
    <3>3. CASE SwitchOut(c)
      BY <1>0, <3>3, HomeIsCPU DEF SwitchOut, At, queueVars, Types, Window
    <3> QED
      BY <1>2, <3>1, <3>2, <3>3
  <2>3. \A u \in Thread : pc'[u] = pc[u] \/ pc[u] = "yield"
    BY <1>2 DEF RemoveLastCpu, Pick, TimerDuration, SwitchOut, callVars
  <2> QED
    BY <2>1, <2>2, <2>3, WakesFrame DEF Waking, Found
<1>3. CASE TimerState(c)
  <2>1. UNCHANGED <<roused, requesting_thread, pause_queue, pc, dest>>
    BY <1>3 DEF TimerState, queueVars, callVars
  <2>2. PICK p : p = pause_queue[c]
    OBVIOUS
  <2>3. p # <<>> /\ Head(p) = p[1] /\ 1 \in 1 .. Len(p)
    BY <1>0, <1>3, <2>2 DEF TimerState, Due
  <2>4. Head(p).state = "RUNNING"
    BY <1>0, <2>2, <2>3 DEF Sleepers
  <2>5. \A u \in Thread : state'[u] = "DORMANT" => state[u] = "DORMANT"
    BY <1>0, <1>3, <2>2, <2>4 DEF TimerState, Types
  <2>6. \A u \in Thread : Window(u)' => Window(u)
    BY <1>0, <1>3, <2>1, HomeIsCPU DEF TimerState, Types, Window
  <2> QED
    BY <2>1, <2>5, <2>6, WakesFrame
<1>4. CASE TimerCpu(c)
  <2>1. UNCHANGED <<state, roused, requesting_thread, pc, dest>>
    BY <1>4 DEF TimerCpu, callVars
  <2>2. PICK p, r : p = pause_queue[c] /\ r = Tail(p)
    OBVIOUS
  <2>3. pause_queue'[c] = r /\ \A b \in CPU : b # c => pause_queue'[b] = pause_queue[b]
    BY <1>0, <1>4, <2>2 DEF TimerCpu, SleepQueues
  <2>4. p[1].tr = first[c] /\ state[first[c]] = "RUNNING"
    BY <1>0, <1>4, <2>2 DEF TimerCpu, At, first, ProcessorOK, Firing
  <2>5. \A u : Ripe(p, u) => Ripe(r, u) \/ u = p[1].tr
    BY <1>0, <2>2, TailRipe
  <2>6. \A u \in Thread : Ripe(pause_queue[Home[u]], u) =>
          Ripe(pause_queue'[Home[u]], u) \/ state'[u] # "DORMANT"
    BY <2>1, <2>2, <2>3, <2>4, <2>5, HomeIsCPU
  <2>7. \A u \in Thread : Window(u)' => Window(u)
    BY <1>0, <1>4, <2>1, HomeIsCPU DEF TimerCpu, Types, Window
  <2> QED
    BY <2>1, <2>6, <2>7, WakesFrame
<1> QED
  BY <1>1, <1>2, <1>3, <1>4 DEF Schedule

LEMMA WakesNext ==
  Inv /\ Wakes /\ [Next]_vars => Wakes'
<1> SUFFICES ASSUME Inv, Wakes, [Next]_vars, failed' = "none" PROVE Wakes'
  BY DEF Wakes
<1>1. CASE Next
  <2>1. AsksUnread /\ NobodyMissed
    BY <1>1, StepsUnlessFailed DEF Wakes
  <2>2. ASSUME NEW t \in Thread, Proceed(t) PROVE Wakes'
    BY <2>1, <2>2, OwnStepWakes, SendTestWakes, WakerStepWakes, RestartWakes, AsksWakes DEF Proceed
  <2>3. ASSUME NEW t \in Thread, GoDormantCheckout(t) \/ \E u \in Thread : Send(t, u)
        PROVE  Wakes'
    BY <2>1, <2>3, OwnStepWakes
  <2> QED
    BY <1>1, <2>1, <2>2, <2>3, ScheduleWakes, StartThreadWakes DEF Next
<1>2. CASE UNCHANGED vars
  <2>1. UNCHANGED <<state, roused, requesting_thread, mode, pause_queue, pc, dest, failed>>
    BY <1>2 DEF vars, queueVars, cpuVars, fieldVars, callVars
  <2> QED
    BY <2>1, WakesFrame DEF Wakes, Window
<1> QED
  BY <1>1, <1>2

(* No wake-up of a sleeper is lost, on any number of processors: a thread  *)
(* that a sender has found dormant is not left so.  The fields the sender  *)
(* reads one after the other may change under it, by the thread's timer,   *)
(* and what set_thread_state and restart do to it still ends in a due      *)
(* timer or in a thread that runs, or in a failed assertion of a waker.    *)
THEOREM NoWakeupIsLost ==
  Spec => []NoLostWakeup
<1>1. Init => Wakes
  BY NoThreadAssumption, HomeIsCPU DEF Init, Wakes, AsksUnread, NobodyMissed
<1>2. Inv /\ Wakes /\ [Next]_vars => Wakes'
  BY WakesNext
<1>3. Inv /\ Wakes => NoLostWakeup
  <2> SUFFICES ASSUME Inv, failed = "none", NobodyMissed PROVE NoLostWakeup
    BY DEF Wakes, NoLostWakeup
  <2>1. \A t \in Thread : DOMAIN pause_queue[Home[t]] = 1 .. Len(pause_queue[Home[t]])
    BY Parts, HomeIsCPU DEF SleepQueues
  <2> QED
    BY <2>1 DEF NobodyMissed, NoLostWakeup, BeingWoken, Ripe, Found
<1> QED
  BY <1>1, <1>2, <1>3, Inductive, PTL DEF Spec

-----------------------------------------------------------------------------
(* The cpu field of a thread that sleeps, or whose timer goes off, is      *)
(* reset, once it has left the queue; whom dequeue has found on a          *)
(* processor stays queued there until it is taken out.                     *)
Cleared == \A t \in Thread : state[t] = "DORMANT" => cpu[t] = -1 \/ Leaving(t)
FiredCleared == \A t \in Thread : Fires(t) => cpu[t] = -1
DequeuesQueued == \A s \in Thread : pc[s] = "sub_dequeue" => dest[s] \in queued
FreshCpu == failed = "none" => Cleared /\ FiredCleared /\ DequeuesQueued

LEMMA FreshFrame ==
  ASSUME Inv, Cleared, FiredCleared, DequeuesQueued,
         \A t \in Thread : state'[t] = "DORMANT" =>
           \/ state[t] = "DORMANT" /\ cpu'[t] = cpu[t] /\ (Leaving(t) => Leaving(t)')
           \/ cpu'[t] = -1 \/ Leaving(t)',
         \A t \in Thread : Fires(t)' => (Fires(t) /\ cpu'[t] = cpu[t]) \/ cpu'[t] = -1,
         \A s \in Thread : pc'[s] = "sub_dequeue" =>
           \/ pc[s] = "sub_dequeue" /\ dest'[s] = dest[s] /\ (dest[s] \in queued => dest[s] \in queued')
           \/ dest'[s] \in queued'
  PROVE  FreshCpu'
<1>1. Cleared'
  BY DEF Cleared
<1>2. FiredCleared'
  BY DEF FiredCleared
<1>3. DequeuesQueued'
  BY DEF DequeuesQueued
<1> QED
  BY <1>1, <1>2, <1>3 DEF FreshCpu

(* What a processor does by itself. *)
LEMMA ScheduleFresh ==
  ASSUME Inv, Cleared, FiredCleared, DequeuesQueued, NEW c \in CPU, Schedule(c)
  PROVE  FreshCpu'
<1>0. /\ RunQueues /\ Types /\ SleepQueues /\ ProcessorOK(c)
      /\ (\A u \in Thread : ThreadOK(u) /\ WakerOK(u) /\ dest[u] \in Thread)
  BY Parts DEF Types
<1>1. UNCHANGED dest /\ \A u \in Thread : pc'[u] = "sub_dequeue" => pc[u] = pc'[u]
  BY <1>0 DEF Schedule, RemoveLast, RemoveLastCpu, TimerState, TimerDuration, TimerCpu, Pick, SwitchOut,
     callVars
<1>2. CASE RemoveLast(c)
  <2>0. PICK t : t = requesting_thread[c]
    OBVIOUS
  <2>1. UNCHANGED cpu /\ mode[c] = "back" /\ FirstKept(c)
    BY <1>0, <1>2, Elapsed DEF RemoveLast, At
  <2>2. \A u \in Thread : Leaving(u) => Leaving(u)'
    BY <1>0, <1>2, HomeIsCPU DEF RemoveLast, At, Leaving, Types
  <2>3. \A u \in Thread : Fires(u)' => Fires(u)
    <3>1. mode'[c] \in {"last", "timers"} /\ \A d \in CPU : d # c => mode'[d] = mode[d]
      BY <1>0, <1>2 DEF RemoveLast, Types
    <3> QED
      BY <2>1, <3>1, HomeIsCPU DEF Fires, Firing, FirstKept
  <2>4. CASE t # NoThread /\ Contains(sched_queue[c], t)
    <3>1. t \in Thread /\ Home[t] = c /\ t \in queued /\ Window(t)
      BY <1>0, <2>0, <2>1, <2>4 DEF ProcessorOK, Types, queued, Window
    <3>2. Leaving(t)' /\ CloseGap(c, t) /\ state' = [state EXCEPT ![t] = "DORMANT"]
      BY <1>0, <1>2, <2>0, <2>4, <3>1 DEF RemoveLast, Leaving, Types
    <3>3. \A u \in Thread : u # t => state'[u] = state[u]
      BY <1>0, <3>1, <3>2 DEF Types
    <3>4. queued' = queued \ {t}
      BY <1>0, <3>1, <3>2, Gap
    <3>5. \A u \in Thread : pc[u] = "sub_dequeue" => dest[u] # t
      BY <1>0, <3>1 DEF WakerOK, Waking
    <3> QED
      BY <1>1, <2>1, <2>2, <2>3, <3>2, <3>3, <3>4, <3>5, FreshFrame
  <2>5. CASE ~ (t # NoThread /\ Contains(sched_queue[c], t))
    <3>1. UNCHANGED <<state, sched_queue, position>>
      BY <1>2, <2>0, <2>5 DEF RemoveLast
    <3>2. queued' = queued
      BY <1>0, <3>1, QueuesKept
    <3> QED
      BY <1>1, <2>1, <2>2, <2>3, <3>1, <3>2, FreshFrame
  <2> QED
    BY <2>4, <2>5
<1>3. CASE RemoveLastCpu(c)
  <2> DEFINE t == requesting_thread[c]
  <2>1. /\ t \in Thread /\ Home[t] = c /\ cpu' = [cpu EXCEPT ![t] = -1]
        /\ UNCHANGED <<state, sched_queue, pause_queue, position>> /\ mode' = [mode EXCEPT ![c] = "timers"]
    BY <1>0, <1>3 DEF RemoveLastCpu, At, ProcessorOK, Types
  <2>2. cpu'[t] = -1 /\ \A u \in Thread : u # t => cpu'[u] = cpu[u]
    BY <1>0, <2>1 DEF Types
  <2>3. \A u \in Thread : u # t => (Leaving(u) => Leaving(u)')
    BY <1>0, <1>3, <2>1, HomeIsCPU DEF RemoveLastCpu, Leaving, Types
  <2>4. queued' = queued /\ first' = first
    BY <1>0, <2>1, QueuesKept, SleepersKept
  <2>5. \A u \in Thread : Fires(u)' => Fires(u)
    BY <1>0, <2>1, <2>4, HomeIsCPU DEF Fires, Firing, Types
  <2> QED
    BY <1>1, <2>1, <2>2, <2>3, <2>4, <2>5, FreshFrame
<1>4. CASE TimerDuration(c) \/ Pick(c) \/ SwitchOut(c)
  <2>1. UNCHANGED <<cpu, state, requesting_thread, sched_queue, pause_queue>>
    BY <1>4 DEF TimerDuration, Pick, SwitchOut, queueVars, fieldVars
  <2>2. \A u \in Thread : Leaving(u) => Leaving(u)'
    BY <1>0, <1>4, <2>1, HomeIsCPU DEF TimerDuration, Pick, SwitchOut, At, Leaving, Types
  <2>3. queued' = queued /\ first' = first
    BY <2>1 DEF queued, first, Contains
  <2>4. \A u \in Thread : Fires(u)' => Fires(u)
    BY <1>0, <1>4, <2>3, HomeIsCPU DEF TimerDuration, Pick, SwitchOut, At, Fires, Firing, Types
  <2> QED
    BY <1>1, <2>1, <2>2, <2>3, <2>4, FreshFrame
<1>5. CASE TimerState(c)
  <2> DEFINE t == first[c]
  <2>1. /\ UNCHANGED <<cpu, requesting_thread, sched_queue, pause_queue, position>>
        /\ mode[c] = "timers" /\ mode' = [mode EXCEPT ![c] = "t_duration"]
    BY <1>5 DEF TimerState, At, queueVars
  <2>2. PICK p : p = pause_queue[c]
    OBVIOUS
  <2>3. p \in Seq(Entry) /\ p # <<>> /\ Head(p) = p[1] /\ 1 \in 1 .. Len(p) /\ Sleepers(p, c)
    BY <1>0, <1>5, <2>2 DEF TimerState, Due, SleepQueues
  <2>4. p[1].state = "RUNNING" /\ p[1].tr = t /\ t \in Thread /\ Home[t] = c /\ Has(p, t)
    BY <2>2, <2>3, EntryFields DEF Sleepers, first, Has
  <2>5. t \in asleep
    BY <2>2, <2>4 DEF asleep
  <2>6. state[t] = "DORMANT" /\ ~ Leaving(t)
    BY <1>0, <2>1, <2>4, <2>5 DEF ThreadOK, Window, Fires, Firing, Leaving
  <2>7. cpu[t] = -1
    BY <2>4, <2>6 DEF Cleared
  <2>8. \A u \in Thread : state'[u] = "DORMANT" => state[u] = "DORMANT"
    BY <1>0, <1>5, <2>2, <2>3, <2>4 DEF TimerState, Types
  <2>9. queued' = queued /\ first' = first
    BY <1>0, <2>1, QueuesKept, SleepersKept
  <2>10. \A u \in Thread : Leaving(u) => Leaving(u)'
    BY <1>0, <2>1, HomeIsCPU DEF Leaving, Types
  <2>11. \A u \in Thread : Fires(u)' => Fires(u) \/ u = t
    BY <1>0, <2>1, <2>9, HomeIsCPU DEF Fires, Types
  <2> HIDE DEF t
  <2> QED
    BY <1>1, <2>1, <2>7, <2>8, <2>9, <2>10, <2>11, FreshFrame
<1>6. CASE TimerCpu(c)
  <2> DEFINE t == first[c]
  <2>1. t \in asleep /\ t \in Thread /\ Home[t] = c /\ state[t] = "RUNNING" /\ t \notin queued
    BY <1>0, <1>6, Parts DEF TimerCpu, At, ProcessorOK, Firing
  <2>2. t = Head(pause_queue[c]).tr
    BY <1>0, <2>1, FirstIsHead
  <2>3. /\ UNCHANGED <<state, requesting_thread, position>> /\ Append1(Home[t], t)
        /\ pause_queue' = [pause_queue EXCEPT ![c] = Tail(@)] /\ mode' = [mode EXCEPT ![c] = "timers"]
        /\ \A u \in Thread : u # t => cpu'[u] = cpu[u]
    BY <1>0, <1>6, <2>1, <2>2 DEF TimerCpu, Types
  <2>4. \A u \in Thread : Leaving(u) => Leaving(u)'
    BY <1>0, <1>6, HomeIsCPU DEF TimerCpu, At, Leaving, Types
  <2>5. queued \subseteq queued'
    BY <1>0, <2>1, <2>3, Appended
  <2>6. \A d \in CPU : d # c => pause_queue'[d] = pause_queue[d]
    BY <1>0, <2>3 DEF SleepQueues
  <2>7. \A u \in Thread : Fires(u)' => Fires(u) /\ u # t
    <3>1. first' = [d \in CPU |-> pause_queue'[d][1].tr]
      BY DEF first
    <3> QED
      BY <1>0, <2>1, <2>3, <2>6, <3>1, HomeIsCPU DEF Fires, Firing, first, Types
  <2> HIDE DEF t
  <2> QED
    BY <1>1, <2>1, <2>3, <2>4, <2>5, <2>7, FreshFrame
<1> QED
  BY <1>2, <1>3, <1>4, <1>5, <1>6 DEF Schedule

(* What dequeue() relies on: a runnable thread with a processor, whose     *)
(* process is checked out by the caller, is queued.                        *)
LEMMA DequeuedIsQueued ==
  ASSUME Inv, KeptPlace, FiredCleared, NEW s \in Thread, Runs(s), pc[s] = "dequeue",
         cpu[dest[s]] >= 0
  PROVE  dest[s] \in queued
<1>1. /\ dest[s] \in Thread
      /\ \A u \in Thread : u # s /\ pc[u] \in Waking \cup {"commit"} => dest[u] # dest[s]
  BY Woken DEF Waking
<1>2. state[dest[s]] = "RUNNING"
  BY Parts DEF WakerOK, Waking
<1>3. ~ Fires(dest[s])
  BY <1>1 DEF FiredCleared
<1>4. ~ \E u \in Thread : dest[u] = dest[s] /\ pc[u] \in Moving
  BY <1>1 DEF Moving, Waking
<1> QED
  BY <1>1, <1>2, <1>3, <1>4 DEF KeptPlace

LEMMA QuietFresh ==
  ASSUME Inv, KeptPlace, Cleared, FiredCleared, DequeuesQueued, failed = "none", failed' = "none",
         NEW t \in Thread, Quiet(t)
  PROVE  FreshCpu'
<1>0. Types
  BY Parts
<1>1. /\ Runs(t) /\ UNCHANGED <<cpu, state>> /\ queued' = queued
      /\ \A u \in Thread : (Fires(u)' => Fires(u)) /\ (Leaving(u) => Leaving(u)')
      /\ \A u \in Thread : u # t => pc'[u] = pc[u] /\ dest'[u] = dest[u]
  BY QuietCall
<1>2. CASE DequeueTest(t)
  <2>1. pc[t] = "dequeue" /\ UNCHANGED dest /\ cpu[dest[t]] >= 0
    BY <1>2 DEF DequeueTest, Goto, Check
  <2>2. dest[t] \in queued
    BY <1>1, <2>1, DequeuedIsQueued
  <2> QED
    BY <1>1, <2>1, <2>2, FreshFrame
<1>3. CASE ~ DequeueTest(t)
  <2>1. pc'[t] # "sub_dequeue"
    BY <1>0, <1>3, ZenonT(60) DEF Quiet, GoDormantCheckout, GoDormant, RequestDormant, GoDormantFull,
     GoDormantReturn, GoDormantFor, SendQuietly, SendTest, SetTestSame, SetTestDormant,
     SetTestDuration, SetTestRunning, Restart, Commit, Send, Read, Goto, Types
  <2> QED
    BY <1>1, <2>1, FreshFrame
<1> QED
  BY <1>2, <1>3

LEMMA MoverFresh ==
  ASSUME Inv, Cleared, FiredCleared, DequeuesQueued, failed = "none", failed' = "none", NEW s \in Thread,
         \/ SubDequeue(s) \/ DequeueCpu(s) \/ SetState(s) \/ QueueTest(s) \/ QueueCpu(s)
         \/ SubQueue(s)
  PROVE  FreshCpu'
<1>0. RunQueues /\ SleepQueues /\ Types /\ WakerOK(s) /\ \A d \in CPU : ProcessorOK(d)
  BY Parts
<1>1. /\ UNCHANGED <<pause_queue, mode, requesting_thread, dest>> /\ Runs(s)
      /\ pc[s] \in Waking
  BY DEF SubDequeue, DequeueCpu, SetState, QueueTest, QueueCpu, SubQueue, Goto, queueVars, cpuVars, Waking
<1>2. PICK t \in Thread : t = dest[s] /\ t # s /\ Home[t] \in CPU
  BY <1>1, Woken
<1>3. \A u \in Thread : u # s /\ pc[u] = "sub_dequeue" => dest[u] # t
  BY <1>1, <1>2, Woken DEF Waking
<1>4. first' = first
  BY <1>0, <1>1, SleepersKept
<1>5. \A u \in Thread : (Leaving(u)' <=> Leaving(u)) /\ (Fires(u)' <=> Fires(u))
  BY <1>1, <1>4 DEF Leaving, Fires
<1>6. /\ \A u \in Thread : u # s => pc'[u] = pc[u]
      /\ \A u \in Thread : u # t => cpu'[u] = cpu[u] /\ state'[u] = state[u]
      /\ pc'[s] # "sub_dequeue"
  BY <1>0, <1>2 DEF SubDequeue, DequeueCpu, SetState, QueueTest, QueueCpu, SubQueue, Goto, Types, fieldVars
<1>7. CASE SubDequeue(s)
  <2>1. pc[s] = "sub_dequeue" /\ UNCHANGED <<cpu, state>>
    BY <1>7 DEF SubDequeue, Goto, fieldVars
  <2>2. t \in queued
    BY <1>2, <2>1 DEF DequeuesQueued
  <2>3. CloseGap(Home[t], t)
    BY <1>2, <1>7, <2>2 DEF SubDequeue, queued
  <2>4. queued' = queued \ {t}
    BY <1>0, <2>2, <2>3, Gap
  <2> QED
    BY <1>1, <1>3, <1>5, <1>6, <2>1, <2>4, FreshFrame
<1>8. CASE SubQueue(s)
  <2>1. UNCHANGED <<position, cpu, state>> /\ Append1(Home[t], t) /\ t \notin queued
    BY <1>0, <1>2, <1>8 DEF SubQueue, Goto, fieldVars, WakerOK, Waking, Moving
  <2>2. queued \subseteq queued'
    BY <1>0, <2>1, Appended
  <2> QED
    BY <1>1, <1>5, <1>6, <2>1, <2>2, FreshFrame
<1>9. CASE DequeueCpu(s) \/ SetState(s) \/ QueueTest(s) \/ QueueCpu(s)
  <2>1. UNCHANGED <<sched_queue, position>>
    BY <1>9 DEF DequeueCpu, SetState, QueueTest, QueueCpu, queueVars
  <2>2. queued' = queued
    BY <1>0, <2>1, QueuesKept
  <2>3. cpu'[t] = -1 \/ cpu'[t] = cpu[t] \/ ~ Fires(t)
    <3>1. CASE QueueCpu(s)
      <4>1. t \notin asleep
        BY <1>0, <1>2, <3>1 DEF QueueCpu, Goto, WakerOK, Waking, Moving
      <4> QED
        BY <1>0, <1>2, <4>1 DEF Fires, ProcessorOK
    <3>2. CASE ~ QueueCpu(s)
      BY <1>0, <1>2, <1>9, <3>2 DEF DequeueCpu, SetState, QueueTest, fieldVars, Types
    <3> QED
      BY <3>1, <3>2
  <2>4. state'[t] = "DORMANT" => state[t] = "DORMANT" /\ (cpu'[t] = -1 \/ cpu'[t] = cpu[t])
    <3>1. CASE QueueCpu(s)
      <4>1. state[t] = "RUNNING" /\ UNCHANGED state
        BY <1>0, <1>2, <3>1 DEF QueueCpu, Goto, WakerOK, Waking
      <4> QED
        BY <4>1
    <3>2. CASE ~ QueueCpu(s)
      BY <1>0, <1>2, <1>9, <3>2 DEF DequeueCpu, SetState, QueueTest, fieldVars, Types
    <3> QED
      BY <3>1, <3>2
  <2> QED
    BY <1>1, <1>5, <1>6, <2>2, <2>3, <2>4, FreshFrame
<1> QED
  BY <1>7, <1>8, <1>9

LEMMA StartThreadFresh ==
  ASSUME Inv, Cleared, FiredCleared, DequeuesQueued, NEW t \in Thread, StartThread(t)
  PROVE  FreshCpu'
<1>0. RunQueues /\ SleepQueues /\ Types /\ ThreadOK(t) /\ \A d \in CPU : ProcessorOK(d)
  BY Parts
<1>1. /\ UNCHANGED <<pc, dest, mode, requesting_thread, position, pause_queue>>
      /\ state[t] = "SUSPENDED" /\ Append1(Home[t], t)
  BY DEF StartThread, callVars, cpuVars
<1>2. state'[t] = "RUNNING" /\ \A u \in Thread : u # t => state'[u] = state[u] /\ cpu'[u] = cpu[u]
  BY <1>0 DEF StartThread, Types
<1>3. first' = first
  BY <1>0, <1>1, SleepersKept
<1>4. \A u \in Thread : (Leaving(u) => Leaving(u)') /\ (Fires(u)' => Fires(u))
  BY <1>1, <1>3 DEF Leaving, Fires
<1>5. t \notin queued /\ ~ Fires(t)
  BY <1>0, <1>1, HomeIsCPU DEF ThreadOK, Fires, ProcessorOK
<1>6. queued \subseteq queued'
  BY <1>0, <1>1, <1>5, Appended
<1> QED
  BY <1>1, <1>2, <1>4, <1>5, <1>6, FreshFrame

LEMMA FreshNext ==
  Inv /\ Placement /\ FreshCpu /\ [Next]_vars => FreshCpu'
<1> SUFFICES ASSUME Inv, Placement, FreshCpu, [Next]_vars, failed' = "none" PROVE FreshCpu'
  BY DEF FreshCpu
<1>1. CASE Next
  <2>1. failed = "none" /\ KeptPlace /\ Cleared /\ FiredCleared /\ DequeuesQueued
    BY <1>1, StepsUnlessFailed DEF FreshCpu, Placement
  <2>2. ASSUME NEW t \in Thread, Proceed(t) PROVE FreshCpu'
    BY <2>1, <2>2, QuietFresh, MoverFresh DEF Proceed, Quiet
  <2>3. ASSUME NEW t \in Thread, GoDormantCheckout(t) \/ \E u \in Thread : Send(t, u)
        PROVE  FreshCpu'
    BY <2>1, <2>3, QuietFresh DEF Quiet
  <2> QED
    BY <1>1, <2>1, <2>2, <2>3, ScheduleFresh, StartThreadFresh DEF Next
<1>2. CASE UNCHANGED vars
  <2>1. UNCHANGED <<state, cpu, mode, requesting_thread, sched_queue, pause_queue, position, pc, dest, failed>>
    BY <1>2 DEF vars, queueVars, cpuVars, fieldVars, callVars
  <2>2. RunQueues /\ SleepQueues
    BY Parts
  <2>3. queued' = queued /\ first' = first
    BY <2>1, <2>2, QueuesKept, SleepersKept
  <2> QED
    BY <2>1, <2>3 DEF FreshCpu, Cleared, FiredCleared, DequeuesQueued, Leaving, Fires
<1> QED
  BY <1>1, <1>2

LEMMA AssertionsPass ==
  ASSUME Room
  PROVE  Inv /\ Placement /\ FreshCpu /\ OnlyWakersFail /\ [Next]_vars => OnlyWakersFail'
<1> SUFFICES ASSUME Inv, Placement, FreshCpu, OnlyWakersFail, [Next]_vars, failed' # failed
             PROVE  OnlyWakersFail'
  BY DEF OnlyWakersFail
<1>0. /\ Next /\ failed = "none" /\ KnownCpu /\ DequeuesQueued
      /\ RunQueues /\ SleepQueues /\ Types /\ \A c \in CPU : ProcessorOK(c)
  BY StepsUnlessFailed, Parts DEF vars, Placement, FreshCpu
<1>1. ASSUME NEW c \in CPU, Schedule(c) PROVE FALSE
  <2>1. TimerCpu(c)
    BY <1>1 DEF Schedule, RemoveLast, RemoveLastCpu, TimerState, TimerDuration, Pick, SwitchOut
  <2>2. first[c] \in Thread /\ Home[first[c]] = c /\ first[c] \notin queued
    BY <1>0, <2>1, Parts DEF TimerCpu, At, ProcessorOK, Firing
  <2>3. Len(sched_queue[c]) # SchedSize
    BY <1>0, <2>2, RoomForOne
  <2> QED
    BY <2>1, <2>3 DEF TimerCpu, Check
<1>2. ASSUME NEW t \in Thread, Proceed(t) PROVE OnlyWakersFail'
  <2>1. CASE GoDormant(t) \/ \E m \in Timeouts : GoDormantFor(t, m)
    <3>1. Runs(t) /\ pc[t] = "waiting"
      BY <2>1 DEF GoDormant, GoDormantFor, RequestDormant, Goto
    <3>2. t \in queued /\ state[t] = "RUNNING"
      BY <3>1, Running
    <3>3. cpu[t] = Home[t]
      BY <1>0, <3>2 DEF KnownCpu
    <3> QED
      BY <2>1, <3>2, <3>3 DEF GoDormant, GoDormantFor, Check
  <2>2. CASE Restart(t) \/ DequeueTest(t) \/ QueueTest(t)
    BY <1>0, <2>2 DEF Restart, DequeueTest, QueueTest, Check, OnlyWakersFail
  <2>3. CASE SubDequeue(t)
    <3>1. dest[t] \in queued
      BY <1>0, <2>3 DEF SubDequeue, Goto, DequeuesQueued
    <3> QED
      BY <2>3, <3>1 DEF SubDequeue, Check, queued
  <2>4. CASE UNCHANGED failed
    BY <2>4
  <2> QED
    BY <1>2, <2>1, <2>2, <2>3, <2>4 DEF Proceed, GoDormantFull, GoDormantReturn, SendQuietly, SendTest,
       SetTestSame, SetTestDormant, SetTestDuration, SetTestRunning, DequeueCpu, SetState, QueueCpu,
       SubQueue, Commit, Read
<1>3. ASSUME NEW t \in Thread,
             StartThread(t) \/ GoDormantCheckout(t) \/ \E u \in Thread : Send(t, u)
      PROVE  FALSE
  BY <1>3 DEF StartThread, GoDormantCheckout, Send
<1> QED
  BY <1>0, <1>1, <1>2, <1>3 DEF Next

(* Where every processor has room for its threads, and on any number of    *)
(* them, the assertions of go_dormant, pause, remove_timers and            *)
(* sub_dequeue hold, with restart, timers and remote dequeue at work: only *)
(* what a waker asserts of fields it has read too early can fail.          *)
THEOREM OnlyWakersAreWrong ==
  ASSUME Room
  PROVE  Spec => []OnlyWakersFail
<1>1. Init => Placement /\ FreshCpu /\ OnlyWakersFail
  <2>1. Init => FreshCpu
    BY DEF Init, FreshCpu, Cleared, FiredCleared, DequeuesQueued, Fires, Firing
  <2> QED
    BY <2>1, PlacementInit DEF Init, OnlyWakersFail
<1>2. Inv /\ Placement /\ FreshCpu /\ OnlyWakersFail /\ [Next]_vars =>
        Placement' /\ FreshCpu' /\ OnlyWakersFail'
  BY PlacementNext, FreshNext, AssertionsPass
<1> QED
  BY <1>1, <1>2, Inductive, PTL DEF Spec
=============================================================================
