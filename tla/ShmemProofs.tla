---------------------------- MODULE ShmemProofs -----------------------------
(***************************************************************************)
(* Shared memory, for any number of processes, threads, regions, pages and *)
(* frames: a process sees of it only what it has requested, or scratch     *)
(* memory of its own, every frame in use has one owner, and shmem_clean    *)
(* leaves nothing but orphans.                                             *)
(***************************************************************************)
EXTENDS Shmem, WellFoundedInduction, SequenceTheorems, TLAPS

-----------------------------------------------------------------------------
(* Searching a list, taking from it, and finding memory. *)
LEMMA MinIs ==
  ASSUME NEW T, T \subseteq Nat, T # {}
  PROVE  Min(T) \in T /\ \A y \in T : Min(T) <= y
<1> DEFINE R == OpToRel(<, Nat)
<1>1. IsWellFoundedOn(R, Nat)
  BY NatLessThanWellFounded
<1>2. \A x, y \in Nat : <<y, x>> \in R <=> y < x
  BY DEF OpToRel
<1> HIDE DEF R
<1>3. PICK x \in T : \A y \in T : ~ (<<y, x>> \in R)
  BY <1>1, WFMin
<1>4. \A y \in T : x <= y
  <2>1. SUFFICES ASSUME NEW y \in T PROVE x <= y
    OBVIOUS
  <2>2. x \in Nat /\ y \in Nat
    OBVIOUS
  <2>3. ~ (y < x)
    BY <1>2, <1>3, <2>2
  <2> QED
    BY <2>2, <2>3
<1> QED
  BY <1>4 DEF Min

LEMMA Part ==
  ASSUME NEW S, NEW s \in Seq(S), NEW m \in 1 .. Len(s) + 1, NEW n \in m - 1 .. Len(s), NEW r, r = SubSeq(s, m, n)
  PROVE  /\ r \in Seq(S) /\ Len(r) = n - m + 1
         /\ \A i \in 1 .. n - m + 1 : r[i] = s[m + i - 1]
<1>1. m \in Int /\ n \in Int /\ \A i \in m .. n : s[i] \in S
  OBVIOUS
<1>2. /\ SubSeq(s, m, n) \in Seq(S)
      /\ Len(SubSeq(s, m, n)) = IF m <= n THEN n - m + 1 ELSE 0
      /\ \A i \in 1 .. n - m + 1 : SubSeq(s, m, n)[i] = s[m + i - 1]
  BY <1>1, SubSeqProperties
<1>3. (IF m <= n THEN n - m + 1 ELSE 0) = n - m + 1
  OBVIOUS
<1> QED
  BY <1>2, <1>3, Zenon

LEMMA RemoveOne ==
  ASSUME NEW S, NEW s \in Seq(S), NEW k \in 1 .. Len(s), NEW r, r = RemoveAt(s, k)
  PROVE  /\ r \in Seq(S) /\ Len(r) = Len(s) - 1
         /\ \A i \in 1 .. Len(r) : r[i] = IF i < k THEN s[i] ELSE s[i + 1]
<1> DEFINE a == SubSeq(s, 1, k - 1)
           b == SubSeq(s, k + 1, Len(s))
<1>0. Len(s) \in Nat /\ k \in Nat /\ k <= Len(s) /\ k >= 1
  OBVIOUS
<1>1. r = a \o b
  BY DEF RemoveAt
<1>2. a \in Seq(S) /\ Len(a) = (k - 1) - 1 + 1 /\ \A i \in 1 .. (k - 1) - 1 + 1 : a[i] = s[1 + i - 1]
  <2>1. 1 \in 1 .. Len(s) + 1 /\ k - 1 \in 1 - 1 .. Len(s)
    BY <1>0
  <2> QED
    BY <2>1, Part
<1>3. b \in Seq(S) /\ Len(b) = Len(s) - (k + 1) + 1 /\ \A i \in 1 .. Len(s) - (k + 1) + 1 : b[i] = s[(k + 1) + i - 1]
  <2>1. k + 1 \in 1 .. Len(s) + 1 /\ Len(s) \in (k + 1) - 1 .. Len(s)
    BY <1>0
  <2> QED
    BY <2>1, Part
<1> HIDE DEF a, b
<1>4. /\ r \in Seq(S) /\ Len(r) = Len(a) + Len(b)
      /\ \A i \in 1 .. Len(a) : r[i] = a[i]
      /\ \A i \in 1 .. Len(b) : r[Len(a) + i] = b[i]
  <2>1. a \in Seq(S) /\ b \in Seq(S)
    BY <1>2, <1>3
  <2>2. a \o b \in Seq(S) /\ Len(a \o b) = Len(a) + Len(b)
    BY <2>1
  <2>3. \A i \in 1 .. Len(a) : (a \o b)[i] = a[i]
    BY <2>1
  <2>4. \A i \in 1 .. Len(b) : (a \o b)[Len(a) + i] = b[i]
    BY <2>1
  <2> QED
    BY <1>1, <2>2, <2>3, <2>4, Zenon
<1>5. Len(r) = Len(s) - 1 /\ Len(a) = k - 1
  BY <1>0, <1>2, <1>3, <1>4
<1>6. ASSUME NEW i \in 1 .. Len(r) PROVE r[i] = IF i < k THEN s[i] ELSE s[i + 1]
  <2>1. CASE i < k
    <3>1. i \in 1 .. Len(a) /\ i \in 1 .. (k - 1) - 1 + 1 /\ 1 + i - 1 = i
      BY <1>0, <1>5, <2>1
    <3>2. r[i] = a[i] /\ a[i] = s[1 + i - 1]
      BY <1>2, <1>4, <3>1, Zenon
    <3> QED
      BY <2>1, <3>1, <3>2
  <2>2. CASE ~ (i < k)
    <3> DEFINE j == i - (k - 1)
    <3>1. j \in 1 .. Len(b) /\ j \in 1 .. Len(s) - (k + 1) + 1 /\ Len(a) + j = i /\ (k + 1) + j - 1 = i + 1
      BY <1>0, <1>3, <1>5, <2>2
    <3> HIDE DEF j
    <3>2. r[Len(a) + j] = b[j] /\ b[j] = s[(k + 1) + j - 1]
      BY <1>3, <1>4, <3>1, Zenon
    <3> QED
      BY <2>2, <3>1, <3>2
  <2> QED
    BY <2>1, <2>2
<1> QED
  BY <1>4, <1>5, <1>6

LEMMA IndexIs ==
  ASSUME NEW list, NEW p, NEW k, k = IndexOf(list, p)
  PROVE  /\ k # 0 => k \in 1 .. Len(list) /\ list[k].pid = p
         /\ k = 0 => \A i \in 1 .. Len(list) : list[i].pid # p
<1> DEFINE I == {i \in 1 .. Len(list) : list[i].pid = p}
<1>1. CASE I = {}
  <2>1. k = 0
    BY <1>1 DEF IndexOf, SelectInSeq
  <2> QED
    BY <1>1, <2>1
<1>2. CASE I # {}
  <2>1. k = Min(I)
    BY <1>2 DEF IndexOf, SelectInSeq
  <2>2. I \subseteq Nat
    OBVIOUS
  <2>3. k \in I
    <3> HIDE DEF I
    <3> QED
      BY <1>2, <2>1, <2>2, MinIs
  <2> QED
    BY <2>3
<1> QED
  BY <1>1, <1>2

LEMMA FreeFrames ==
  ASSUME NEW busy, NEW n \in Nat, NEW f, f = memory_alloc(busy, n)
  PROVE  f \in Nat /\ (f # 0 => Span(f, n) \subseteq Nat /\ Span(f, n) \cap busy = {})
<1> DEFINE fits == {g \in Frame : Span(g, n) \subseteq Frame \ busy}
<1>1. CASE fits = {}
  BY <1>1 DEF memory_alloc
<1>2. CASE fits # {}
  <2>1. f = Min(fits)
    BY <1>2 DEF memory_alloc
  <2>2. fits \subseteq Nat /\ Frame \subseteq Nat
    BY FrameAssumption
  <2>3. f \in fits
    <3> HIDE DEF fits
    <3> QED
      BY <1>2, <2>1, <2>2, MinIs
  <2> QED
    BY <2>2, <2>3
<1> QED
  BY <1>1, <1>2

LEMMA DirectMap ==
  ASSUME NEW s, NEW f, NEW at, NEW n
  PROVE  page_direct_map(s, f, at, n).entry =
           [p \in PageSpace |-> IF p \in Span(at, n) THEN f + (p - at) ELSE s.entry[p]]
BY DEF page_direct_map

LEMMA Provided ==
  ASSUME NEW s, NEW f, NEW n \in Nat, NEW got, got = page_provide(s, f, n)
  PROVE  /\ got.at \in Nat
         /\ got.at # 0 => /\ \A q \in Span(got.at, n) : q \in PageSpace /\ s.entry[q] = 0
                          /\ got.space = page_direct_map(s, f, got.at, n)
<1> DEFINE at == page_find_free(s, sK_BASE, sK_CEILING, n)
           fits == {p \in sK_BASE .. sK_CEILING - 1 : \A q \in Span(p, n) : ~ page_present(s, q)}
<1>1. got.at = at /\ (at # 0 => got.space = page_direct_map(s, f, at, n))
  BY DEF page_provide
<1>2. CASE fits = {}
  BY <1>1, <1>2 DEF page_find_free
<1>3. CASE fits # {}
  <2>1. at = Min(fits)
    BY <1>3 DEF page_find_free
  <2>2. fits \subseteq Nat
    BY PageAssumption
  <2>3. at \in fits
    <3> HIDE DEF fits, at
    <3> QED
      BY <1>3, <2>1, <2>2, MinIs
  <2>4. at \in Nat /\ \A q \in Span(at, n) : q \in PageSpace /\ s.entry[q] = 0
    BY <2>2, <2>3 DEF page_present
  <2> QED
    BY <1>1, <2>4
<1> QED
  BY <1>2, <1>3

-----------------------------------------------------------------------------
(* What is in the table, and what a thread works at. *)
InfoType == [pid : Process, virtual_location : Nat, virtual_pages : Int, usage : Int]
RegionType == [pid : Process, flags : SUBSET Flag, internal : BOOLEAN, physical_location : Nat,
               physical_pages : Nat \ {0}, list : Seq(InfoType)]
DeleteType == [at : {"checkout", "map", "commit", "free"}, sh : RegionType, i : Nat \ {0},
               out : SUBSET Process, tmp2 : [Process -> Nat], then : {"return", "clean"}]

(* A process is once in the list of a region, with all of its pages or none. *)
ListOK(list, n) ==
  /\ list \in Seq(InfoType)
  /\ \A i, j \in 1 .. Len(list) : list[i].pid = list[j].pid => i = j
  /\ \A i \in 1 .. Len(list) : list[i].virtual_pages \in {-1, n}
RegionOK(sh) == sh \in RegionType /\ ListOK(sh.list, sh.physical_pages)

JobOK(j) ==
  \/ j = NoJob
  \/ \E p \in Process \ alive : j = Clean(p)
  \/ /\ j \in DeleteType /\ RegionOK(j.sh)
     /\ j.then = "clean" => j.sh.pid \notin alive

Types ==
  /\ shmem_id \in Nat
  /\ DOMAIN shmem_table \subseteq Nat
  /\ \A id \in DOMAIN shmem_table : id < shmem_id /\ RegionOK(shmem_table[id])
  /\ map \in [Process -> [PageSpace -> Nat]]
  /\ alive \subseteq Process
  /\ DOMAIN job = Thread /\ \A t \in Thread : JobOK(job[t])
  /\ DOMAIN pad = Process
  /\ cleaned \subseteq Process \ alive

(* Regions whose memory processes may still see: those that are deleted,   *)
(* up to the step that maps the scratch memory.                            *)
Live == {shmem_table[id] : id \in DOMAIN shmem_table}
          \cup {job[t].sh : t \in {u \in Thread : job[u].at \in {"checkout", "map"}}}
Shows(p, v, l, info) ==
  /\ info.pid = p /\ info.usage > 0
  /\ v \in Span(info.virtual_location, info.virtual_pages)
  /\ map[p][v] = l + (v - info.virtual_location)
Shown ==
  \A p \in alive \ excused, v \in PageSpace : map[p][v] # 0 =>
    \/ map[p][v] \in pad[p]
    \/ \E sh \in Live : \E info \in Infos(sh) : Shows(p, v, sh.physical_location, info)

(* Nobody but the excused has released more than it requested. *)
Counted ==
  \A id \in DOMAIN shmem_table : \A info \in Infos(shmem_table[id]) : info.usage >= 0 \/ info.pid \in excused

(* The users shmem_delete has come by are checked out, and have scratch    *)
(* memory of their own if there was any.                                   *)
Visited(t) ==
  LET j == job[t] IN
  /\ \A k \in 1 .. Len(j.sh.list) :
       j.at = "map" \/ k < j.i =>
         \/ j.sh.list[k].usage <= 0 \/ j.sh.list[k].pid \notin alive \/ j.sh.list[k].pid \in excused
         \/ j.sh.list[k].pid \in j.out /\ j.tmp2[j.sh.list[k].pid] # 0
  /\ \A p \in Process : j.tmp2[p] # 0 =>
       /\ Span(j.tmp2[p], j.sh.physical_pages) \subseteq pad[p]
       /\ \E k \in 1 .. Len(j.sh.list) : j.sh.list[k].pid = p
AllVisited == \A t \in Thread : job[t].at \in {"checkout", "map"} => Visited(t)

-----------------------------------------------------------------------------
(* What happens to the list of a region: a process is put first, taken     *)
(* out, or what is known of it changes.                                    *)
LEMMA InfoIs ==
  ASSUME NEW p \in Process
  PROVE  /\ Info(p) \in InfoType /\ Info(p).pid = p /\ Info(p).usage = 0 /\ Info(p).virtual_pages = -1
         /\ Info(p).virtual_location = 0
BY DEF Info, InfoType

LEMMA ListSet ==
  \A s \in Seq(InfoType) : ToSet(s) = {s[i] : i \in 1 .. Len(s)}
BY DEF ToSet

LEMMA PutList ==
  ASSUME NEW list, NEW n, ListOK(list, n), NEW p \in Process,
         \A i \in 1 .. Len(list) : list[i].pid # p, NEW r, r = <<Info(p)>> \o list
  PROVE  ListOK(r, n) /\ ToSet(r) = ToSet(list) \cup {Info(p)}
<1>1. list \in Seq(InfoType) /\ Len(list) \in Nat
  BY DEF ListOK
<1>2. r \in Seq(InfoType) /\ Len(r) = Len(list) + 1 /\ r[1] = Info(p) /\ \A i \in 1 .. Len(list) : r[i + 1] = list[i]
  BY <1>1, InfoIs
<1>3. \A j \in 1 .. Len(r) : j = 1 \/ (j - 1 \in 1 .. Len(list) /\ r[j] = list[j - 1])
  BY <1>1, <1>2
<1>4. r[1].pid = p /\ r[1].virtual_pages = -1
  BY <1>2, InfoIs
<1>5. \A i, j \in 1 .. Len(r) : r[i].pid = r[j].pid => i = j
  BY <1>1, <1>3, <1>4 DEF ListOK
<1>6. \A i \in 1 .. Len(r) : r[i].virtual_pages \in {-1, n}
  BY <1>3, <1>4 DEF ListOK
<1>7. ToSet(r) = ToSet(list) \cup {Info(p)}
  <2>0. r \in Seq(InfoType) /\ list \in Seq(InfoType)
    BY <1>1, <1>2
  <2>1. ToSet(r) = {r[i] : i \in 1 .. Len(r)} /\ ToSet(list) = {list[i] : i \in 1 .. Len(list)}
    BY <2>0, ListSet
  <2>2. \A i \in 1 .. Len(list) : i + 1 \in 1 .. Len(r)
    BY <1>1, <1>2
  <2>3. 1 \in 1 .. Len(r)
    BY <1>1, <1>2
  <2>4. ASSUME NEW x \in ToSet(r) PROVE x \in ToSet(list) \cup {Info(p)}
    BY <1>2, <1>3, <2>1
  <2>5. ASSUME NEW x \in ToSet(list) PROVE x \in ToSet(r)
    BY <1>2, <2>1, <2>2
  <2>6. Info(p) \in ToSet(r)
    BY <1>2, <2>1, <2>3
  <2> QED
    BY <2>4, <2>5, <2>6
<1> QED
  BY <1>2, <1>5, <1>6, <1>7 DEF ListOK

LEMMA RemoveList ==
  ASSUME NEW list, NEW n, ListOK(list, n), NEW k \in 1 .. Len(list), NEW r, r = RemoveAt(list, k)
  PROVE  ListOK(r, n) /\ ToSet(r) = ToSet(list) \ {list[k]}
<1>1. list \in Seq(InfoType) /\ Len(list) \in Nat
  BY DEF ListOK
<1>2. /\ r \in Seq(InfoType) /\ Len(r) = Len(list) - 1
      /\ \A i \in 1 .. Len(r) : r[i] = IF i < k THEN list[i] ELSE list[i + 1]
  BY <1>1, RemoveOne
<1>3. \A j \in 1 .. Len(r) : \E i \in 1 .. Len(list) : i # k /\ r[j] = list[i] /\ i = IF j < k THEN j ELSE j + 1
  <2> SUFFICES ASSUME NEW j \in 1 .. Len(r)
               PROVE  \E i \in 1 .. Len(list) : i # k /\ r[j] = list[i] /\ i = IF j < k THEN j ELSE j + 1
    OBVIOUS
  <2>1. CASE j < k
    BY <1>1, <1>2, <2>1
  <2>2. CASE ~ (j < k)
    <3>1. j + 1 \in 1 .. Len(list) /\ j + 1 # k /\ r[j] = list[j + 1]
      BY <1>1, <1>2, <2>2
    <3> QED
      BY <2>2, <3>1
  <2> QED
    BY <2>1, <2>2
<1>4. \A i, j \in 1 .. Len(r) : r[i].pid = r[j].pid => i = j
  <2> SUFFICES ASSUME NEW i \in 1 .. Len(r), NEW j \in 1 .. Len(r), r[i].pid = r[j].pid PROVE i = j
    OBVIOUS
  <2>1. PICK a \in 1 .. Len(list) : r[i] = list[a] /\ a = IF i < k THEN i ELSE i + 1
    BY <1>3
  <2>2. PICK b \in 1 .. Len(list) : r[j] = list[b] /\ b = IF j < k THEN j ELSE j + 1
    BY <1>3
  <2>3. a = b
    BY <2>1, <2>2 DEF ListOK
  <2> QED
    BY <2>1, <2>2, <2>3
<1>5. \A i \in 1 .. Len(r) : r[i].virtual_pages \in {-1, n}
  BY <1>3 DEF ListOK
<1>6. ToSet(r) = ToSet(list) \ {list[k]}
  <2>0. r \in Seq(InfoType) /\ list \in Seq(InfoType)
    BY <1>1, <1>2
  <2>1. ToSet(r) = {r[i] : i \in 1 .. Len(r)} /\ ToSet(list) = {list[i] : i \in 1 .. Len(list)}
    BY <2>0, ListSet
  <2>2. \A i \in 1 .. Len(list) : i # k => list[i] # list[k]
    BY DEF ListOK
  <2>3. ASSUME NEW x \in ToSet(r) PROVE x \in ToSet(list) \ {list[k]}
    <3>1. PICK j \in 1 .. Len(r) : x = r[j]
      BY <2>1
    <3>2. PICK i \in 1 .. Len(list) : i # k /\ r[j] = list[i]
      BY <1>3
    <3> QED
      BY <2>1, <2>2, <3>1, <3>2
  <2>4. ASSUME NEW x \in ToSet(list) \ {list[k]} PROVE x \in ToSet(r)
    <3>1. PICK i \in 1 .. Len(list) : x = list[i] /\ i # k
      BY <2>1
    <3>2. CASE i < k
      <4>1. i \in 1 .. Len(r) /\ r[i] = x
        BY <1>1, <1>2, <3>1, <3>2
      <4> QED
        BY <2>1, <4>1
    <3>3. CASE ~ (i < k)
      <4>1. i - 1 \in 1 .. Len(r) /\ ~ (i - 1 < k) /\ (i - 1) + 1 = i
        BY <1>1, <1>2, <3>1, <3>3
      <4>2. r[i - 1] = x
        BY <1>2, <3>1, <4>1
      <4> QED
        BY <2>1, <4>1, <4>2
    <3> QED
      BY <3>2, <3>3
  <2> QED
    BY <2>3, <2>4
<1> QED
  BY <1>2, <1>4, <1>5, <1>6 DEF ListOK

LEMMA ChangeList ==
  ASSUME NEW list, NEW n, ListOK(list, n), NEW k \in 1 .. Len(list), NEW x \in InfoType,
         x.pid = list[k].pid, x.virtual_pages \in {-1, n}, NEW r \in Seq(InfoType), Len(r) = Len(list),
         \A i \in 1 .. Len(list) : r[i] = IF i = k THEN x ELSE list[i]
  PROVE  ListOK(r, n) /\ ToSet(r) = (ToSet(list) \ {list[k]}) \cup {x}
<1>1. list \in Seq(InfoType) /\ Len(list) \in Nat
  BY DEF ListOK
<1>2. /\ r \in Seq(InfoType) /\ Len(r) = Len(list) /\ r[k] = x
      /\ \A i \in 1 .. Len(list) : i # k => r[i] = list[i]
  BY <1>1
<1>3. ListOK(r, n)
  BY <1>2 DEF ListOK
<1>4. ToSet(r) = {r[i] : i \in 1 .. Len(r)} /\ ToSet(list) = {list[i] : i \in 1 .. Len(list)}
  <2>1. r \in Seq(InfoType) /\ list \in Seq(InfoType)
    BY <1>1, <1>2
  <2> QED
    BY <2>1, ListSet
<1>5. \A i \in 1 .. Len(list) : i # k => list[i] # list[k]
  BY DEF ListOK
<1>6. ASSUME NEW y \in ToSet(r) PROVE y \in (ToSet(list) \ {list[k]}) \cup {x}
  <2>1. PICK i \in 1 .. Len(r) : y = r[i]
    BY <1>4, <1>6
  <2> QED
    BY <1>2, <1>4, <1>5, <2>1
<1>7. ASSUME NEW y \in (ToSet(list) \ {list[k]}) \cup {x} PROVE y \in ToSet(r)
  BY <1>2, <1>4, <1>7
<1> QED
  BY <1>3, <1>6, <1>7

-----------------------------------------------------------------------------
(* What happens to the table: nothing else changes in a region than its    *)
(* list, or its flags, which grow.                                         *)
Alike(a, b) ==
  /\ b.pid = a.pid /\ b.internal = a.internal /\ a.flags \subseteq b.flags
  /\ b.physical_location = a.physical_location /\ b.physical_pages = a.physical_pages

LEMMA NewList ==
  ASSUME NEW sh, RegionOK(sh), NEW r, ListOK(r, sh.physical_pages), NEW b, b = [sh EXCEPT !.list = r]
  PROVE  RegionOK(b) /\ Alike(sh, b) /\ b.list = r
<1>1. sh \in RegionType /\ r \in Seq(InfoType)
  BY DEF RegionOK, ListOK
<1>2. b \in RegionType /\ b.list = r /\ Alike(sh, b)
  BY <1>1 DEF RegionType, Alike
<1> QED
  BY <1>2 DEF RegionOK, Alike

LEMMA NewFlags ==
  ASSUME NEW sh, RegionOK(sh), NEW b, b = [sh EXCEPT !.flags = @ \cup {"ORPHAN"}]
  PROVE  RegionOK(b) /\ Alike(sh, b) /\ b.list = sh.list /\ b.flags = sh.flags \cup {"ORPHAN"}
<1>1. sh \in RegionType
  BY DEF RegionOK
<1>2. sh.flags \cup {"ORPHAN"} \in SUBSET Flag
  BY <1>1 DEF RegionType, Flag
<1>3. b \in RegionType /\ b.list = sh.list /\ Alike(sh, b) /\ b.flags = sh.flags \cup {"ORPHAN"}
  BY <1>1, <1>2 DEF RegionType, Alike
<1> QED
  BY <1>3 DEF RegionOK, Alike

(* The list of region id becomes r. *)
Relisted(id, r) ==
  /\ id \in DOMAIN shmem_table
  /\ DOMAIN shmem_table' = DOMAIN shmem_table
  /\ \A i \in DOMAIN shmem_table : i # id => shmem_table'[i] = shmem_table[i]
  /\ RegionOK(shmem_table'[id]) /\ Alike(shmem_table[id], shmem_table'[id])
  /\ shmem_table'[id].list = r

LEMMA Relist ==
  ASSUME Types, NEW id \in DOMAIN shmem_table, NEW r, ListOK(r, shmem_table[id].physical_pages),
         shmem_table' = [shmem_table EXCEPT ![id] = [@ EXCEPT !.list = r]]
  PROVE  Relisted(id, r)
<1>1. RegionOK(shmem_table[id])
  BY DEF Types
<1>2. /\ DOMAIN shmem_table' = DOMAIN shmem_table
      /\ \A i \in DOMAIN shmem_table : i # id => shmem_table'[i] = shmem_table[i]
      /\ shmem_table'[id] = [shmem_table[id] EXCEPT !.list = r]
  OBVIOUS
<1> QED
  BY <1>1, <1>2, NewList DEF Relisted

(* Region id leaves the table for thread t to delete it. *)
Dropped(t, id, then) ==
  /\ id \in DOMAIN shmem_table
  /\ DOMAIN shmem_table' = DOMAIN shmem_table \ {id}
  /\ \A i \in DOMAIN shmem_table' : /\ RegionOK(shmem_table'[i]) /\ Alike(shmem_table[i], shmem_table'[i])
                                    /\ shmem_table'[i].list = shmem_table[i].list
  /\ job' = [job EXCEPT ![t] = Removed(id, then)]

LEMMA RemovedIs ==
  ASSUME Types, NEW id \in DOMAIN shmem_table, NEW then \in {"return", "clean"}, NEW j, j = Removed(id, then)
  PROVE  /\ j \in DeleteType /\ RegionOK(j.sh) /\ j.sh = shmem_table[id] /\ j.at = "checkout" /\ j.i = 1
         /\ j.out = {} /\ j.then = then /\ \A p \in Process : j.tmp2[p] = 0
<1>1. RegionOK(shmem_table[id])
  BY DEF Types
<1>2. shmem_table[id] \in RegionType
  BY <1>1 DEF RegionOK
<1> QED
  BY <1>1, <1>2 DEF Removed, DeleteType

LEMMA TypesFrame ==
  ASSUME Types, alive' \subseteq alive, shmem_id' \in Nat,
         DOMAIN shmem_table' \subseteq Nat,
         \A id \in DOMAIN shmem_table' : id < shmem_id' /\ RegionOK(shmem_table'[id]),
         map' \in [Process -> [PageSpace -> Nat]],
         DOMAIN job' = Thread, \A t \in Thread : job'[t] = job[t] \/ JobOK(job[t])',
         DOMAIN pad' = Process, cleaned' \subseteq Process \ alive'
  PROVE  Types'
<1>1. ASSUME NEW t \in Thread PROVE JobOK(job[t])'
  <2>1. CASE job'[t] = job[t]
    <3>1. JobOK(job[t])
      BY DEF Types
    <3> QED
      BY <2>1, <3>1 DEF JobOK, RegionOK, ListOK
  <2> QED
    BY <2>1
<1>2. \A id \in DOMAIN shmem_table' : RegionOK(shmem_table[id])'
  BY DEF RegionOK, ListOK
<1> QED
  BY <1>1, <1>2 DEF Types

(* Steps that change nothing but the table, in the list of one region.     *)
LEMMA RelistTypes ==
  ASSUME Types, NEW id, NEW r, Relisted(id, r), map' \in [Process -> [PageSpace -> Nat]],
         UNCHANGED <<shmem_id, alive, job, cleaned>>, DOMAIN pad' = Process
  PROVE  Types'
<1>1. \A i \in DOMAIN shmem_table' : i < shmem_id' /\ RegionOK(shmem_table'[i])
  BY DEF Relisted, Types
<1>2. DOMAIN shmem_table' \subseteq Nat /\ shmem_id' \in Nat /\ alive' \subseteq alive /\ DOMAIN job' = Thread
      /\ cleaned' \subseteq Process \ alive'
  BY DEF Relisted, Types
<1> QED
  BY <1>1, <1>2, TypesFrame

LEMMA DropTypes ==
  ASSUME Types, NEW t \in Thread, NEW id, NEW then \in {"return", "clean"}, Dropped(t, id, then),
         then = "clean" => shmem_table[id].pid \notin alive,
         UNCHANGED <<shmem_id, map, alive, pad, cleaned>>
  PROVE  Types'
<1>1. \A i \in DOMAIN shmem_table' : i < shmem_id' /\ RegionOK(shmem_table'[i])
  BY DEF Dropped, Types
<1>2. DOMAIN shmem_table' \subseteq Nat /\ shmem_id' \in Nat /\ alive' \subseteq alive /\ DOMAIN job' = Thread
      /\ cleaned' \subseteq Process \ alive' /\ DOMAIN pad' = Process /\ map' \in [Process -> [PageSpace -> Nat]]
  BY DEF Dropped, Types
<1>3. PICK j : j = Removed(id, then)
  OBVIOUS
<1>4. /\ j \in DeleteType /\ RegionOK(j.sh) /\ j.then = then /\ j.sh = shmem_table[id]
  BY <1>3, RemovedIs DEF Dropped
<1>5. job'[t] = j /\ \A u \in Thread : u # t => job'[u] = job[u]
  BY <1>3 DEF Dropped, Types
<1>6. JobOK(job[t])'
  BY <1>4, <1>5 DEF JobOK, RegionOK, ListOK
<1>7. \A u \in Thread : job'[u] = job[u] \/ JobOK(job[u])'
  BY <1>5, <1>6
<1> QED
  BY <1>1, <1>2, <1>7, TypesFrame

-----------------------------------------------------------------------------
(* The effect of each operation, and that it keeps the types. *)
Remapped(e, p, f, at, n) ==
  /\ e \in [PageSpace -> Nat]
  /\ \A v \in PageSpace : e[v] = IF v \in Span(at, n) THEN f + (v - at) ELSE map[p][v]

LEMMA Mapped ==
  ASSUME Types
  PROVE  \A p \in Process, f, at \in Nat, n \in Int : Remapped(page_direct_map(Space(p), f, at, n).entry, p, f, at, n)
<1> SUFFICES ASSUME NEW p \in Process, NEW f \in Nat, NEW at \in Nat, NEW n \in Int,
                    NEW e, e = page_direct_map(Space(p), f, at, n).entry
             PROVE  Remapped(e, p, f, at, n)
  BY Zenon
<1>1. Space(p).entry = map[p] /\ map[p] \in [PageSpace -> Nat]
  BY DEF Space, Types
<1>2. e = [v \in PageSpace |-> IF v \in Span(at, n) THEN f + (v - at) ELSE map[p][v]]
  BY <1>1, DirectMap
<1>3. \A v \in PageSpace : v \in Span(at, n) => f + (v - at) \in Nat
  BY PageAssumption DEF PageSpace, Span
<1> QED
  BY <1>1, <1>2, <1>3 DEF Remapped

LEMMA Listing ==
  ASSUME Types, NEW id \in DOMAIN shmem_table
  PROVE  /\ RegionOK(shmem_table[id]) /\ ListOK(shmem_table[id].list, shmem_table[id].physical_pages)
         /\ shmem_table[id].physical_pages \in Nat \ {0} /\ shmem_table[id].physical_location \in Nat
         /\ \A k \in 1 .. Len(shmem_table[id].list) :
              /\ shmem_table[id].list[k] \in InfoType
              /\ shmem_table[id].list[k] \in ToSet(shmem_table[id].list)
<1>1. RegionOK(shmem_table[id])
  BY DEF Types
<1>2. /\ shmem_table[id].physical_pages \in Nat \ {0} /\ shmem_table[id].physical_location \in Nat
      /\ shmem_table[id].list \in Seq(InfoType)
  BY <1>1 DEF RegionOK, RegionType
<1> QED
  BY <1>1, <1>2, ListSet DEF RegionOK

(* shmem_create: the region has no users, and memory that nobody had. *)
LEMMA Create ==
  ASSUME Types, NEW t \in Thread, NEW n \in Nat \ {0}, NEW flags, flags \subseteq Flag,
         NEW internal \in BOOLEAN, shmem_create(t, n, flags, internal)
  PROVE  /\ Types'
         /\ shmem_id \notin DOMAIN shmem_table
         /\ DOMAIN shmem_table' = DOMAIN shmem_table \cup {shmem_id}
         /\ \A i \in DOMAIN shmem_table : shmem_table'[i] = shmem_table[i]
         /\ shmem_table'[shmem_id].pid \in alive
         /\ ToSet(shmem_table'[shmem_id].list) = {}
         /\ used' = used \cup Memory(shmem_table'[shmem_id])
         /\ Memory(shmem_table'[shmem_id]) \cap used = {}
         /\ UNCHANGED <<map, alive, job, pad, excused, cleaned>>
<1> DEFINE f == IF internal THEN memory_alloc(used, n) ELSE Device
           sh == [pid |-> Home[t], flags |-> flags, internal |-> internal,
                  physical_location |-> f, physical_pages |-> n, list |-> <<>>]
<1>1. f \in Nat /\ f # 0
  BY FreeFrames, DeviceAssumption DEF shmem_create
<1>2. internal => Span(f, n) \cap used = {}
  BY <1>1, FreeFrames
<1>3. Home[t] \in Process /\ Home[t] \in alive
  BY HomeAssumption DEF shmem_create, Idle
<1>4. sh \in RegionType
  BY <1>1, <1>3 DEF RegionType
<1>5. RegionOK(sh) /\ sh.list = <<>>
  BY <1>4 DEF RegionOK, ListOK
<1>6. Memory(sh) = IF internal THEN Span(f, n) ELSE {}
  BY DEF Memory, Frames
<1>7. /\ used' = IF internal THEN used \cup Span(f, n) ELSE used
      /\ shmem_table' = [i \in DOMAIN shmem_table \cup {shmem_id} |-> IF i = shmem_id THEN sh ELSE shmem_table[i]]
      /\ shmem_id' = shmem_id + 1
      /\ UNCHANGED <<map, alive, job, pad, excused, cleaned>>
  BY DEF shmem_create
<1>8. sh.pid = Home[t]
  OBVIOUS
<1> HIDE DEF f, sh
<1>9. shmem_id \notin DOMAIN shmem_table /\ shmem_id \in Nat
  BY DEF Types
<1>10. /\ DOMAIN shmem_table' = DOMAIN shmem_table \cup {shmem_id} /\ shmem_table'[shmem_id] = sh
       /\ \A i \in DOMAIN shmem_table : shmem_table'[i] = shmem_table[i]
  BY <1>7, <1>9
<1>11. \A i \in DOMAIN shmem_table' : i < shmem_id' /\ RegionOK(shmem_table'[i])
  BY <1>5, <1>7, <1>9, <1>10 DEF Types
<1>12. Types'
  <2>1. /\ alive' \subseteq alive /\ shmem_id' \in Nat /\ DOMAIN shmem_table' \subseteq Nat
        /\ map' \in [Process -> [PageSpace -> Nat]] /\ DOMAIN job' = Thread /\ DOMAIN pad' = Process
        /\ cleaned' \subseteq Process \ alive' /\ \A u \in Thread : job'[u] = job[u]
    BY <1>7, <1>9, <1>10 DEF Types
  <2> QED
    BY <1>11, <2>1, TypesFrame
<1>13. ToSet(<<>>) = {}
  BY DEF ToSet
<1>14. ToSet(shmem_table'[shmem_id].list) = {} /\ shmem_table'[shmem_id].pid \in alive
  BY <1>3, <1>5, <1>8, <1>10, <1>13
<1>15. /\ used' = used \cup Memory(shmem_table'[shmem_id])
       /\ Memory(shmem_table'[shmem_id]) \cap used = {}
  BY <1>2, <1>6, <1>7, <1>10
<1> QED
  BY <1>7, <1>9, <1>10, <1>12, <1>14, <1>15

LEMMA Grant ==
  ASSUME Types, NEW t \in Thread, NEW id, NEW p \in Process, shmem_grant(t, id, p)
  PROVE  /\ Types'
         /\ \E r : Relisted(id, r) /\ ToSet(r) = ToSet(shmem_table[id].list) \cup {Info(p)}
         /\ UNCHANGED <<shmem_id, map, used, alive, job, pad, excused, cleaned>>
<1>1. PICK list, r : list = shmem_table[id].list /\ r = <<Info(p)>> \o list
  OBVIOUS
<1>2. /\ id \in DOMAIN shmem_table /\ IndexOf(list, p) = 0
      /\ shmem_table' = [shmem_table EXCEPT ![id] = [@ EXCEPT !.list = r]]
      /\ UNCHANGED <<shmem_id, map, used, alive, job, pad, excused, cleaned>>
  BY <1>1 DEF shmem_grant
<1>3. ListOK(list, shmem_table[id].physical_pages)
  BY <1>1, <1>2, Listing
<1>4. \A i \in 1 .. Len(list) : list[i].pid # p
  BY <1>2, IndexIs
<1>5. ListOK(r, shmem_table[id].physical_pages) /\ ToSet(r) = ToSet(list) \cup {Info(p)}
  BY <1>1, <1>3, <1>4, PutList
<1>6. Relisted(id, r)
  BY <1>2, <1>5, Relist
<1>7. Types'
  <2>1. map' \in [Process -> [PageSpace -> Nat]] /\ DOMAIN pad' = Process
    BY <1>2 DEF Types
  <2> QED
    BY <1>2, <1>6, <2>1, RelistTypes
<1> QED
  BY <1>1, <1>2, <1>5, <1>6, <1>7

(* shmem_revoke: a process that uses the region gets scratch memory that   *)
(* nobody had, at the same pages.                                          *)
Given(p, S) == used' = used \cup S /\ S \cap used = {} /\ pad' = [pad EXCEPT ![p] = @ \cup S]
Revoked(id, p, x) ==
  \/ x.usage <= 0 /\ UNCHANGED <<map, used, pad>>
  \/ \E f \in Nat :
       /\ Given(p, Span(f, shmem_table[id].physical_pages))
       /\ \A q \in Process : q # p => map'[q] = map[q]
       /\ \A v \in PageSpace :
            map'[p][v] = IF v \in Span(x.virtual_location, x.virtual_pages)
                         THEN f + (v - x.virtual_location) ELSE map[p][v]

LEMMA Revoke ==
  ASSUME Types, NEW t \in Thread, NEW id, NEW p \in Process, shmem_revoke(t, p, id)
  PROVE  /\ Types'
         /\ \E r : Relisted(id, r) /\ \E x \in ToSet(shmem_table[id].list) :
              /\ x.pid = p /\ x \in InfoType /\ x.virtual_pages \in {-1, shmem_table[id].physical_pages}
              /\ ToSet(r) = ToSet(shmem_table[id].list) \ {x}
              /\ Revoked(id, p, x)
         /\ UNCHANGED <<shmem_id, alive, job, excused, cleaned>>
<1>1. PICK list, n, i : list = shmem_table[id].list /\ n = shmem_table[id].physical_pages /\ i = IndexOf(list, p)
  OBVIOUS
<1>2. PICK x, r, f : x = list[i] /\ r = RemoveAt(list, i) /\ f = memory_alloc(used, n)
  OBVIOUS
<1>3. /\ id \in DOMAIN shmem_table /\ i # 0
      /\ shmem_table' = [shmem_table EXCEPT ![id] = [@ EXCEPT !.list = r]]
      /\ UNCHANGED <<shmem_id, alive, job, excused, cleaned>>
  BY <1>1, <1>2 DEF shmem_revoke
<1>4. /\ ListOK(list, n) /\ n \in Nat \ {0} /\ i \in 1 .. Len(list) /\ x.pid = p
      /\ x \in InfoType /\ x \in ToSet(list)
  BY <1>1, <1>2, <1>3, Listing, IndexIs
<1>5. ListOK(r, n) /\ ToSet(r) = ToSet(list) \ {x}
  BY <1>2, <1>4, RemoveList
<1>6. Relisted(id, r)
  BY <1>1, <1>3, <1>5, Relist
<1>7. x.virtual_pages \in {-1, n} /\ x.virtual_location \in Nat /\ x.usage \in Int
  BY <1>2, <1>4 DEF ListOK, InfoType
<1>8. CASE x.usage <= 0
  <2>1. UNCHANGED <<map, used, pad>>
    BY <1>1, <1>2, <1>7, <1>8 DEF shmem_revoke
  <2>2. Types'
    BY <1>3, <1>6, <2>1, RelistTypes DEF Types
  <2>3. Revoked(id, p, x)
    BY <1>8, <2>1 DEF Revoked
  <2> QED
    BY <1>1, <1>3, <1>4, <1>5, <1>6, <1>7, <2>2, <2>3
<1>9. CASE x.usage > 0
  <2>1. PICK e : e = page_direct_map(Space(p), f, x.virtual_location, x.virtual_pages).entry
    OBVIOUS
  <2>2. /\ used' = used \cup Span(f, n) /\ pad' = [pad EXCEPT ![p] = @ \cup Span(f, n)]
        /\ map' = [map EXCEPT ![p] = e] /\ f # 0
    BY <1>1, <1>2, <1>9, <2>1 DEF shmem_revoke
  <2>3. f \in Nat /\ Span(f, n) \cap used = {}
    BY <1>2, <1>4, <2>2, FreeFrames
  <2>4. /\ e \in [PageSpace -> Nat]
        /\ \A v \in PageSpace : e[v] = IF v \in Span(x.virtual_location, x.virtual_pages)
                                       THEN f + (v - x.virtual_location) ELSE map[p][v]
    <3>1. PICK at, m : at = x.virtual_location /\ m = x.virtual_pages
      OBVIOUS
    <3>2. at \in Nat /\ m \in Int
      BY <1>4, <1>7, <3>1
    <3>3. /\ e \in [PageSpace -> Nat]
          /\ \A v \in PageSpace : e[v] = IF v \in Span(at, m) THEN f + (v - at) ELSE map[p][v]
      <4>1. e = page_direct_map(Space(p), f, at, m).entry
        BY <2>1, <3>1
      <4>2. Types /\ p \in Process /\ f \in Nat
        BY <2>3
      <4>3. Remapped(e, p, f, at, m)
        BY <3>2, <4>1, <4>2, Mapped, Zenon
      <4> QED
        BY <4>3 DEF Remapped
    <3> QED
      BY <3>1, <3>3
  <2>5. map' \in [Process -> [PageSpace -> Nat]] /\ map'[p] = e /\ \A q \in Process : q # p => map'[q] = map[q]
    BY <2>2, <2>4 DEF Types
  <2>6. Types'
    BY <1>3, <1>6, <2>2, <2>5, RelistTypes DEF Types
  <2>7. \A v \in PageSpace : map'[p][v] = IF v \in Span(x.virtual_location, x.virtual_pages)
                                          THEN f + (v - x.virtual_location) ELSE map[p][v]
    BY <2>4, <2>5
  <2>8. Revoked(id, p, x)
    <3>1. Given(p, Span(f, shmem_table[id].physical_pages))
      BY <1>1, <2>2, <2>3 DEF Given
    <3> QED
      BY <2>3, <2>5, <2>7, <3>1 DEF Revoked
  <2>9. UNCHANGED <<shmem_id, alive, job, excused, cleaned>>
    BY <1>3
  <2>10. x \in ToSet(shmem_table[id].list) /\ x.pid = p /\ x \in InfoType /\ x.virtual_pages \in {-1, n}
         /\ ToSet(r) = ToSet(shmem_table[id].list) \ {x} /\ n = shmem_table[id].physical_pages
    BY <1>1, <1>4, <1>5, <1>7
  <2> QED
    BY <1>6, <2>6, <2>8, <2>9, <2>10
<1> QED
  BY <1>7, <1>8, <1>9

(* shmem_request: the process is one of the users, or becomes one; if it   *)
(* sees the region for the first time, then at pages that were free.       *)
Requested(id, p, x, y) ==
  \/ y = x /\ map' = map
  \/ /\ y.usage = x.usage + 1 /\ y.virtual_location = x.virtual_location
     /\ y.virtual_pages = x.virtual_pages /\ map' = map
  \/ /\ y.usage = x.usage + 1 /\ x.virtual_pages = -1
     /\ \A q \in Process : q # p => map'[q] = map[q]
     /\ \A v \in PageSpace :
          map'[p][v] = IF v \in Span(y.virtual_location, y.virtual_pages)
                       THEN shmem_table[id].physical_location + (v - y.virtual_location)
                       ELSE map[p][v]

LEMMA Request ==
  ASSUME Types, NEW t \in Thread, NEW id, NEW p, p = Home[t], shmem_request(t, id)
  PROVE  /\ Types'
         /\ \E r, x, y :
              /\ Relisted(id, r) /\ x.pid = p /\ y.pid = p /\ x \in ToSet(shmem_table[id].list) \cup {Info(p)}
              /\ x \in InfoType /\ y \in InfoType
              /\ ToSet(shmem_table[id].list) \ {x} \subseteq ToSet(r) /\ y \in ToSet(r)
              /\ ToSet(r) \subseteq ToSet(shmem_table[id].list) \cup {y, Info(p)}
              /\ Requested(id, p, x, y)
         /\ UNCHANGED <<shmem_id, used, alive, job, pad, excused, cleaned>>
<1>0. p \in Process
  BY HomeAssumption
<1>1. PICK sh, n : sh = shmem_table[id] /\ n = sh.physical_pages
  OBVIOUS
<1>2. PICK old, list : old = sh.list /\ list = IF IndexOf(sh.list, p) = 0 /\ "PROMISCUOUS" \in sh.flags
                                               THEN <<Info(p)>> \o sh.list ELSE sh.list
  OBVIOUS
<1>3. PICK i, x : i = IndexOf(list, p) /\ x = list[i]
  OBVIOUS
<1>4. PICK got : got = page_provide(Space(p), sh.physical_location, n)
  OBVIOUS
<1>5. /\ id \in DOMAIN shmem_table /\ i # 0
      /\ \/ /\ x.virtual_pages >= 0
            /\ shmem_table' = [shmem_table EXCEPT ![id].list = [list EXCEPT ![i].usage = @ + 1]]
            /\ UNCHANGED map
         \/ /\ x.virtual_pages < 0 /\ got.at # 0
            /\ shmem_table' = [shmem_table EXCEPT ![id].list =
                 [list EXCEPT ![i] = [list[i] EXCEPT !.usage = @ + 1, !.virtual_location = got.at,
                                               !.virtual_pages = sh.physical_pages]]]
            /\ map' = [map EXCEPT ![p] = got.space.entry]
         \/ /\ x.virtual_pages < 0 /\ got.at = 0
            /\ shmem_table' = [shmem_table EXCEPT ![id].list = list]
            /\ UNCHANGED map
      /\ UNCHANGED <<shmem_id, used, alive, job, pad, excused, cleaned>>
  BY <1>1, <1>2, <1>3, <1>4 DEF shmem_request
<1>6. ListOK(old, n) /\ n \in Nat \ {0} /\ sh.physical_location \in Nat
  BY <1>1, <1>2, <1>5, Listing
<1>7. ListOK(list, n) /\ ToSet(old) \subseteq ToSet(list) /\ ToSet(list) \subseteq ToSet(old) \cup {Info(p)}
  <2>1. CASE list = old
    BY <1>6, <2>1
  <2>2. CASE list # old
    <3>1. IndexOf(old, p) = 0 /\ list = <<Info(p)>> \o old
      BY <1>2, <2>2
    <3>2. \A k \in 1 .. Len(old) : old[k].pid # p
      BY <3>1, IndexIs
    <3>3. ListOK(list, n) /\ ToSet(list) = ToSet(old) \cup {Info(p)}
      BY <1>0, <1>6, <3>1, <3>2, PutList
    <3> QED
      BY <3>3
  <2> QED
    BY <2>1, <2>2
<1>8. i \in 1 .. Len(list) /\ x.pid = p
  BY <1>3, <1>5, IndexIs
<1>9. x \in InfoType /\ x \in ToSet(list) /\ x.virtual_pages \in {-1, n}
  BY <1>3, <1>7, <1>8, ListSet DEF ListOK
<1>10. /\ x.usage \in Int /\ x.virtual_location \in Nat
  BY <1>9 DEF InfoType
<1>11. UNCHANGED <<shmem_id, used, alive, job, pad, excused, cleaned>>
  BY <1>5
<1>12. old = shmem_table[id].list /\ sh = shmem_table[id]
  BY <1>1, <1>2
<1>13. DOMAIN pad' = Process
  BY <1>11 DEF Types
<1>14. CASE x.virtual_pages >= 0
  <2>1. PICK y : y = [x EXCEPT !.usage = @ + 1]
    OBVIOUS
  <2>2. y \in InfoType /\ y.pid = p /\ y.usage = x.usage + 1 /\ y.virtual_location = x.virtual_location
        /\ y.virtual_pages = x.virtual_pages
    BY <1>8, <1>9, <1>10, <2>1 DEF InfoType
  <2>3. PICK r : r = [list EXCEPT ![i] = y]
    OBVIOUS
  <2>4. shmem_table' = [shmem_table EXCEPT ![id] = [@ EXCEPT !.list = r]] /\ map' = map
    <3>1. r = [list EXCEPT ![i].usage = @ + 1]
      BY <1>3, <2>1, <2>3
    <3>2. ~ (x.virtual_pages < 0)
      BY <1>6, <1>9, <1>14
    <3> QED
      BY <1>5, <3>1, <3>2
  <2>5. ListOK(r, n) /\ ToSet(r) = (ToSet(list) \ {x}) \cup {y}
    <3>1. y.pid = list[i].pid /\ y.virtual_pages \in {-1, n} /\ x = list[i] /\ y \in InfoType
      BY <1>3, <1>8, <1>9, <2>2
    <3>2. ListOK(r, n) /\ ToSet(r) = (ToSet(list) \ {list[i]}) \cup {y}
      <4>1. list \in Seq(InfoType)
        BY <1>7 DEF ListOK
      <4>2. r \in Seq(InfoType) /\ Len(r) = Len(list) /\ \A k \in 1 .. Len(list) : r[k] = IF k = i THEN y ELSE list[k]
        BY <1>8, <2>3, <3>1, <4>1
      <4> QED
        BY <1>7, <1>8, <3>1, <4>2, ChangeList
    <3> QED
      BY <3>1, <3>2
  <2>6. Relisted(id, r)
    BY <1>1, <1>5, <2>4, <2>5, Relist
  <2>7. Types'
    <3>1. map' \in [Process -> [PageSpace -> Nat]]
      BY <2>4 DEF Types
    <3> QED
      BY <1>11, <1>13, <2>6, <3>1, RelistTypes
  <2>8. Requested(id, p, x, y)
    BY <2>2, <2>4 DEF Requested
  <2> QED
    BY <1>7, <1>8, <1>9, <1>11, <1>12, <2>2, <2>5, <2>6, <2>7, <2>8
<1>15. CASE x.virtual_pages < 0 /\ got.at = 0
  <2>1. shmem_table' = [shmem_table EXCEPT ![id] = [@ EXCEPT !.list = list]] /\ map' = map
    BY <1>5, <1>9, <1>6, <1>15
  <2>2. Relisted(id, list)
    BY <1>1, <1>5, <1>7, <2>1, Relist
  <2>3. Types'
    <3>1. map' \in [Process -> [PageSpace -> Nat]]
      BY <2>1 DEF Types
    <3> QED
      BY <1>11, <1>13, <2>2, <3>1, RelistTypes
  <2>4. Requested(id, p, x, x)
    BY <2>1 DEF Requested
  <2> QED
    BY <1>7, <1>8, <1>9, <1>11, <1>12, <2>2, <2>3, <2>4
<1>16. CASE x.virtual_pages < 0 /\ got.at # 0
  <2>1. PICK y : y = [x EXCEPT !.usage = @ + 1, !.virtual_location = got.at, !.virtual_pages = n]
    OBVIOUS
  <2>0. got.at \in Nat /\ got.space = page_direct_map(Space(p), sh.physical_location, got.at, n)
    BY <1>4, <1>6, <1>16, Provided
  <2>2. y \in InfoType /\ y.pid = p /\ y.usage = x.usage + 1 /\ y.virtual_location = got.at
        /\ y.virtual_pages = n /\ x.virtual_pages = -1
    <3>1. y \in InfoType /\ y.pid = x.pid /\ y.usage = x.usage + 1 /\ y.virtual_location = got.at
          /\ y.virtual_pages = n
      <4>1. n \in Int /\ x \in [pid : Process, virtual_location : Nat, virtual_pages : Int, usage : Int] /\ x.usage \in Int
        BY <1>6, <1>9, <1>10 DEF InfoType
      <4>2. PICK at : at = got.at
        OBVIOUS
      <4>3. PICK u : u = x.usage + 1
        OBVIOUS
      <4>4. at \in Nat /\ u \in Int /\ y = [[[x EXCEPT !.usage = u] EXCEPT !.virtual_location = at] EXCEPT !.virtual_pages = n]
        BY <2>0, <2>1, <4>1, <4>2, <4>3
      <4>5. y \in InfoType /\ y.pid = x.pid /\ y.usage = u /\ y.virtual_location = at /\ y.virtual_pages = n
        BY <4>1, <4>4 DEF InfoType
      <4> QED
        BY <4>2, <4>3, <4>5
    <3>2. x.virtual_pages = -1
      BY <1>6, <1>9, <1>16
    <3> QED
      BY <1>8, <3>1, <3>2
  <2>3. PICK r : r = [list EXCEPT ![i] = y]
    OBVIOUS
  <2>4. shmem_table' = [shmem_table EXCEPT ![id] = [@ EXCEPT !.list = r]]
        /\ map' = [map EXCEPT ![p] = got.space.entry]
    <3>1. r = [list EXCEPT ![i] = [list[i] EXCEPT !.usage = @ + 1, !.virtual_location = got.at,
                                            !.virtual_pages = sh.physical_pages]]
      BY <1>1, <1>3, <2>1, <2>3
    <3>2. ~ (x.virtual_pages >= 0)
      BY <1>6, <1>9, <1>16
    <3> QED
      BY <1>5, <1>16, <3>1, <3>2
  <2>5. ListOK(r, n) /\ ToSet(r) = (ToSet(list) \ {x}) \cup {y}
    <3>1. y.pid = list[i].pid /\ y.virtual_pages \in {-1, n} /\ x = list[i] /\ y \in InfoType
      BY <1>3, <1>8, <1>9, <2>2
    <3>2. ListOK(r, n) /\ ToSet(r) = (ToSet(list) \ {list[i]}) \cup {y}
      <4>1. list \in Seq(InfoType)
        BY <1>7 DEF ListOK
      <4>2. r \in Seq(InfoType) /\ Len(r) = Len(list) /\ \A k \in 1 .. Len(list) : r[k] = IF k = i THEN y ELSE list[k]
        BY <1>8, <2>3, <3>1, <4>1
      <4> QED
        BY <1>7, <1>8, <3>1, <4>2, ChangeList
    <3> QED
      BY <3>1, <3>2
  <2>6. Relisted(id, r)
    BY <1>1, <1>5, <2>4, <2>5, Relist
  <2>7. PICK e : e = got.space.entry
    OBVIOUS
  <2>8. /\ e \in [PageSpace -> Nat]
        /\ \A v \in PageSpace : e[v] = IF v \in Span(got.at, n) THEN sh.physical_location + (v - got.at) ELSE map[p][v]
    <3>1. PICK l, at : l = sh.physical_location /\ at = got.at
      OBVIOUS
    <3>2. l \in Nat /\ at \in Nat /\ n \in Int /\ e = page_direct_map(Space(p), l, at, n).entry
      BY <1>6, <2>0, <2>7, <3>1
    <3>3. Remapped(e, p, l, at, n)
      BY <1>0, <3>2, Mapped, Zenon
    <3>4. /\ e \in [PageSpace -> Nat]
          /\ \A v \in PageSpace : e[v] = IF v \in Span(at, n) THEN l + (v - at) ELSE map[p][v]
      BY <3>3 DEF Remapped
    <3> QED
      BY <3>1, <3>4
  <2>9. map' \in [Process -> [PageSpace -> Nat]] /\ map'[p] = e /\ \A q \in Process : q # p => map'[q] = map[q]
    BY <1>0, <2>4, <2>7, <2>8 DEF Types
  <2>10. Types'
    BY <1>11, <1>13, <2>6, <2>9, RelistTypes
  <2>11. \A v \in PageSpace :
           map'[p][v] = IF v \in Span(y.virtual_location, y.virtual_pages)
                        THEN shmem_table[id].physical_location + (v - y.virtual_location) ELSE map[p][v]
    BY <1>12, <2>2, <2>8, <2>9
  <2>12. ToSet(r) \subseteq ToSet(old) \cup {y, Info(p)} /\ y \in ToSet(r) /\ ToSet(old) \ {x} \subseteq ToSet(r)
         /\ x \in ToSet(old) \cup {Info(p)}
    BY <1>7, <1>9, <2>5
  <2>13. \A q \in Process : q # p => map'[q] = map[q]
    BY <2>9
  <2>14. Requested(id, p, x, y)
    BY <2>2, <2>11, <2>13 DEF Requested
  <2> QED
    BY <1>8, <1>9, <1>11, <1>12, <2>2, <2>6, <2>10, <2>12, <2>14
<1> QED
  <2>1. x.virtual_pages >= 0 \/ x.virtual_pages < 0
    BY <1>6, <1>9
  <2> QED
    BY <1>14, <1>15, <1>16, <2>1

LEMMA Unmapped ==
  ASSUME Types, NEW p \in Process, NEW at, NEW n, NEW e, e = page_release(Space(p), at, n).entry
  PROVE  /\ e \in [PageSpace -> Nat]
         /\ \A v \in PageSpace : e[v] = IF v \in Span(at, n) THEN 0 ELSE map[p][v]
<1>1. Space(p).entry = map[p] /\ map[p] \in [PageSpace -> Nat]
  BY DEF Space, Types
<1>2. Space(p) = [table |-> [t \in Tables |-> 1], entry |-> map[p], used |-> used, ok |-> TRUE]
  BY DEF Space
<1>3. e = [v \in PageSpace |-> IF v \in Span(at, n) THEN 0 ELSE map[p][v]]
  BY <1>2 DEF page_release
<1> QED
  BY <1>1, <1>3

(* shmem_release: the last release takes the pages away. *)
Released(p, x, y) ==
  \/ /\ x.usage = 1 /\ y.usage = 0
     /\ \A q \in Process : q # p => map'[q] = map[q]
     /\ \A v \in PageSpace :
          map'[p][v] = IF v \in Span(x.virtual_location, x.virtual_pages) THEN 0 ELSE map[p][v]
  \/ /\ x.usage # 1 /\ y.usage = x.usage - 1 /\ y.virtual_location = x.virtual_location
     /\ y.virtual_pages = x.virtual_pages /\ map' = map

LEMMA Release ==
  ASSUME Types, NEW t \in Thread, NEW id, NEW p, p = Home[t], shmem_release(t, id)
  PROVE  /\ Types'
         /\ \E r, x, y :
              /\ Relisted(id, r) /\ x.pid = p /\ y.pid = p /\ x \in ToSet(shmem_table[id].list)
              /\ x \in InfoType /\ y \in InfoType
              /\ ToSet(r) = (ToSet(shmem_table[id].list) \ {x}) \cup {y}
              /\ Released(p, x, y)
              /\ excused' = IF x.usage <= 0 THEN excused \cup {p} ELSE excused
         /\ UNCHANGED <<shmem_id, used, alive, job, pad, cleaned>>
<1>0. p \in Process
  BY HomeAssumption
<1>1. PICK list, n : list = shmem_table[id].list /\ n = shmem_table[id].physical_pages
  OBVIOUS
<1>2. PICK i, x : i = IndexOf(list, p) /\ x = list[i]
  OBVIOUS
<1>3. PICK y : y = IF x.usage = 1 THEN Info(p) ELSE [x EXCEPT !.usage = @ - 1]
  OBVIOUS
<1>4. PICK r : r = [list EXCEPT ![i] = y]
  OBVIOUS
<1>5. /\ id \in DOMAIN shmem_table /\ i # 0
      /\ map' = IF x.usage = 1 THEN [map EXCEPT ![p] = page_release(Space(p), x.virtual_location, x.virtual_pages).entry]
                ELSE map
      /\ excused' = IF x.usage <= 0 THEN excused \cup {p} ELSE excused
      /\ UNCHANGED <<shmem_id, used, alive, job, pad, cleaned>>
  BY <1>1, <1>2 DEF shmem_release
<1>6. shmem_table' = [shmem_table EXCEPT ![id] = [@ EXCEPT !.list = r]]
  BY <1>1, <1>2, <1>3, <1>4 DEF shmem_release
<1>7. /\ ListOK(list, n) /\ n \in Nat \ {0} /\ i \in 1 .. Len(list) /\ x.pid = p
      /\ x \in InfoType /\ x \in ToSet(list)
  BY <1>1, <1>2, <1>5, Listing, IndexIs
<1>8. x.virtual_pages \in {-1, n} /\ x.virtual_location \in Nat /\ x.usage \in Int
  BY <1>2, <1>7 DEF ListOK, InfoType
<1>9. /\ y \in InfoType /\ y.pid = p /\ y.virtual_pages \in {-1, n}
      /\ x.usage = 1 => y.usage = 0
      /\ x.usage # 1 => y.usage = x.usage - 1 /\ y.virtual_location = x.virtual_location
                        /\ y.virtual_pages = x.virtual_pages
  <2>1. CASE x.usage = 1
    BY <1>0, <1>3, <2>1, InfoIs
  <2>2. CASE x.usage # 1
    <3>1. y = [x EXCEPT !.usage = x.usage - 1]
      BY <1>3, <2>2
    <3>2. y \in InfoType /\ y.pid = x.pid /\ y.usage = x.usage - 1 /\ y.virtual_location = x.virtual_location
          /\ y.virtual_pages = x.virtual_pages
      BY <1>7, <1>8, <3>1 DEF InfoType
    <3> QED
      BY <1>7, <1>8, <2>2, <3>2
  <2> QED
    BY <2>1, <2>2
<1>10. ListOK(r, n) /\ ToSet(r) = (ToSet(list) \ {x}) \cup {y}
  <2>1. list \in Seq(InfoType) /\ x = list[i]
    BY <1>2, <1>7 DEF ListOK
  <2>2. r \in Seq(InfoType) /\ Len(r) = Len(list) /\ \A k \in 1 .. Len(list) : r[k] = IF k = i THEN y ELSE list[k]
    BY <1>4, <1>7, <1>9, <2>1
  <2>3. y.pid = list[i].pid
    BY <1>7, <1>9, <2>1
  <2>4. ListOK(r, n) /\ ToSet(r) = (ToSet(list) \ {list[i]}) \cup {y}
    BY <1>7, <1>9, <2>2, <2>3, ChangeList
  <2> QED
    BY <2>1, <2>4
<1>11. Relisted(id, r)
  BY <1>1, <1>5, <1>6, <1>10, Relist
<1>12. DOMAIN pad' = Process
  BY <1>5 DEF Types
<1>13. /\ map' \in [Process -> [PageSpace -> Nat]]
       /\ x.usage # 1 => map' = map
       /\ x.usage = 1 => /\ \A q \in Process : q # p => map'[q] = map[q]
                         /\ \A v \in PageSpace :
                              map'[p][v] = IF v \in Span(x.virtual_location, x.virtual_pages) THEN 0 ELSE map[p][v]
  <2>1. CASE x.usage # 1
    BY <1>5, <2>1 DEF Types
  <2>2. CASE x.usage = 1
    <3>1. PICK at, m, e : at = x.virtual_location /\ m = x.virtual_pages /\ e = page_release(Space(p), at, m).entry
      OBVIOUS
    <3>2. e \in [PageSpace -> Nat] /\ \A v \in PageSpace : e[v] = IF v \in Span(at, m) THEN 0 ELSE map[p][v]
      BY <1>0, <3>1, Unmapped
    <3>3. map' = [map EXCEPT ![p] = e]
      BY <1>5, <2>2, <3>1
    <3>4. map' \in [Process -> [PageSpace -> Nat]] /\ map'[p] = e /\ \A q \in Process : q # p => map'[q] = map[q]
      BY <1>0, <3>2, <3>3 DEF Types
    <3> QED
      BY <2>2, <3>1, <3>2, <3>4
  <2> QED
    BY <2>1, <2>2
<1>14. Types'
  BY <1>5, <1>11, <1>12, <1>13, RelistTypes
<1>15. excused' = IF x.usage <= 0 THEN excused \cup {p} ELSE excused
  BY <1>5
<1>16. UNCHANGED <<shmem_id, used, alive, job, pad, cleaned>>
  BY <1>5
<1>17. Released(p, x, y)
  BY <1>9, <1>13 DEF Released
<1>18. x.pid = p /\ y.pid = p /\ x \in ToSet(shmem_table[id].list) /\ x \in InfoType /\ y \in InfoType
       /\ ToSet(r) = (ToSet(shmem_table[id].list) \ {x}) \cup {y}
  BY <1>1, <1>7, <1>9, <1>10
<1> QED
  BY <1>11, <1>14, <1>15, <1>16, <1>17, <1>18

-----------------------------------------------------------------------------
(* shmem_delete and shmem_clean. *)
LEMMA Deleting ==
  ASSUME Types, NEW t \in Thread, job[t].at \in {"checkout", "map", "commit", "free"}
  PROVE  /\ job[t] \in DeleteType /\ RegionOK(job[t].sh)
         /\ job[t].then = "clean" => job[t].sh.pid \notin alive
<1>1. JobOK(job[t])
  BY DEF Types
<1>2. NoJob.at = "none" /\ \A p : Clean(p).at = "clean"
  BY DEF NoJob, Clean
<1> QED
  BY <1>1, <1>2 DEF JobOK

LEMMA Cleaning ==
  ASSUME Types, NEW t \in Thread, job[t].at = "clean"
  PROVE  job[t].pid \in Process \ alive
<1>1. JobOK(job[t])
  BY DEF Types
<1>2. NoJob.at = "none" /\ \A p : Clean(p).pid = p
  BY DEF NoJob, Clean
<1>3. job[t] \notin DeleteType
  BY DEF DeleteType
<1> QED
  BY <1>1, <1>2, <1>3 DEF JobOK

LEMMA Delete ==
  ASSUME Types, NEW t \in Thread, NEW id, shmem_delete(t, id)
  PROVE  /\ Types' /\ Dropped(t, id, "return") /\ job[t] = NoJob
         /\ UNCHANGED <<shmem_id, map, used, alive, pad, excused, cleaned>>
<1>1. /\ id \in DOMAIN shmem_table /\ job' = [job EXCEPT ![t] = Removed(id, "return")]
      /\ shmem_table' = [i \in DOMAIN shmem_table \ {id} |-> shmem_table[i]]
      /\ UNCHANGED <<shmem_id, map, used, alive, pad, excused, cleaned>>
      /\ job[t] = NoJob
  BY DEF shmem_delete, Idle
<1>2. \A i \in DOMAIN shmem_table' : /\ RegionOK(shmem_table'[i]) /\ Alike(shmem_table[i], shmem_table'[i])
                                     /\ shmem_table'[i].list = shmem_table[i].list
  BY <1>1 DEF Types, Alike
<1>3. Dropped(t, id, "return")
  BY <1>1, <1>2 DEF Dropped
<1>4. Types'
  BY <1>1, <1>3, DropTypes
<1> QED
  BY <1>1, <1>3, <1>4

LEMMA CleanOne ==
  ASSUME Types, NEW t \in Thread, CleanNext(t)
  PROVE  /\ Types' /\ job[t].at = "clean" /\ \E id : Dropped(t, id, "clean")
         /\ UNCHANGED <<shmem_id, map, used, alive, pad, excused, cleaned>>
<1>1. job[t].at = "clean" /\ UNCHANGED <<shmem_id, map, used, alive, pad, excused, cleaned>>
  BY DEF CleanNext, At
<1>2. PICK p : p = job[t].pid
  OBVIOUS
<1>3. p \notin alive
  BY <1>1, <1>2, Cleaning
<1>4. PICK id \in Of(p) \ Immortal, seen \in SUBSET (Of(p) \cap Immortal) :
        /\ job' = [job EXCEPT ![t] = Removed(id, "clean")]
        /\ shmem_table' = [i \in DOMAIN shmem_table \ {id} |->
                             IF i \in seen THEN [shmem_table[i] EXCEPT !.flags = @ \cup {"ORPHAN"}]
                             ELSE shmem_table[i]]
  BY <1>2 DEF CleanNext
<1>5. id \in DOMAIN shmem_table /\ shmem_table[id].pid = p
  BY DEF Of
<1>6. DOMAIN shmem_table' = DOMAIN shmem_table \ {id}
  BY <1>4
<1>7. ASSUME NEW i \in DOMAIN shmem_table'
      PROVE  /\ RegionOK(shmem_table'[i]) /\ Alike(shmem_table[i], shmem_table'[i])
             /\ shmem_table'[i].list = shmem_table[i].list
  <2>1. RegionOK(shmem_table[i])
    BY <1>6 DEF Types
  <2>2. CASE i \in seen
    <3>1. shmem_table'[i] = [shmem_table[i] EXCEPT !.flags = @ \cup {"ORPHAN"}]
      BY <1>4, <1>6, <2>2
    <3> QED
      BY <2>1, <3>1, NewFlags
  <2>3. CASE i \notin seen
    <3>1. shmem_table'[i] = shmem_table[i]
      BY <1>4, <1>6, <2>3
    <3> QED
      BY <2>1, <3>1 DEF Alike
  <2> QED
    BY <2>2, <2>3
<1>8. Dropped(t, id, "clean")
  BY <1>4, <1>5, <1>6, <1>7 DEF Dropped
<1>9. Types'
  BY <1>1, <1>3, <1>5, <1>8, DropTypes
<1> QED
  BY <1>1, <1>8, <1>9

(* The job of one thread changes, or none. *)
LEMMA JobTypes ==
  ASSUME Types, NEW t \in Thread, NEW j, job' = [job EXCEPT ![t] = j],
         j = NoJob \/ (\E p \in Process \ alive : j = Clean(p))
           \/ (j \in DeleteType /\ RegionOK(j.sh) /\ (j.then = "clean" => j.sh.pid \notin alive)),
         DOMAIN shmem_table' = DOMAIN shmem_table,
         \A id \in DOMAIN shmem_table : RegionOK(shmem_table'[id]),
         map' \in [Process -> [PageSpace -> Nat]],
         UNCHANGED <<shmem_id, alive>>, DOMAIN pad' = Process, cleaned' \subseteq Process \ alive
  PROVE  Types'
<1>1. \A i \in DOMAIN shmem_table' : i < shmem_id' /\ RegionOK(shmem_table'[i])
  BY DEF Types
<1>2. DOMAIN shmem_table' \subseteq Nat /\ shmem_id' \in Nat /\ alive' \subseteq alive /\ DOMAIN job' = Thread
      /\ cleaned' \subseteq Process \ alive'
  BY DEF Types
<1>3. job'[t] = j /\ \A u \in Thread : u # t => job'[u] = job[u]
  BY DEF Types
<1>4. JobOK(job[t])'
  <2>1. CASE j = NoJob
    BY <1>3, <2>1 DEF JobOK, NoJob
  <2>2. ASSUME NEW p \in Process \ alive, j = Clean(p) PROVE JobOK(job[t])'
    <3>1. p \in Process \ alive' /\ job'[t] = Clean(p)
      BY <1>3, <2>2
    <3> QED
      BY <3>1 DEF JobOK, Clean
  <2>3. CASE j \in DeleteType /\ RegionOK(j.sh) /\ (j.then = "clean" => j.sh.pid \notin alive)
    <3>1. job'[t] \in DeleteType /\ RegionOK(job'[t].sh) /\ (job'[t].then = "clean" => job'[t].sh.pid \notin alive')
      BY <1>3, <2>3
    <3> QED
      BY <3>1 DEF JobOK, RegionOK, ListOK
  <2> QED
    BY <2>1, <2>2, <2>3
<1>5. \A u \in Thread : job'[u] = job[u] \/ JobOK(job[u])'
  BY <1>3, <1>4
<1> QED
  BY <1>1, <1>2, <1>5, TypesFrame

LEMMA CleanLast ==
  ASSUME Types, NEW t \in Thread, NEW p, p = job[t].pid, CleanDone(t)
  PROVE  /\ Types' /\ job[t].at = "clean" /\ p \notin alive
         /\ DOMAIN shmem_table' = DOMAIN shmem_table
         /\ \A i \in DOMAIN shmem_table :
              /\ RegionOK(shmem_table'[i]) /\ Alike(shmem_table[i], shmem_table'[i])
              /\ shmem_table'[i].list = shmem_table[i].list
              /\ shmem_table[i].pid = p => {"IMMORTAL", "ORPHAN"} \subseteq shmem_table'[i].flags
         /\ job' = [job EXCEPT ![t] = NoJob] /\ cleaned' = cleaned \cup {p}
         /\ UNCHANGED <<shmem_id, map, used, alive, pad, excused>>
<1>1. /\ job[t].at = "clean" /\ UNCHANGED <<shmem_id, map, used, alive, pad, excused>>
      /\ job' = [job EXCEPT ![t] = NoJob] /\ cleaned' = cleaned \cup {p} /\ Of(p) \subseteq Immortal
      /\ shmem_table' = [i \in DOMAIN shmem_table |->
                           IF i \in Of(p) THEN [shmem_table[i] EXCEPT !.flags = @ \cup {"ORPHAN"}]
                           ELSE shmem_table[i]]
  BY DEF CleanDone, At
<1>2. p \in Process \ alive
  BY <1>1, Cleaning
<1>3. DOMAIN shmem_table' = DOMAIN shmem_table
  BY <1>1
<1>4. ASSUME NEW i \in DOMAIN shmem_table
      PROVE  /\ RegionOK(shmem_table'[i]) /\ Alike(shmem_table[i], shmem_table'[i])
             /\ shmem_table'[i].list = shmem_table[i].list
             /\ shmem_table[i].pid = p => {"IMMORTAL", "ORPHAN"} \subseteq shmem_table'[i].flags
  <2>1. RegionOK(shmem_table[i])
    BY DEF Types
  <2>2. CASE i \in Of(p)
    <3>1. shmem_table'[i] = [shmem_table[i] EXCEPT !.flags = @ \cup {"ORPHAN"}]
      BY <1>1, <2>2
    <3>2. "IMMORTAL" \in shmem_table[i].flags
      BY <1>1, <2>2 DEF Immortal
    <3> QED
      BY <2>1, <3>1, <3>2, NewFlags
  <2>3. CASE i \notin Of(p)
    <3>1. shmem_table'[i] = shmem_table[i] /\ shmem_table[i].pid # p
      BY <1>1, <2>3 DEF Of
    <3> QED
      BY <2>1, <3>1 DEF Alike
  <2> QED
    BY <2>2, <2>3
<1>5. Types'
  <2>1. map' \in [Process -> [PageSpace -> Nat]] /\ DOMAIN pad' = Process /\ cleaned' \subseteq Process \ alive
    BY <1>1, <1>2 DEF Types
  <2> QED
    BY <1>1, <1>3, <1>4, <2>1, JobTypes
<1> QED
  BY <1>1, <1>2, <1>3, <1>4, <1>5

LEMMA DeletingIs ==
  ASSUME Types, NEW t \in Thread, job[t].at \in {"checkout", "map", "commit", "free"}
  PROVE  /\ job[t].i \in Nat \ {0} /\ job[t].sh \in RegionType /\ ListOK(job[t].sh.list, job[t].sh.physical_pages)
         /\ job[t].sh.list \in Seq(InfoType) /\ job[t].sh.physical_pages \in Nat \ {0}
         /\ job[t].tmp2 \in [Process -> Nat] /\ job[t].out \subseteq Process
         /\ job[t].sh.pid \in Process
<1>1. job[t] \in DeleteType /\ RegionOK(job[t].sh)
  BY Deleting
<1>2. job[t].sh \in RegionType /\ ListOK(job[t].sh.list, job[t].sh.physical_pages)
  BY <1>1 DEF RegionOK
<1> QED
  BY <1>1, <1>2 DEF DeleteType, RegionType

(* The loop of shmem_delete, at user number job[t].i: there is none, it    *)
(* does not use the region, or it is checked out.                          *)
Passed(t, j) ==
  LET o == job[t]
      list == o.sh.list IN
  \/ /\ o.i > Len(list) /\ j.at = "map" /\ j.tmp2 = o.tmp2 /\ j.out = o.out
     /\ UNCHANGED <<used, pad, excused>>
  \/ /\ o.i \in 1 .. Len(list) /\ j.at = "checkout" /\ j.i = o.i + 1
     /\ j.tmp2 = o.tmp2 /\ j.out = o.out
     /\ list[o.i].usage <= 0 \/ list[o.i].pid \notin alive
     /\ UNCHANGED <<used, pad, excused>>
  \/ \E f \in Nat, q \in Process :
       /\ o.i \in 1 .. Len(list) /\ j.at = "checkout" /\ j.i = o.i + 1
       /\ q = list[o.i].pid
       /\ j.out = o.out \cup {q} /\ j.tmp2 = [o.tmp2 EXCEPT ![q] = f]
       /\ \/ f = 0 /\ excused' = excused \cup {q} /\ UNCHANGED <<used, pad>>
          \/ f # 0 /\ Given(q, Span(f, o.sh.physical_pages)) /\ UNCHANGED excused

LEMMA CheckoutStep ==
  ASSUME Types, NEW t \in Thread, Checkout(t)
  PROVE  /\ Types' /\ job[t].at = "checkout"
         /\ \E j : job' = [job EXCEPT ![t] = j] /\ j.at \in {"checkout", "map"} /\ j.sh = job[t].sh /\ Passed(t, j)
         /\ UNCHANGED <<shmem_table, shmem_id, map, alive, cleaned>>
<1>1. job[t].at = "checkout" /\ UNCHANGED <<shmem_table, shmem_id, map, alive, cleaned>>
  BY DEF Checkout, At
<1>2. PICK o, sh, i, list, n : o = job[t] /\ sh = o.sh /\ i = o.i /\ list = sh.list /\ n = sh.physical_pages
  OBVIOUS
<1>3. /\ o \in DeleteType /\ RegionOK(o.sh) /\ (o.then = "clean" => o.sh.pid \notin alive)
      /\ i \in Nat \ {0} /\ list \in Seq(InfoType) /\ Len(list) \in Nat /\ n \in Nat
      /\ o.tmp2 \in [Process -> Nat] /\ o.out \subseteq Process
  BY <1>1, <1>2, Deleting, DeletingIs
<1>4. PICK f, info : f = memory_alloc(used, n) /\ info = list[i]
  OBVIOUS
<1>5. \/ ~ (i <= Len(list)) /\ job' = [job EXCEPT ![t].at = "map"] /\ UNCHANGED <<used, pad, excused>>
      \/ /\ i <= Len(list) /\ (info.usage <= 0 \/ info.pid \notin alive)
         /\ job' = [job EXCEPT ![t].i = @ + 1]
         /\ UNCHANGED <<used, pad, excused>>
      \/ /\ i <= Len(list)
         /\ job' = [job EXCEPT ![t] = [job[t] EXCEPT !.i = @ + 1, !.out = @ \cup {info.pid}, !.tmp2[info.pid] = f]]
         /\ IF f = 0 THEN excused' = excused \cup {info.pid} /\ UNCHANGED <<used, pad>>
            ELSE /\ used' = used \cup Span(f, n)
                 /\ pad' = [pad EXCEPT ![info.pid] = @ \cup Span(f, n)]
                 /\ UNCHANGED excused
  BY <1>2, <1>4 DEF Checkout
<1>6. map' \in [Process -> [PageSpace -> Nat]] /\ DOMAIN shmem_table' = DOMAIN shmem_table
      /\ (\A id \in DOMAIN shmem_table : RegionOK(shmem_table'[id])) /\ UNCHANGED <<shmem_id, alive>>
      /\ cleaned' \subseteq Process \ alive
  BY <1>1 DEF Types
<1>7. ASSUME NEW j, job' = [job EXCEPT ![t] = j], j \in DeleteType, j.sh = o.sh, j.then = o.then, DOMAIN pad' = Process
      PROVE  Types'
  <2>1. RegionOK(j.sh) /\ (j.then = "clean" => j.sh.pid \notin alive)
    BY <1>3, <1>7
  <2> QED
    BY <1>6, <1>7, <2>1, JobTypes
<1>8. CASE ~ (i <= Len(list)) /\ job' = [job EXCEPT ![t].at = "map"] /\ UNCHANGED <<used, pad, excused>>
  <2>1. PICK j : j = [o EXCEPT !.at = "map"]
    OBVIOUS
  <2>2. job' = [job EXCEPT ![t] = j]
    BY <1>2, <1>8, <2>1
  <2>3. /\ j \in DeleteType /\ j.at = "map" /\ j.sh = o.sh /\ j.then = o.then /\ j.tmp2 = o.tmp2 /\ j.out = o.out
    BY <1>3, <2>1 DEF DeleteType
  <2>4. DOMAIN pad' = Process
    BY <1>8 DEF Types
  <2>5. Types'
    BY <1>7, <2>2, <2>3, <2>4
  <2>6. i > Len(list)
    BY <1>3, <1>8
  <2>7. Passed(t, j)
    BY <1>2, <1>8, <2>3, <2>6 DEF Passed
  <2> QED
    BY <1>1, <1>2, <2>2, <2>3, <2>5, <2>7
<1>9. CASE /\ i <= Len(list) /\ (info.usage <= 0 \/ info.pid \notin alive)
           /\ job' = [job EXCEPT ![t].i = @ + 1]
           /\ UNCHANGED <<used, pad, excused>>
  <2>1. PICK j : j = [o EXCEPT !.i = o.i + 1]
    OBVIOUS
  <2>2. job' = [job EXCEPT ![t] = j]
    BY <1>2, <1>9, <2>1
  <2>3. /\ j \in DeleteType /\ j.at = o.at /\ j.sh = o.sh /\ j.then = o.then /\ j.tmp2 = o.tmp2 /\ j.out = o.out
        /\ j.i = i + 1
    BY <1>2, <1>3, <2>1, SMTT(30) DEF DeleteType
  <2>4. DOMAIN pad' = Process
    BY <1>9 DEF Types
  <2>5. Types'
    BY <1>7, <2>2, <2>3, <2>4
  <2>6. i \in 1 .. Len(list)
    BY <1>3, <1>9
  <2>7. Passed(t, j)
    BY <1>1, <1>2, <1>4, <1>9, <2>3, <2>6 DEF Passed
  <2> QED
    BY <1>1, <1>2, <2>2, <2>3, <2>5, <2>7
<1>10. CASE /\ i <= Len(list)
            /\ job' = [job EXCEPT ![t] = [job[t] EXCEPT !.i = @ + 1, !.out = @ \cup {info.pid}, !.tmp2[info.pid] = f]]
            /\ IF f = 0 THEN excused' = excused \cup {info.pid} /\ UNCHANGED <<used, pad>>
               ELSE /\ used' = used \cup Span(f, n)
                    /\ pad' = [pad EXCEPT ![info.pid] = @ \cup Span(f, n)]
                    /\ UNCHANGED excused
  <2>1. PICK q : q = info.pid
    OBVIOUS
  <2>2. i \in 1 .. Len(list)
    BY <1>3, <1>10
  <2>3. q \in Process
    <3>1. info \in InfoType
      BY <1>3, <1>4, <2>2
    <3> QED
      BY <2>1, <3>1 DEF InfoType
  <2>4. f \in Nat /\ (f # 0 => Span(f, n) \cap used = {})
    BY <1>3, <1>4, FreeFrames
  <2>5. PICK m, out : m = [o.tmp2 EXCEPT ![q] = f] /\ out = o.out \cup {q}
    OBVIOUS
  <2>6. m \in [Process -> Nat] /\ out \subseteq Process
    BY <1>3, <2>3, <2>4, <2>5
  <2>7. PICK a, b, j : a = [o EXCEPT !.i = i + 1] /\ b = [a EXCEPT !.out = out] /\ j = [b EXCEPT !.tmp2 = m]
    OBVIOUS
  <2>8. job' = [job EXCEPT ![t] = j]
    BY <1>2, <1>10, <2>1, <2>5, <2>7
  <2>9. /\ j \in DeleteType /\ j.at = o.at /\ j.sh = o.sh /\ j.then = o.then /\ j.tmp2 = m /\ j.out = out
        /\ j.i = i + 1
    <3>1. a \in DeleteType /\ a.at = o.at /\ a.sh = o.sh /\ a.then = o.then /\ a.i = i + 1
      BY <1>3, <2>7, SMTT(30) DEF DeleteType
    <3>2. b \in DeleteType /\ b.at = o.at /\ b.sh = o.sh /\ b.then = o.then /\ b.i = i + 1 /\ b.out = out
      BY <2>6, <2>7, <3>1 DEF DeleteType
    <3> QED
      BY <2>6, <2>7, <3>2 DEF DeleteType
  <2>10. \/ f = 0 /\ excused' = excused \cup {q} /\ UNCHANGED <<used, pad>>
         \/ /\ f # 0 /\ used' = used \cup Span(f, n) /\ Span(f, n) \cap used = {}
            /\ pad' = [pad EXCEPT ![q] = @ \cup Span(f, n)] /\ UNCHANGED excused
    BY <1>10, <2>1, <2>4
  <2>11. DOMAIN pad' = Process
    BY <2>10 DEF Types
  <2>12. Types'
    BY <1>7, <2>8, <2>9, <2>11
  <2>13. q = job[t].sh.list[job[t].i].pid /\ n = job[t].sh.physical_pages
    BY <1>2, <1>4, <2>1
  <2>14. j.at = "checkout" /\ j.sh = job[t].sh /\ j.i = job[t].i + 1 /\ job[t].i \in 1 .. Len(job[t].sh.list)
         /\ j.out = job[t].out \cup {q} /\ j.tmp2 = [job[t].tmp2 EXCEPT ![q] = f]
    BY <1>1, <1>2, <2>2, <2>5, <2>9
  <2>15. \E g \in Nat, u \in Process :
           /\ job[t].i \in 1 .. Len(job[t].sh.list) /\ j.at = "checkout" /\ j.i = job[t].i + 1
           /\ u = job[t].sh.list[job[t].i].pid
           /\ j.out = job[t].out \cup {u} /\ j.tmp2 = [job[t].tmp2 EXCEPT ![u] = g]
           /\ \/ g = 0 /\ excused' = excused \cup {u} /\ UNCHANGED <<used, pad>>
              \/ g # 0 /\ Given(u, Span(g, job[t].sh.physical_pages)) /\ UNCHANGED excused
    BY <2>3, <2>4, <2>10, <2>13, <2>14 DEF Given
  <2>16. Passed(t, j)
    BY <2>15 DEF Passed
  <2> QED
    BY <1>1, <2>8, <2>12, <2>14, <2>16
<1> QED
  BY <1>5, <1>8, <1>9, <1>10

(* Where a process that was checked out saw the region it sees its own     *)
(* scratch memory.                                                         *)
Scratched(t) ==
  LET j == job[t] IN
  \A p \in Process :
    \/ map'[p] = map[p] /\ ~ (p \in j.out /\ j.tmp2[p] # 0)
    \/ /\ p \in j.out /\ j.tmp2[p] # 0
       /\ \E k \in 1 .. Len(j.sh.list) :
            /\ j.sh.list[k].pid = p
            /\ \A v \in PageSpace :
                 map'[p][v] = IF v \in Span(j.sh.list[k].virtual_location, j.sh.physical_pages)
                              THEN j.tmp2[p] + (v - j.sh.list[k].virtual_location) ELSE map[p][v]

LEMMA MapStep ==
  ASSUME Types, AllVisited, NEW t \in Thread, MapScratch(t)
  PROVE  /\ Types' /\ job[t].at = "map" /\ Scratched(t)
         /\ \E j : job' = [job EXCEPT ![t] = j] /\ j.at = "commit" /\ j.sh = job[t].sh
         /\ UNCHANGED <<shmem_table, shmem_id, used, alive, pad, excused, cleaned>>
<1>1. PICK o, list, n : o = job[t] /\ list = o.sh.list /\ n = o.sh.physical_pages
  OBVIOUS
<1>2. /\ o.at = "map" /\ UNCHANGED <<shmem_table, shmem_id, used, alive, pad, excused, cleaned>>
      /\ job' = [job EXCEPT ![t].at = "commit"]
      /\ map' = [p \in Process |->
                   IF p \in o.out /\ o.tmp2[p] # 0
                   THEN page_direct_map(Space(p), o.tmp2[p], list[IndexOf(list, p)].virtual_location, n).entry
                   ELSE map[p]]
  BY <1>1 DEF MapScratch, At
<1>3. /\ o \in DeleteType /\ RegionOK(o.sh) /\ (o.then = "clean" => o.sh.pid \notin alive)
      /\ list \in Seq(InfoType) /\ n \in Nat /\ o.tmp2 \in [Process -> Nat] /\ o.out \subseteq Process
  BY <1>1, <1>2, Deleting, DeletingIs
<1>4. Visited(t)
  BY <1>1, <1>2 DEF AllVisited
<1>5. ASSUME NEW p \in Process, p \in o.out, o.tmp2[p] # 0
      PROVE  /\ map'[p] \in [PageSpace -> Nat]
             /\ \E k \in 1 .. Len(list) :
                  /\ list[k].pid = p
                  /\ \A v \in PageSpace : map'[p][v] = IF v \in Span(list[k].virtual_location, n)
                                                       THEN o.tmp2[p] + (v - list[k].virtual_location) ELSE map[p][v]
  <2>1. PICK k : k = IndexOf(list, p)
    OBVIOUS
  <2>2. k # 0
    <3>1. PICK i \in 1 .. Len(list) : list[i].pid = p
      BY <1>1, <1>4, <1>5 DEF Visited
    <3> QED
      BY <2>1, <3>1, IndexIs
  <2>3. k \in 1 .. Len(list) /\ list[k].pid = p
    BY <2>1, <2>2, IndexIs
  <2>4. PICK at, f : at = list[k].virtual_location /\ f = o.tmp2[p]
    OBVIOUS
  <2>5. at \in Nat /\ f \in Nat /\ n \in Int
    <3>1. list[k] \in InfoType
      BY <1>3, <2>3
    <3> QED
      BY <1>3, <2>4, <3>1 DEF InfoType
  <2>6. map'[p] = page_direct_map(Space(p), f, at, n).entry
    BY <1>2, <1>5, <2>1, <2>4
  <2>7. Remapped(page_direct_map(Space(p), f, at, n).entry, p, f, at, n)
    BY <2>5, Mapped, Zenon
  <2>8. PICK e : e = map'[p]
    OBVIOUS
  <2>9. /\ e \in [PageSpace -> Nat]
        /\ \A v \in PageSpace : e[v] = IF v \in Span(at, n) THEN f + (v - at) ELSE map[p][v]
    <3>1. Remapped(e, p, f, at, n)
      BY <2>6, <2>7, <2>8, Zenon
    <3> QED
      BY <3>1 DEF Remapped
  <2> QED
    BY <2>3, <2>4, <2>8, <2>9
<1>6. ASSUME NEW p \in Process, ~ (p \in o.out /\ o.tmp2[p] # 0) PROVE map'[p] = map[p]
  BY <1>2, <1>6
<1>7. Scratched(t)
  BY <1>1, <1>5, <1>6 DEF Scratched
<1>8. map' \in [Process -> [PageSpace -> Nat]]
  <2>1. \A p \in Process : map'[p] \in [PageSpace -> Nat]
    BY <1>5, <1>6 DEF Types
  <2>2. DOMAIN map' = Process /\ map' = [p \in Process |-> map'[p]]
    BY <1>2
  <2> QED
    BY <2>1, <2>2
<1>9. PICK j : j = [o EXCEPT !.at = "commit"]
  OBVIOUS
<1>10. job' = [job EXCEPT ![t] = j]
  BY <1>1, <1>2, <1>9
<1>11. j \in DeleteType /\ j.at = "commit" /\ j.sh = o.sh /\ j.then = o.then
  BY <1>3, <1>9 DEF DeleteType
<1>12. Types'
  <2>1. DOMAIN shmem_table' = DOMAIN shmem_table /\ (\A id \in DOMAIN shmem_table : RegionOK(shmem_table'[id]))
        /\ UNCHANGED <<shmem_id, alive>> /\ DOMAIN pad' = Process /\ cleaned' \subseteq Process \ alive
    BY <1>2 DEF Types
  <2>2. RegionOK(j.sh) /\ (j.then = "clean" => j.sh.pid \notin alive)
    BY <1>3, <1>11
  <2> QED
    BY <1>8, <1>10, <1>11, <2>1, <2>2, JobTypes
<1> QED
  BY <1>1, <1>2, <1>7, <1>10, <1>11, <1>12

LEMMA CommitStep ==
  ASSUME Types, NEW t \in Thread, Commit(t)
  PROVE  /\ Types' /\ job[t].at = "commit"
         /\ \E j : job' = [job EXCEPT ![t] = j] /\ j.at = "free" /\ j.sh = job[t].sh
         /\ UNCHANGED <<shmem_table, shmem_id, map, used, alive, pad, excused, cleaned>>
<1>1. PICK o : o = job[t]
  OBVIOUS
<1>2. PICK j : j = [o EXCEPT !.at = "free", !.out = {}]
  OBVIOUS
<1>3. /\ o.at = "commit" /\ UNCHANGED <<shmem_table, shmem_id, map, used, alive, pad, excused, cleaned>>
      /\ job' = [job EXCEPT ![t] = j]
  BY <1>1, <1>2 DEF Commit, At
<1>4. o \in DeleteType /\ RegionOK(o.sh) /\ (o.then = "clean" => o.sh.pid \notin alive)
  BY <1>1, <1>3, Deleting
<1>5. j \in DeleteType /\ j.at = "free" /\ j.sh = o.sh /\ j.then = o.then
  BY <1>2, <1>4 DEF DeleteType
<1>6. Types'
  <2>1. DOMAIN shmem_table' = DOMAIN shmem_table /\ (\A id \in DOMAIN shmem_table : RegionOK(shmem_table'[id]))
        /\ UNCHANGED <<shmem_id, alive>> /\ DOMAIN pad' = Process /\ cleaned' \subseteq Process \ alive
        /\ map' \in [Process -> [PageSpace -> Nat]]
    BY <1>3 DEF Types
  <2>2. RegionOK(j.sh) /\ (j.then = "clean" => j.sh.pid \notin alive)
    BY <1>4, <1>5
  <2> QED
    BY <1>3, <1>5, <2>1, <2>2, JobTypes
<1> QED
  BY <1>1, <1>3, <1>5, <1>6

LEMMA FreeStep ==
  ASSUME Types, NEW t \in Thread, Free(t)
  PROVE  /\ Types' /\ job[t].at = "free"
         /\ \E j : job' = [job EXCEPT ![t] = j] /\ j.at \in {"none", "clean"}
         /\ used' = used \ Memory(job[t].sh)
         /\ UNCHANGED <<shmem_table, shmem_id, map, alive, pad, excused, cleaned>>
<1>1. PICK o : o = job[t]
  OBVIOUS
<1>2. PICK j : j = IF o.then = "return" THEN NoJob ELSE Clean(o.sh.pid)
  OBVIOUS
<1>3. /\ o.at = "free" /\ UNCHANGED <<shmem_table, shmem_id, map, alive, pad, excused, cleaned>>
      /\ job' = [job EXCEPT ![t] = j] /\ used' = IF o.sh.internal THEN used \ Frames(o.sh) ELSE used
  BY <1>1, <1>2 DEF Free, At
<1>4. o \in DeleteType /\ RegionOK(o.sh) /\ (o.then = "clean" => o.sh.pid \notin alive) /\ o.sh.pid \in Process
  BY <1>1, <1>3, Deleting, DeletingIs
<1>5. o.then = "return" \/ o.then = "clean"
  BY <1>4 DEF DeleteType
<1>6. j = NoJob \/ \E p \in Process \ alive : j = Clean(p)
  BY <1>2, <1>4, <1>5
<1>7. j.at \in {"none", "clean"}
  BY <1>2 DEF NoJob, Clean
<1>8. used' = used \ Memory(o.sh)
  BY <1>3 DEF Memory
<1>9. Types'
  <2>1. DOMAIN shmem_table' = DOMAIN shmem_table /\ (\A id \in DOMAIN shmem_table : RegionOK(shmem_table'[id]))
        /\ UNCHANGED <<shmem_id, alive>> /\ DOMAIN pad' = Process /\ cleaned' \subseteq Process \ alive
        /\ map' \in [Process -> [PageSpace -> Nat]]
    BY <1>3 DEF Types
  <2> QED
    BY <1>3, <1>6, <2>1, JobTypes
<1> QED
  BY <1>1, <1>3, <1>7, <1>8, <1>9

LEMMA CleanStart ==
  ASSUME Types, NEW t \in Thread, NEW p \in Process, shmem_clean(t, p)
  PROVE  /\ Types' /\ job[t] = NoJob
         /\ \E j : job' = [job EXCEPT ![t] = j] /\ j.at = "clean"
         /\ UNCHANGED <<shmem_table, shmem_id, map, used, alive, pad, excused, cleaned>>
<1>1. /\ job[t] = NoJob /\ p \notin alive /\ job' = [job EXCEPT ![t] = Clean(p)]
      /\ UNCHANGED <<shmem_table, shmem_id, map, used, alive, pad, excused, cleaned>>
  BY DEF shmem_clean, Idle
<1>2. Types'
  <2>1. DOMAIN shmem_table' = DOMAIN shmem_table /\ (\A id \in DOMAIN shmem_table : RegionOK(shmem_table'[id]))
        /\ UNCHANGED <<shmem_id, alive>> /\ DOMAIN pad' = Process /\ cleaned' \subseteq Process \ alive
        /\ map' \in [Process -> [PageSpace -> Nat]]
    BY <1>1 DEF Types
  <2>2. p \in Process \ alive
    BY <1>1
  <2>3. PICK j : j = Clean(p)
    OBVIOUS
  <2> QED
    BY <1>1, <2>1, <2>2, <2>3, JobTypes
<1>3. Clean(p).at = "clean"
  BY DEF Clean
<1> QED
  BY <1>1, <1>2, <1>3

LEMMA Exit ==
  ASSUME Types, NEW p \in Process, exit(p)
  PROVE  /\ Types' /\ alive' = alive \ {p}
         /\ \A q \in Process : q # p => map'[q] = map[q]
         /\ UNCHANGED <<shmem_table, shmem_id, used, job, pad, excused, cleaned>>
<1>1. /\ alive' = alive \ {p} /\ UNCHANGED <<shmem_table, shmem_id, used, job, pad, excused, cleaned>>
      /\ map' = [map EXCEPT ![p] = new_page_directory.entry]
  BY DEF exit
<1>2. new_page_directory.entry \in [PageSpace -> Nat]
  BY DEF new_page_directory
<1>3. map' \in [Process -> [PageSpace -> Nat]] /\ \A q \in Process : q # p => map'[q] = map[q]
  BY <1>1, <1>2 DEF Types
<1>4. Types'
  <2>1. /\ alive' \subseteq alive /\ shmem_id' \in Nat /\ DOMAIN shmem_table' \subseteq Nat
        /\ DOMAIN job' = Thread /\ DOMAIN pad' = Process
        /\ cleaned' \subseteq Process \ alive' /\ \A u \in Thread : job'[u] = job[u]
        /\ \A id \in DOMAIN shmem_table' : id < shmem_id' /\ RegionOK(shmem_table'[id])
    BY <1>1 DEF Types
  <2> QED
    BY <1>3, <2>1, TypesFrame
<1> QED
  BY <1>1, <1>3, <1>4

-----------------------------------------------------------------------------
LEMMA NextIs ==
  ASSUME Types, Next
  PROVE  \/ \E t \in Thread :
              \/ \E n \in Nat \ {0}, flags \in SUBSET Flag, internal \in BOOLEAN : shmem_create(t, n, flags, internal)
              \/ \E id : shmem_request(t, id) \/ shmem_release(t, id) \/ shmem_delete(t, id)
              \/ \E id : \E p \in Process : shmem_grant(t, id, p) \/ shmem_revoke(t, p, id)
              \/ Checkout(t) \/ MapScratch(t) \/ Commit(t) \/ Free(t)
              \/ \E p \in Process : shmem_clean(t, p)
              \/ CleanNext(t) \/ CleanDone(t)
         \/ \E p \in Process : exit(p)
<1>1. ASSUME NEW t \in Thread, shmem_id < MaxId, NEW k \in Kinds[shmem_id], shmem_create(t, k[2], k[3], k[4])
      PROVE  \E n \in Nat \ {0}, flags \in SUBSET Flag, internal \in BOOLEAN : shmem_create(t, n, flags, internal)
  <2>1. shmem_id \in 0 .. MaxId - 1
    BY <1>1, KindsAssumption DEF Types
  <2>2. k[2] \in Nat \ {0} /\ k[3] \in SUBSET Flag /\ k[4] \in BOOLEAN
    BY <2>1, KindsAssumption
  <2> QED
    BY <1>1, <2>2
<1> QED
  BY <1>1 DEF Next

LEMMA InitTypes ==
  ASSUME Init
  PROVE  Types
<1>1. new_page_directory.entry \in [PageSpace -> Nat]
  BY DEF new_page_directory
<1>2. map \in [Process -> [PageSpace -> Nat]]
  BY <1>1 DEF Init
<1>3. DOMAIN shmem_table = {}
  BY DEF Init
<1>4. DOMAIN job = Thread /\ \A t \in Thread : JobOK(job[t])
  BY DEF Init, JobOK
<1> QED
  BY <1>2, <1>3, <1>4 DEF Init, Types

(* What shmem_clean has left, nobody takes away. *)
LEMMA OrphansKept ==
  ASSUME CleanLeavesOrphans, cleaned' = cleaned,
         \A i \in DOMAIN shmem_table' : i \in DOMAIN shmem_table /\ Alike(shmem_table[i], shmem_table'[i])
  PROVE  CleanLeavesOrphans'
BY DEF CleanLeavesOrphans, Alike

LEMMA RelistOrphans ==
  ASSUME CleanLeavesOrphans, cleaned' = cleaned, NEW id, NEW r, Relisted(id, r)
  PROVE  CleanLeavesOrphans'
<1>1. \A i \in DOMAIN shmem_table' : i \in DOMAIN shmem_table /\ Alike(shmem_table[i], shmem_table'[i])
  BY DEF Relisted, Alike
<1> QED
  BY <1>1, OrphansKept

LEMMA DropOrphans ==
  ASSUME CleanLeavesOrphans, cleaned' = cleaned, NEW t, NEW id, NEW then, Dropped(t, id, then)
  PROVE  CleanLeavesOrphans'
<1>1. \A i \in DOMAIN shmem_table' : i \in DOMAIN shmem_table /\ Alike(shmem_table[i], shmem_table'[i])
  BY DEF Dropped
<1> QED
  BY <1>1, OrphansKept

LEMMA OrphansStep ==
  ASSUME Types, CleanLeavesOrphans, Next
  PROVE  CleanLeavesOrphans'
<1>0. UNCHANGED <<shmem_table, cleaned>> => CleanLeavesOrphans'
  BY DEF CleanLeavesOrphans
<1>1. ASSUME NEW t \in Thread, NEW n \in Nat \ {0}, NEW flags \in SUBSET Flag, NEW internal \in BOOLEAN,
             shmem_create(t, n, flags, internal)
      PROVE  CleanLeavesOrphans'
  <2>1. /\ DOMAIN shmem_table' = DOMAIN shmem_table \cup {shmem_id}
        /\ \A i \in DOMAIN shmem_table : shmem_table'[i] = shmem_table[i]
        /\ shmem_table'[shmem_id].pid \in alive /\ cleaned' = cleaned
    BY <1>1, Create
  <2>2. shmem_table'[shmem_id].pid \notin cleaned
    BY <2>1 DEF Types
  <2> QED
    BY <2>1, <2>2 DEF CleanLeavesOrphans
<1>2. ASSUME NEW t \in Thread, NEW id, shmem_request(t, id) PROVE CleanLeavesOrphans'
  <2>1. PICK p : p = Home[t]
    OBVIOUS
  <2>2. cleaned' = cleaned /\ \E r : Relisted(id, r)
    BY <1>2, <2>1, Request
  <2> QED
    BY <2>2, RelistOrphans
<1>3. ASSUME NEW t \in Thread, NEW id, shmem_release(t, id) PROVE CleanLeavesOrphans'
  <2>1. PICK p : p = Home[t]
    OBVIOUS
  <2>2. cleaned' = cleaned /\ \E r : Relisted(id, r)
    BY <1>3, <2>1, Release
  <2> QED
    BY <2>2, RelistOrphans
<1>4. ASSUME NEW t \in Thread, NEW id, shmem_delete(t, id) PROVE CleanLeavesOrphans'
  <2>1. cleaned' = cleaned /\ Dropped(t, id, "return")
    BY <1>4, Delete
  <2> QED
    BY <2>1, DropOrphans
<1>5. ASSUME NEW t \in Thread, NEW id, NEW p \in Process, shmem_grant(t, id, p) PROVE CleanLeavesOrphans'
  <2>1. cleaned' = cleaned /\ \E r : Relisted(id, r)
    BY <1>5, Grant
  <2> QED
    BY <2>1, RelistOrphans
<1>6. ASSUME NEW t \in Thread, NEW id, NEW p \in Process, shmem_revoke(t, p, id) PROVE CleanLeavesOrphans'
  <2>1. cleaned' = cleaned /\ \E r : Relisted(id, r)
    BY <1>6, Revoke
  <2> QED
    BY <2>1, RelistOrphans
<1>7. ASSUME NEW t \in Thread, Checkout(t) \/ MapScratch(t) \/ Commit(t) \/ Free(t) \/ \E p \in Process : shmem_clean(t, p)
      PROVE  CleanLeavesOrphans'
  <2>1. UNCHANGED <<shmem_table, cleaned>>
    BY <1>7 DEF Checkout, MapScratch, Commit, Free, shmem_clean
  <2> QED
    BY <1>0, <2>1
<1>8. ASSUME NEW t \in Thread, CleanNext(t) PROVE CleanLeavesOrphans'
  <2>1. cleaned' = cleaned /\ \E id : Dropped(t, id, "clean")
    BY <1>8, CleanOne
  <2> QED
    BY <2>1, DropOrphans
<1>9. ASSUME NEW t \in Thread, CleanDone(t) PROVE CleanLeavesOrphans'
  <2>1. PICK p : p = job[t].pid
    OBVIOUS
  <2>2. /\ DOMAIN shmem_table' = DOMAIN shmem_table /\ cleaned' = cleaned \cup {p}
        /\ \A i \in DOMAIN shmem_table :
             /\ Alike(shmem_table[i], shmem_table'[i])
             /\ shmem_table[i].pid = p => {"IMMORTAL", "ORPHAN"} \subseteq shmem_table'[i].flags
    BY <1>9, <2>1, CleanLast
  <2> QED
    BY <2>2 DEF CleanLeavesOrphans, Alike
<1>10. ASSUME NEW p \in Process, exit(p) PROVE CleanLeavesOrphans'
  BY <1>0, <1>10 DEF exit
<1> QED
  BY <1>1, <1>2, <1>3, <1>4, <1>5, <1>6, <1>7, <1>8, <1>9, <1>10, NextIs

-----------------------------------------------------------------------------
(* Frames and their owners: g[o] is what o has of the frames u.            *)
Exact(u, g) ==
  /\ u = UNION {g[o] : o \in DOMAIN g}
  /\ \A a, b \in DOMAIN g : a # b => g[a] \cap g[b] = {}

LEMMA ExactGrow ==
  ASSUME NEW u, NEW g, Exact(u, g), NEW S, S \cap u = {}, NEW a, NEW h, DOMAIN h = DOMAIN g \cup {a},
         h[a] = (IF a \in DOMAIN g THEN g[a] ELSE {}) \cup S,
         \A o \in DOMAIN g : o # a => h[o] = g[o], NEW w, w = u \cup S
  PROVE  Exact(w, h)
<1>1. \A o \in DOMAIN g : g[o] \subseteq u
  BY DEF Exact
<1>2. ASSUME NEW x \in u \cup S PROVE \E o \in DOMAIN h : x \in h[o]
  <2>1. CASE x \in u
    BY <2>1 DEF Exact
  <2>2. CASE x \in S
    BY <2>2
  <2> QED
    BY <2>1, <2>2
<1>3. ASSUME NEW o \in DOMAIN h, NEW x \in h[o] PROVE x \in u \cup S
  BY <1>1
<1>4. \A b \in DOMAIN h : b # a => b \in DOMAIN g /\ h[b] \cap h[a] = {}
  <2> SUFFICES ASSUME NEW b \in DOMAIN h, b # a PROVE b \in DOMAIN g /\ h[b] \cap h[a] = {}
    OBVIOUS
  <2>1. b \in DOMAIN g /\ h[b] = g[b] /\ g[b] \subseteq u
    BY <1>1
  <2>2. a \in DOMAIN g => g[b] \cap g[a] = {}
    BY <2>1 DEF Exact
  <2> QED
    BY <2>1, <2>2
<1>5. \A b, c \in DOMAIN h : b # c => h[b] \cap h[c] = {}
  BY <1>4 DEF Exact
<1>6. w = UNION {h[o] : o \in DOMAIN h}
  BY <1>2, <1>3
<1> QED
  BY <1>5, <1>6 DEF Exact

LEMMA ExactMove ==
  ASSUME NEW u, NEW g, Exact(u, g), NEW a \in DOMAIN g, NEW b, b \notin DOMAIN g,
         NEW h, DOMAIN h = (DOMAIN g \ {a}) \cup {b}, h[b] = g[a], \A o \in DOMAIN g : o # a => h[o] = g[o]
  PROVE  Exact(u, h)
<1>1. ASSUME NEW x \in u PROVE \E o \in DOMAIN h : x \in h[o]
  <2>1. PICK o \in DOMAIN g : x \in g[o]
    BY DEF Exact
  <2>2. CASE o = a
    BY <2>1, <2>2
  <2>3. CASE o # a
    BY <2>1, <2>3
  <2> QED
    BY <2>2, <2>3
<1>2. ASSUME NEW o \in DOMAIN h, NEW x \in h[o] PROVE x \in u
  BY <1>2 DEF Exact
<1>3. \A c, d \in DOMAIN h : c # d => h[c] \cap h[d] = {}
  BY DEF Exact
<1>4. u = UNION {h[o] : o \in DOMAIN h}
  BY <1>1, <1>2
<1> QED
  BY <1>3, <1>4 DEF Exact

LEMMA ExactDrop ==
  ASSUME NEW u, NEW g, Exact(u, g), NEW a \in DOMAIN g,
         NEW h, DOMAIN h = DOMAIN g \ {a}, \A o \in DOMAIN g : o # a => h[o] = g[o], NEW w, w = u \ g[a]
  PROVE  Exact(w, h)
<1>1. ASSUME NEW x \in u \ g[a] PROVE \E o \in DOMAIN h : x \in h[o]
  BY DEF Exact
<1>2. ASSUME NEW o \in DOMAIN h, NEW x \in h[o] PROVE x \in u \ g[a]
  <2>1. o \in DOMAIN g /\ o # a /\ h[o] = g[o]
    OBVIOUS
  <2>2. g[o] \cap g[a] = {} /\ g[o] \subseteq u
    BY <2>1 DEF Exact
  <2> QED
    BY <2>1, <2>2
<1>3. \A c, d \in DOMAIN h : c # d => h[c] \cap h[d] = {}
  BY DEF Exact
<1>4. w = UNION {h[o] : o \in DOMAIN h}
  BY <1>1, <1>2
<1> QED
  BY <1>3, <1>4 DEF Exact

Share == [o \in Owner |-> Owned(o)]

LEMMA FramesIs ==
  (FramesExact <=> Exact(used, Share)) /\ (FramesExact' <=> Exact(used', Share'))
<1>1. FramesExact <=> Exact(used, Share)
  <2>1. DOMAIN Share = Owner /\ \A o \in Owner : Share[o] = Owned(o)
    BY DEF Share
  <2>2. UNION {Share[o] : o \in DOMAIN Share} = UNION {Owned(o) : o \in Owner}
    BY <2>1
  <2> QED
    BY <2>1, <2>2 DEF FramesExact, Exact
<1>2. FramesExact' <=> Exact(used', Share')
  <2>1. DOMAIN Share' = Owner' /\ \A o \in Owner' : Share'[o] = Owned(o)'
    BY DEF Share
  <2>2. UNION {Share'[o] : o \in DOMAIN Share'} = UNION {Owned(o)' : o \in Owner'}
    BY <2>1
  <2> QED
    BY <2>1, <2>2 DEF FramesExact, Exact
<1> QED
  BY <1>1, <1>2

LEMMA ShareIs ==
  /\ DOMAIN Share = Owner
  /\ \A id \in DOMAIN shmem_table : <<"region", id>> \in Owner /\ Share[<<"region", id>>] = Memory(shmem_table[id])
  /\ \A t \in Deletes : <<"delete", t>> \in Owner /\ Share[<<"delete", t>>] = Memory(job[t].sh)
  /\ \A p \in Process : <<"pad", p>> \in Owner /\ Share[<<"pad", p>>] = pad[p]
<1>1. DOMAIN Share = Owner /\ \A o \in Owner : Share[o] = Owned(o)
  BY DEF Share
<1>2. ASSUME NEW id \in DOMAIN shmem_table
      PROVE  <<"region", id>> \in Owner /\ Owned(<<"region", id>>) = Memory(shmem_table[id])
  BY DEF Owner, Owned
<1>3. ASSUME NEW t \in Deletes PROVE <<"delete", t>> \in Owner /\ Owned(<<"delete", t>>) = Memory(job[t].sh)
  BY DEF Owner, Owned
<1>4. ASSUME NEW p \in Process PROVE <<"pad", p>> \in Owner /\ Owned(<<"pad", p>>) = pad[p]
  BY DEF Owner, Owned
<1> QED
  BY <1>1, <1>2, <1>3, <1>4

LEMMA ShareNext ==
  /\ DOMAIN Share' = Owner'
  /\ \A id \in DOMAIN shmem_table' :
       <<"region", id>> \in Owner' /\ Share'[<<"region", id>>] = Memory(shmem_table'[id])
  /\ \A t \in Deletes' : <<"delete", t>> \in Owner' /\ Share'[<<"delete", t>>] = Memory(job'[t].sh)
  /\ \A p \in Process : <<"pad", p>> \in Owner' /\ Share'[<<"pad", p>>] = pad'[p]
<1>1. DOMAIN Share' = Owner' /\ \A o \in Owner' : Share'[o] = Owned(o)'
  BY DEF Share
<1>2. ASSUME NEW id \in DOMAIN shmem_table'
      PROVE  <<"region", id>> \in Owner' /\ Owned(<<"region", id>>)' = Memory(shmem_table'[id])
  BY DEF Owner, Owned, Memory, Frames
<1>3. ASSUME NEW t \in Deletes' PROVE <<"delete", t>> \in Owner' /\ Owned(<<"delete", t>>)' = Memory(job'[t].sh)
  BY DEF Owner, Owned, Memory, Frames
<1>4. ASSUME NEW p \in Process PROVE <<"pad", p>> \in Owner' /\ Owned(<<"pad", p>>)' = pad'[p]
  BY DEF Owner, Owned
<1> QED
  BY <1>1, <1>2, <1>3, <1>4

LEMMA OwnerIs ==
  /\ \A o \in Owner : \/ \E id \in DOMAIN shmem_table : o = <<"region", id>>
                      \/ \E t \in Deletes : o = <<"delete", t>>
                      \/ \E p \in Process : o = <<"pad", p>>
  /\ \A o \in Owner' : \/ \E id \in DOMAIN shmem_table' : o = <<"region", id>>
                       \/ \E t \in Deletes' : o = <<"delete", t>>
                       \/ \E p \in Process : o = <<"pad", p>>
  /\ \A a, b : <<"region", a>> # <<"delete", b>> /\ <<"region", a>> # <<"pad", b>> /\ <<"delete", a>> # <<"pad", b>>
  /\ \A a, b : <<"region", a>> = <<"region", b>> => a = b
  /\ \A a, b : <<"delete", a>> = <<"delete", b>> => a = b
  /\ \A a, b : <<"pad", a>> = <<"pad", b>> => a = b
BY DEF Owner

LEMMA AlikeMemory ==
  ASSUME NEW a, NEW b, Alike(a, b)
  PROVE  Memory(b) = Memory(a)
BY DEF Alike, Memory, Frames

LEMMA DeletesAre ==
  ASSUME Types, NEW t \in Thread, NEW j, job' = [job EXCEPT ![t] = j]
  PROVE  /\ job'[t] = j /\ \A u \in Thread : u # t => job'[u] = job[u]
         /\ j.at \in {"checkout", "map", "commit", "free"} => Deletes' = Deletes \cup {t}
         /\ j.at \notin {"checkout", "map", "commit", "free"} => Deletes' = Deletes \ {t}
<1>1. job'[t] = j /\ \A u \in Thread : u # t => job'[u] = job[u]
  BY DEF Types
<1> QED
  BY <1>1 DEF Deletes

(* Nothing changes hands, but process p may get scratch memory S. *)
LEMMA FramesPad ==
  ASSUME FramesExact, DOMAIN shmem_table' = DOMAIN shmem_table,
         \A id \in DOMAIN shmem_table : Memory(shmem_table'[id]) = Memory(shmem_table[id]),
         Deletes' = Deletes, \A t \in Deletes : job'[t].sh = job[t].sh,
         NEW S, S \cap used = {}, used' = used \cup S, NEW p \in Process,
         DOMAIN pad = Process, pad' = [pad EXCEPT ![p] = @ \cup S]
  PROVE  FramesExact'
<1>1. Owner' = Owner
  BY DEF Owner
<1>2. PICK g, h, a : g = Share /\ h = Share' /\ a = <<"pad", p>>
  OBVIOUS
<1>3. a \in DOMAIN g /\ DOMAIN h = DOMAIN g \cup {a}
  BY <1>1, <1>2, ShareIs, ShareNext
<1>4. h[a] = g[a] \cup S
  <2>1. h[a] = pad'[p] /\ g[a] = pad[p]
    BY <1>2, ShareIs, ShareNext
  <2> QED
    BY <2>1
<1>5. ASSUME NEW o \in DOMAIN g, o # a PROVE h[o] = g[o]
  <2>1. o \in Owner
    BY <1>2, ShareIs
  <2>2. ASSUME NEW id \in DOMAIN shmem_table, o = <<"region", id>> PROVE h[o] = g[o]
    <3>1. g[o] = Memory(shmem_table[id])
      BY <1>2, <2>2, ShareIs
    <3>2. h[o] = Memory(shmem_table'[id])
      BY <1>2, <2>2, ShareNext
    <3> QED
      BY <3>1, <3>2
  <2>3. ASSUME NEW t \in Deletes, o = <<"delete", t>> PROVE h[o] = g[o]
    <3>1. g[o] = Memory(job[t].sh)
      BY <1>2, <2>3, ShareIs
    <3>2. h[o] = Memory(job'[t].sh)
      BY <1>2, <2>3, ShareNext
    <3> QED
      BY <3>1, <3>2
  <2>4. ASSUME NEW q \in Process, o = <<"pad", q>> PROVE h[o] = g[o]
    <3>1. g[o] = pad[q]
      BY <1>2, <2>4, ShareIs
    <3>2. h[o] = pad'[q]
      BY <1>2, <2>4, ShareNext
    <3>3. q # p
      BY <1>2, <1>5, <2>4
    <3> QED
      BY <3>1, <3>2, <3>3
  <2> QED
    BY <2>1, <2>2, <2>3, <2>4, OwnerIs
<1>6. Exact(used, g)
  BY <1>2, FramesIs
<1>7. Exact(used', h)
  <2>1. h[a] = (IF a \in DOMAIN g THEN g[a] ELSE {}) \cup S /\ used' = used \cup S
    BY <1>3, <1>4
  <2> QED
    BY <1>3, <1>5, <1>6, <2>1, ExactGrow
<1> QED
  BY <1>2, <1>7, FramesIs

LEMMA FramesQuiet ==
  ASSUME FramesExact, DOMAIN shmem_table' = DOMAIN shmem_table,
         \A id \in DOMAIN shmem_table : Memory(shmem_table'[id]) = Memory(shmem_table[id]),
         Deletes' = Deletes, \A t \in Deletes : job'[t].sh = job[t].sh,
         UNCHANGED <<used, pad>>
  PROVE  FramesExact'
<1>1. Owner' = Owner
  BY DEF Owner
<1>2. PICK g, h : g = Share /\ h = Share'
  OBVIOUS
<1>3. DOMAIN g = Owner /\ DOMAIN h = Owner
  BY <1>1, <1>2, ShareIs, ShareNext
<1>4. ASSUME NEW o \in Owner PROVE h[o] = g[o]
  <2>1. ASSUME NEW id \in DOMAIN shmem_table, o = <<"region", id>> PROVE h[o] = g[o]
    <3>1. g[o] = Memory(shmem_table[id])
      BY <1>2, <2>1, ShareIs
    <3>2. h[o] = Memory(shmem_table'[id])
      BY <1>2, <2>1, ShareNext
    <3> QED
      BY <3>1, <3>2
  <2>2. ASSUME NEW t \in Deletes, o = <<"delete", t>> PROVE h[o] = g[o]
    <3>1. g[o] = Memory(job[t].sh)
      BY <1>2, <2>2, ShareIs
    <3>2. h[o] = Memory(job'[t].sh)
      BY <1>2, <2>2, ShareNext
    <3> QED
      BY <3>1, <3>2
  <2>3. ASSUME NEW q \in Process, o = <<"pad", q>> PROVE h[o] = g[o]
    <3>1. g[o] = pad[q]
      BY <1>2, <2>3, ShareIs
    <3>2. h[o] = pad'[q]
      BY <1>2, <2>3, ShareNext
    <3> QED
      BY <3>1, <3>2
  <2> QED
    BY <2>1, <2>2, <2>3, OwnerIs
<1>5. Exact(used, g)
  BY <1>2, FramesIs
<1>6. UNION {h[o] : o \in DOMAIN h} = UNION {g[o] : o \in DOMAIN g}
  BY <1>3, <1>4
<1>7. Exact(used', h)
  BY <1>3, <1>4, <1>5, <1>6 DEF Exact
<1> QED
  BY <1>2, <1>7, FramesIs

LEMMA FramesCreate ==
  ASSUME Types, FramesExact, shmem_id \notin DOMAIN shmem_table,
         DOMAIN shmem_table' = DOMAIN shmem_table \cup {shmem_id},
         \A i \in DOMAIN shmem_table : shmem_table'[i] = shmem_table[i],
         used' = used \cup Memory(shmem_table'[shmem_id]), Memory(shmem_table'[shmem_id]) \cap used = {},
         UNCHANGED <<job, pad>>
  PROVE  FramesExact'
<1>1. PICK g, h, a, S : g = Share /\ h = Share' /\ a = <<"region", shmem_id>> /\ S = Memory(shmem_table'[shmem_id])
  OBVIOUS
<1>2. Owner' = Owner \cup {a} /\ Deletes' = Deletes
  BY <1>1 DEF Owner, Deletes
<1>3. a \notin Owner
  BY <1>1, OwnerIs
<1>4. DOMAIN g = Owner /\ DOMAIN h = DOMAIN g \cup {a} /\ h[a] = S
  BY <1>1, <1>2, ShareIs, ShareNext
<1>5. ASSUME NEW o \in DOMAIN g, o # a PROVE h[o] = g[o]
  <2>1. o \in Owner
    BY <1>4
  <2>2. ASSUME NEW id \in DOMAIN shmem_table, o = <<"region", id>> PROVE h[o] = g[o]
    <3>1. g[o] = Memory(shmem_table[id])
      BY <1>1, <2>2, ShareIs
    <3>2. h[o] = Memory(shmem_table'[id])
      BY <1>1, <2>2, ShareNext
    <3> QED
      BY <3>1, <3>2
  <2>3. ASSUME NEW t \in Deletes, o = <<"delete", t>> PROVE h[o] = g[o]
    <3>1. g[o] = Memory(job[t].sh)
      BY <1>1, <2>3, ShareIs
    <3>2. h[o] = Memory(job'[t].sh)
      BY <1>1, <1>2, <2>3, ShareNext
    <3> QED
      BY <3>1, <3>2
  <2>4. ASSUME NEW q \in Process, o = <<"pad", q>> PROVE h[o] = g[o]
    <3>1. g[o] = pad[q]
      BY <1>1, <2>4, ShareIs
    <3>2. h[o] = pad'[q]
      BY <1>1, <2>4, ShareNext
    <3> QED
      BY <3>1, <3>2
  <2> QED
    BY <2>1, <2>2, <2>3, <2>4, OwnerIs
<1>6. Exact(used, g)
  BY <1>1, FramesIs
<1>7. Exact(used', h)
  <2>1. h[a] = (IF a \in DOMAIN g THEN g[a] ELSE {}) \cup S /\ S \cap used = {} /\ used' = used \cup S
    BY <1>1, <1>3, <1>4
  <2>2. DOMAIN h = DOMAIN g \cup {a}
    BY <1>4
  <2> QED
    BY <1>5, <1>6, <2>1, <2>2, ExactGrow
<1> QED
  BY <1>1, <1>7, FramesIs

(* A region that leaves the table takes its frames along. *)
LEMMA FramesDropped ==
  ASSUME Types, FramesExact, NEW t \in Thread, t \notin Deletes, NEW id, NEW then \in {"return", "clean"},
         Dropped(t, id, then), UNCHANGED <<used, pad>>
  PROVE  FramesExact'
<1>1. PICK g, h, a, b : g = Share /\ h = Share' /\ a = <<"region", id>> /\ b = <<"delete", t>>
  OBVIOUS
<1>2. id \in DOMAIN shmem_table /\ DOMAIN shmem_table' = DOMAIN shmem_table \ {id}
      /\ \A i \in DOMAIN shmem_table' : Memory(shmem_table'[i]) = Memory(shmem_table[i])
  BY AlikeMemory DEF Dropped
<1>3. PICK j : j = Removed(id, then)
  OBVIOUS
<1>4. j.sh = shmem_table[id] /\ j.at = "checkout"
  BY <1>2, <1>3, RemovedIs
<1>5. job'[t] = j /\ (\A u \in Thread : u # t => job'[u] = job[u]) /\ Deletes' = Deletes \cup {t}
  <2>1. job' = [job EXCEPT ![t] = j]
    BY <1>3 DEF Dropped
  <2> QED
    BY <1>4, <2>1, DeletesAre
<1>6. Owner' = (Owner \ {a}) \cup {b}
  <2>1. ASSUME NEW o \in Owner' PROVE o \in (Owner \ {a}) \cup {b}
    <3>1. ASSUME NEW i \in DOMAIN shmem_table', o = <<"region", i>> PROVE o \in Owner \ {a}
      BY <1>1, <1>2, <3>1, OwnerIs, ShareIs
    <3>2. ASSUME NEW u \in Deletes', o = <<"delete", u>> PROVE o \in (Owner \ {a}) \cup {b}
      BY <1>1, <1>5, <3>2, OwnerIs, ShareIs
    <3>3. ASSUME NEW q \in Process, o = <<"pad", q>> PROVE o \in Owner \ {a}
      BY <1>1, <3>3, OwnerIs, ShareIs
    <3> QED
      BY <3>1, <3>2, <3>3, OwnerIs
  <2>2. ASSUME NEW o \in Owner, o # a PROVE o \in Owner'
    <3>1. ASSUME NEW i \in DOMAIN shmem_table, o = <<"region", i>> PROVE o \in Owner'
      <4>1. i \in DOMAIN shmem_table'
        BY <1>1, <1>2, <2>2, <3>1
      <4> QED
        BY <3>1, <4>1, ShareNext
    <3>2. ASSUME NEW u \in Deletes, o = <<"delete", u>> PROVE o \in Owner'
      BY <1>5, <3>2, ShareNext
    <3>3. ASSUME NEW q \in Process, o = <<"pad", q>> PROVE o \in Owner'
      BY <3>3, ShareNext
    <3> QED
      BY <3>1, <3>2, <3>3, OwnerIs
  <2>3. b \in Owner'
    BY <1>1, <1>5, ShareNext
  <2> QED
    BY <2>1, <2>2, <2>3
<1>7. a \in DOMAIN g /\ b \notin DOMAIN g /\ DOMAIN h = (DOMAIN g \ {a}) \cup {b}
  <2>1. DOMAIN g = Owner /\ DOMAIN h = Owner' /\ a \in Owner
    BY <1>1, <1>2, ShareIs, ShareNext
  <2>2. b \notin Owner
    BY <1>1, OwnerIs
  <2> QED
    BY <1>6, <2>1, <2>2
<1>8. h[b] = g[a]
  <2>1. h[b] = Memory(job'[t].sh)
    BY <1>1, <1>5, ShareNext
  <2>2. g[a] = Memory(shmem_table[id])
    BY <1>1, <1>2, ShareIs
  <2> QED
    BY <1>4, <1>5, <2>1, <2>2
<1>9. ASSUME NEW o \in DOMAIN g, o # a PROVE h[o] = g[o]
  <2>1. o \in Owner
    BY <1>1, ShareIs
  <2>2. ASSUME NEW i \in DOMAIN shmem_table, o = <<"region", i>> PROVE h[o] = g[o]
    <3>1. g[o] = Memory(shmem_table[i])
      BY <1>1, <2>2, ShareIs
    <3>2. i \in DOMAIN shmem_table'
      BY <1>1, <1>2, <1>9, <2>2
    <3>3. h[o] = Memory(shmem_table'[i])
      BY <1>1, <2>2, <3>2, ShareNext
    <3> QED
      BY <1>2, <3>1, <3>2, <3>3
  <2>3. ASSUME NEW u \in Deletes, o = <<"delete", u>> PROVE h[o] = g[o]
    <3>1. g[o] = Memory(job[u].sh)
      BY <1>1, <2>3, ShareIs
    <3>2. h[o] = Memory(job'[u].sh)
      BY <1>1, <1>5, <2>3, ShareNext
    <3>3. job'[u] = job[u]
      BY <1>5 DEF Deletes
    <3> QED
      BY <3>1, <3>2, <3>3
  <2>4. ASSUME NEW q \in Process, o = <<"pad", q>> PROVE h[o] = g[o]
    <3>1. g[o] = pad[q]
      BY <1>1, <2>4, ShareIs
    <3>2. h[o] = pad'[q]
      BY <1>1, <2>4, ShareNext
    <3> QED
      BY <3>1, <3>2
  <2> QED
    BY <2>1, <2>2, <2>3, <2>4, OwnerIs
<1>10. Exact(used, g)
  BY <1>1, FramesIs
<1>11. Exact(used', h)
  BY <1>7, <1>8, <1>9, <1>10, ExactMove
<1> QED
  BY <1>1, <1>11, FramesIs

LEMMA FramesFreed ==
  ASSUME Types, FramesExact, NEW t \in Thread, t \in Deletes, NEW j, job' = [job EXCEPT ![t] = j],
         j.at \in {"none", "clean"}, used' = used \ Memory(job[t].sh), UNCHANGED <<shmem_table, pad>>
  PROVE  FramesExact'
<1>1. PICK g, h, a : g = Share /\ h = Share' /\ a = <<"delete", t>>
  OBVIOUS
<1>2. (\A u \in Thread : u # t => job'[u] = job[u]) /\ Deletes' = Deletes \ {t}
  BY DeletesAre
<1>3. a \in DOMAIN g /\ g[a] = Memory(job[t].sh) /\ a \in Owner
  BY <1>1, ShareIs
<1>4. Owner' = Owner \ {a}
  <2>1. ASSUME NEW o \in Owner' PROVE o \in Owner \ {a}
    <3>1. ASSUME NEW i \in DOMAIN shmem_table', o = <<"region", i>> PROVE o \in Owner \ {a}
      BY <1>1, <3>1, OwnerIs, ShareIs
    <3>2. ASSUME NEW u \in Deletes', o = <<"delete", u>> PROVE o \in Owner \ {a}
      <4>1. u \in Deletes /\ u # t
        BY <1>2
      <4> QED
        BY <1>1, <3>2, <4>1, OwnerIs, ShareIs
    <3>3. ASSUME NEW q \in Process, o = <<"pad", q>> PROVE o \in Owner \ {a}
      BY <1>1, <3>3, OwnerIs, ShareIs
    <3> QED
      BY <3>1, <3>2, <3>3, OwnerIs
  <2>2. ASSUME NEW o \in Owner, o # a PROVE o \in Owner'
    <3>1. ASSUME NEW i \in DOMAIN shmem_table, o = <<"region", i>> PROVE o \in Owner'
      BY <3>1, ShareNext
    <3>2. ASSUME NEW u \in Deletes, o = <<"delete", u>> PROVE o \in Owner'
      <4>1. u \in Deletes'
        BY <1>1, <1>2, <2>2, <3>2
      <4> QED
        BY <3>2, <4>1, ShareNext
    <3>3. ASSUME NEW q \in Process, o = <<"pad", q>> PROVE o \in Owner'
      BY <3>3, ShareNext
    <3> QED
      BY <3>1, <3>2, <3>3, OwnerIs
  <2> QED
    BY <2>1, <2>2
<1>5. DOMAIN h = DOMAIN g \ {a}
  BY <1>1, <1>4, ShareIs, ShareNext
<1>6. ASSUME NEW o \in DOMAIN g, o # a PROVE h[o] = g[o]
  <2>1. o \in Owner
    BY <1>1, ShareIs
  <2>2. ASSUME NEW i \in DOMAIN shmem_table, o = <<"region", i>> PROVE h[o] = g[o]
    <3>1. g[o] = Memory(shmem_table[i])
      BY <1>1, <2>2, ShareIs
    <3>2. h[o] = Memory(shmem_table'[i])
      BY <1>1, <2>2, ShareNext
    <3> QED
      BY <3>1, <3>2
  <2>3. ASSUME NEW u \in Deletes, o = <<"delete", u>> PROVE h[o] = g[o]
    <3>1. g[o] = Memory(job[u].sh)
      BY <1>1, <2>3, ShareIs
    <3>2. u # t /\ u \in Deletes' /\ u \in Thread
      BY <1>1, <1>2, <1>6, <2>3 DEF Deletes
    <3>3. h[o] = Memory(job'[u].sh)
      BY <1>1, <2>3, <3>2, ShareNext
    <3> QED
      BY <1>2, <3>1, <3>2, <3>3
  <2>4. ASSUME NEW q \in Process, o = <<"pad", q>> PROVE h[o] = g[o]
    <3>1. g[o] = pad[q]
      BY <1>1, <2>4, ShareIs
    <3>2. h[o] = pad'[q]
      BY <1>1, <2>4, ShareNext
    <3> QED
      BY <3>1, <3>2
  <2> QED
    BY <2>1, <2>2, <2>3, <2>4, OwnerIs
<1>7. Exact(used, g) /\ used' = used \ g[a]
  BY <1>1, <1>3, FramesIs
<1>8. Exact(used', h)
  BY <1>3, <1>5, <1>6, <1>7, ExactDrop
<1> QED
  BY <1>1, <1>8, FramesIs

LEMMA FramesRelisted ==
  ASSUME FramesExact, NEW id, NEW r, Relisted(id, r), UNCHANGED <<used, pad, job>>
  PROVE  FramesExact'
<1>1. /\ DOMAIN shmem_table' = DOMAIN shmem_table
      /\ \A i \in DOMAIN shmem_table : Memory(shmem_table'[i]) = Memory(shmem_table[i])
  BY AlikeMemory DEF Relisted
<1>2. Deletes' = Deletes /\ \A t \in Deletes : job'[t].sh = job[t].sh
  BY DEF Deletes
<1> QED
  BY <1>1, <1>2, FramesQuiet

LEMMA FramesStep ==
  ASSUME Types, FramesExact, Next
  PROVE  FramesExact'
<1>0. ASSUME NEW t \in Thread, job[t].at \in {"none", "clean"} PROVE t \notin Deletes
  BY <1>0 DEF Deletes
<1>1. ASSUME NEW t \in Thread, NEW n \in Nat \ {0}, NEW flags \in SUBSET Flag, NEW internal \in BOOLEAN,
             shmem_create(t, n, flags, internal)
      PROVE  FramesExact'
  BY <1>1, Create, FramesCreate
<1>2. ASSUME NEW t \in Thread, NEW id, shmem_request(t, id) PROVE FramesExact'
  <2>1. PICK p : p = Home[t]
    OBVIOUS
  <2>2. UNCHANGED <<used, pad, job>> /\ \E r : Relisted(id, r)
    BY <1>2, <2>1, Request
  <2> QED
    BY <2>2, FramesRelisted
<1>3. ASSUME NEW t \in Thread, NEW id, shmem_release(t, id) PROVE FramesExact'
  <2>1. PICK p : p = Home[t]
    OBVIOUS
  <2>2. UNCHANGED <<used, pad, job>> /\ \E r : Relisted(id, r)
    BY <1>3, <2>1, Release
  <2> QED
    BY <2>2, FramesRelisted
<1>4. ASSUME NEW t \in Thread, NEW id, shmem_delete(t, id) PROVE FramesExact'
  <2>1. UNCHANGED <<used, pad>> /\ Dropped(t, id, "return") /\ job[t] = NoJob
    BY <1>4, Delete
  <2>2. t \notin Deletes
    BY <1>0, <2>1 DEF NoJob
  <2> QED
    BY <2>1, <2>2, FramesDropped
<1>5. ASSUME NEW t \in Thread, NEW id, NEW p \in Process, shmem_grant(t, id, p) PROVE FramesExact'
  <2>1. UNCHANGED <<used, pad, job>> /\ \E r : Relisted(id, r)
    BY <1>5, Grant
  <2> QED
    BY <2>1, FramesRelisted
<1>6. ASSUME NEW t \in Thread, NEW id, NEW p \in Process, shmem_revoke(t, p, id) PROVE FramesExact'
  <2>0. PICK r, x : Relisted(id, r) /\ Revoked(id, p, x)
    BY <1>6, Revoke
  <2>1. /\ Relisted(id, r)
        /\ UNCHANGED <<used, pad>> \/ \E f \in Nat : Given(p, Span(f, shmem_table[id].physical_pages))
    BY <2>0 DEF Revoked
  <2>2. job' = job
    BY <1>6, Revoke
  <2>3. CASE UNCHANGED <<used, pad>>
    BY <2>1, <2>2, <2>3, FramesRelisted
  <2>4. ASSUME NEW f \in Nat, NEW S, S = Span(f, shmem_table[id].physical_pages),
               used' = used \cup S, S \cap used = {}, pad' = [pad EXCEPT ![p] = @ \cup S]
        PROVE  FramesExact'
    <3>1. /\ DOMAIN shmem_table' = DOMAIN shmem_table
          /\ \A i \in DOMAIN shmem_table : Memory(shmem_table'[i]) = Memory(shmem_table[i])
      BY <2>1, AlikeMemory DEF Relisted
    <3>2. Deletes' = Deletes /\ \A u \in Deletes : job'[u].sh = job[u].sh
      BY <2>2 DEF Deletes
    <3>3. DOMAIN pad = Process
      BY DEF Types
    <3> QED
      BY <2>4, <3>1, <3>2, <3>3, FramesPad
  <2> QED
    BY <2>1, <2>3, <2>4 DEF Given
<1>7. ASSUME NEW t \in Thread, Checkout(t) PROVE FramesExact'
  <2>0. PICK j : job' = [job EXCEPT ![t] = j] /\ j.at \in {"checkout", "map"} /\ j.sh = job[t].sh /\ Passed(t, j)
    BY <1>7, CheckoutStep
  <2>1. /\ job' = [job EXCEPT ![t] = j] /\ j.at \in {"checkout", "map"} /\ j.sh = job[t].sh
        /\ \/ UNCHANGED <<used, pad>>
           \/ \E f \in Nat, q \in Process : Given(q, Span(f, job[t].sh.physical_pages))
    BY <2>0 DEF Passed
  <2>2. job[t].at = "checkout" /\ shmem_table' = shmem_table
    BY <1>7, CheckoutStep
  <2>3. t \in Deletes
    BY <2>2 DEF Deletes
  <2>4. Deletes' = Deletes /\ \A u \in Deletes : job'[u].sh = job[u].sh
    <3>1. job'[t] = j /\ (\A u \in Thread : u # t => job'[u] = job[u]) /\ Deletes' = Deletes \cup {t}
      BY <2>1, DeletesAre
    <3> QED
      BY <2>1, <2>3, <3>1 DEF Deletes
  <2>5. /\ DOMAIN shmem_table' = DOMAIN shmem_table
        /\ \A i \in DOMAIN shmem_table : Memory(shmem_table'[i]) = Memory(shmem_table[i])
    BY <2>2
  <2>6. CASE UNCHANGED <<used, pad>>
    BY <2>4, <2>5, <2>6, FramesQuiet
  <2>7. ASSUME NEW f \in Nat, NEW q \in Process, NEW S, S = Span(f, job[t].sh.physical_pages),
               used' = used \cup S, S \cap used = {}, pad' = [pad EXCEPT ![q] = @ \cup S]
        PROVE  FramesExact'
    <3>1. DOMAIN pad = Process
      BY DEF Types
    <3> QED
      BY <2>4, <2>5, <2>7, <3>1, FramesPad
  <2> QED
    BY <2>1, <2>6, <2>7 DEF Given
<1>8. ASSUME NEW t \in Thread, NEW j, job' = [job EXCEPT ![t] = j], UNCHANGED <<used, pad>>,
             DOMAIN shmem_table' = DOMAIN shmem_table,
             \A i \in DOMAIN shmem_table : Alike(shmem_table[i], shmem_table'[i]),
             \/ t \in Deletes /\ j.at \in {"checkout", "map", "commit", "free"} /\ j.sh = job[t].sh
             \/ t \notin Deletes /\ j.at \in {"none", "clean"}
      PROVE  FramesExact'
  <2>1. /\ job'[t] = j /\ \A u \in Thread : u # t => job'[u] = job[u]
        /\ j.at \in {"checkout", "map", "commit", "free"} => Deletes' = Deletes \cup {t}
        /\ j.at \notin {"checkout", "map", "commit", "free"} => Deletes' = Deletes \ {t}
    BY <1>8, DeletesAre
  <2>2. Deletes' = Deletes
    BY <1>8, <2>1
  <2>3. \A u \in Deletes : job'[u].sh = job[u].sh
    BY <1>8, <2>1 DEF Deletes
  <2>4. \A i \in DOMAIN shmem_table : Memory(shmem_table'[i]) = Memory(shmem_table[i])
    BY <1>8, AlikeMemory
  <2> QED
    BY <1>8, <2>2, <2>3, <2>4, FramesQuiet
<1>9. shmem_table' = shmem_table => \A i \in DOMAIN shmem_table : Alike(shmem_table[i], shmem_table'[i])
  BY DEF Alike
<1>10. ASSUME NEW t \in Thread, MapScratch(t) \/ Commit(t) PROVE FramesExact'
  <2>1. PICK j : /\ job' = [job EXCEPT ![t] = j] /\ j.at \in {"commit", "free"} /\ j.sh = job[t].sh
                 /\ UNCHANGED <<used, pad, shmem_table>> /\ job[t].at \in {"map", "commit"}
    <3>1. CASE MapScratch(t)
      <4>1. PICK j : j = [job[t] EXCEPT !.at = "commit"]
        OBVIOUS
      <4>2. /\ job[t].at = "map" /\ UNCHANGED <<used, pad, shmem_table>> /\ job' = [job EXCEPT ![t] = j]
        BY <3>1, <4>1 DEF MapScratch, At
      <4>3. job[t] \in DeleteType
        BY <4>2, Deleting
      <4>4. j.at = "commit" /\ j.sh = job[t].sh
        BY <4>1, <4>3 DEF DeleteType
      <4> QED
        BY <4>2, <4>4
    <3>2. CASE Commit(t)
      BY <3>2, CommitStep
    <3> QED
      BY <1>10, <3>1, <3>2
  <2>2. t \in Deletes
    BY <2>1 DEF Deletes
  <2> QED
    BY <1>8, <1>9, <2>1, <2>2
<1>11. ASSUME NEW t \in Thread, Free(t) PROVE FramesExact'
  <2>1. t \in Deletes
    BY <1>11, FreeStep DEF Deletes
  <2> QED
    BY <1>11, <2>1, FreeStep, FramesFreed
<1>12. ASSUME NEW t \in Thread, NEW p \in Process, shmem_clean(t, p) PROVE FramesExact'
  <2>1. t \notin Deletes
    BY <1>0, <1>12, CleanStart DEF NoJob
  <2> QED
    BY <1>8, <1>9, <1>12, <2>1, CleanStart
<1>13. ASSUME NEW t \in Thread, CleanNext(t) PROVE FramesExact'
  <2>1. PICK id : Dropped(t, id, "clean") /\ UNCHANGED <<used, pad>> /\ job[t].at = "clean"
    BY <1>13, CleanOne
  <2>2. t \notin Deletes
    BY <1>0, <2>1
  <2> QED
    BY <2>1, <2>2, FramesDropped
<1>14. ASSUME NEW t \in Thread, CleanDone(t) PROVE FramesExact'
  <2>1. PICK p : p = job[t].pid
    OBVIOUS
  <2>2. /\ DOMAIN shmem_table' = DOMAIN shmem_table /\ \A i \in DOMAIN shmem_table : Alike(shmem_table[i], shmem_table'[i])
        /\ job' = [job EXCEPT ![t] = NoJob] /\ UNCHANGED <<used, pad>> /\ job[t].at = "clean"
    BY <1>14, <2>1, CleanLast
  <2>3. t \notin Deletes /\ NoJob.at = "none"
    BY <1>0, <2>2 DEF NoJob
  <2> QED
    BY <1>8, <2>2, <2>3
<1>15. ASSUME NEW p \in Process, exit(p) PROVE FramesExact'
  <2>1. UNCHANGED <<shmem_table, used, job, pad>>
    BY <1>15, Exit
  <2>2. Deletes' = Deletes
    BY <2>1 DEF Deletes
  <2> QED
    BY <2>1, <2>2, FramesQuiet
<1> QED
  BY <1>1, <1>2, <1>3, <1>4, <1>5, <1>6, <1>7, <1>10, <1>11, <1>12, <1>13, <1>14, <1>15, NextIs

-----------------------------------------------------------------------------
(* The users of a region that is deleted. *)
LEMMA VisitedFrame ==
  ASSUME AllVisited, alive' \subseteq alive, excused \subseteq excused', \A p \in Process : pad[p] \subseteq pad'[p],
         NEW u \in Thread, job'[u] = job[u], job[u].at \in {"checkout", "map"}
  PROVE  Visited(u)'
<1>1. Visited(u)
  BY DEF AllVisited
<1> QED
  BY <1>1 DEF Visited

LEMMA VisitedQuiet ==
  ASSUME AllVisited, alive' \subseteq alive, excused \subseteq excused', \A p \in Process : pad[p] \subseteq pad'[p],
         \A u \in Thread : job'[u] = job[u] \/ job'[u].at \notin {"checkout", "map"}
  PROVE  AllVisited'
<1>1. ASSUME NEW u \in Thread, job'[u].at \in {"checkout", "map"} PROVE Visited(u)'
  BY <1>1, VisitedFrame
<1> QED
  BY <1>1 DEF AllVisited

LEMMA VisitedDropped ==
  ASSUME Types, AllVisited, NEW t \in Thread, NEW id, NEW then \in {"return", "clean"}, Dropped(t, id, then),
         UNCHANGED <<alive, excused, pad>>
  PROVE  AllVisited'
<1>1. PICK j : j = Removed(id, then)
  OBVIOUS
<1>2. j.i = 1 /\ j.at = "checkout" /\ (\A p \in Process : j.tmp2[p] = 0) /\ j.sh = shmem_table[id]
  BY <1>1, RemovedIs DEF Dropped
<1>3. job'[t] = j /\ \A u \in Thread : u # t => job'[u] = job[u]
  BY <1>1 DEF Dropped, Types
<1>4. Visited(t)'
  BY <1>2, <1>3 DEF Visited
<1>5. ASSUME NEW u \in Thread, u # t, job'[u].at \in {"checkout", "map"} PROVE Visited(u)'
  BY <1>3, <1>5, VisitedFrame
<1> QED
  BY <1>4, <1>5 DEF AllVisited

LEMMA VisitedCheckout ==
  ASSUME Types, AllVisited, NEW t \in Thread, Checkout(t)
  PROVE  AllVisited'
<1>1. job[t].at = "checkout" /\ alive' = alive
  BY CheckoutStep
<1>2. PICK j : job' = [job EXCEPT ![t] = j] /\ j.at \in {"checkout", "map"} /\ j.sh = job[t].sh /\ Passed(t, j)
  BY CheckoutStep
<1>3. job'[t] = j /\ \A u \in Thread : u # t => job'[u] = job[u]
  BY <1>2 DEF Types
<1>4. PICK o, list, n : o = job[t] /\ list = o.sh.list /\ n = o.sh.physical_pages
  OBVIOUS
<1>5. /\ list \in Seq(InfoType) /\ Len(list) \in Nat /\ o.i \in Nat \ {0} /\ n \in Nat /\ o.tmp2 \in [Process -> Nat]
  BY <1>1, <1>4, DeletingIs
<1>6. /\ \A k \in 1 .. Len(list) : k < o.i =>
           \/ list[k].usage <= 0 \/ list[k].pid \notin alive \/ list[k].pid \in excused
           \/ list[k].pid \in o.out /\ o.tmp2[list[k].pid] # 0
      /\ \A p \in Process : o.tmp2[p] # 0 =>
           Span(o.tmp2[p], n) \subseteq pad[p] /\ \E k \in 1 .. Len(list) : list[k].pid = p
  <2>1. Visited(t)
    BY <1>1 DEF AllVisited
  <2> QED
    BY <1>4, <2>1 DEF Visited
<1>7. \A k \in 1 .. Len(list) : list[k].pid \in Process
  <2>1. \A k \in 1 .. Len(list) : list[k] \in InfoType
    BY <1>5
  <2> QED
    BY <2>1 DEF InfoType
<1>8. SUFFICES
        /\ excused \subseteq excused' /\ \A p \in Process : pad[p] \subseteq pad'[p]
        /\ \A k \in 1 .. Len(list) : j.at = "map" \/ k < j.i =>
             \/ list[k].usage <= 0 \/ list[k].pid \notin alive \/ list[k].pid \in excused'
             \/ list[k].pid \in j.out /\ j.tmp2[list[k].pid] # 0
        /\ \A p \in Process : j.tmp2[p] # 0 =>
             Span(j.tmp2[p], n) \subseteq pad'[p] /\ \E k \in 1 .. Len(list) : list[k].pid = p
  <2> SUFFICES AllVisited'
    OBVIOUS
  <2>1. Visited(t)'
    BY <1>1, <1>2, <1>3, <1>4, <1>8, SMTT(30) DEF Visited
  <2>2. ASSUME NEW u \in Thread, u # t, job'[u].at \in {"checkout", "map"} PROVE Visited(u)'
    BY <1>1, <1>3, <1>8, <2>2, VisitedFrame
  <2> QED
    BY <2>1, <2>2 DEF AllVisited
<1>9. CASE o.i > Len(list) /\ j.at = "map" /\ j.tmp2 = o.tmp2 /\ j.out = o.out /\ UNCHANGED <<used, pad, excused>>
  <2>1. \A k \in 1 .. Len(list) : k < o.i
    BY <1>5, <1>9
  <2> QED
    BY <1>6, <1>9, <2>1
<1>10. CASE /\ o.i \in 1 .. Len(list) /\ j.at = "checkout" /\ j.i = o.i + 1 /\ j.tmp2 = o.tmp2 /\ j.out = o.out
            /\ list[o.i].usage <= 0 \/ list[o.i].pid \notin alive
            /\ UNCHANGED <<used, pad, excused>>
  <2>1. \A k \in 1 .. Len(list) : k < j.i => k < o.i \/ k = o.i
    BY <1>5, <1>10
  <2> QED
    BY <1>6, <1>10, <2>1
<1>11. ASSUME NEW f \in Nat, NEW q \in Process, o.i \in 1 .. Len(list), j.at = "checkout", j.i = o.i + 1,
              q = list[o.i].pid, j.out = o.out \cup {q}, j.tmp2 = [o.tmp2 EXCEPT ![q] = f],
              \/ f = 0 /\ excused' = excused \cup {q} /\ UNCHANGED <<used, pad>>
              \/ f # 0 /\ Given(q, Span(f, n)) /\ UNCHANGED excused
       PROVE  /\ excused \subseteq excused' /\ \A p \in Process : pad[p] \subseteq pad'[p]
              /\ \A k \in 1 .. Len(list) : j.at = "map" \/ k < j.i =>
                   \/ list[k].usage <= 0 \/ list[k].pid \notin alive \/ list[k].pid \in excused'
                   \/ list[k].pid \in j.out /\ j.tmp2[list[k].pid] # 0
              /\ \A p \in Process : j.tmp2[p] # 0 =>
                   Span(j.tmp2[p], n) \subseteq pad'[p] /\ \E k \in 1 .. Len(list) : list[k].pid = p
  <2>1. j.tmp2[q] = f /\ \A p \in Process : p # q => j.tmp2[p] = o.tmp2[p]
    BY <1>5, <1>11
  <2>2. /\ excused \subseteq excused' /\ \A p \in Process : pad[p] \subseteq pad'[p]
        /\ f = 0 => q \in excused'
        /\ f # 0 => Span(f, n) \subseteq pad'[q]
    BY <1>11 DEF Given, Types
  <2>3. ASSUME NEW k \in 1 .. Len(list), k < j.i
        PROVE  \/ list[k].usage <= 0 \/ list[k].pid \notin alive \/ list[k].pid \in excused'
               \/ list[k].pid \in j.out /\ j.tmp2[list[k].pid] # 0
    <3>1. CASE list[k].pid = q
      BY <1>11, <2>1, <2>2, <3>1
    <3>2. CASE list[k].pid # q
      <4>1. k < o.i
        BY <1>5, <1>11, <2>3, <3>2
      <4>2. list[k].pid \in Process
        BY <1>7
      <4>3. \/ list[k].usage <= 0 \/ list[k].pid \notin alive \/ list[k].pid \in excused
            \/ list[k].pid \in o.out /\ o.tmp2[list[k].pid] # 0
        BY <1>6, <4>1
      <4> QED
        BY <1>11, <2>1, <2>2, <3>2, <4>2, <4>3
    <3> QED
      BY <3>1, <3>2
  <2>4. ASSUME NEW p \in Process, j.tmp2[p] # 0
        PROVE  Span(j.tmp2[p], n) \subseteq pad'[p] /\ \E k \in 1 .. Len(list) : list[k].pid = p
    <3>1. CASE p = q
      BY <1>11, <2>1, <2>2, <2>4, <3>1
    <3>2. CASE p # q
      <4>1. j.tmp2[p] = o.tmp2[p]
        BY <2>1, <3>2
      <4> QED
        BY <1>6, <2>2, <2>4, <4>1
    <3> QED
      BY <3>1, <3>2
  <2> QED
    BY <1>11, <2>2, <2>3, <2>4
<1> QED
  BY <1>2, <1>4, <1>9, <1>10, <1>11 DEF Passed

LEMMA TypesStep ==
  ASSUME Types, AllVisited, Next
  PROVE  Types'
<1>1. ASSUME NEW t \in Thread, NEW n \in Nat \ {0}, NEW flags \in SUBSET Flag, NEW internal \in BOOLEAN,
             shmem_create(t, n, flags, internal)
      PROVE  Types'
  BY <1>1, Create
<1>2. ASSUME NEW t \in Thread, NEW id, shmem_request(t, id) PROVE Types'
  <2>1. PICK p : p = Home[t]
    OBVIOUS
  <2> QED
    BY <1>2, <2>1, Request
<1>3. ASSUME NEW t \in Thread, NEW id, shmem_release(t, id) PROVE Types'
  <2>1. PICK p : p = Home[t]
    OBVIOUS
  <2> QED
    BY <1>3, <2>1, Release
<1>4. ASSUME NEW t \in Thread, NEW id, shmem_delete(t, id) PROVE Types'
  BY <1>4, Delete
<1>5. ASSUME NEW t \in Thread, NEW id, NEW p \in Process, shmem_grant(t, id, p) PROVE Types'
  BY <1>5, Grant
<1>6. ASSUME NEW t \in Thread, NEW id, NEW p \in Process, shmem_revoke(t, p, id) PROVE Types'
  BY <1>6, Revoke
<1>7. ASSUME NEW t \in Thread, Checkout(t) PROVE Types'
  BY <1>7, CheckoutStep
<1>8. ASSUME NEW t \in Thread, MapScratch(t) PROVE Types'
  BY <1>8, MapStep
<1>9. ASSUME NEW t \in Thread, Commit(t) PROVE Types'
  BY <1>9, CommitStep
<1>10. ASSUME NEW t \in Thread, Free(t) PROVE Types'
  BY <1>10, FreeStep
<1>11. ASSUME NEW t \in Thread, NEW p \in Process, shmem_clean(t, p) PROVE Types'
  BY <1>11, CleanStart
<1>12. ASSUME NEW t \in Thread, CleanNext(t) PROVE Types'
  BY <1>12, CleanOne
<1>13. ASSUME NEW t \in Thread, CleanDone(t) PROVE Types'
  <2>1. PICK p : p = job[t].pid
    OBVIOUS
  <2> QED
    BY <1>13, <2>1, CleanLast
<1>14. ASSUME NEW p \in Process, exit(p) PROVE Types'
  BY <1>14, Exit
<1> QED
  BY <1>1, <1>2, <1>3, <1>4, <1>5, <1>6, <1>7, <1>8, <1>9, <1>10, <1>11, <1>12, <1>13, <1>14, NextIs

LEMMA VisitedStep ==
  ASSUME Types, AllVisited, Next
  PROVE  AllVisited'
<1>0. ASSUME alive' \subseteq alive, excused \subseteq excused', pad' = pad, job' = job PROVE AllVisited'
  BY <1>0, VisitedQuiet
<1>a. ASSUME NEW t \in Thread, NEW j, job' = [job EXCEPT ![t] = j], j.at \notin {"checkout", "map"},
             UNCHANGED <<alive, excused, pad>>
      PROVE  AllVisited'
  <2>1. \A u \in Thread : job'[u] = job[u] \/ job'[u].at \notin {"checkout", "map"}
    BY <1>a DEF Types
  <2> QED
    BY <1>a, <2>1, VisitedQuiet
<1>1. ASSUME NEW t \in Thread, NEW n \in Nat \ {0}, NEW flags \in SUBSET Flag, NEW internal \in BOOLEAN,
             shmem_create(t, n, flags, internal)
      PROVE  AllVisited'
  BY <1>0, <1>1, Create
<1>2. ASSUME NEW t \in Thread, NEW id, shmem_request(t, id) PROVE AllVisited'
  BY <1>0, <1>2 DEF shmem_request
<1>3. ASSUME NEW t \in Thread, NEW id, shmem_release(t, id) PROVE AllVisited'
  <2>1. UNCHANGED <<alive, job, pad>> /\ excused \subseteq excused'
    BY <1>3 DEF shmem_release
  <2> QED
    BY <1>0, <2>1
<1>4. ASSUME NEW t \in Thread, NEW id, shmem_delete(t, id) PROVE AllVisited'
  BY <1>4, Delete, VisitedDropped
<1>5. ASSUME NEW t \in Thread, NEW id, NEW p \in Process, shmem_grant(t, id, p) PROVE AllVisited'
  BY <1>0, <1>5, Grant
<1>6. ASSUME NEW t \in Thread, NEW id, NEW p \in Process, shmem_revoke(t, p, id) PROVE AllVisited'
  <2>1. UNCHANGED <<alive, job, excused>>
    BY <1>6, Revoke
  <2>2. PICK S : pad' = pad \/ pad' = [pad EXCEPT ![p] = @ \cup S]
    BY <1>6 DEF shmem_revoke
  <2>3. \A q \in Process : pad[q] \subseteq pad'[q]
    BY <2>2 DEF Types
  <2> QED
    BY <2>1, <2>3, VisitedQuiet
<1>7. ASSUME NEW t \in Thread, Checkout(t) PROVE AllVisited'
  BY <1>7, VisitedCheckout
<1>8. ASSUME NEW t \in Thread, MapScratch(t) PROVE AllVisited'
  BY <1>a, <1>8, MapStep
<1>9. ASSUME NEW t \in Thread, Commit(t) PROVE AllVisited'
  BY <1>a, <1>9, CommitStep
<1>10. ASSUME NEW t \in Thread, Free(t) PROVE AllVisited'
  BY <1>a, <1>10, FreeStep
<1>11. ASSUME NEW t \in Thread, NEW p \in Process, shmem_clean(t, p) PROVE AllVisited'
  BY <1>a, <1>11, CleanStart
<1>12. ASSUME NEW t \in Thread, CleanNext(t) PROVE AllVisited'
  BY <1>12, CleanOne, VisitedDropped
<1>13. ASSUME NEW t \in Thread, CleanDone(t) PROVE AllVisited'
  <2>1. job' = [job EXCEPT ![t] = NoJob] /\ UNCHANGED <<alive, excused, pad>> /\ NoJob.at = "none"
    BY <1>13 DEF CleanDone, NoJob
  <2> QED
    BY <1>a, <2>1
<1>14. ASSUME NEW p \in Process, exit(p) PROVE AllVisited'
  <2>1. alive' \subseteq alive /\ UNCHANGED <<excused, pad, job>>
    BY <1>14, Exit
  <2> QED
    BY <1>0, <2>1
<1> QED
  BY <1>1, <1>2, <1>3, <1>4, <1>5, <1>6, <1>7, <1>8, <1>9, <1>10, <1>11, <1>12, <1>13, <1>14, NextIs

LEMMA CountedRelisted ==
  ASSUME Counted, excused \subseteq excused', NEW id, NEW r, Relisted(id, r),
         \A y \in ToSet(r) : y \in ToSet(shmem_table[id].list) \/ y.usage >= 0 \/ y.pid \in excused'
  PROVE  Counted'
<1>1. ASSUME NEW i \in DOMAIN shmem_table', NEW y \in ToSet(shmem_table'[i].list)
      PROVE  y.usage >= 0 \/ y.pid \in excused'
  <2>1. CASE i = id
    BY <1>1, <2>1 DEF Relisted, Counted, Infos
  <2>2. CASE i # id
    BY <1>1, <2>2 DEF Relisted, Counted, Infos
  <2> QED
    BY <2>1, <2>2
<1> QED
  BY <1>1 DEF Counted, Infos

LEMMA CountedQuiet ==
  ASSUME Counted, excused \subseteq excused',
         \A i \in DOMAIN shmem_table' : i \in DOMAIN shmem_table /\ shmem_table'[i].list = shmem_table[i].list
  PROVE  Counted'
BY DEF Counted, Infos

LEMMA CountedStep ==
  ASSUME Types, AllVisited, Counted, Next
  PROVE  Counted'
<1>0. ASSUME excused \subseteq excused', shmem_table' = shmem_table PROVE Counted'
  BY <1>0, CountedQuiet
<1>1. ASSUME NEW t \in Thread, NEW n \in Nat \ {0}, NEW flags \in SUBSET Flag, NEW internal \in BOOLEAN,
             shmem_create(t, n, flags, internal)
      PROVE  Counted'
  <2>1. /\ DOMAIN shmem_table' = DOMAIN shmem_table \cup {shmem_id} /\ excused' = excused
        /\ \A i \in DOMAIN shmem_table : shmem_table'[i] = shmem_table[i]
        /\ ToSet(shmem_table'[shmem_id].list) = {}
    BY <1>1, Create
  <2> QED
    BY <2>1 DEF Counted, Infos
<1>2. ASSUME NEW t \in Thread, NEW id, shmem_request(t, id) PROVE Counted'
  <2>1. PICK p : p = Home[t]
    OBVIOUS
  <2>2. p \in Process
    BY <2>1, HomeAssumption
  <2>3. PICK r, x, y :
          /\ Relisted(id, r) /\ x.pid = p /\ y.pid = p /\ x \in ToSet(shmem_table[id].list) \cup {Info(p)}
          /\ x \in InfoType /\ ToSet(r) \subseteq ToSet(shmem_table[id].list) \cup {y, Info(p)}
          /\ Requested(id, p, x, y)
    BY <1>2, <2>1, Request
  <2>4. excused' = excused
    BY <1>2, <2>1, Request
  <2>5. Info(p).usage = 0
    BY <2>2, InfoIs
  <2>6. x.usage >= 0 \/ p \in excused
    BY <2>3, <2>5 DEF Counted, Infos, Relisted
  <2>7. x.usage \in Int
    BY <2>3 DEF InfoType
  <2>8. y.usage >= 0 \/ y.pid \in excused
    BY <2>3, <2>6, <2>7 DEF Requested
  <2>9. \A z \in ToSet(r) : z \in ToSet(shmem_table[id].list) \/ z.usage >= 0 \/ z.pid \in excused'
    BY <2>3, <2>4, <2>5, <2>8
  <2> QED
    BY <2>3, <2>4, <2>9, CountedRelisted
<1>3. ASSUME NEW t \in Thread, NEW id, shmem_release(t, id) PROVE Counted'
  <2>1. PICK p : p = Home[t]
    OBVIOUS
  <2>2. PICK r, x, y :
          /\ Relisted(id, r) /\ x.pid = p /\ y.pid = p /\ x \in ToSet(shmem_table[id].list)
          /\ x \in InfoType /\ y \in InfoType
          /\ ToSet(r) = (ToSet(shmem_table[id].list) \ {x}) \cup {y}
          /\ Released(p, x, y)
          /\ excused' = IF x.usage <= 0 THEN excused \cup {p} ELSE excused
    BY <1>3, <2>1, Release
  <2>3. x.usage \in Int
    BY <2>2 DEF InfoType
  <2>4. y.usage >= 0 \/ y.pid \in excused'
    BY <2>2, <2>3 DEF Released
  <2>5. excused \subseteq excused' /\ \A z \in ToSet(r) : z \in ToSet(shmem_table[id].list) \/ z.usage >= 0 \/ z.pid \in excused'
    BY <2>2, <2>4
  <2> QED
    BY <2>2, <2>5, CountedRelisted
<1>4. ASSUME NEW t \in Thread, NEW id, shmem_delete(t, id) PROVE Counted'
  BY <1>4, Delete, CountedQuiet DEF Dropped
<1>5. ASSUME NEW t \in Thread, NEW id, NEW p \in Process, shmem_grant(t, id, p) PROVE Counted'
  <2>1. PICK r : Relisted(id, r) /\ ToSet(r) = ToSet(shmem_table[id].list) \cup {Info(p)}
    BY <1>5, Grant
  <2>2. excused' = excused /\ Info(p).usage = 0
    BY <1>5, Grant, InfoIs
  <2> QED
    BY <2>1, <2>2, CountedRelisted
<1>6. ASSUME NEW t \in Thread, NEW id, NEW p \in Process, shmem_revoke(t, p, id) PROVE Counted'
  <2>1. PICK r, x : Relisted(id, r) /\ ToSet(r) = ToSet(shmem_table[id].list) \ {x}
    BY <1>6, Revoke
  <2>2. excused' = excused
    BY <1>6, Revoke
  <2> QED
    BY <2>1, <2>2, CountedRelisted
<1>7. ASSUME NEW t \in Thread, Checkout(t) PROVE Counted'
  <2>1. shmem_table' = shmem_table /\ excused \subseteq excused'
    BY <1>7 DEF Checkout
  <2> QED
    BY <1>0, <2>1
<1>8. ASSUME NEW t \in Thread, MapScratch(t) \/ Commit(t) \/ Free(t) PROVE Counted'
  BY <1>0, <1>8 DEF MapScratch, Commit, Free
<1>9. ASSUME NEW t \in Thread, NEW p \in Process, shmem_clean(t, p) PROVE Counted'
  BY <1>0, <1>9, CleanStart
<1>10. ASSUME NEW t \in Thread, CleanNext(t) PROVE Counted'
  BY <1>10, CleanOne, CountedQuiet DEF Dropped
<1>11. ASSUME NEW t \in Thread, CleanDone(t) PROVE Counted'
  <2>1. PICK p : p = job[t].pid
    OBVIOUS
  <2> QED
    BY <1>11, <2>1, CleanLast, CountedQuiet
<1>12. ASSUME NEW p \in Process, exit(p) PROVE Counted'
  BY <1>0, <1>12, Exit
<1> QED
  BY <1>1, <1>2, <1>3, <1>4, <1>5, <1>6, <1>7, <1>8, <1>9, <1>10, <1>11, <1>12, NextIs

-----------------------------------------------------------------------------
(* What processes see.  A region at l has x among its users:               *)
Seen(l, x) == \E sh \in Live : sh.physical_location = l /\ x \in Infos(sh)
Covers(x, p, v) == x.pid = p /\ x.usage > 0 /\ v \in Span(x.virtual_location, x.virtual_pages)

LEMMA ShownFrame ==
  ASSUME Shown, alive' \subseteq alive, excused \subseteq excused', \A p \in alive : pad[p] \subseteq pad'[p],
         \A p \in alive' \ excused', v \in PageSpace : map'[p][v] # 0 =>
           \/ map'[p][v] \in pad'[p]
           \/ \E l, x : Seen(l, x)' /\ Covers(x, p, v) /\ map'[p][v] = l + (v - x.virtual_location)
           \/ /\ map'[p][v] = map[p][v]
              /\ \A l, x : Seen(l, x) /\ Covers(x, p, v) =>
                   \E y : Seen(l, y)' /\ Covers(y, p, v) /\ y.virtual_location = x.virtual_location
  PROVE  Shown'
<1> SUFFICES ASSUME NEW p \in alive' \ excused', NEW v \in PageSpace, map'[p][v] # 0
             PROVE  \/ map'[p][v] \in pad'[p]
                    \/ \E sh \in Live' : \E info \in Infos(sh) : Shows(p, v, sh.physical_location, info)'
  BY DEF Shown, Infos
<1>1. ASSUME NEW l, NEW x, Seen(l, x)', Covers(x, p, v), map'[p][v] = l + (v - x.virtual_location)
      PROVE  \E sh \in Live' : \E info \in Infos(sh) : Shows(p, v, sh.physical_location, info)'
  <2>1. PICK sh \in Live' : sh.physical_location = l /\ x \in Infos(sh)
    BY <1>1 DEF Seen, Infos
  <2>2. Shows(p, v, sh.physical_location, x)'
    BY <1>1, <2>1 DEF Shows, Covers
  <2> QED
    BY <2>1, <2>2
<1>2. ASSUME map'[p][v] = map[p][v], map'[p][v] \notin pad'[p],
             \A l, x : Seen(l, x) /\ Covers(x, p, v) =>
               \E y : Seen(l, y)' /\ Covers(y, p, v) /\ y.virtual_location = x.virtual_location
      PROVE  \E sh \in Live' : \E info \in Infos(sh) : Shows(p, v, sh.physical_location, info)'
  <2>0. PICK sh \in Live : \E x \in Infos(sh) : Shows(p, v, sh.physical_location, x)
    BY <1>2 DEF Shown
  <2>1. PICK x \in Infos(sh) : Shows(p, v, sh.physical_location, x)
    BY <2>0
  <2>2. PICK l : l = sh.physical_location
    OBVIOUS
  <2>3. Seen(l, x) /\ Covers(x, p, v) /\ map[p][v] = l + (v - x.virtual_location)
    BY <2>1, <2>2 DEF Seen, Covers, Shows
  <2>4. PICK y : Seen(l, y)' /\ Covers(y, p, v) /\ y.virtual_location = x.virtual_location
    BY <1>2, <2>3
  <2> QED
    BY <1>1, <1>2, <2>3, <2>4
<1> QED
  BY <1>1, <1>2

LEMMA LiveIs ==
  /\ \A id \in DOMAIN shmem_table : shmem_table[id] \in Live
  /\ \A u \in Thread : job[u].at \in {"checkout", "map"} => job[u].sh \in Live
  /\ \A sh \in Live : \/ \E id \in DOMAIN shmem_table : sh = shmem_table[id]
                      \/ \E u \in Thread : job[u].at \in {"checkout", "map"} /\ sh = job[u].sh
  /\ \A id \in DOMAIN shmem_table' : shmem_table'[id] \in Live'
  /\ \A u \in Thread : job'[u].at \in {"checkout", "map"} => job'[u].sh \in Live'
BY DEF Live

LEMMA SeenIn ==
  ASSUME NEW sh \in Live', NEW x \in ToSet(sh.list)
  PROVE  Seen(sh.physical_location, x)'
BY DEF Seen, Infos

(* Users are seen as before, but those of what region id has lost. *)
LEMMA SeenRelisted ==
  ASSUME Types, NEW id, NEW r, Relisted(id, r), job' = job, NEW at, at = shmem_table[id].physical_location
  PROVE  /\ \A l, x : Seen(l, x) => Seen(l, x)' \/ (x \in ToSet(shmem_table[id].list) \ ToSet(r) /\ l = at)
         /\ \A x \in ToSet(r) : Seen(at, x)'
<1>1. PICK b, a : b = shmem_table'[id] /\ a = shmem_table[id]
  OBVIOUS
<1>2. b \in Live' /\ b.physical_location = at /\ a.physical_location = at /\ b.list = r
  BY <1>1, LiveIs DEF Relisted, Alike
<1>3. \A x \in ToSet(r) : Seen(at, x)'
  BY <1>2, SeenIn
<1>4. ASSUME NEW l, NEW x, Seen(l, x)
      PROVE  Seen(l, x)' \/ (x \in ToSet(a.list) \ ToSet(r) /\ l = at)
  <2>1. PICK sh \in Live : sh.physical_location = l /\ x \in ToSet(sh.list)
    BY <1>4 DEF Seen, Infos
  <2>2. CASE sh = a
    BY <1>2, <1>3, <2>1, <2>2
  <2>3. CASE sh \in Live'
    BY <2>1, <2>3, SeenIn
  <2>4. sh = a \/ sh \in Live'
    <3>1. ASSUME NEW i \in DOMAIN shmem_table, sh = shmem_table[i] PROVE sh = a \/ sh \in Live'
      <4>1. i # id => shmem_table'[i] = shmem_table[i] /\ i \in DOMAIN shmem_table'
        BY DEF Relisted
      <4> QED
        BY <1>1, <3>1, <4>1, LiveIs
    <3>2. ASSUME NEW u \in Thread, job[u].at \in {"checkout", "map"}, sh = job[u].sh PROVE sh \in Live'
      BY <3>2, LiveIs
    <3> QED
      BY <3>1, <3>2, LiveIs
  <2> QED
    BY <2>2, <2>3, <2>4
<1> QED
  BY <1>1, <1>3, <1>4

(* The job of thread t changes; nobody is lost but those of the region it  *)
(* has had.                                                                *)
LEMMA SeenJob ==
  ASSUME Types, NEW t \in Thread, NEW j, job' = [job EXCEPT ![t] = j],
         \A i \in DOMAIN shmem_table :
           \/ i \in DOMAIN shmem_table' /\ shmem_table'[i].list = shmem_table[i].list
              /\ shmem_table'[i].physical_location = shmem_table[i].physical_location
           \/ j.at \in {"checkout", "map"} /\ j.sh = shmem_table[i],
         NEW l, NEW x, Seen(l, x)
  PROVE  \/ Seen(l, x)'
         \/ /\ job[t].at \in {"checkout", "map"} /\ ~ (j.at \in {"checkout", "map"} /\ j.sh = job[t].sh)
            /\ l = job[t].sh.physical_location /\ x \in ToSet(job[t].sh.list)
<1>1. PICK sh \in Live : sh.physical_location = l /\ x \in ToSet(sh.list)
  BY DEF Seen, Infos
<1>2. job'[t] = j /\ \A u \in Thread : u # t => job'[u] = job[u]
  BY DEF Types
<1>3. j.at \in {"checkout", "map"} => j.sh \in Live'
  BY <1>2, LiveIs
<1>4. ASSUME NEW i \in DOMAIN shmem_table, sh = shmem_table[i] PROVE Seen(l, x)'
  <2>1. CASE j.at \in {"checkout", "map"} /\ j.sh = shmem_table[i]
    BY <1>1, <1>3, <1>4, <2>1, SeenIn
  <2>2. CASE i \in DOMAIN shmem_table' /\ shmem_table'[i].list = shmem_table[i].list
             /\ shmem_table'[i].physical_location = shmem_table[i].physical_location
    <3>1. PICK b : b = shmem_table'[i]
      OBVIOUS
    <3>2. b \in Live' /\ x \in ToSet(b.list) /\ b.physical_location = l
      BY <1>1, <1>4, <2>2, <3>1, LiveIs
    <3> QED
      BY <3>2, SeenIn
  <2> QED
    BY <2>1, <2>2
<1>5. ASSUME NEW u \in Thread, u # t, job[u].at \in {"checkout", "map"}, sh = job[u].sh PROVE Seen(l, x)'
  <2>1. sh \in Live'
    BY <1>2, <1>5, LiveIs
  <2> QED
    BY <1>1, <2>1, SeenIn
<1>6. CASE job[t].at \in {"checkout", "map"} /\ sh = job[t].sh
  <2>1. CASE j.at \in {"checkout", "map"} /\ j.sh = job[t].sh
    BY <1>1, <1>3, <1>6, <2>1, SeenIn
  <2>2. CASE ~ (j.at \in {"checkout", "map"} /\ j.sh = job[t].sh)
    BY <1>1, <1>6, <2>2
  <2> QED
    BY <2>1, <2>2
<1> QED
  BY <1>4, <1>5, <1>6, LiveIs

LEMMA ShownQuiet ==
  ASSUME Shown, alive' \subseteq alive, excused \subseteq excused', \A p \in alive : pad[p] \subseteq pad'[p],
         \A p \in alive' : map'[p] = map[p], \A l, x : Seen(l, x) => Seen(l, x)'
  PROVE  Shown'
<1>1. ASSUME NEW p \in alive', NEW v \in PageSpace
      PROVE  /\ map'[p][v] = map[p][v]
             /\ \A l, x : Seen(l, x) /\ Covers(x, p, v) =>
                  \E y : Seen(l, y)' /\ Covers(y, p, v) /\ y.virtual_location = x.virtual_location
  OBVIOUS
<1> QED
  BY <1>1, ShownFrame

LEMMA SeenGrows ==
  ASSUME Live \subseteq Live'
  PROVE  \A l, x : Seen(l, x) => Seen(l, x)'
BY DEF Seen, Infos

(* A user who has one page has all. *)
LEMMA SpanOf ==
  ASSUME NEW x \in InfoType, NEW n \in Nat, x.virtual_pages \in {-1, n}, NEW v \in Int,
         v \in Span(x.virtual_location, x.virtual_pages), NEW f \in Nat
  PROVE  x.virtual_pages = n /\ f + (v - x.virtual_location) \in Span(f, n)
<1>1. x.virtual_location \in Nat
  BY DEF InfoType
<1> QED
  BY <1>1 DEF Span

LEMMA PageIs ==
  ASSUME NEW v \in PageSpace
  PROVE  v \in Int
BY PageAssumption DEF PageSpace

LEMMA ShownRevoke ==
  ASSUME Types, Shown, NEW t \in Thread, NEW id, NEW p \in Process, shmem_revoke(t, p, id)
  PROVE  Shown'
<1>1. PICK r, x : /\ Relisted(id, r) /\ x \in ToSet(shmem_table[id].list)
                  /\ x.pid = p /\ x \in InfoType /\ x.virtual_pages \in {-1, shmem_table[id].physical_pages}
                  /\ ToSet(r) = ToSet(shmem_table[id].list) \ {x} /\ Revoked(id, p, x)
  BY Revoke
<1>2. UNCHANGED <<alive, job, excused>> /\ alive \subseteq Process
  BY Revoke DEF Types
<1>3. \A l, y : Seen(l, y) => Seen(l, y)' \/ y = x
  <2>1. PICK at : at = shmem_table[id].physical_location
    OBVIOUS
  <2> QED
    BY <1>1, <1>2, <2>1, SeenRelisted
<1>4. CASE x.usage <= 0 /\ UNCHANGED <<map, used, pad>>
  <2>1. \A q, v : ~ Covers(x, q, v)
    <3>1. x.usage \in Int
      BY <1>1 DEF InfoType
    <3> QED
      BY <1>4, <3>1 DEF Covers
  <2>2. ASSUME NEW q \in alive', NEW v \in PageSpace
        PROVE  /\ map'[q][v] = map[q][v]
               /\ \A l, z : Seen(l, z) /\ Covers(z, q, v) =>
                    \E y : Seen(l, y)' /\ Covers(y, q, v) /\ y.virtual_location = z.virtual_location
    BY <1>3, <1>4, <2>1
  <2> QED
    BY <1>2, <1>4, <2>2, ShownFrame
<1>5. ASSUME NEW f \in Nat, Given(p, Span(f, shmem_table[id].physical_pages)),
             \A q \in Process : q # p => map'[q] = map[q],
             \A v \in PageSpace :
               map'[p][v] = IF v \in Span(x.virtual_location, x.virtual_pages)
                            THEN f + (v - x.virtual_location) ELSE map[p][v]
      PROVE  Shown'
  <2>1. PICK n : n = shmem_table[id].physical_pages
    OBVIOUS
  <2>2. n \in Nat
    BY <1>1, <2>1, Listing DEF Relisted
  <2>3. pad'[p] = pad[p] \cup Span(f, n) /\ \A q \in Process : pad[q] \subseteq pad'[q]
    BY <1>5, <2>1 DEF Given, Types
  <2>4. ASSUME NEW q \in alive', NEW v \in PageSpace
        PROVE  \/ map'[q][v] \in pad'[q]
               \/ /\ map'[q][v] = map[q][v]
                  /\ \A l, z : Seen(l, z) /\ Covers(z, q, v) =>
                       \E y : Seen(l, y)' /\ Covers(y, q, v) /\ y.virtual_location = z.virtual_location
    <3>1. CASE q = p /\ v \in Span(x.virtual_location, x.virtual_pages)
      <4>1. map'[q][v] = f + (v - x.virtual_location)
        BY <1>5, <3>1
      <4>2. v \in Int
        BY PageIs
      <4>3. f + (v - x.virtual_location) \in Span(f, n)
        BY <1>1, <2>1, <2>2, <3>1, <4>2, SpanOf
      <4> QED
        BY <2>3, <3>1, <4>1, <4>3
    <3>2. CASE ~ (q = p /\ v \in Span(x.virtual_location, x.virtual_pages))
      <4>1. map'[q][v] = map[q][v]
        BY <1>2, <1>5, <3>2
      <4>2. ~ Covers(x, q, v)
        BY <1>1, <3>2 DEF Covers
      <4> QED
        BY <1>3, <4>1, <4>2
    <3> QED
      BY <3>1, <3>2
  <2> QED
    BY <1>2, <2>3, <2>4, ShownFrame
<1> QED
  BY <1>1, <1>4, <1>5 DEF Revoked

LEMMA ShownRequest ==
  ASSUME Types, Shown, Counted, NEW t \in Thread, NEW id, shmem_request(t, id)
  PROVE  Shown'
<1>0. PICK p : p = Home[t]
  OBVIOUS
<1>1. PICK r, x, y :
        /\ Relisted(id, r) /\ x.pid = p /\ y.pid = p /\ x \in ToSet(shmem_table[id].list) \cup {Info(p)}
        /\ x \in InfoType /\ y \in InfoType
        /\ ToSet(shmem_table[id].list) \ {x} \subseteq ToSet(r) /\ y \in ToSet(r)
        /\ Requested(id, p, x, y)
  BY <1>0, Request
<1>2. UNCHANGED <<alive, job, excused, pad>> /\ alive \subseteq Process
  BY <1>0, Request DEF Types
<1>3. PICK at : at = shmem_table[id].physical_location
  OBVIOUS
<1>4. (\A l, z : Seen(l, z) => Seen(l, z)' \/ (z = x /\ l = at)) /\ Seen(at, y)'
  BY <1>1, <1>2, <1>3, SeenRelisted
<1>5. x.usage \in Int /\ x.virtual_location \in Nat
  BY <1>1 DEF InfoType
<1>6. CASE y = x /\ map' = map
  <2>1. \A l, z : Seen(l, z) => Seen(l, z)'
    BY <1>4, <1>6
  <2> QED
    BY <1>2, <1>6, <2>1, ShownQuiet
<1>7. CASE /\ y.usage = x.usage + 1 /\ y.virtual_location = x.virtual_location
           /\ y.virtual_pages = x.virtual_pages /\ map' = map
  <2>1. \A q, v : Covers(x, q, v) => Covers(y, q, v)
    BY <1>1, <1>5, <1>7 DEF Covers
  <2>2. ASSUME NEW q \in alive', NEW v \in PageSpace
        PROVE  /\ map'[q][v] = map[q][v]
               /\ \A l, z : Seen(l, z) /\ Covers(z, q, v) =>
                    \E w : Seen(l, w)' /\ Covers(w, q, v) /\ w.virtual_location = z.virtual_location
    BY <1>4, <1>7, <2>1
  <2> QED
    BY <1>2, <2>2, ShownFrame
<1>8. CASE /\ y.usage = x.usage + 1 /\ x.virtual_pages = -1
           /\ \A q \in Process : q # p => map'[q] = map[q]
           /\ \A v \in PageSpace :
                map'[p][v] = IF v \in Span(y.virtual_location, y.virtual_pages)
                             THEN shmem_table[id].physical_location + (v - y.virtual_location)
                             ELSE map[p][v]
  <2>1. \A q : \A v \in PageSpace : ~ Covers(x, q, v)
    <3>1. Span(x.virtual_location, x.virtual_pages) = {}
      BY <1>5, <1>8 DEF Span
    <3> QED
      BY <3>1 DEF Covers
  <2>2. p \notin excused => y.usage > 0
    <3>1. p \in Process
      BY <1>0, HomeAssumption
    <3>2. x.usage >= 0 \/ p \in excused
      BY <1>1, <3>1, InfoIs DEF Counted, Infos, Relisted
    <3> QED
      BY <1>5, <1>8, <3>2
  <2>3. ASSUME NEW q \in alive' \ excused', NEW v \in PageSpace
        PROVE  \/ \E l, z : Seen(l, z)' /\ Covers(z, q, v) /\ map'[q][v] = l + (v - z.virtual_location)
               \/ /\ map'[q][v] = map[q][v]
                  /\ \A l, z : Seen(l, z) /\ Covers(z, q, v) =>
                       \E w : Seen(l, w)' /\ Covers(w, q, v) /\ w.virtual_location = z.virtual_location
    <3>1. CASE q = p /\ v \in Span(y.virtual_location, y.virtual_pages)
      <4>1. map'[q][v] = at + (v - y.virtual_location)
        BY <1>3, <1>8, <3>1
      <4>2. Covers(y, q, v)
        BY <1>1, <1>2, <2>2, <3>1 DEF Covers
      <4> QED
        BY <1>4, <4>1, <4>2
    <3>2. CASE ~ (q = p /\ v \in Span(y.virtual_location, y.virtual_pages))
      <4>1. map'[q][v] = map[q][v]
        BY <1>2, <1>8, <3>2
      <4> QED
        BY <1>4, <2>1, <4>1
    <3> QED
      BY <3>1, <3>2
  <2> QED
    BY <1>2, <2>3, ShownFrame
<1> QED
  BY <1>1, <1>6, <1>7, <1>8 DEF Requested

LEMMA ShownRelease ==
  ASSUME Types, Shown, NEW t \in Thread, NEW id, shmem_release(t, id)
  PROVE  Shown'
<1>0. PICK p : p = Home[t]
  OBVIOUS
<1>1. PICK r, x, y :
        /\ Relisted(id, r) /\ x.pid = p /\ y.pid = p /\ x \in ToSet(shmem_table[id].list)
        /\ x \in InfoType /\ y \in InfoType
        /\ ToSet(r) = (ToSet(shmem_table[id].list) \ {x}) \cup {y}
        /\ Released(p, x, y)
        /\ excused' = IF x.usage <= 0 THEN excused \cup {p} ELSE excused
  BY <1>0, Release
<1>2. UNCHANGED <<alive, job, pad>> /\ alive \subseteq Process /\ excused \subseteq excused'
  BY <1>0, <1>1, Release DEF Types
<1>3. PICK at : at = shmem_table[id].physical_location
  OBVIOUS
<1>4. (\A l, z : Seen(l, z) => Seen(l, z)' \/ (z = x /\ l = at)) /\ Seen(at, y)'
  BY <1>1, <1>2, <1>3, SeenRelisted
<1>5. x.usage \in Int
  BY <1>1 DEF InfoType
<1>6. CASE /\ x.usage = 1 /\ y.usage = 0
           /\ \A q \in Process : q # p => map'[q] = map[q]
           /\ \A v \in PageSpace :
                map'[p][v] = IF v \in Span(x.virtual_location, x.virtual_pages) THEN 0 ELSE map[p][v]
  <2>1. ASSUME NEW q \in alive', NEW v \in PageSpace, map'[q][v] # 0
        PROVE  /\ map'[q][v] = map[q][v]
               /\ \A l, z : Seen(l, z) /\ Covers(z, q, v) =>
                    \E w : Seen(l, w)' /\ Covers(w, q, v) /\ w.virtual_location = z.virtual_location
    <3>1. map'[q][v] = map[q][v] /\ ~ (q = p /\ v \in Span(x.virtual_location, x.virtual_pages))
      BY <1>2, <1>6, <2>1
    <3>2. ~ Covers(x, q, v)
      BY <1>1, <3>1 DEF Covers
    <3> QED
      BY <1>4, <3>1, <3>2
  <2> QED
    BY <1>2, <2>1, ShownFrame
<1>7. CASE /\ x.usage # 1 /\ y.usage = x.usage - 1 /\ y.virtual_location = x.virtual_location
           /\ y.virtual_pages = x.virtual_pages /\ map' = map
  <2>1. \A q, v : Covers(x, q, v) => Covers(y, q, v)
    BY <1>1, <1>5, <1>7 DEF Covers
  <2>2. ASSUME NEW q \in alive', NEW v \in PageSpace
        PROVE  /\ map'[q][v] = map[q][v]
               /\ \A l, z : Seen(l, z) /\ Covers(z, q, v) =>
                    \E w : Seen(l, w)' /\ Covers(w, q, v) /\ w.virtual_location = z.virtual_location
    BY <1>4, <1>7, <2>1
  <2> QED
    BY <1>2, <2>2, ShownFrame
<1> QED
  BY <1>1, <1>6, <1>7 DEF Released

LEMMA ShownMap ==
  ASSUME Types, AllVisited, Shown, NEW t \in Thread, MapScratch(t)
  PROVE  Shown'
<1>1. /\ job[t].at = "map" /\ Scratched(t)
      /\ UNCHANGED <<shmem_table, used, alive, pad, excused>>
  BY MapStep
<1>2. PICK j : job' = [job EXCEPT ![t] = j] /\ j.at = "commit" /\ j.sh = job[t].sh
  BY MapStep
<1>3. PICK o, list, n : o = job[t] /\ list = o.sh.list /\ n = o.sh.physical_pages
  OBVIOUS
<1>4. /\ list \in Seq(InfoType) /\ ListOK(list, n) /\ n \in Nat /\ o.tmp2 \in [Process -> Nat]
  BY <1>1, <1>3, DeletingIs
<1>5. \A l, x : Seen(l, x) => Seen(l, x)' \/ x \in ToSet(list)
  <2>1. \A i \in DOMAIN shmem_table :
          i \in DOMAIN shmem_table' /\ shmem_table'[i].list = shmem_table[i].list
            /\ shmem_table'[i].physical_location = shmem_table[i].physical_location
    BY <1>1
  <2> QED
    BY <1>2, <1>3, <2>1, SeenJob
<1>6. \A x \in ToSet(list) : \E k \in 1 .. Len(list) : x = list[k]
  BY <1>4, ListSet
<1>7. /\ \A k \in 1 .. Len(list) :
           \/ list[k].usage <= 0 \/ list[k].pid \notin alive \/ list[k].pid \in excused
           \/ list[k].pid \in o.out /\ o.tmp2[list[k].pid] # 0
      /\ \A p \in Process : o.tmp2[p] # 0 => Span(o.tmp2[p], n) \subseteq pad[p]
  <2>1. Visited(t)
    BY <1>1 DEF AllVisited
  <2> QED
    BY <1>1, <1>3, <2>1 DEF Visited
<1>8. \A k \in 1 .. Len(list) : list[k] \in InfoType /\ list[k].usage \in Int /\ list[k].virtual_location \in Nat
  <2>1. \A k \in 1 .. Len(list) : list[k] \in InfoType
    BY <1>4
  <2> QED
    BY <2>1 DEF InfoType
<1>9. ASSUME NEW p \in alive' \ excused', NEW v \in PageSpace
      PROVE  \/ map'[p][v] \in pad'[p]
             \/ /\ map'[p][v] = map[p][v]
                /\ \A l, x : Seen(l, x) /\ Covers(x, p, v) =>
                     \E y : Seen(l, y)' /\ Covers(y, p, v) /\ y.virtual_location = x.virtual_location
  <2>1. p \in Process /\ p \in alive /\ p \notin excused /\ v \in Int
    BY <1>1, PageIs DEF Types
  <2>2. CASE map'[p] = map[p] /\ ~ (p \in o.out /\ o.tmp2[p] # 0)
    <3>1. ASSUME NEW x \in ToSet(list) PROVE ~ Covers(x, p, v)
      <4>1. PICK k \in 1 .. Len(list) : x = list[k]
        BY <1>6
      <4>2. x.pid = p => x.usage <= 0 /\ x.usage \in Int
        BY <1>7, <1>8, <2>1, <2>2, <4>1
      <4> QED
        BY <4>2 DEF Covers
    <3> QED
      BY <1>5, <2>2, <3>1
  <2>3. ASSUME NEW k \in 1 .. Len(list), list[k].pid = p, p \in o.out, o.tmp2[p] # 0,
               \A w \in PageSpace :
                 map'[p][w] = IF w \in Span(list[k].virtual_location, n)
                              THEN o.tmp2[p] + (w - list[k].virtual_location) ELSE map[p][w]
        PROVE  \/ map'[p][v] \in pad'[p]
               \/ /\ map'[p][v] = map[p][v]
                  /\ \A l, x : Seen(l, x) /\ Covers(x, p, v) =>
                       \E y : Seen(l, y)' /\ Covers(y, p, v) /\ y.virtual_location = x.virtual_location
    <3>1. CASE v \in Span(list[k].virtual_location, n)
      <4>1. PICK f, at : f = o.tmp2[p] /\ at = list[k].virtual_location
        OBVIOUS
      <4>2. f \in Nat /\ at \in Nat /\ v \in Span(at, n) /\ map'[p][v] = f + (v - at)
        BY <1>4, <1>8, <2>1, <2>3, <3>1, <4>1
      <4>3. f + (v - at) \in Span(f, n)
        BY <1>4, <2>1, <4>2 DEF Span
      <4>4. Span(f, n) \subseteq pad'[p]
        BY <1>1, <1>7, <2>1, <2>3, <4>1
      <4> QED
        BY <4>2, <4>3, <4>4
    <3>2. CASE v \notin Span(list[k].virtual_location, n)
      <4>1. map'[p][v] = map[p][v]
        BY <2>3, <3>2
      <4>2. ASSUME NEW x \in ToSet(list) PROVE ~ Covers(x, p, v)
        <5>1. SUFFICES ASSUME Covers(x, p, v) PROVE FALSE
          OBVIOUS
        <5>2. PICK i \in 1 .. Len(list) : x = list[i]
          BY <1>6
        <5>3. i = k
          BY <1>4, <2>3, <5>1, <5>2 DEF Covers, ListOK
        <5>4. x.virtual_pages \in {-1, n} /\ x \in InfoType /\ v \in Span(x.virtual_location, x.virtual_pages)
          BY <1>4, <1>8, <5>1, <5>2 DEF Covers, ListOK
        <5>5. x.virtual_pages = n
          <6>1. 0 \in Nat
            OBVIOUS
          <6> QED
            BY <1>4, <2>1, <5>4, <6>1, SpanOf
        <5> QED
          BY <3>2, <5>2, <5>3, <5>4, <5>5
      <4> QED
        BY <1>5, <4>1, <4>2
    <3> QED
      BY <3>1, <3>2
  <2> QED
    BY <1>1, <1>3, <2>1, <2>2, <2>3 DEF Scratched
<1> QED
  BY <1>1, <1>9, ShownFrame

LEMMA ShownDropped ==
  ASSUME Types, Shown, NEW t \in Thread, job[t].at \notin {"checkout", "map"}, NEW id, NEW then \in {"return", "clean"},
         Dropped(t, id, then), UNCHANGED <<map, alive, pad, excused>>
  PROVE  Shown'
<1>1. PICK j : j = Removed(id, then)
  OBVIOUS
<1>2. j.sh = shmem_table[id] /\ j.at = "checkout" /\ job' = [job EXCEPT ![t] = j]
  BY <1>1, RemovedIs DEF Dropped
<1>3. \A i \in DOMAIN shmem_table :
        \/ i \in DOMAIN shmem_table' /\ shmem_table'[i].list = shmem_table[i].list
           /\ shmem_table'[i].physical_location = shmem_table[i].physical_location
        \/ j.at \in {"checkout", "map"} /\ j.sh = shmem_table[i]
  BY <1>2 DEF Dropped, Alike
<1>4. \A l, x : Seen(l, x) => Seen(l, x)'
  BY <1>2, <1>3, SeenJob
<1> QED
  BY <1>4, ShownQuiet

LEMMA ShownStep ==
  ASSUME Types, AllVisited, Counted, Shown, Next
  PROVE  Shown'
<1>0. ASSUME NEW t \in Thread, NEW j, job' = [job EXCEPT ![t] = j],
             job[t].at \in {"checkout", "map"} => j.at \in {"checkout", "map"} /\ j.sh = job[t].sh,
             DOMAIN shmem_table' = DOMAIN shmem_table,
             \A i \in DOMAIN shmem_table : Alike(shmem_table[i], shmem_table'[i]) /\ shmem_table'[i].list = shmem_table[i].list,
             UNCHANGED <<map, alive>>, excused \subseteq excused', \A p \in Process : pad[p] \subseteq pad'[p]
      PROVE  Shown'
  <2>1. \A i \in DOMAIN shmem_table :
          i \in DOMAIN shmem_table' /\ shmem_table'[i].list = shmem_table[i].list
            /\ shmem_table'[i].physical_location = shmem_table[i].physical_location
    BY <1>0 DEF Alike
  <2>2. \A l, x : Seen(l, x) => Seen(l, x)'
    BY <1>0, <2>1, SeenJob
  <2>3. \A p \in alive : pad[p] \subseteq pad'[p]
    BY <1>0 DEF Types
  <2> QED
    BY <1>0, <2>2, <2>3, ShownQuiet
<1>a. shmem_table' = shmem_table =>
        /\ DOMAIN shmem_table' = DOMAIN shmem_table
        /\ \A i \in DOMAIN shmem_table : Alike(shmem_table[i], shmem_table'[i]) /\ shmem_table'[i].list = shmem_table[i].list
  BY DEF Alike
<1>1. ASSUME NEW t \in Thread, NEW n \in Nat \ {0}, NEW flags \in SUBSET Flag, NEW internal \in BOOLEAN,
             shmem_create(t, n, flags, internal)
      PROVE  Shown'
  <2>1. /\ DOMAIN shmem_table' = DOMAIN shmem_table \cup {shmem_id}
        /\ \A i \in DOMAIN shmem_table : shmem_table'[i] = shmem_table[i]
        /\ UNCHANGED <<map, alive, job, pad, excused>>
    BY <1>1, Create
  <2>2. Live \subseteq Live'
    <3>1. ASSUME NEW i \in DOMAIN shmem_table PROVE shmem_table[i] \in Live'
      BY <2>1, LiveIs
    <3>2. ASSUME NEW u \in Thread, job[u].at \in {"checkout", "map"} PROVE job[u].sh \in Live'
      BY <2>1, <3>2, LiveIs
    <3> QED
      BY <3>1, <3>2, LiveIs
  <2>3. \A l, x : Seen(l, x) => Seen(l, x)'
    BY <2>2, SeenGrows
  <2> QED
    BY <2>1, <2>3, ShownQuiet
<1>2. ASSUME NEW t \in Thread, NEW id, shmem_request(t, id) PROVE Shown'
  BY <1>2, ShownRequest
<1>3. ASSUME NEW t \in Thread, NEW id, shmem_release(t, id) PROVE Shown'
  BY <1>3, ShownRelease
<1>4. ASSUME NEW t \in Thread, NEW id, shmem_delete(t, id) PROVE Shown'
  <2>1. job[t].at \notin {"checkout", "map"}
    BY <1>4, Delete DEF NoJob
  <2> QED
    BY <1>4, <2>1, Delete, ShownDropped
<1>5. ASSUME NEW t \in Thread, NEW id, NEW p \in Process, shmem_grant(t, id, p) PROVE Shown'
  <2>1. PICK r : Relisted(id, r) /\ ToSet(r) = ToSet(shmem_table[id].list) \cup {Info(p)}
    BY <1>5, Grant
  <2>2. UNCHANGED <<map, alive, job, pad, excused>>
    BY <1>5, Grant
  <2>3. PICK at : at = shmem_table[id].physical_location
    OBVIOUS
  <2>4. \A l, x : Seen(l, x) => Seen(l, x)'
    BY <2>1, <2>2, <2>3, SeenRelisted
  <2> QED
    BY <2>2, <2>4, ShownQuiet
<1>6. ASSUME NEW t \in Thread, NEW id, NEW p \in Process, shmem_revoke(t, p, id) PROVE Shown'
  BY <1>6, ShownRevoke
<1>7. ASSUME NEW t \in Thread, Checkout(t) PROVE Shown'
  <2>1. PICK j : job' = [job EXCEPT ![t] = j] /\ j.at \in {"checkout", "map"} /\ j.sh = job[t].sh /\ Passed(t, j)
    BY <1>7, CheckoutStep
  <2>2. UNCHANGED <<shmem_table, map, alive>>
    BY <1>7, CheckoutStep
  <2>3. excused \subseteq excused' /\ \A p \in Process : pad[p] \subseteq pad'[p]
    <3>1. excused \subseteq excused'
      BY <1>7 DEF Checkout
    <3>2. PICK q, S : pad' = pad \/ pad' = [pad EXCEPT ![q] = @ \cup S]
      BY <1>7 DEF Checkout
    <3> QED
      BY <3>1, <3>2 DEF Types
  <2> QED
    BY <1>0, <1>a, <2>1, <2>2, <2>3
<1>8. ASSUME NEW t \in Thread, MapScratch(t) PROVE Shown'
  BY <1>8, ShownMap
<1>9. ASSUME NEW t \in Thread, Commit(t) PROVE Shown'
  BY <1>0, <1>a, <1>9, CommitStep
<1>10. ASSUME NEW t \in Thread, Free(t) PROVE Shown'
  BY <1>0, <1>a, <1>10, FreeStep
<1>11. ASSUME NEW t \in Thread, NEW p \in Process, shmem_clean(t, p) PROVE Shown'
  <2>1. job[t].at = "none"
    BY <1>11, CleanStart DEF NoJob
  <2> QED
    BY <1>0, <1>a, <1>11, <2>1, CleanStart
<1>12. ASSUME NEW t \in Thread, CleanNext(t) PROVE Shown'
  BY <1>12, CleanOne, ShownDropped
<1>13. ASSUME NEW t \in Thread, CleanDone(t) PROVE Shown'
  <2>1. PICK p : p = job[t].pid
    OBVIOUS
  <2>2. /\ job[t].at = "clean" /\ DOMAIN shmem_table' = DOMAIN shmem_table
        /\ \A i \in DOMAIN shmem_table : Alike(shmem_table[i], shmem_table'[i]) /\ shmem_table'[i].list = shmem_table[i].list
        /\ job' = [job EXCEPT ![t] = NoJob] /\ UNCHANGED <<map, alive, pad, excused>>
    BY <1>13, <2>1, CleanLast
  <2> QED
    BY <1>0, <2>2
<1>14. ASSUME NEW p \in Process, exit(p) PROVE Shown'
  <2>1. alive' = alive \ {p} /\ (\A q \in Process : q # p => map'[q] = map[q]) /\ UNCHANGED <<shmem_table, job, pad, excused>>
    BY <1>14, Exit
  <2>2. Live' = Live
    BY <2>1 DEF Live
  <2>3. \A l, x : Seen(l, x) => Seen(l, x)'
    BY <2>2, SeenGrows
  <2>4. \A q \in alive' : map'[q] = map[q]
    BY <2>1 DEF Types
  <2> QED
    BY <2>1, <2>3, <2>4, ShownQuiet
<1> QED
  BY <1>1, <1>2, <1>3, <1>4, <1>5, <1>6, <1>7, <1>8, <1>9, <1>10, <1>11, <1>12, <1>13, <1>14, NextIs

-----------------------------------------------------------------------------
(* The inductive invariant. *)
IInv == Types /\ AllVisited /\ Counted /\ Shown /\ FramesExact /\ CleanLeavesOrphans

LEMMA InitIInv ==
  ASSUME Init
  PROVE  IInv
<1>1. Types
  BY InitTypes
<1>2. DOMAIN shmem_table = {} /\ \A t \in Thread : job[t].at = "none"
  BY DEF Init, NoJob
<1>3. AllVisited /\ Counted /\ CleanLeavesOrphans
  BY <1>2 DEF AllVisited, Counted, CleanLeavesOrphans
<1>4. Shown
  <2>1. \A p \in Process : \A v \in PageSpace : map[p][v] = 0
    BY DEF Init, new_page_directory
  <2>2. alive = Process
    BY DEF Init
  <2> QED
    BY <2>1, <2>2 DEF Shown
<1>5. FramesExact
  <2>1. Deletes = {}
    BY <1>2 DEF Deletes
  <2>2. \A o \in Owner : Owned(o) = {}
    <3>1. \A p \in Process : pad[p] = {}
      BY DEF Init
    <3>2. ASSUME NEW o \in Owner PROVE Owned(o) = {}
      <4>1. PICK p \in Process : o = <<"pad", p>>
        BY <1>2, <2>1, OwnerIs
      <4>2. Share[o] = pad[p] /\ o \in Owner
        BY <4>1, ShareIs
      <4> QED
        BY <3>1, <4>2 DEF Share
    <3> QED
      BY <3>2
  <2>3. used = {}
    BY DEF Init
  <2> QED
    BY <2>2, <2>3 DEF FramesExact
<1> QED
  BY <1>1, <1>3, <1>4, <1>5 DEF IInv

LEMMA NextIInv ==
  ASSUME IInv, [Next]_vars
  PROVE  IInv'
<1>1. CASE Next
  BY <1>1, TypesStep, VisitedStep, CountedStep, ShownStep, FramesStep, OrphansStep DEF IInv
<1>2. CASE UNCHANGED vars
  <2>1. UNCHANGED <<shmem_table, shmem_id, map, used, alive, job, pad, excused, cleaned>>
    BY <1>2 DEF vars
  <2>2. Types'
    BY <2>1 DEF IInv, Types, JobOK, RegionOK, ListOK
  <2>3. AllVisited'
    BY <2>1, VisitedQuiet DEF IInv
  <2>4. Counted'
    BY <2>1, CountedQuiet DEF IInv
  <2>5. Shown'
    BY <2>1 DEF IInv, Shown, Live, Shows, Infos
  <2>6. FramesExact'
    <3>1. Deletes' = Deletes
      BY <2>1 DEF Deletes
    <3> QED
      BY <2>1, <3>1, FramesQuiet DEF IInv
  <2>7. CleanLeavesOrphans'
    BY <2>1 DEF IInv, CleanLeavesOrphans
  <2> QED
    BY <2>2, <2>3, <2>4, <2>5, <2>6, <2>7 DEF IInv
<1> QED
  BY <1>1, <1>2

LEMMA Invariance == Spec => []IInv
<1>1. Init => IInv
  BY InitIInv
<1>2. IInv /\ [Next]_vars => IInv'
  BY NextIInv
<1> QED
  BY <1>1, <1>2, PTL DEF Spec

LEMMA ShownIsolates ==
  ASSUME IInv
  PROVE  Isolated
<1>1. Live \subseteq Regions
  <2>1. {job[t].sh : t \in {u \in Thread : job[u].at \in {"checkout", "map"}}} \subseteq {job[t].sh : t \in Deletes}
    BY DEF Deletes
  <2> QED
    BY <2>1 DEF Live, Regions
<1>2. Shown
  BY DEF IInv
<1> QED
  BY <1>1, <1>2 DEF Shown, Shows, Isolated

(* However shmem_create, grant, request, release, revoke, delete and clean *)
(* overlap, and whatever memory there is: a page of a process shows a      *)
(* region the process has requested and that has its memory, or scratch    *)
(* memory of its own.                                                      *)
THEOREM SharedMemoryIsIsolated == Spec => []Isolated
BY Invariance, ShownIsolates, PTL

(* shmem_create, revoke and delete allocate and free every frame exactly   *)
(* once: it has one owner for as long as it is in use.                     *)
THEOREM FramesHaveOneOwner == Spec => []FramesExact
<1>1. IInv => FramesExact
  BY DEF IInv
<1> QED
  BY <1>1, Invariance, PTL

(* When shmem_clean has returned, no region of the process is in the table *)
(* but immortal ones, and they are orphans, whatever others create, grant  *)
(* or delete later.                                                        *)
THEOREM CleanLeavesOnlyOrphans == Spec => []CleanLeavesOrphans
<1>1. IInv => CleanLeavesOrphans
  BY DEF IInv
<1> QED
  BY <1>1, Invariance, PTL

LEMMA LiveOK ==
  ASSUME Types, NEW sh \in Live
  PROVE  RegionOK(sh)
<1>1. ASSUME NEW id \in DOMAIN shmem_table, sh = shmem_table[id] PROVE RegionOK(sh)
  BY <1>1, Listing
<1>2. ASSUME NEW u \in Thread, job[u].at \in {"checkout", "map"}, sh = job[u].sh PROVE RegionOK(sh)
  BY <1>2, Deleting
<1> QED
  BY <1>1, <1>2, LiveIs

LEMMA LiveUsed ==
  ASSUME FramesExact, NEW sh \in Live
  PROVE  Memory(sh) \subseteq used
<1>1. \A o \in Owner : Share[o] \subseteq used
  BY FramesIs, ShareIs DEF Exact
<1>2. ASSUME NEW id \in DOMAIN shmem_table, sh = shmem_table[id] PROVE Memory(sh) \subseteq used
  BY <1>1, <1>2, ShareIs
<1>3. ASSUME NEW u \in Thread, job[u].at \in {"checkout", "map"}, sh = job[u].sh PROVE Memory(sh) \subseteq used
  <2>1. u \in Deletes
    BY <1>3 DEF Deletes
  <2> QED
    BY <1>1, <1>3, <2>1, ShareIs
<1> QED
  BY <1>2, <1>3, LiveIs

LEMMA IInvShowsUsed ==
  ASSUME IInv
  PROVE  ShowsUsed
<1>0. Types /\ Shown /\ FramesExact
  BY DEF IInv
<1> SUFFICES ASSUME NEW p \in alive \ excused, NEW v \in PageSpace, map[p][v] # 0
             PROVE  map[p][v] \in used \/ \E sh \in Regions : ~ sh.internal /\ map[p][v] \in Frames(sh)
  BY DEF ShowsUsed
<1>1. CASE map[p][v] \in pad[p]
  <2>1. p \in Process
    BY <1>0 DEF Types
  <2>2. pad[p] \subseteq used
    BY <1>0, <2>1, FramesIs, ShareIs, ZenonT(60) DEF Exact
  <2> QED
    BY <1>1, <2>2
<1>2. ASSUME NEW sh \in Live, NEW x \in Infos(sh), Shows(p, v, sh.physical_location, x)
      PROVE  map[p][v] \in used \/ \E s \in Regions : ~ s.internal /\ map[p][v] \in Frames(s)
  <2>1. RegionOK(sh)
    BY <1>0, LiveOK
  <2>2. PICK l, n : l = sh.physical_location /\ n = sh.physical_pages
    OBVIOUS
  <2>3. l \in Nat /\ n \in Nat /\ sh.list \in Seq(InfoType) /\ ListOK(sh.list, n)
    BY <2>1, <2>2 DEF RegionOK, RegionType
  <2>4. x \in InfoType /\ x.virtual_pages \in {-1, n}
    <3>1. PICK k \in 1 .. Len(sh.list) : x = sh.list[k]
      BY <2>3, ListSet DEF Infos
    <3> QED
      BY <2>3, <3>1 DEF ListOK
  <2>5. v \in Span(x.virtual_location, x.virtual_pages) /\ map[p][v] = l + (v - x.virtual_location) /\ v \in Int
    BY <1>2, <2>2, PageIs DEF Shows
  <2>6. map[p][v] \in Span(l, n)
    BY <2>3, <2>4, <2>5, SpanOf
  <2>7. map[p][v] \in Frames(sh)
    BY <2>2, <2>6 DEF Frames
  <2>8. CASE sh.internal
    <3>1. Memory(sh) \subseteq used
      BY <1>0, LiveUsed
    <3> QED
      BY <2>7, <2>8, <3>1 DEF Memory
  <2>9. CASE ~ sh.internal
    <3>1. sh \in Regions
      <4>1. {job[t].sh : t \in {u \in Thread : job[u].at \in {"checkout", "map"}}} \subseteq {job[t].sh : t \in Deletes}
        BY DEF Deletes
      <4> QED
        BY <4>1 DEF Live, Regions
    <3> QED
      BY <2>7, <2>9, <3>1
  <2> QED
    BY <2>8, <2>9
<1> QED
  BY <1>0, <1>1, <1>2 DEF Shown

(* shmem_delete frees a region only when no page shows it: a process that  *)
(* releases no more than it requests, and for which scratch memory was     *)
(* found, never has a page of free memory.                                 *)
THEOREM NoFreeFrameIsShown == Spec => []ShowsUsed
BY Invariance, IInvShowsUsed, PTL

=============================================================================
