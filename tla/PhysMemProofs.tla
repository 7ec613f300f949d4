--------------------------- MODULE PhysMemProofs ---------------------------
(***************************************************************************)
(* Proofs about mm/physmem.c for every memory size, every boot map and     *)
(* every sequence of allocations and frees.                                *)
(***************************************************************************)
EXTENDS PhysMem, FiniteSetTheorems, TLAPS

(* The pages a reserved range touches. *)
ReservedPages(r) == RoundDown(r[1]) .. RoundDown(r[2])

(* What the boot phases have established. *)
PhaseInv ==
  /\ phase = "add" => left = Reserved
  /\ phase # "run" => owned = {} /\ pages = 0
  /\ phase = "run" => left = {} /\ 0 \in used

(* A range that has been reserved stays marked. *)
ReservedMarked ==
  phase # "overrun" => \A r \in Reserved \ left : ReservedPages(r) \subseteq used

NullNotOwned == \A a \in owned : 0 \notin Run(a[1], a[2])

PInv ==
  /\ TypeOK
  /\ PhaseInv
  /\ FreePagesExact
  /\ OwnedIsUsed
  /\ NoDoubleHandout
  /\ NullNotOwned
  /\ ReservedMarked
  /\ ReservedKept

-----------------------------------------------------------------------------
(* Arithmetic of page numbers. *)
LEMMA DivFacts ==
  ASSUME NEW x \in Nat
  PROVE  /\ x \div PageSize \in Nat
         /\ (x + PageSize) \div PageSize = x \div PageSize + 1
BY PageAssumption, Z3T(30)

LEMMA PagesNat == memory_pages \in Nat
BY PageAssumption, DivFacts DEF memory_pages

(* memory_set(start, end + 1, 1) rounds outwards: it covers exactly the    *)
(* pages the range touches.                                                *)
LEMMA ReserveRounding ==
  ASSUME NEW r \in Reserved
  PROVE  MemorySetPages(r[1], r[2] + 1, 1) = ReservedPages(r)
<1>1. r[1] \in Nat /\ r[2] \in Nat /\ r[1] <= r[2] /\ RoundDown(r[2]) + 1 < AddrPages
  BY RangeAssumption DEF Ranges, Intervals, RoundDown
<1>2. RoundDown(r[1]) \in Nat /\ RoundDown(r[2]) \in Nat
  BY <1>1, DivFacts DEF RoundDown
<1>3. RoundUp(r[2] + 1) = RoundDown(r[2]) + 1
  <2>1. (r[2] + 1) + PageSize - 1 = r[2] + PageSize
    BY <1>1, PageAssumption
  <2> QED
    BY <2>1, <1>1, DivFacts DEF RoundUp, RoundDown
<1>4. RoundDown(r[1]) <= RoundDown(r[2])
  BY <1>1, PageAssumption, Z3T(30) DEF RoundDown
<1> DEFINE n == RoundDown(r[2]) + 1 - RoundDown(r[1])
<1>5. n \in 0 .. AddrPages - 1
  BY <1>1, <1>2, <1>4, PageAssumption
<1>6. n % AddrPages = n
  BY <1>5, PageAssumption, Z3T(30)
<1>7. MemorySetPages(r[1], r[2] + 1, 1) = Run(RoundDown(r[1]), n)
  <2>1. RoundUp(r[2] + 1) - RoundDown(r[1]) = n
    BY <1>2, <1>3
  <2>2. RoundDown(r[1]) \in 0 .. AddrPages - 1
    BY <1>1, <1>2, <1>4, PageAssumption
  <2>3. RoundDown(r[1]) % AddrPages = RoundDown(r[1])
    BY <2>2, PageAssumption, Z3T(30)
  <2> HIDE DEF n
  <2> QED
    BY <1>6, <2>1, <2>3, Zenon DEF MemorySetPages
<1> QED
  BY <1>2, <1>7 DEF Run, ReservedPages

-----------------------------------------------------------------------------
(* Counting clear bits. *)
LEMMA PageFinite == IsFiniteSet(Page)
BY PagesNat, FS_Interval DEF Page

LEMMA CountSet ==
  ASSUME NEW U, NEW R \in SUBSET Page
  PROVE  Cardinality(Page \ (U \cup R)) = Cardinality(Page \ U) - Cardinality(R \ U)
<1> DEFINE F == Page \ U
<1>1. IsFiniteSet(F)
  BY PageFinite, FS_Difference
<1>2. F \ R = Page \ (U \cup R) /\ F \cap R = R \ U
  OBVIOUS
<1> HIDE DEF F
<1>3. Cardinality(F \ R) = Cardinality(F) - Cardinality(F \cap R)
  BY <1>1, FS_Difference
<1>4. Cardinality(Page \ (U \cup R)) = Cardinality(F) - Cardinality(R \ U)
  BY <1>2, <1>3, Zenon
<1> QED
  BY <1>4, Zenon DEF F

LEMMA CountClear ==
  ASSUME NEW U \in SUBSET Page, NEW R \in SUBSET Page
  PROVE  Cardinality(Page \ (U \ R)) = Cardinality(Page \ U) + Cardinality(R \cap U)
<1> DEFINE F == Page \ U
           G == R \cap U
<1>1. IsFiniteSet(F) /\ IsFiniteSet(G)
  BY PageFinite, FS_Difference, FS_Subset
<1>2. F \cup G = Page \ (U \ R) /\ F \cap G = {}
  OBVIOUS
<1>3. Cardinality(F) \in Nat /\ Cardinality(G) \in Nat
  BY <1>1, FS_CardinalityType
<1> HIDE DEF F, G
<1>4. Cardinality(F \cup G) = Cardinality(F) + Cardinality(G) - Cardinality(F \cap G)
  BY <1>1, FS_Union
<1>5. Cardinality(F \cap G) = 0
  BY <1>2, FS_EmptySet
<1>6. Cardinality(F \cup G) = Cardinality(F) + Cardinality(G)
  BY <1>3, <1>4, <1>5
<1>7. Cardinality(Page \ (U \ R)) = Cardinality(F) + Cardinality(G)
  BY <1>2, <1>6, Zenon
<1> QED
  BY <1>7, Zenon DEF F, G

LEMMA RunCount ==
  ASSUME NEW b \in Nat, NEW n \in Nat \ {0}
  PROVE  Cardinality(Run(b, n)) = n
<1>1. b + n - 1 \in Int /\ b \in Int /\ ~ (b > b + n - 1) /\ (b + n - 1) - b + 1 = n
  OBVIOUS
<1> QED
  BY <1>1, FS_Interval DEF Run

LEMMA CountType ==
  ASSUME NEW U
  PROVE  Cardinality(Page \ U) \in Nat
BY PageFinite, FS_Difference, FS_CardinalityType

-----------------------------------------------------------------------------
LEMMA InitPInv == Init => PInv
<1> SUFFICES ASSUME Init PROVE PInv
  OBVIOUS
<1>1. Page \ used = {}
  BY DEF Init
<1>2. Cardinality(Page \ used) = 0
  BY <1>1, FS_EmptySet
<1>3. TypeOK
  BY PagesNat, PageAssumption DEF Init, TypeOK
<1> QED
  BY <1>2, <1>3 DEF Init, PInv, PhaseInv, FreePagesExact, OwnedIsUsed, NoDoubleHandout,
     NullNotOwned, ReservedMarked, ReservedKept

LEMMA BootAddStep ==
  ASSUME PInv, BootAdd
  PROVE  PInv'
<1>1. PICK r \in Available : /\ MemorySet(Pointer(r[1]), Pointer(r[2] + 1), 0)
                            /\ added' = added \cup {r}
  BY DEF BootAdd
<1> DEFINE touched == MemorySetPages(Pointer(r[1]), Pointer(r[2] + 1), 0)
<1>2. owned = {} /\ owned' = {} /\ pages = 0 /\ left = Reserved /\ left' = left
  BY DEF PInv, PhaseInv, BootAdd
<1>3. CASE touched \subseteq Page
  <2>1. /\ used' = used \ touched
        /\ s_freePages' = s_freePages + Cardinality(touched \cap used)
        /\ phase' = phase
    BY <1>1, <1>3 DEF MemorySet
  <2>2. s_freePages' = Cardinality(Page \ used')
    BY <2>1, <1>3, CountClear DEF PInv, TypeOK, FreePagesExact
  <2>3. TypeOK'
    BY <1>1, <1>2, <2>1, <2>2, CountType DEF PInv, TypeOK, BootAdd
  <2> QED
    BY <1>2, <2>1, <2>2, <2>3 DEF PInv, PhaseInv, FreePagesExact, OwnedIsUsed,
       NoDoubleHandout, NullNotOwned, ReservedMarked, ReservedKept, BootAdd
<1>4. CASE ~ (touched \subseteq Page)
  <2>1. phase' = "overrun" /\ UNCHANGED <<used, s_freePages>>
    BY <1>1, <1>4 DEF MemorySet
  <2> QED
    BY <1>1, <1>2, <2>1 DEF PInv, TypeOK, PhaseInv, FreePagesExact, OwnedIsUsed,
       NoDoubleHandout, NullNotOwned, ReservedMarked, ReservedKept, BootAdd
<1> QED
  BY <1>3, <1>4

LEMMA BootRemoveStep ==
  ASSUME PInv, BootRemove
  PROVE  PInv'
<1>1. PICK r \in left : MemorySet(r[1], r[2] + 1, 1) /\ left' = left \ {r}
  BY DEF BootRemove
<1> DEFINE touched == MemorySetPages(r[1], r[2] + 1, 1)
<1>2. /\ owned = {} /\ owned' = {} /\ pages = 0 /\ pages' = 0
      /\ r \in Reserved
      /\ phase # "overrun"
  BY <1>1 DEF PInv, PhaseInv, BootRemove, TypeOK
<1>3. touched = ReservedPages(r)
  BY <1>2, ReserveRounding
<1>4. CASE touched \subseteq Page
  <2>1. /\ used' = used \cup touched
        /\ s_freePages' = s_freePages - Cardinality(touched \ used)
        /\ phase' = "rem"
    BY <1>1, <1>4 DEF MemorySet
  <2>2. s_freePages' = Cardinality(Page \ used')
    BY <2>1, <1>4, CountSet DEF PInv, FreePagesExact
  <2>3. TypeOK'
    BY <1>1, <1>2, <1>4, <2>1, <2>2, CountType DEF PInv, TypeOK, BootRemove
  <2>4. ReservedMarked'
    BY <1>1, <1>2, <1>3, <2>1 DEF PInv, ReservedMarked
  <2> QED
    BY <1>2, <2>1, <2>2, <2>3, <2>4 DEF PInv, PhaseInv, FreePagesExact, OwnedIsUsed,
       NoDoubleHandout, NullNotOwned, ReservedKept
<1>5. CASE ~ (touched \subseteq Page)
  <2>1. phase' = "overrun" /\ UNCHANGED <<used, s_freePages>>
    BY <1>1, <1>5 DEF MemorySet
  <2> QED
    BY <1>1, <1>2, <2>1 DEF PInv, TypeOK, PhaseInv, FreePagesExact, OwnedIsUsed,
       NoDoubleHandout, NullNotOwned, ReservedMarked, ReservedKept, BootRemove
<1> QED
  BY <1>4, <1>5

LEMMA BootDoneStep ==
  ASSUME PInv, BootDone
  PROVE  PInv'
<1>1. owned = {} /\ owned' = {} /\ pages = 0 /\ left = {} /\ left' = {}
  BY DEF PInv, PhaseInv, BootDone
<1>2. s_freePages' = Cardinality(Page \ used')
  <2>1. {0} \in SUBSET Page
    BY DEF BootDone
  <2> QED
    BY <2>1, CountSet DEF PInv, FreePagesExact, BootDone
<1>3. TypeOK'
  BY <1>1, <1>2, CountType DEF PInv, TypeOK, BootDone
<1>4. ReservedMarked'
  BY <1>1 DEF PInv, ReservedMarked, BootDone
<1> QED
  BY <1>1, <1>2, <1>3, <1>4 DEF PInv, PhaseInv, FreePagesExact, OwnedIsUsed,
     NoDoubleHandout, NullNotOwned, ReservedKept, BootDone

-----------------------------------------------------------------------------
(* The steps of an allocation that only move the search. *)
LEMMA SearchStep ==
  ASSUME PInv,
         \/ (\E n \in 1 .. MaxAlloc : AllocCall(n) \/ AllocRefused(n))
         \/ ScanWrap \/ ScanTaken \/ ScanFail
  PROVE  PInv'
<1>1. UNCHANGED <<used, s_freePages, s_lastPage, phase, left, owned, added>>
  BY DEF AllocCall, AllocRefused, ScanWrap, ScanTaken, ScanFail, vars
<1>2. pages' \in 0 .. MaxAlloc /\ i' \in Nat /\ (phase # "run" => pages' = 0)
  <2>1. CASE \E n \in 1 .. MaxAlloc : AllocCall(n) \/ AllocRefused(n)
    BY <2>1, PageAssumption DEF PInv, TypeOK, PhaseInv, AllocCall, AllocRefused, vars
  <2>2. CASE ScanWrap
    <3>1. pages # 1
      <4> SUFFICES ASSUME pages = 1 PROVE FALSE
        OBVIOUS
      <4>1. memory_pages \in Nat \ {0} /\ i + s_lastPage \in Nat
        BY <2>2, PagesNat DEF ScanWrap, PInv, TypeOK
      <4>2. block \in 0 .. memory_pages - 1
        BY <4>1, Z3T(30) DEF block
      <4> QED
        BY <2>2, <4>1, <4>2 DEF ScanWrap, Wraps
    <3> QED
      BY <2>2, <3>1, PageAssumption DEF PInv, TypeOK, PhaseInv, ScanWrap
  <2>3. CASE ScanTaken
    BY <2>3, PageAssumption DEF PInv, TypeOK, PhaseInv, ScanTaken
  <2>4. CASE ScanFail
    BY <2>4, PageAssumption DEF PInv, TypeOK, PhaseInv, ScanFail
  <2> QED
    BY <2>1, <2>2, <2>3, <2>4
<1> QED
  BY <1>1, <1>2 DEF PInv, TypeOK, PhaseInv, FreePagesExact, OwnedIsUsed,
     NoDoubleHandout, NullNotOwned, ReservedMarked, ReservedKept

(* A search that succeeds hands out a run of clear bits. *)
LEMMA FoundStep ==
  ASSUME PInv, ScanFound
  PROVE  PInv'
<1> DEFINE R == Run(block, pages)
           a == <<block, pages>>
<1>1. phase = "run" /\ left = {} /\ 0 \in used
  BY DEF PInv, PhaseInv, ScanFound
<1>2. memory_pages \in Nat \ {0} /\ i + s_lastPage \in Nat
  BY PagesNat DEF ScanFound, PInv, TypeOK
<1>3. block \in 0 .. memory_pages - 1 /\ pages \in 1 .. MaxAlloc
  BY <1>2, PageAssumption, Z3T(30) DEF block, ScanFound, PInv, TypeOK
<1>4. R \in SUBSET Page /\ block + pages \in 0 .. memory_pages
  BY <1>2, <1>3, PageAssumption DEF ScanFound, Wraps, Run, Page
<1>5. R \cap used = {} /\ R \ used = R
  BY DEF ScanFound, Taken
<1>6. Cardinality(R) = pages
  BY <1>3, PageAssumption, RunCount
<1>7. used' = used \cup R /\ owned' = owned \cup {a}
  BY DEF ScanFound
<1>8. a[1] = block /\ a[2] = pages
  OBVIOUS
<1>9. s_freePages' = Cardinality(Page \ used')
  <2> HIDE DEF R
  <2>1. Cardinality(Page \ (used \cup R)) = Cardinality(Page \ used) - Cardinality(R \ used)
    BY <1>4, CountSet
  <2> QED
    BY <1>5, <1>6, <1>7, <2>1 DEF PInv, FreePagesExact, ScanFound
<1>10. TypeOK'
  <2>1. a \in Page \X (1 .. MaxAlloc)
    BY <1>3 DEF Page
  <2>2. used' \subseteq Page
    BY <1>4, <1>7 DEF PInv, TypeOK
  <2>3. s_freePages' \in Int
    BY <1>9, CountType
  <2> QED
    BY <1>3, <1>4, <1>7, <2>1, <2>2, <2>3, PageAssumption DEF PInv, TypeOK, ScanFound
<1>11. OwnedIsUsed'
  BY <1>7, <1>8 DEF PInv, OwnedIsUsed
<1>12. NoDoubleHandout'
  <2>1. \A b \in owned : Run(b[1], b[2]) \cap R = {}
    BY <1>5 DEF PInv, OwnedIsUsed
  <2> QED
    BY <1>7, <1>8, <2>1 DEF PInv, NoDoubleHandout
<1>13. NullNotOwned'
  BY <1>1, <1>5, <1>7, <1>8 DEF PInv, NullNotOwned
<1>14. ReservedMarked' /\ ReservedKept'
  <2>1. \A r \in Reserved : ReservedPages(r) \subseteq used
    BY <1>1 DEF PInv, ReservedMarked
  <2> QED
    BY <1>5, <1>7, <1>8, <2>1 DEF PInv, ReservedMarked, ReservedKept, ReservedPages
<1> QED
  BY <1>1, <1>7, <1>9, <1>10, <1>11, <1>12, <1>13, <1>14
     DEF PInv, PhaseInv, FreePagesExact, ScanFound

LEMMA FreeStep ==
  ASSUME PInv, MemoryFree
  PROVE  PInv'
<1>1. PICK a \in owned : /\ used' = used \ Run(a[1], a[2])
                         /\ s_freePages' = s_freePages + a[2]
                         /\ owned' = owned \ {a}
  BY DEF MemoryFree
<1> DEFINE R == Run(a[1], a[2])
<1>2. a[1] \in Nat /\ a[2] \in Nat \ {0} /\ left = {} /\ 0 \in used
  BY PagesNat, PageAssumption DEF PInv, TypeOK, PhaseInv, Page, MemoryFree
<1>3. R \subseteq used /\ R \cap used = R /\ R \in SUBSET Page
  BY DEF PInv, OwnedIsUsed, TypeOK
<1>4. Cardinality(R) = a[2]
  BY <1>2, RunCount
<1>5. s_freePages' = Cardinality(Page \ used')
  <2> HIDE DEF R
  <2>1. Cardinality(Page \ (used \ R)) = Cardinality(Page \ used) + Cardinality(R \cap used)
    BY <1>3, CountClear DEF PInv, TypeOK
  <2>2. used' = used \ R
    BY <1>1 DEF R
  <2> QED
    BY <1>1, <1>3, <1>4, <2>1, <2>2 DEF PInv, FreePagesExact
<1>6. TypeOK'
  BY <1>1, <1>5, CountType DEF PInv, TypeOK, MemoryFree
<1>7. OwnedIsUsed' /\ NoDoubleHandout'
  BY <1>1 DEF PInv, OwnedIsUsed, NoDoubleHandout
<1>8. NullNotOwned' /\ 0 \in used'
  BY <1>1, <1>2 DEF PInv, NullNotOwned
<1>9. ReservedMarked' /\ ReservedKept'
  <2>1. \A r \in Reserved : ReservedPages(r) \subseteq used /\ R \cap ReservedPages(r) = {}
    BY <1>2 DEF PInv, ReservedMarked, ReservedKept, ReservedPages, MemoryFree
  <2> QED
    BY <1>1, <2>1 DEF PInv, ReservedMarked, ReservedKept, MemoryFree
<1> QED
  BY <1>1, <1>5, <1>6, <1>7, <1>8, <1>9 DEF PInv, PhaseInv, FreePagesExact, MemoryFree

-----------------------------------------------------------------------------
THEOREM Inductive == Spec => []PInv
<1>1. ASSUME PInv, [Next]_vars PROVE PInv'
  <2>1. CASE UNCHANGED vars
    BY <1>1, <2>1 DEF vars, PInv, TypeOK, PhaseInv, FreePagesExact, OwnedIsUsed,
       NoDoubleHandout, NullNotOwned, ReservedMarked, ReservedKept
  <2>2. CASE Next
    BY <1>1, <2>2, BootAddStep, BootRemoveStep, BootDoneStep, SearchStep, FoundStep,
       FreeStep DEF Next, Scan
  <2> QED
    BY <1>1, <2>1, <2>2
<1> QED
  BY <1>1, InitPInv, PTL DEF Spec

(* Type correctness of the allocator's state. *)
THEOREM TypeCorrect == Spec => []TypeOK
<1>1. PInv => TypeOK
  BY DEF PInv
<1> QED
  BY <1>1, Inductive, PTL

(* memory_alloc() never hands out a page that is already in use. *)
THEOREM DisjointRuns == Spec => []NoDoubleHandout
<1>1. PInv => NoDoubleHandout
  BY DEF PInv
<1> QED
  BY <1>1, Inductive, PTL

(* s_freePages counts the clear bits, after any history. *)
THEOREM FreeCount == Spec => []FreePagesExact
<1>1. PInv => FreePagesExact
  BY DEF PInv
<1> QED
  BY <1>1, Inductive, PTL

(* The assertion of memory_free() cannot fail for a caller that frees what *)
(* it was given, once.                                                     *)
THEOREM FreeAssertion == Spec => []OwnedIsUsed
<1>1. PInv => OwnedIsUsed
  BY DEF PInv
<1> QED
  BY <1>1, Inductive, PTL

(* What bootstrap_memory() reserved is never handed out, and neither is    *)
(* address 0.                                                              *)
THEOREM BootMemoryKept == Spec => [](ReservedKept /\ NeverNull)
<1>1. PInv => ReservedKept /\ NeverNull
  BY PageAssumption, PagesNat DEF PInv, TypeOK, NullNotOwned, NeverNull, Run
<1> QED
  BY <1>1, Inductive, PTL

-----------------------------------------------------------------------------
(* memory_set(start, end + 1, 0) rounds inwards: the pages it clears lie   *)
(* in the range, or the count wraps and the pages reach past any bitmap.   *)
LEMMA RoundsInside ==
  ASSUME NEW x \in Nat
  PROVE  /\ RoundDown(x) \in Nat /\ RoundDown(x) * PageSize <= x /\ x < (RoundDown(x) + 1) * PageSize
         /\ RoundUp(x) \in Nat /\ RoundUp(x) * PageSize >= x /\ RoundUp(x) <= RoundDown(x) + 1
<1>1. RoundDown(x) \in Nat /\ RoundDown(x) * PageSize <= x /\ x < (RoundDown(x) + 1) * PageSize
  BY PageAssumption, Z3T(30) DEF RoundDown
<1>2. RoundUp(x) \in Nat /\ RoundUp(x) * PageSize >= x
  BY PageAssumption, Z3T(30) DEF RoundUp
<1>3. RoundUp(x) <= RoundDown(x) + 1
  BY PageAssumption, Z3T(30) DEF RoundUp, RoundDown
<1> QED
  BY <1>1, <1>2, <1>3

(* An address below 4 GB is its own pointer. *)
LEMMA LowPointers ==
  ASSUME NEW r \in Ranges
  PROVE  Pointer(r[1]) = r[1] /\ Pointer(r[2] + 1) = r[2] + 1
<1>1. r[1] \in Nat /\ r[2] \in Nat /\ r[1] <= r[2] /\ RoundDown(r[2]) + 1 < AddrPages
  BY DEF Ranges, Intervals, RoundDown
<1>2. r[2] < (RoundDown(r[2]) + 1) * PageSize /\ RoundDown(r[2]) \in Nat
  BY <1>1, RoundsInside
<1> DEFINE k == RoundDown(r[2]) + 1
           space == AddrPages * PageSize
<1>3. k \in Nat /\ k + 1 <= AddrPages
  BY <1>1, <1>2, PageAssumption
<1> HIDE DEF k
<1>4. (k + 1) * PageSize <= space /\ (k + 1) * PageSize = k * PageSize + PageSize
      /\ space \in Nat /\ k * PageSize \in Nat
  BY <1>3, PageAssumption, Z3T(30)
<1>5. r[2] < k * PageSize
  BY <1>2 DEF k
<1> HIDE DEF space
<1>6. r[1] \in 0 .. space - 1 /\ r[2] + 1 \in 0 .. space - 1 /\ space \in Nat \ {0}
  BY <1>1, <1>4, <1>5, PageAssumption
<1>7. r[1] % space = r[1] /\ (r[2] + 1) % space = r[2] + 1
  BY <1>6, Z3T(30)
<1> QED
  BY <1>7, Zenon DEF Pointer, space

LEMMA FreeRounding ==
  ASSUME NEW r \in Ranges, MemorySetPages(r[1], r[2] + 1, 0) \subseteq Page
  PROVE  \A p \in MemorySetPages(r[1], r[2] + 1, 0) :
           \A x \in p * PageSize .. (p + 1) * PageSize - 1 : r[1] <= x /\ x <= r[2]
<1> DEFINE start == RoundUp(r[1])
           end == RoundDown(r[2] + 1)
           n == (end - start) % AddrPages
<1>1. r[1] \in Nat /\ r[2] \in Nat /\ r[1] <= r[2] /\ RoundDown(r[2]) + 1 < AddrPages
  BY DEF Ranges, Intervals, RoundDown
<1>2. /\ start \in Nat /\ start * PageSize >= r[1] /\ start <= RoundDown(r[1]) + 1
      /\ end \in Nat /\ end * PageSize <= r[2] + 1
      /\ RoundDown(r[1]) \in Nat /\ RoundDown(r[2]) \in Nat
  BY <1>1, RoundsInside
<1>3. /\ RoundDown(r[1]) <= end /\ end <= RoundDown(r[2]) + 1
      /\ RoundDown(r[1]) <= RoundDown(r[2])
  BY <1>1, PageAssumption, Z3T(30) DEF RoundDown
<1>4. MemorySetPages(r[1], r[2] + 1, 0) = Run(start, n)
  <2>1. start \in 0 .. AddrPages - 1
    BY <1>1, <1>2, <1>3, PageAssumption
  <2> HIDE DEF start
  <2>2. start % AddrPages = start
    BY <2>1, PageAssumption, Z3T(30)
  <2>3. MemorySetPages(r[1], r[2] + 1, 0) = Run(start % AddrPages, n)
    <3>1. 0 # 1
      OBVIOUS
    <3> QED
      BY <3>1, SMTT(30) DEF MemorySetPages, start
  <2> QED
    BY <2>2, <2>3, Zenon
<1> HIDE DEF start, end
<1>5. CASE start <= end
  <2>1. end - start \in 0 .. AddrPages - 1
    BY <1>1, <1>2, <1>3, <1>5, PageAssumption
  <2>2. n = end - start
    BY <2>1, PageAssumption, Z3T(30)
  <2> SUFFICES ASSUME NEW p \in Run(start, n),
                      NEW x \in p * PageSize .. (p + 1) * PageSize - 1
               PROVE  r[1] <= x /\ x <= r[2]
    BY <1>4
  <2>3. p \in Int /\ start <= p /\ p + 1 <= end
    BY <1>2, <2>2 DEF Run
  <2>4. start * PageSize <= p * PageSize /\ (p + 1) * PageSize <= end * PageSize
    BY <1>2, <2>3, PageAssumption, Z3T(30)
  <2>5. p * PageSize \in Int /\ (p + 1) * PageSize \in Int
        /\ start * PageSize \in Int /\ end * PageSize \in Int
    BY <1>2, <2>3, PageAssumption
  <2> QED
    BY <1>1, <1>2, <2>4, <2>5
<1>6. CASE end < start
  <2>1. end - start = -1
    BY <1>2, <1>3, <1>6
  <2>2. n = AddrPages - 1 /\ n >= 1
    BY <1>1, <1>2, <2>1, PageAssumption, Z3T(30)
  <2>3. start + n - 1 \in Run(start, n)
    BY <1>2, <2>2, PageAssumption DEF Run
  <2>4. start + n - 1 \notin Page
    BY <1>2, <1>6, <2>2, PageAssumption DEF Page, memory_pages
  <2> QED
    BY <1>4, <2>3, <2>4
<1> QED
  BY <1>2, <1>5, <1>6

(* A clear bit stands for a page of RAM. *)
ClearIsRam ==
  phase # "overrun" /\ added \subseteq Ranges => \A p \in Page \ used : IsRam(p)

RamInv == ClearIsRam /\ HandsOutRam

LEMMA InitRam == Init => RamInv
BY DEF Init, RamInv, ClearIsRam, HandsOutRam

LEMMA BootRam ==
  ASSUME PInv, RamInv, BootAdd \/ BootRemove \/ BootDone
  PROVE  RamInv'
<1>1. owned' = {}
  BY DEF PInv, PhaseInv, BootAdd, BootRemove, BootDone
<1>2. HandsOutRam'
  BY <1>1 DEF HandsOutRam
<1>3. phase # "overrun"
  BY DEF BootAdd, BootRemove, BootDone
<1>4. CASE BootAdd
  <2>1. PICK r \in Available : /\ MemorySet(Pointer(r[1]), Pointer(r[2] + 1), 0)
                              /\ added' = added \cup {r}
    BY <1>4 DEF BootAdd
  <2> DEFINE touched == MemorySetPages(Pointer(r[1]), Pointer(r[2] + 1), 0)
  <2>2. CASE touched \subseteq Page
    <3> SUFFICES ASSUME added' \subseteq Ranges PROVE \A p \in Page \ used' : IsRam(p)'
      BY <1>2 DEF RamInv, ClearIsRam
    <3>1. used' = used \ touched
      BY <2>1, <2>2 DEF MemorySet
    <3>2. r \in Ranges /\ r \in added' /\ added \subseteq added' /\ added \subseteq Ranges
      BY <2>1
    <3>3. \A p \in touched : IsRam(p)'
      <4>1. touched = MemorySetPages(r[1], r[2] + 1, 0)
        BY <3>2, LowPointers
      <4> HIDE DEF touched
      <4>2. \A p \in touched : \A x \in p * PageSize .. (p + 1) * PageSize - 1 : r[1] <= x /\ x <= r[2]
        BY <2>2, <3>2, <4>1, FreeRounding
      <4> QED
        BY <3>2, <4>2 DEF IsRam
    <3>4. \A p \in Page \ used : IsRam(p)'
      BY <1>3, <3>2 DEF RamInv, ClearIsRam, IsRam
    <3> QED
      BY <3>1, <3>3, <3>4
  <2>3. CASE ~ (touched \subseteq Page)
    BY <1>2, <2>1, <2>3 DEF MemorySet, RamInv, ClearIsRam
  <2> QED
    BY <2>2, <2>3
<1>5. CASE BootRemove \/ BootDone
  <2>1. used \subseteq used' /\ added' = added
    BY <1>5 DEF BootRemove, BootDone, MemorySet
  <2>2. \A p : IsRam(p)' = IsRam(p)
    BY <2>1 DEF IsRam
  <2> QED
    BY <1>2, <1>3, <2>1, <2>2 DEF RamInv, ClearIsRam
<1> QED
  BY <1>4, <1>5

(* A search hands out clear bits; a caller gives back what it was handed. *)
LEMMA RunRam ==
  ASSUME PInv, RamInv,
         \/ UNCHANGED vars
         \/ \E n \in 1 .. MaxAlloc : AllocCall(n) \/ AllocRefused(n)
         \/ Scan \/ MemoryFree
  PROVE  RamInv'
<1>1. CASE UNCHANGED <<used, phase, owned, added>>
  BY <1>1 DEF RamInv, ClearIsRam, HandsOutRam, IsRam
<1>2. CASE ScanFound
  <2> DEFINE R == Run(block, pages)
  <2>1. R \subseteq Page
    <3>1. memory_pages \in Nat \ {0} /\ i + s_lastPage \in Nat
      BY <1>2, PagesNat DEF ScanFound, PInv, TypeOK
    <3>2. block \in 0 .. memory_pages - 1 /\ pages \in 1 .. MaxAlloc
      BY <1>2, <3>1, PageAssumption, Z3T(30) DEF block, ScanFound, PInv, TypeOK
    <3> QED
      BY <1>2, <3>1, <3>2, PageAssumption DEF ScanFound, Wraps, Run, Page
  <2>2. /\ R \cap used = {} /\ used' = used \cup R /\ owned' = owned \cup {<<block, pages>>}
        /\ phase' = phase /\ added' = added
    BY <1>2 DEF ScanFound, Taken
  <2>3. phase # "overrun"
    BY <1>2 DEF PInv, PhaseInv, ScanFound
  <2>4. \A p : IsRam(p)' = IsRam(p)
    BY <2>2 DEF IsRam
  <2>5. added \subseteq Ranges => \A p \in R : IsRam(p)
    BY <2>1, <2>2, <2>3 DEF RamInv, ClearIsRam
  <2>6. HandsOutRam'
    <3>1. <<block, pages>>[1] = block /\ <<block, pages>>[2] = pages
      OBVIOUS
    <3> QED
      BY <2>2, <2>4, <2>5, <3>1 DEF RamInv, HandsOutRam
  <2>7. ClearIsRam'
    BY <2>2, <2>4 DEF RamInv, ClearIsRam
  <2> QED
    BY <2>6, <2>7 DEF RamInv
<1>3. CASE MemoryFree
  <2>1. PICK a \in owned : used' = used \ Run(a[1], a[2]) /\ owned' = owned \ {a}
    BY <1>3 DEF MemoryFree
  <2>2. added \subseteq Ranges => \A p \in Run(a[1], a[2]) : IsRam(p)
    BY DEF RamInv, HandsOutRam
  <2>3. phase' = phase /\ added' = added
    BY <1>3 DEF MemoryFree
  <2>4. \A p : IsRam(p)' = IsRam(p)
    BY <2>3 DEF IsRam
  <2>5. HandsOutRam' /\ ClearIsRam'
    BY <2>1, <2>2, <2>3, <2>4 DEF RamInv, ClearIsRam, HandsOutRam
  <2> QED
    BY <2>5 DEF RamInv
<1> QED
  BY <1>1, <1>2, <1>3 DEF vars, AllocCall, AllocRefused, Scan, ScanWrap, ScanTaken, ScanFail

(* memory_alloc() hands out nothing but RAM the loader has reported,       *)
(* however the ranges lie in their pages, as long as none of them reaches  *)
(* the last page below 4 GB.                                               *)
THEOREM OnlyRam == Spec => []HandsOutRam
<1>1. PInv /\ RamInv /\ [Next]_vars => RamInv'
  BY BootRam, RunRam DEF Next
<1>2. RamInv => HandsOutRam
  BY DEF RamInv
<1> QED
  BY <1>1, <1>2, InitRam, Inductive, PTL DEF Spec
===========================================================================
