------------------------------ MODULE PhysMem ------------------------------
(***************************************************************************)
(* mm/physmem.c: the physical page allocator, a bitmap searched next-fit,  *)
(* and the way mm/bootstrap.c fills it from the boot loader's memory map.  *)
(*                                                                         *)
(* Every operation runs under kernel_lock from its first access to its     *)
(* last, so operations do not interleave.  The search of                   *)
(* memory_multiple_alloc is nevertheless one step per iteration of its     *)
(* loop: what it has seen so far is then part of the state.                *)
(***************************************************************************)
EXTENDS Integers, FiniteSets

CONSTANTS MemBytes,    \* mem_end - mem_start + 1; mem_start is address 0
          PageSize,    \* PAGE_SIZE
          AddrPages,   \* pages in the address space; page counts are modulo this
          Available,   \* byte ranges <<start, end>>, end included, that the loader
                       \* may report as RAM; the end may lie beyond the address space
          Reserved,    \* byte ranges in use at boot: modules, kernel, VGA, bitmap
          MaxAlloc     \* bound on the pages asked for at once

(* Byte ranges, and those of the address space below its last page. *)
Intervals == {r \in Nat \X Nat : r[1] <= r[2]}
Ranges == {r \in Intervals : r[2] \div PageSize + 1 < AddrPages}

ASSUME PageAssumption ==
  /\ PageSize \in Nat \ {0}
  /\ AddrPages \in Nat \ {0}
  /\ MemBytes \in Nat /\ MemBytes \div PageSize < AddrPages
  /\ MaxAlloc \in Nat
ASSUME RangeAssumption == Available \subseteq Intervals /\ Reserved \subseteq Ranges

memory_pages == MemBytes \div PageSize
Page == 0 .. memory_pages - 1

VARIABLES used,         \* the pages whose bit is set in memory_bitmap
          s_freePages,
          s_lastPage,
          phase,        \* "add", "rem": in bootstrap_memory; "run": after it;
                        \* "overrun": memory_set has left the bitmap
          left,         \* the reserved ranges bootstrap_memory has yet to mark
          pages, i,     \* request and loop counter of the allocation under way,
                        \* pages = 0 when there is none
          owned,        \* history: the runs <<block, pages>> handed out
          added         \* history: the ranges of RAM the loader did report

vars == <<used, s_freePages, s_lastPage, phase, left, pages, i, owned, added>>

Run(block, n) == block .. block + n - 1

(* init_physmem: every page is marked used. *)
Init ==
  /\ used = Page
  /\ s_freePages = 0 /\ s_lastPage = 0
  /\ phase = "add" /\ left = Reserved
  /\ pages = 0 /\ i = 0
  /\ owned = {} /\ added = {}

-----------------------------------------------------------------------------
(* memory_set rounds a range [pstart, pend) outwards when it reserves and  *)
(* inwards when it frees, and takes the difference as an unsigned number.  *)
RoundDown(x) == x \div PageSize
RoundUp(x) == (x + PageSize - 1) \div PageSize

(* Faults: a reservation rounded inwards, a freed range rounded outwards. *)
RoundsIn(pstart, pend, use) == Run(RoundUp(pstart), RoundDown(pend) - RoundUp(pstart))
RoundsOut(pstart, pend, use) == Run(RoundDown(pstart), RoundUp(pend) - RoundDown(pstart))

MemorySetPages(pstart, pend, use) ==
  LET start == IF use = 1 THEN RoundDown(pstart) ELSE RoundUp(pstart)
      end   == IF use = 1 THEN RoundUp(pend) ELSE RoundDown(pend)
  IN  Run(start % AddrPages, (end - start) % AddrPages)

MemorySet(pstart, pend, use) ==
  LET touched == MemorySetPages(pstart, pend, use) IN
  \/ /\ touched \subseteq Page
     /\ IF use = 1
        THEN /\ used' = used \cup touched
             /\ s_freePages' = s_freePages - Cardinality(touched \ used)
        ELSE /\ used' = used \ touched
             /\ s_freePages' = s_freePages + Cardinality(touched \cap used)
     /\ phase' = IF use = 1 THEN "rem" ELSE phase
  \/ /\ ~ (touched \subseteq Page)
     /\ phase' = "overrun"
     /\ UNCHANGED <<used, s_freePages>>

(* parse_map computes with 64 bits and casts to a pointer of 32. *)
Pointer(x) == x % (AddrPages * PageSize)

(* bootstrap_memory: first the usable ranges, then all the reserved ones. *)
BootAdd ==
  /\ phase = "add"
  /\ \E r \in Available :
       /\ MemorySet(Pointer(r[1]), Pointer(r[2] + 1), 0)
       /\ added' = added \cup {r}
  /\ UNCHANGED <<s_lastPage, left, pages, i, owned>>

BootRemove ==
  /\ phase \in {"add", "rem"}
  /\ \E r \in left : MemorySet(r[1], r[2] + 1, 1) /\ left' = left \ {r}
  /\ UNCHANGED <<s_lastPage, pages, i, owned, added>>

(* The reservation of page 0, "Never return NULL".  It is taken last here; *)
(* reservations only set bits, so their order does not matter.             *)
BootDone ==
  /\ phase \in {"add", "rem"} /\ left = {}
  /\ 0 \in Page
  /\ used' = used \cup {0}
  /\ s_freePages' = s_freePages - Cardinality({0} \ used)
  /\ phase' = "run"
  /\ UNCHANGED <<s_lastPage, left, pages, i, owned, added>>

-----------------------------------------------------------------------------
(* memory_alloc: the count must exceed the request, or NULL is returned. *)
AllocCall(n) ==
  /\ phase = "run" /\ pages = 0
  /\ s_freePages > n
  /\ pages' = n /\ i' = 0
  /\ UNCHANGED <<used, s_freePages, s_lastPage, phase, left, owned, added>>

AllocRefused(n) ==
  /\ phase = "run" /\ pages = 0
  /\ s_freePages <= n
  /\ UNCHANGED vars

block == (i + s_lastPage) % memory_pages
Wraps == block + pages > memory_pages
(* Fault: the last page of the run is not looked at. *)
TakenButLast == Run(block, pages - 1) \cap used

Taken == Run(block, pages) \cap used

(* A block too close to the end of the bitmap. *)
ScanWrap ==
  /\ pages > 0 /\ i < memory_pages
  /\ Wraps
  /\ i' = i + (pages - 2) + 1
  /\ UNCHANGED <<used, s_freePages, s_lastPage, phase, left, pages, owned, added>>

(* The first page of the run that is in use ends the attempt. *)
ScanTaken ==
  /\ pages > 0 /\ i < memory_pages
  /\ ~ Wraps
  /\ \E j \in 0 .. pages - 1 :
       /\ block + j \in used
       /\ Run(block, j) \cap used = {}
       /\ i' = i + j + 1
  /\ UNCHANGED <<used, s_freePages, s_lastPage, phase, left, pages, owned, added>>

ScanFound ==
  /\ pages > 0 /\ i < memory_pages
  /\ ~ Wraps /\ Taken = {}
  /\ used' = used \cup Run(block, pages)
  /\ s_freePages' = s_freePages - pages
  /\ s_lastPage' = block + pages
  /\ owned' = owned \cup {<<block, pages>>}
  /\ pages' = 0 /\ i' = 0
  /\ UNCHANGED <<phase, left, added>>

(* The loop has ended without a run: NULL. *)
ScanFail ==
  /\ pages > 0 /\ i >= memory_pages
  /\ pages' = 0 /\ i' = 0
  /\ UNCHANGED <<used, s_freePages, s_lastPage, phase, left, owned, added>>

(* memory_free, called by whoever was given the run. *)
MemoryFree ==
  /\ phase = "run" /\ pages = 0
  /\ \E a \in owned :
       /\ used' = used \ Run(a[1], a[2])
       /\ s_freePages' = s_freePages + a[2]
       /\ owned' = owned \ {a}
  /\ UNCHANGED <<s_lastPage, phase, left, pages, i, added>>

Scan == ScanWrap \/ ScanTaken \/ ScanFound \/ ScanFail

Next ==
  \/ BootAdd \/ BootRemove \/ BootDone
  \/ \E n \in 1 .. MaxAlloc : AllocCall(n) \/ AllocRefused(n)
  \/ Scan
  \/ MemoryFree

Spec == Init /\ [][Next]_vars

-----------------------------------------------------------------------------
TypeOK ==
  /\ used \subseteq Page
  /\ s_freePages \in Int
  /\ s_lastPage \in 0 .. memory_pages
  /\ phase \in {"add", "rem", "run", "overrun"}
  /\ left \subseteq Reserved
  /\ pages \in 0 .. MaxAlloc
  /\ i \in Nat
  /\ owned \subseteq Page \X (1 .. MaxAlloc)
  /\ added \subseteq Available

(* No page is handed out twice: two runs in the hands of callers never     *)
(* overlap, whatever was freed and allocated in between.                   *)
NoDoubleHandout ==
  \A a, b \in owned : a # b => Run(a[1], a[2]) \cap Run(b[1], b[2]) = {}

(* s_freePages, which decides whether a search is tried at all, is the     *)
(* number of clear bits.                                                   *)
FreePagesExact == s_freePages = Cardinality(Page \ used)

(* memory_free() asserts that each bit it clears was set. *)
OwnedIsUsed == \A a \in owned : Run(a[1], a[2]) \subseteq used

(* Address 0 is never returned as a success: callers take it for NULL. *)
NeverNull == \A a \in owned : a[1] # 0

(* Memory in use at boot (the kernel, its modules, the bitmap itself) is   *)
(* never handed out, not even a page it only partly occupies.              *)
ReservedKept ==
  \A a \in owned, r \in Reserved :
    Run(a[1], a[2]) \cap (RoundDown(r[1]) .. RoundDown(r[2])) = {}

(* What is handed out is RAM the loader did report, to the last byte,      *)
(* provided it has reported none that reaches the last page below 4 GB.    *)
(* Of a range above, parse_map frees the low halves of the addresses, RAM  *)
(* or not, and without the proviso the property fails.                     *)
IsRam(p) ==
  \A x \in p * PageSize .. (p + 1) * PageSize - 1 :
    \E r \in added : r[1] <= x /\ x <= r[2]
HandsOutRam ==
  added \subseteq Ranges => \A a \in owned : \A p \in Run(a[1], a[2]) : IsRam(p)

(* Freeing and reserving ranges at boot touches bits of the bitmap only. *)
StaysInBitmap == phase # "overrun"
===========================================================================
