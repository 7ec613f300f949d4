------------------------------- MODULE Ualloc -------------------------------
(***************************************************************************)
(* ualloc.c on top of Paging: the memory of one process, allocated and     *)
(* freed by its threads, which hold the process for writing, and the       *)
(* stacks of its threads (threads.c), while others use physical memory     *)
(* too.  A call that runs out of memory leaves what it has done so far.    *)
(* Three calls do not look whether they got memory: paging.c and user_map  *)
(* use the 0 as an address, and new_thread goes on without a stack, whose  *)
(* delete_thread unmaps and frees what others have put in its place.       *)
(* space.ok is FALSE from there on, and nothing is said of what follows.   *)
(***************************************************************************)
EXTENDS Paging

CONSTANTS Sizes,              \* pages asked for
          sK_PAGES_THREAD,    \* pages of a stack, 10 in the code
          Segments,           \* where exec puts programs: sets of <<page, pages>>
          Device,             \* a frame outside of memory that user_map is asked for
          MaxRecords          \* kmalloc has room for so many records of a process

VARIABLES space,       \* proc->map and physical memory
          alloc,       \* proc->alloc: records of virt, phys, pages, norelease
          freeing,     \* the record user_free has yet to unmap, or <<>>
          stacks,      \* threads, by the first page of their stack
          others,      \* frames in use elsewhere
          ended        \* delete_process has run

vars == <<space, alloc, freeing, stacks, others, ended>>

Init ==
  /\ space = new_page_directory
  /\ alloc = <<>> /\ freeing = <<>>
  /\ stacks = {} /\ others = {} /\ ended = FALSE

Ready == freeing = <<>> /\ ~ ended
Room == Len(alloc) < MaxRecords
Record(virt, phys, n, keep) == [virt |-> virt, phys |-> phys, pages |-> n, norelease |-> keep]

(* user_alloc; when there is no record, or no place, the frames go back. *)
user_alloc(n) ==
  LET f == memory_alloc(space.used, n)
      got == page_provide([space EXCEPT !.used = @ \cup Span(f, n)], f, n)
  IN
  /\ Ready /\ Room
  /\ f # 0 /\ got.at # 0
  /\ space' = got.space
  /\ alloc' = <<Record(got.at, f, n, FALSE)>> \o alloc
  /\ UNCHANGED <<freeing, stacks, others, ended>>

(* user_map: frames that are not the allocator's.  The record is filled in *)
(* whether or not there is one.                                            *)
user_map(n) ==
  LET got == page_provide(space, Device, n) IN
  /\ Ready
  /\ got.at # 0
  /\ space' = [got.space EXCEPT !.ok = @ /\ Room]
  /\ alloc' = IF Room THEN <<Record(got.at, Device, n, TRUE)>> \o alloc ELSE alloc
  /\ UNCHANGED <<freeing, stacks, others, ended>>

(* user_free( ptr ): the first record at ptr; its frames are freed ... *)
user_free(ptr) ==
  LET i == SelectInSeq(alloc, LAMBDA r : r.virt = ptr) IN
  /\ Ready
  /\ i # 0
  /\ alloc' = RemoveAt(alloc, i)
  /\ space' = IF alloc[i].norelease THEN space ELSE memory_free(space, alloc[i].pages, alloc[i].phys)
  /\ freeing' = alloc[i]
  /\ UNCHANGED <<stacks, others, ended>>

(* ... and then it is unmapped. *)
Unmap ==
  /\ freeing # <<>>
  /\ space' = page_release(space, freeing.virt, freeing.pages)
  /\ freeing' = <<>>
  /\ UNCHANGED <<alloc, stacks, others, ended>>

-----------------------------------------------------------------------------
(* user_alloc_hard: page_ensure maps frames of its own; those of location  *)
(* are kept by a record whose virt is the 0 that page_ensure returned.     *)
user_alloc_hard(a, start, n) ==
  LET f == memory_alloc(a.space.used, n) IN
  IF f = 0 \/ Len(a.alloc) >= MaxRecords THEN [a EXCEPT !.rc = "NOMEM"]
  ELSE [a EXCEPT !.space = page_ensure([@ EXCEPT !.used = @ \cup Span(f, n)], start, n),
                 !.alloc = <<Record(0, f, n, FALSE)>> \o @]

(* user_ensure: every run of pages that are not present, up to the first   *)
(* for which there is no memory.                                           *)
user_ensure(ptr, n) ==
  LET Hole(a, p) == IF p = a.last \/ a.rc # "OK" THEN a ELSE user_alloc_hard(a, a.last, p - a.last)
      Visit(a, p) == IF page_present(a.space, p) THEN [Hole(a, p) EXCEPT !.last = p + 1] ELSE a
      start == [space |-> space, alloc |-> alloc, last |-> ptr, rc |-> "OK"]
  IN  Hole(FoldLeft(Visit, start, Each(ptr, n)), ptr + n)

(* user_release_all, then delete_page_directory, which looks for page      *)
(* tables at pages 512 to 1015 instead of at those numbers of tables, and  *)
(* so finds none of the user's.                                            *)
Released(s, records) ==
  LET Free(w, r) ==
        page_release(IF r.norelease THEN w ELSE memory_free(w, r.pages, r.phys), r.virt, r.pages)
  IN  FoldLeft(Free, s, records)

(* exec_map_in, for a segment of the image, while the process is set up;   *)
(* exec_memory_region deletes the process when it fails.                   *)
exec_map_in(ptr, n) ==
  LET a == user_ensure(ptr, n)
      fails == a.rc # "OK"
  IN
  /\ Ready /\ stacks = {}
  /\ space' = IF fails THEN Released(a.space, a.alloc) ELSE a.space
  /\ alloc' = IF fails THEN <<>> ELSE a.alloc
  /\ ended' = fails
  /\ UNCHANGED <<freeing, stacks, others>>

(* The stack of new_thread: one page more is looked for, as a guard.  What *)
(* user_ensure returns is not looked at; when no place is found the stack  *)
(* is in the kernel's first pages.                                         *)
new_thread ==
  LET at == page_find_free(space, sK_BASE, sK_CEILING, sK_PAGES_THREAD + 1)
      a == user_ensure(at + 1, sK_PAGES_THREAD)
  IN
  /\ Ready
  /\ \/ /\ at # 0
        /\ space' = [a.space EXCEPT !.ok = @ /\ a.rc = "OK"]
        /\ alloc' = a.alloc
        /\ stacks' = stacks \cup {at + 1}
     \/ /\ at = 0
        /\ space' = [space EXCEPT !.ok = FALSE]
        /\ UNCHANGED <<alloc, stacks>>
  /\ UNCHANGED <<freeing, others, ended>>

(* Fault: the frames of the stack are not freed. *)
DeleteKeepsStack(at) ==
  /\ Ready
  /\ at \in stacks
  /\ space' = page_release(space, at, sK_PAGES_THREAD)
  /\ stacks' = stacks \ {at}
  /\ UNCHANGED <<alloc, freeing, others, ended>>

delete_thread(at) ==
  /\ Ready
  /\ at \in stacks
  /\ space' = page_map_out(space, at, sK_PAGES_THREAD)
  /\ stacks' = stacks \ {at}
  /\ UNCHANGED <<alloc, freeing, others, ended>>

-----------------------------------------------------------------------------
delete_process ==
  /\ Ready /\ stacks = {}
  /\ space' = Released(space, alloc)
  /\ alloc' = <<>> /\ ended' = TRUE
  /\ UNCHANGED <<freeing, stacks, others>>

(* Another part of the kernel uses physical memory. *)
OtherAlloc ==
  LET f == memory_alloc(space.used, 1) IN
  /\ others = {} /\ f # 0
  /\ others' = {f}
  /\ space' = [space EXCEPT !.used = @ \cup {f}]
  /\ UNCHANGED <<alloc, freeing, stacks, ended>>

OtherFree ==
  /\ others # {}
  /\ space' = [space EXCEPT !.used = @ \ others]
  /\ others' = {}
  /\ UNCHANGED <<alloc, freeing, stacks, ended>>

Next ==
  /\ space.ok
  /\ \/ \E n \in Sizes : user_alloc(n) \/ user_map(n)
     \/ \E ptr \in PageSpace \cup {0} : user_free(ptr)
     \/ Unmap \/ new_thread \/ delete_process \/ OtherAlloc \/ OtherFree
     \/ \E s \in Segments : exec_map_in(s[1], s[2])
     \/ \E at \in stacks : delete_thread(at)

Spec == Init /\ [][Next]_vars

-----------------------------------------------------------------------------
Owned(r) == IF r.norelease THEN {} ELSE Span(r.phys, r.pages)
Recorded == UNION {Span(alloc[i].virt, alloc[i].pages) : i \in 1 .. Len(alloc)}

(* Through any sequence of calls, also of calls that run out of memory     *)
(* half way: every record's pages are mapped to its frames, and every      *)
(* frame in use has exactly one owner - a record, a page table, a page     *)
(* mapped by page_ensure, or someone else - so nothing is mapped twice or  *)
(* mapped after it was freed, and nothing is lost but the tables and the   *)
(* ensured pages of a process that has ended.  It is about the states      *)
(* between calls: inside user_free, frames that are free are still mapped. *)
Accounted ==
  LET ensured == {p \in PageSpace \ Recorded : space.entry[p] # 0}
      tables == {t \in Tables : space.table[t] # 0}
      owners == UNION {Owned(alloc[i]) : i \in 1 .. Len(alloc)} \cup {space.entry[p] : p \in ensured}
                  \cup {space.table[t] : t \in tables} \cup others
  IN  freeing = <<>> /\ space.ok =>
        /\ \A i \in 1 .. Len(alloc) : alloc[i].virt # 0 =>
             \A j \in 0 .. alloc[i].pages - 1 : space.entry[alloc[i].virt + j] = alloc[i].phys + j
        /\ space.used = owners
        /\ Cardinality(owners) = MapThenSumSet(LAMBDA i : Cardinality(Owned(alloc[i])), 1 .. Len(alloc))
                                   + Cardinality(ensured) + Cardinality(tables) + Cardinality(others)

(* threads.c of a stack: "We're leaving a guard page at the bottom".  The  *)
(* page below a stack is never mapped.                                     *)
GuardStays == \A at \in stacks : ~ page_present(space, at - 1)

(* paging.c: "Destroy a page directory regardless of the contents": the    *)
(* memory of a process that has ended is free again.                       *)
EndFreesAll == ended => space.used \subseteq others
=============================================================================
