------------------------------- MODULE Paging -------------------------------
(***************************************************************************)
(* paging.c: the user part of a page directory, and what the functions on  *)
(* it do to it and to physical memory.  A space is a record of             *)
(*   table   the frame of each page table, 0 when it is not present,       *)
(*   entry   the frame each page is mapped to, 0 when it is not present,   *)
(*   used    the frames that are allocated, in the whole system,           *)
(*   ok      no memory_alloc of paging.c failed: it never checks, and would*)
(*           take page 0 for a page table or map it.                       *)
(* Pages and frames are numbered; flags and TLB invalidation are left out. *)
(***************************************************************************)
EXTENDS Integers, Sequences, SequencesExt, FiniteSets, FiniteSetsExt

CONSTANTS TableSize,              \* entries of a page table, 1024 in the code
          sK_BASE, sK_CEILING,    \* where pages are looked for
          TOP,                    \* the first page above those of the user
          Frame                   \* frames of physical memory; 0 is none of them

ASSUME PageAssumption == sK_BASE \in Nat \ {0} /\ sK_CEILING \in Nat /\ TOP \in Nat
ASSUME FrameAssumption == Frame \subseteq Nat \ {0}

PageSpace == sK_BASE .. TOP - 1
page_table_of(p) == p \div TableSize
Tables == {page_table_of(p) : p \in PageSpace}

Span(start, n) == start .. start + n - 1
Each(start, n) == [i \in 1 .. n |-> start + i - 1]

(* memory_alloc, which PhysMem is about: n free frames in a row, or 0. *)
memory_alloc(used, n) ==
  LET fits == {f \in Frame : Span(f, n) \subseteq Frame \ used}
  IN  IF fits = {} THEN 0 ELSE Min(fits)

(* new_page_directory: no user page is present. *)
new_page_directory ==
  [table |-> [t \in Tables |-> 0], entry |-> [p \in PageSpace |-> 0], used |-> {}, ok |-> TRUE]

(* page_entry_present, page_present: pages outside belong to the kernel. *)
page_present(s, p) == p \notin PageSpace \/ s.entry[p] # 0

(* The table for p, made when there is none. *)
WithTable(s, p) ==
  LET t == page_table_of(p)
      f == memory_alloc(s.used, 1)
  IN  IF s.table[t] # 0 THEN s
      ELSE [s EXCEPT !.table[t] = f, !.used = @ \cup {f}, !.ok = @ /\ f # 0]

EnsurePage(s, p) ==
  LET w == WithTable(s, p)
      f == memory_alloc(w.used, 1)
  IN  IF page_present(w, p) THEN w
      ELSE [w EXCEPT !.entry[p] = f, !.used = @ \cup {f}, !.ok = @ /\ f # 0]

page_ensure(s, start, n) == FoldLeft(EnsurePage, s, Each(start, n))

(* page_direct_map: the tables are made as they are needed. *)
page_direct_map(s, physical, start, n) ==
  LET w == FoldLeft(WithTable, s, Each(start, n))
  IN  [table |-> w.table, used |-> w.used, ok |-> w.ok,
       entry |-> [p \in PageSpace |-> IF p \in Span(start, n) THEN physical + (p - start) ELSE s.entry[p]]]

(* page_find_free: the search jumps behind each page that is in the way.   *)
(* Only where the pages begin is compared with finish.                     *)
page_find_free(s, start, finish, n) ==
  LET fits == {p \in start .. finish - 1 : \A q \in Span(p, n) : ~ page_present(s, q)}
  IN  IF fits = {} THEN 0 ELSE Min(fits)

(* page_provide: where n frames from physical on have been mapped, or 0. *)
page_provide(s, physical, n) ==
  LET at == page_find_free(s, sK_BASE, sK_CEILING, n)
  IN  [at |-> at, space |-> IF at = 0 THEN s ELSE page_direct_map(s, physical, at, n)]

page_release(s, start, n) ==
  [s EXCEPT !.entry = [p \in PageSpace |-> IF p \in Span(start, n) THEN 0 ELSE @[p]]]

(* page_map_out also frees the frames. *)
page_map_out(s, start, n) ==
  [page_release(s, start, n) EXCEPT !.used = @ \ {s.entry[p] : p \in Span(start, n) \cap PageSpace}]

(* memory_free. *)
memory_free(s, n, physical) == [s EXCEPT !.used = @ \ Span(physical, n)]
=============================================================================
