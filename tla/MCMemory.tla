------------------------------ MODULE MCMemory ------------------------------
(***************************************************************************)
(* The allocators of the kernel and the structures it keeps its objects in *)
(* side by side: physical pages, the heap, an arena, an object cache; the  *)
(* ring of integers, the hash table, the environment of processes, the     *)
(* tree and the list of threads.  A behaviour is one of one of them, part  *)
(* says of which; the others keep their initial state.                     *)
(***************************************************************************)
EXTENDS PhysMem

(* Twelve pages of four bytes in an address space of sixteen.  Ranges are  *)
(* not page aligned; byte 22, in page 5, is not usable.  The last range is *)
(* beyond the address space and truncated to the bytes from 20 to 27.      *)
Usable == {<<0, 21>>, <<23, 47>>, <<84, 91>>}
InUse  == {<<27, 28>>}

VARIABLES part,
          majors, l_bestBet, call, re, blocks,
          tags, spans, free_cache, hash, lent,
          slabs, used_objects, total_objects, taking, things,
          initial, grow, queue, size, start, count, waiting,
          table, total, inside,
          environ, heap, lost, latest, dropped,
          smk, threads_htable, thread_count, last_tid, threads, fam, list

heapVars  == <<majors, l_bestBet, call, re, blocks>>
arenaVars == <<tags, spans, free_cache, hash, lent>>
cacheVars == <<slabs, used_objects, total_objects, taking, things>>
ringVars  == <<initial, grow, queue, size, start, count, waiting>>
tableVars == <<table, total, inside>>
envVars   == <<environ, heap, lost, latest, dropped>>
treeVars  == <<smk, threads_htable, thread_count, last_tid, threads, fam, list>>

(* Two threads; pages of 22 bytes and headers of two, so that a page has   *)
(* room for two small blocks and a large one is alone in it.               *)
Heap == INSTANCE Liballoc WITH
  Thread <- {"t1", "t2"}, Requests <- {1, 4}, MaxOwned <- 3, HeapPages <- 2,
  l_pageSize <- 22, l_pageCount <- 1, MajorSize <- 2, MinorSize <- 2,
  ALIGNMENT <- 2, ALIGN_INFO <- 1, owned <- blocks

(* A span of five quanta, one of two, and two blocks of a source. *)
Arena == INSTANCE Vmem WITH
  quantum <- 2, cache_bits <- 2, HasSource <- TRUE, SourceBlocks <- {1, 2},
  Requests <- {1, 4, 6}, Spans <- {<<2, 10>>, <<12, 4>>}

(* Slabs of two objects with red zones and owner pointers, at addresses    *)
(* that are aligned and that are not.                                      *)
Cache == INSTANCE KmemCache WITH
  Thread <- {"t1"}, objects <- 2, size <- 3, align <- 4,
  cflags <- {"RED_ZONE", "OWNERSHIP"}, WORD <- 1, Places <- {10, 31, 53}, owned <- things

(* Rings created with sizes that fit and sizes that do not. *)
Ring == INSTANCE IQueue WITH
  Created <- {<<2, 2>>, <<1, 2>>, <<0, 2>>, <<2, 0>>}, Numbers <- {1, 2}, MaxSize <- 6

(* Keys that collide in a table of four slots, a negative one among them;  *)
(* the fourth insertion makes the table grow.                              *)
Table == INSTANCE HTable WITH
  Data <- {"a", "b", "c", "d", "e", "f"},
  Key <- [a |-> 1, b |-> 5, c |-> -1, d |-> 2, e |-> 3, f |-> 6],
  percent <- 75, InitSize <- 4, MinSize <- 4

(* Two processes with two names each and four blocks: overwriting all, or  *)
(* cloning after a loss, runs out of memory.                               *)
Environment == INSTANCE Env WITH
  Process <- {"p", "q"}, Name <- {"a", "b"}, Value <- {"x", "y"}, Block <- 1 .. 4

Tree == INSTANCE ThreadTree WITH MaxTid <- 6

MCInit ==
  /\ part \in {"pages", "heap", "arena", "cache", "ring", "table", "environment", "tree"}
  /\ Init /\ Heap!Init /\ Arena!Init /\ Cache!Init
  /\ Ring!Init /\ Table!Init /\ Environment!Init /\ Tree!Init
  /\ part # "ring" => initial = 2 /\ grow = 2
  /\ part # "tree" => ~ smk

(* What the parts that are not under way keep. *)
Allocators == <<vars, heapVars, arenaVars, cacheVars>>
Structures == <<ringVars, tableVars, envVars, treeVars>>

MCNext ==
  \/ part = "pages" /\ Next /\ UNCHANGED <<part, heapVars, arenaVars, cacheVars, Structures>>
  \/ part = "heap"  /\ Heap!Next /\ UNCHANGED <<part, vars, arenaVars, cacheVars, Structures>>
  \/ part = "arena" /\ Arena!Next /\ UNCHANGED <<part, vars, heapVars, cacheVars, Structures>>
  \/ part = "cache" /\ Cache!Next /\ UNCHANGED <<part, vars, heapVars, arenaVars, Structures>>
  \/ part = "ring"  /\ Ring!Next /\ UNCHANGED <<part, Allocators, tableVars, envVars, treeVars>>
  \/ part = "table" /\ Table!Next /\ UNCHANGED <<part, Allocators, ringVars, envVars, treeVars>>
  \/ part = "environment" /\ Environment!Next
     /\ UNCHANGED <<part, Allocators, ringVars, tableVars, treeVars>>
  \/ part = "tree"  /\ Tree!Next /\ UNCHANGED <<part, Allocators, ringVars, tableVars, envVars>>

MCSpec == MCInit /\ [][MCNext]_<<part, Allocators, Structures>>

-----------------------------------------------------------------------------
(* The heap: the usage by which malloc skips a block and free picks the    *)
(* best bet is exact, blocks of callers lie inside minor blocks of their   *)
(* own, and these one behind the other, through splits, growth, give-backs *)
(* and reallocs that are unlocked half way.                                *)
HeapSound == Heap!UsageExact /\ Heap!HeapSound

(* The arena: every free tag is in the list for its size and no other, the *)
(* tags cover the spans, neighbours that are free are melted, after any    *)
(* order of splits and frees and with or without memory of the source.     *)
ArenaSound == Arena!FreeListsExact /\ Arena!Melted

(* The cache: objects with their red zones and owner pointers lie inside   *)
(* the memory of the slab, wherever that is and whatever was freed before. *)
ObjectsInside == Cache!ObjectsInside

(* malloc, vmem_alloc and kmem_cache_alloc each implement an allocator:    *)
(* what they hand out overlaps nothing that is in use, what is freed was   *)
(* handed out.                                                             *)
ImplementAllocator == Heap!ImplementsAllocator /\ Arena!ImplementsAllocator /\ Cache!ImplementsAllocator

(* A ring of integers takes back what was put in, in that order, through   *)
(* growth, wrap and shrinking.                                             *)
InOrder == Ring!InOrder

(* A ring never holds more than it has room for, unless its first size is  *)
(* not a multiple of its step: then shrinking overruns it.                 *)
CountFits == Ring!CountFits

(* The hash table: whatever was removed or rehashed before, a lookup finds *)
(* exactly the data that is in, and total, which decides over the size, is *)
(* their number.                                                           *)
HoldsExactly == Table!HoldsExactly

(* The environment: a name has the value it was set to last, also after a  *)
(* call that ran out of memory, and every block has one owner.             *)
EnvironmentRight == Environment!HoldsLatest /\ Environment!BlocksOwned

(* The threads of a process stay one tree, all of it within reach of       *)
(* proc->threads, whoever is created or deleted.                           *)
TreeSound == Tree!TreeSound
=============================================================================
