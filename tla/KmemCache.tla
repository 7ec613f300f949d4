----------------------------- MODULE KmemCache -----------------------------
(***************************************************************************)
(* mm/kmem_cache.c: a cache of objects of one size, kept in slabs.  A slab *)
(* has a stack ctl of object numbers; those from position on are free.     *)
(* Slabs come from kmalloc, which is external: a block at some unused      *)
(* place, or NULL.                                                         *)
(*                                                                         *)
(* The cache has no lock.  Taking an object reads and writes position in   *)
(* two steps: with two callers both can be given the same object, whatever *)
(* the test kernel/tests/kmem_cache.threadsafety asks, and what is said    *)
(* here of what the cache hands out is about callers that take turns.      *)
(*                                                                         *)
(* Where the books of a slab lie is left out.  kmem_new_slab decides it by *)
(* the flags of the call and kmem_destroy_slab by those of the cache: the  *)
(* model is of caches for which the two agree about KV_OFF_SLAB.           *)
(***************************************************************************)
EXTENDS Integers, Sequences, SequencesExt, FiniteSets, FiniteSetsExt

CONSTANTS Thread,
          objects,        \* KMEM_OBJECTS
          size, align,
          cflags,         \* subset of {"RED_ZONE", "OWNERSHIP", "NOGROW"}
          WORD,           \* size of a red zone and of an owner pointer
          Places          \* bound: the addresses kmalloc may return

VARIABLES
  slabs,          \* the list: [ptr, ctl, position]
  used_objects, total_objects,
  taking,         \* per thread: the <<slab, position>> it has read, or <<>>
  owned           \* objects in the hands of callers, with their holders

vars == <<slabs, used_objects, total_objects, taking, owned>>

Init ==
  /\ slabs = <<>>
  /\ used_objects = 0 /\ total_objects = 0
  /\ taking = [t \in Thread |-> <<>>]
  /\ owned = {}

-----------------------------------------------------------------------------
If(flag, n) == IF flag \in cflags THEN n ELSE 0
AlignUp(n) == IF align > 1 /\ n % align # 0 THEN n + (align - (n % align)) ELSE n

(* kmem_cache_create: what one object takes, and what all of a slab take. *)
int_size == AlignUp(size + If("RED_ZONE", 2 * WORD) + If("OWNERSHIP", WORD))
int_slabobj_size == int_size * objects + align + If("RED_ZONE", WORD)

(* Fault: the owner pointer in front of an object is forgotten. *)
OffsetNoOwner(ptr) == AlignUp(ptr + If("RED_ZONE", WORD)) - ptr

(* kmem_new_slab: the first object, aligned, behind its red zone and owner.*)
offset(ptr) == AlignUp(ptr + If("RED_ZONE", WORD) + If("OWNERSHIP", WORD)) - ptr

get_object_ptr(slab, i) == slab.ptr + offset(slab.ptr) + i * int_size
get_object_index(slab, obj) == (obj - slab.ptr - offset(slab.ptr)) \div int_size

get_object_slab(obj) ==
  SelectInSeq(slabs, LAMBDA s : s.ptr <= obj /\ obj < s.ptr + int_slabobj_size)

(* What an object occupies, with its owner pointer and its red zones. *)
Extent(obj) ==
  <<obj - If("RED_ZONE", WORD) - If("OWNERSHIP", WORD),
    size + If("RED_ZONE", 2 * WORD) + If("OWNERSHIP", WORD)>>

Live == {Extent(o[1]) : o \in owned}

-----------------------------------------------------------------------------
(* kmem_cache_grow, with kmem_new_slab and kmem_init_slab.  If kmalloc     *)
(* fails, reclaim shrinks other caches and the alloc tries once more.      *)
FreePlaces ==
  {p \in Places : \A k \in DOMAIN slabs :
     p + int_slabobj_size <= slabs[k].ptr \/ slabs[k].ptr + int_slabobj_size <= p}

Fresh(p) == [ptr |-> p, ctl |-> [i \in 1 .. objects |-> i - 1], position |-> 0]

NeedsSlab ==
  /\ slabs # <<>> => slabs[1].position = objects
  /\ total_objects = used_objects
  /\ "NOGROW" \notin cflags

kmem_cache_grow(t) ==
  /\ taking[t] = <<>> /\ NeedsSlab
  /\ \E p \in FreePlaces : slabs' = <<Fresh(p)>> \o slabs
  /\ total_objects' = total_objects + objects
  /\ UNCHANGED <<used_objects, taking, owned>>

IsEmpty(s) == s.position = 0

(* kmem_cache_shrink: every slab without a used object is destroyed. *)
kmem_cache_shrink(t) ==
  LET kept == SelectSeq(slabs, LAMBDA s : ~ IsEmpty(s)) IN
  /\ taking[t] = <<>>
  /\ slabs' = kept
  /\ total_objects' = total_objects - objects * (Len(slabs) - Len(kept))
  /\ UNCHANGED <<used_objects, taking, owned>>

(* The first slab is full but some other is not: it becomes the first. *)
MoveFront(t) ==
  /\ taking[t] = <<>>
  /\ slabs # <<>> /\ slabs[1].position = objects
  /\ total_objects # used_objects
  /\ LET k == SelectInSeq(slabs, LAMBDA s : s.position # objects)
     IN  slabs' = <<slabs[k]>> \o RemoveAt(slabs, k)
  /\ UNCHANGED <<used_objects, total_objects, taking, owned>>

(* kmem_cache_alloc from the first slab: read position ... *)
TakeLoad(t) ==
  /\ taking[t] = <<>>
  /\ slabs # <<>> /\ slabs[1].position # objects
  /\ used_objects' = used_objects + 1
  /\ taking' = [taking EXCEPT ![t] = <<slabs[1].ptr, slabs[1].position>>]
  /\ UNCHANGED <<slabs, total_objects, owned>>

(* ... then store it incremented and return the object found there. *)
TakeStore(t) ==
  LET k   == SelectInSeq(slabs, LAMBDA s : s.ptr = taking[t][1])
      pos == taking[t][2]
  IN
  /\ taking[t] # <<>> /\ k # 0
  /\ slabs' = [slabs EXCEPT ![k].position = pos + 1]
  /\ owned' = owned \cup {<<get_object_ptr(slabs[k], slabs[k].ctl[pos + 1]), t>>}
  /\ taking' = [taking EXCEPT ![t] = <<>>]
  /\ UNCHANGED <<used_objects, total_objects>>

-----------------------------------------------------------------------------
Push(s, i) == [s EXCEPT !.position = @ - 1, !.ctl[s.position] = i]

kmem_cache_free(t) ==
  /\ taking[t] = <<>>
  /\ \E o \in owned :
       LET k == get_object_slab(o[1]) IN
       /\ o[2] = t /\ k # 0
       /\ slabs' = [slabs EXCEPT ![k] = Push(@, get_object_index(@, o[1]))]
       /\ owned' = owned \ {o}
  /\ used_objects' = used_objects - 1
  /\ UNCHANGED <<total_objects, taking>>

(* A cache is destroyed when its objects are no longer used. *)
kmem_cache_destroy ==
  /\ slabs # <<>> /\ owned = {} /\ \A t \in Thread : taking[t] = <<>>
  /\ slabs' = <<>> /\ total_objects' = 0 /\ used_objects' = 0
  /\ UNCHANGED <<taking, owned>>

Next ==
  \/ kmem_cache_destroy
  \/ \E t \in Thread :
       \/ kmem_cache_grow(t) \/ kmem_cache_shrink(t) \/ MoveFront(t)
       \/ TakeLoad(t) \/ TakeStore(t) \/ kmem_cache_free(t)

Spec == Init /\ [][Next]_vars

-----------------------------------------------------------------------------
(* "This is a guess" says the code of the size of a slab.  It is enough:   *)
(* every object in use lies, with its red zones and its owner pointer, in  *)
(* the memory of its slab, wherever kmalloc has put that.                  *)
ObjectsInside ==
  \A b \in Live : \E k \in DOMAIN slabs :
    slabs[k].ptr <= b[1] /\ b[1] + b[2] <= slabs[k].ptr + int_slabobj_size

A == INSTANCE Allocator WITH live <- Live

(* The cache implements an allocator. *)
ImplementsAllocator == A!Spec
===========================================================================
