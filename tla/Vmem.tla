------------------------------- MODULE Vmem -------------------------------
(***************************************************************************)
(* mm/vmem.c: an arena of addresses in units of a quantum.  Spans are      *)
(* added, each becomes one free boundary tag; tags are split by            *)
(* allocation and melted together again by vmem_free, and free tags of     *)
(* less than 2^cache_bits quanta are also in a free list by size.          *)
(*                                                                         *)
(* A tag is known by its address, which no operation changes; 0 is NULL.   *)
(* The source an arena may import from is external: afunc hands out some   *)
(* unused block or fails.  kmalloc is assumed to succeed for tags.         *)
(***************************************************************************)
EXTENDS Integers, Sequences, SequencesExt, FiniteSets, FiniteSetsExt

CONSTANTS quantum, cache_bits,
          HasSource,     \* whether the arena has a source
          SourceBlocks,  \* bound: the blocks of the source, numbers above 0
          Spans,         \* bound: the spans <<addr, size>> that may be added
          Requests       \* bound: the sizes asked for

VARIABLES
  tags,        \* boundary tags in the order of the list
  spans,       \* spans in the order of the list
  free_cache,  \* per list the addresses of its tags
  hash,        \* addresses for which a span's hash holds a tag
  lent         \* blocks of the source this arena has

vars == <<tags, spans, free_cache, hash, lent>>

Flags == SUBSET {"BESTFIT", "INSTANT", "SEARCH"}
NoSource == 0    \* source_addr NULL

Init ==
  /\ tags = <<>> /\ spans = <<>>
  /\ free_cache = [p \in 0 .. cache_bits - 1 |-> <<>>]
  /\ hash = {} /\ lent = {}

highbit(n) == CHOOSE i \in 0 .. n : 2 ^ i <= n /\ n < 2 ^ (i + 1)
ListOf(size) == highbit(size \div quantum)
Cached(size) == ListOf(size) < cache_bits

RoundUp(n) == IF n % quantum = 0 THEN n ELSE n + (quantum - (n % quantum))

TagAt(list, a) == SelectInSeq(list, LAMBDA t : t.addr = a)

(* rem_freelist and add_freelist, for tags small enough to be in one. *)
RemFree(fc, t) ==
  IF Cached(t.size) THEN [fc EXCEPT ![ListOf(t.size)] = SelectSeq(@, LAMBDA a : a # t.addr)] ELSE fc

AddFree(fc, t) ==
  IF Cached(t.size) THEN [fc EXCEPT ![ListOf(t.size)] = <<t.addr>> \o @] ELSE fc

-----------------------------------------------------------------------------
vmem_getspan(a) == SelectInSeq(spans, LAMBDA s : s.addr <= a /\ a < s.addr + s.size)

vmem_add(s) ==
  LET span == [addr |-> s[1], size |-> s[2]]
      bt   == [addr |-> s[1], size |-> s[2], allocated |-> FALSE, source_addr |-> NoSource]
      at   == Cardinality({i \in DOMAIN tags : tags[i].addr < s[1]})
      sat  == Cardinality({i \in DOMAIN spans : spans[i].addr < s[1]})
  IN
  /\ vmem_getspan(s[1]) = 0
  /\ tags' = InsertAt(tags, at + 1, bt)
  /\ spans' = InsertAt(spans, sat + 1, span)
  /\ free_cache' = AddFree(free_cache, bt)
  /\ UNCHANGED <<hash, lent>>

-----------------------------------------------------------------------------
(* The first tag of a list that is large enough, or the first of the best  *)
(* fitting ones.                                                           *)
Pick(list, size, flag) ==
  LET fits == SelectSeq(list, LAMBDA t : t.size >= size)
      least == {i \in DOMAIN fits : \A j \in DOMAIN fits : fits[i].size <= fits[j].size}
  IN  IF fits = <<>> THEN 0
      ELSE IF "BESTFIT" \in flag THEN fits[Min(least)].addr ELSE fits[1].addr

vmem_alloc_search(size, flag) ==
  Pick(SelectSeq(tags, LAMBDA t : ~ t.allocated), size, flag)

(* The free lists from the one of this size on; INSTANT passes it over. *)
vmem_alloc_quantum(size, flag) ==
  LET from == ListOf(size) + (IF "INSTANT" \in flag THEN 1 ELSE 0)
      In(p) == Pick([i \in DOMAIN free_cache[p] |-> tags[TagAt(tags, free_cache[p][i])]], size, flag)
      hits == {p \in from .. cache_bits - 1 : In(p) # 0}
  IN  IF hits = {} THEN 0 ELSE In(Min(hits))

(* Fault: the rest of a split tag is not put back into a free list. *)
PutRestNot(fc, bt, size) == fc

Splits(bt, size) == bt.size - size >= quantum

PutRest(fc, bt, size) ==
  IF Splits(bt, size) THEN AddFree(fc, [bt EXCEPT !.size = @ - size]) ELSE fc

(* Fault: the tag is cut on the left although its rest keeps its address. *)
SplitLeft(bt, size) == bt.addr

(* vmem_al_splittag: the requested size is on the right. *)
SplitAddr(bt, size) == bt.addr + (bt.size - size)

(* vmem_alloc once a tag is found: out of its list, split if a quantum is  *)
(* left over, and what is left into the list of its new size.              *)
Take(k, size, src) ==
  LET bt == tags[k]
      new == IF Splits(bt, size)
             THEN [addr |-> SplitAddr(bt, size), size |-> size, allocated |-> TRUE, source_addr |-> src]
             ELSE [bt EXCEPT !.allocated = TRUE, !.source_addr = src]
  IN  [tags |-> IF Splits(bt, size)
                THEN InsertAt([tags EXCEPT ![k].size = @ - size], k + 1, new)
                ELSE [tags EXCEPT ![k] = new],
       free |-> PutRest(RemFree(free_cache, bt), bt, size),
       addr |-> new.addr]

Found(size, flag) ==
  LET q == vmem_alloc_quantum(size, flag)
  IN  IF "SEARCH" \notin flag /\ q # 0 THEN q ELSE vmem_alloc_search(size, flag)

vmem_alloc(rsize, flag) ==
  LET size == RoundUp(rsize)
      a == Found(size, flag)
  IN
  /\ a # 0
  /\ \E src \in IF HasSource THEN SourceBlocks \ lent ELSE {NoSource} :
       LET to == Take(TagAt(tags, a), size, src) IN
       /\ tags' = to.tags /\ free_cache' = to.free
       /\ hash' = hash \cup {to.addr}
       /\ lent' = lent \cup ({src} \ {NoSource})
  /\ UNCHANGED spans

-----------------------------------------------------------------------------
(* A neighbour belongs to the same span. *)
InSpan(t, span) == t.addr >= span.addr /\ t.addr < span.addr + span.size

(* vmem_free: melt the tag at a with its left and its right neighbour and  *)
(* put it into the list of its size.                                       *)
Melt(list, fc, a, span) ==
  LET k     == TagAt(list, a)
      left  == k > 1 /\ ~ list[k - 1].allocated /\ InSpan(list[k - 1], span)
      right == k < Len(list) /\ ~ list[k + 1].allocated /\ InSpan(list[k + 1], span)
      lo    == IF left THEN k - 1 ELSE k
      hi    == IF right THEN k + 1 ELSE k
      bt    == [list[lo] EXCEPT !.size = list[hi].addr + list[hi].size - list[lo].addr,
                                !.allocated = FALSE]
      fcl   == IF left THEN RemFree(fc, list[k - 1]) ELSE fc
      fcr   == IF right THEN RemFree(fcl, list[k + 1]) ELSE fcl
  IN  [tags |-> SubSeq(list, 1, lo - 1) \o <<bt>> \o SubSeq(list, hi + 1, Len(list)),
       free |-> AddFree(fcr, bt)]

vmem_free(a) ==
  LET to == Melt(tags, free_cache, a, spans[vmem_getspan(a)]) IN
  /\ a \in hash
  /\ tags' = to.tags /\ free_cache' = to.free
  /\ hash' = hash \ {a}
  /\ lent' = lent \ {tags[TagAt(tags, a)].source_addr}
  /\ UNCHANGED spans

(* The source fails: the tag is taken and freed again. *)
vmem_alloc_oops(rsize, flag) ==
  LET size == RoundUp(rsize)
      a == Found(size, flag)
      to == Take(TagAt(tags, a), size, NoSource)
  IN
  /\ HasSource /\ a # 0
  /\ LET back == Melt(to.tags, to.free, to.addr, spans[vmem_getspan(a)])
     IN  tags' = back.tags /\ free_cache' = back.free
  /\ UNCHANGED <<spans, hash, lent>>

(* Called when nothing is allocated from the arena. *)
vmem_destroy ==
  /\ tags # <<>> /\ hash = {}
  /\ tags' = <<>> /\ spans' = <<>> /\ lent' = {}
  /\ free_cache' = [p \in 0 .. cache_bits - 1 |-> <<>>]
  /\ UNCHANGED hash

Next ==
  \/ \E s \in Spans : vmem_add(s)
  \/ \E n \in Requests, flag \in Flags : vmem_alloc(n, flag) \/ vmem_alloc_oops(n, flag)
  \/ \E a \in hash : vmem_free(a)
  \/ vmem_destroy

Spec == Init /\ [][Next]_vars

-----------------------------------------------------------------------------
(* A free tag of cached size is in the list of its size, once, and nothing *)
(* else is: what vmem_alloc_quantum asserts of every tag it meets, and why *)
(* a free range is found there.                                            *)
FreeListsExact ==
  \A p \in DOMAIN free_cache :
    /\ ToSet(free_cache[p]) = {tags[k].addr : k \in {j \in DOMAIN tags : ~ tags[j].allocated /\ ListOf(tags[j].size) = p}}
    /\ IsInjective(free_cache[p])

(* The tags of a span tile it without two free neighbours, so that a range *)
(* that has been freed piece by piece can be handed out whole; and each    *)
(* allocated tag holds exactly one block of the source.                    *)
Melted ==
  /\ \A k \in 1 .. Len(tags) - 1 :
       \/ \E s \in ToSet(spans) : tags[k + 1].addr = s.addr
       \/ /\ tags[k].addr + tags[k].size = tags[k + 1].addr
          /\ tags[k].allocated \/ tags[k + 1].allocated
  /\ \A s \in ToSet(spans) : TagAt(tags, s.addr) # 0
  /\ HasSource => lent = {tags[k].source_addr : k \in {j \in DOMAIN tags : tags[j].allocated}}

Live == {<<tags[k].addr, tags[k].size>> : k \in {j \in DOMAIN tags : tags[j].addr \in hash}}

A == INSTANCE Allocator WITH live <- Live

(* vmem_alloc and vmem_free implement an allocator. *)
ImplementsAllocator == A!Spec
===========================================================================
