----------------------------- MODULE Liballoc -----------------------------
(***************************************************************************)
(* mm/liballoc.c, the kernel's heap (libsmk/liballoc.c is the same file):  *)
(* a list of major blocks of pages, in each a list of minor blocks, one    *)
(* per allocation, sorted by address.                                      *)
(*                                                                         *)
(* Addresses are numbers, page b begins at b * l_pageSize, 0 is NULL.  A   *)
(* search is one step per major block it visits.  liballoc_lock() is held  *)
(* from the first to the last of these steps: call is the search under     *)
(* way.  realloc() gives the lock up twice in between.  Callers free only  *)
(* what they own, so the tests of magic, which count an error and return,  *)
(* do not fire; calloc is malloc and a memset.                             *)
(***************************************************************************)
EXTENDS Integers, Sequences, SequencesExt, FiniteSets, FiniteSetsExt

CONSTANTS Thread,
          Requests,      \* bound: the sizes asked for
          MaxOwned,      \* bound: blocks in the hands of callers
          HeapPages,     \* the pages liballoc_alloc() can hand out
          l_pageSize, l_pageCount,
          MajorSize, MinorSize,   \* sizes of the two headers
          ALIGNMENT, ALIGN_INFO

VARIABLES
  majors,     \* l_memRoot: the list of major blocks
  l_bestBet,  \* page of a major block, 0 for NULL
  call,       \* the malloc under way: << [t, req_size, maj, ...] >>, or <<>>
  re,         \* per thread: the realloc under way
  owned       \* the blocks <<pointer, size>> callers may free

vars == <<majors, l_bestBet, call, re, owned>>

Init ==
  /\ majors = <<>> /\ l_bestBet = 0
  /\ call = <<>>
  /\ re = [t \in Thread |-> <<>>]
  /\ owned = {}

(* ALIGN and UNALIGN: a pointer and the start of its minor block's data,   *)
(* a distance stored just before the pointer.                              *)
AlignDiff(x) == ((- (x + ALIGN_INFO)) % ALIGNMENT) + ALIGN_INFO
Align(x) == x + AlignDiff(x)

(* What malloc reserves for a request, and with the header. *)
Reserve(n) == n + ALIGNMENT + ALIGN_INFO
Total(n) == Reserve(n) + MinorSize

Base(maj) == maj.page * l_pageSize
Size(maj) == maj.pages * l_pageSize
Unused(maj) == Size(maj) - maj.usage
End(min) == min.at + MinorSize + min.size

-----------------------------------------------------------------------------
(* allocate_new_page: at least l_pageCount pages, or NULL. *)
PagesFor(n) ==
  LET st    == Reserve(n) + MajorSize + MinorSize
      pages == (st + l_pageSize - 1) \div l_pageSize
  IN  Max({pages, l_pageCount})

(* liballoc_alloc(): pages that are in no major block, from memory_alloc().*)
FreeRuns(n) ==
  {b \in 1 .. HeapPages - n + 1 :
     \A m \in DOMAIN majors :
       b + n <= majors[m].page \/ majors[m].page + majors[m].pages <= b}

NewMajor(b, n) == [page |-> b, pages |-> n, usage |-> MajorSize, minors |-> <<>>]

(* Cases 2 to 4: the space after the first k minor blocks. *)
Gap(maj, k) ==
  (IF k = Len(maj.minors) THEN Base(maj) + Size(maj) ELSE maj.minors[k + 1].at)
    - (IF k = 0 THEN Base(maj) + MajorSize ELSE End(maj.minors[k]))

Fits(maj, n) == {k \in 0 .. Len(maj.minors) : Gap(maj, k) >= Total(n)}

(* Case 1 and the fall through to case 5: this block cannot serve it. *)
Full(maj, n) == Unused(maj) < Total(n) \/ Fits(maj, n) = {}

(* A minor block after the first k ones. *)
Placed(maj, k, n) ==
  LET at == IF k = 0 THEN Base(maj) + MajorSize ELSE End(maj.minors[k])
  IN  [maj EXCEPT !.minors = InsertAt(@, k + 1, [at |-> at, size |-> Reserve(n), req_size |-> n]),
                  !.usage = @ + Total(n)]

PointerTo(maj, k) ==
  Align((IF k = 0 THEN Base(maj) + MajorSize ELSE End(maj.minors[k])) + MinorSize)

(* Blocks in the hands of callers, those of a realloc included.            *)
Live ==
  owned \cup {b \in UNION {{re[t][1].old, <<re[t][1].new, re[t][1].size>>} :
                           t \in {u \in Thread : re[u] # <<>>}} : b[1] # 0}

-----------------------------------------------------------------------------
(* malloc: take the lock; without a root block get one, or return NULL;    *)
(* start at the block with the most space if that is enough.               *)
Start(t, n, list) ==
  LET bet == SelectInSeq(list, LAMBDA m : m.page = l_bestBet)
      best == IF bet = 0 THEN 0 ELSE Unused(list[bet])
      started == best > Total(n)
  IN  call' = <<[t |-> t, req_size |-> n, maj |-> IF started THEN bet ELSE 1,
                 startedBet |-> started, bestSize |-> best]>>

Malloc(t, n) ==
  /\ call = <<>>
  /\ \/ /\ majors # <<>>
        /\ Start(t, n, majors) /\ UNCHANGED majors
     \/ /\ majors = <<>>
        /\ \E b \in FreeRuns(PagesFor(n)) :
             /\ majors' = <<NewMajor(b, PagesFor(n))>>
             /\ Start(t, n, majors')
  /\ UNCHANGED <<l_bestBet, owned>>

(* The pointer goes to the caller, or to the realloc that asked for it. *)
Give(p) ==
  LET t == call[1].t IN
  /\ call' = <<>>
  /\ IF re[t] = <<>>
     THEN /\ owned' = IF p = 0 THEN owned ELSE owned \cup {<<p, call[1].req_size>>}
          /\ UNCHANGED re
     ELSE /\ re' = [re EXCEPT ![t] = <<[@[1] EXCEPT !.new = p, !.pc = "free"]>>]
          /\ UNCHANGED owned

MallocCall(t, n) ==
  /\ re[t] = <<>> /\ Cardinality(Live) < MaxOwned
  /\ Malloc(t, n)
  /\ UNCHANGED re

(* The block with the most space seen so far. *)
RememberBest(maj) ==
  l_bestBet' = IF call[1].bestSize < Unused(maj) THEN maj.page ELSE l_bestBet

SearchPlace ==
  LET maj == majors[call[1].maj]
      n   == call[1].req_size
      k   == Min(Fits(maj, n))
      to  == Placed(maj, k, n)
  IN
  /\ call # <<>> /\ ~ Full(maj, n)
  /\ RememberBest(maj)
  /\ majors' = [majors EXCEPT ![call[1].maj] = to]
  /\ Give(PointerTo(maj, k))

SearchHop ==
  LET maj == majors[call[1].maj] IN
  /\ call # <<>> /\ Full(maj, call[1].req_size)
  /\ \/ /\ call[1].maj < Len(majors)
        /\ call' = <<[call[1] EXCEPT !.maj = @ + 1, !.bestSize = Max({@, Unused(maj)})]>>
     \/ /\ call[1].maj = Len(majors) /\ call[1].startedBet
        /\ call' = <<[call[1] EXCEPT !.maj = 1, !.startedBet = FALSE,
                                     !.bestSize = Max({@, Unused(maj)})]>>
  /\ RememberBest(maj)
  /\ UNCHANGED <<majors, re, owned>>

(* The last block is reached: a new one, which case 1 uses at once and     *)
(* case 5 in the next iteration, or the end of memory.                     *)
SearchGrow ==
  LET maj == majors[call[1].maj]
      n   == call[1].req_size
  IN
  /\ call # <<>> /\ Full(maj, n)
  /\ call[1].maj = Len(majors) /\ ~ call[1].startedBet
  /\ RememberBest(maj)
  /\ \E b \in FreeRuns(PagesFor(n)) :
       LET fresh == NewMajor(b, PagesFor(n)) IN
       IF Unused(maj) < Total(n)
       THEN /\ majors' = Append(majors, Placed(fresh, 0, n))
            /\ Give(PointerTo(fresh, 0))
       ELSE /\ majors' = Append(majors, fresh)
            /\ call' = <<[call[1] EXCEPT !.maj = @ + 1, !.bestSize = Max({@, Unused(maj)})]>>
            /\ UNCHANGED <<re, owned>>

SearchFail ==
  LET maj == majors[call[1].maj] IN
  /\ call # <<>> /\ Full(maj, call[1].req_size)
  /\ call[1].maj = Len(majors) /\ ~ call[1].startedBet
  /\ RememberBest(maj)
  /\ Give(0)
  /\ UNCHANGED majors

-----------------------------------------------------------------------------
(* The place of the minor block of pointer p. *)
Where(p) ==
  CHOOSE w \in {<<m, k>> : m \in DOMAIN majors, k \in 1 .. HeapPages * l_pageSize} :
    w[2] \in DOMAIN majors[w[1]].minors
    /\ Align(majors[w[1]].minors[w[2]].at + MinorSize) = p

(* Fault: the space of the header is not given back. *)
LeavesHeader(maj, k) ==
  [maj EXCEPT !.usage = @ - maj.minors[k].size, !.minors = RemoveAt(@, k)]

Without(maj, k) ==
  [maj EXCEPT !.usage = @ - (maj.minors[k].size + MinorSize), !.minors = RemoveAt(@, k)]

(* free: unlink the minor block, give an empty major block back, or        *)
(* compare it with the best bet.                                           *)
Unlink(p) ==
  LET m   == Where(p)[1]
      maj == Without(majors[m], Where(p)[2])
      bet == SelectInSeq(majors, LAMBDA x : x.page = l_bestBet)
      best == IF majors[m].page = l_bestBet THEN maj ELSE majors[bet]
  IN
  IF maj.minors = <<>>
  THEN /\ majors' = RemoveAt(majors, m)
       /\ l_bestBet' = IF l_bestBet = maj.page THEN 0 ELSE l_bestBet
  ELSE /\ majors' = [majors EXCEPT ![m] = maj]
       /\ l_bestBet' = IF l_bestBet # 0 /\ Unused(maj) > Unused(best) THEN maj.page ELSE l_bestBet

Free ==
  /\ call = <<>>
  /\ \E b \in owned : Unlink(b[1]) /\ owned' = owned \ {b}
  /\ UNCHANGED <<call, re>>

-----------------------------------------------------------------------------
(* realloc: to a size it already has, in place ... *)
ReallocCut(n) ==
  /\ call = <<>>
  /\ \E b \in owned :
       LET w == Where(b[1]) IN
       /\ majors[w[1]].minors[w[2]].req_size > n
       /\ majors' = [majors EXCEPT ![w[1]].minors[w[2]].req_size = n]
       /\ owned' = (owned \ {b}) \cup {<<b[1], n>>}
  /\ UNCHANGED <<l_bestBet, call, re>>

(* ... to a larger one by malloc, a copy and free, unlocked in between.    *)
(* The copy is made, and the old block freed, whatever malloc returned.    *)
Realloc(t, n) ==
  /\ call = <<>> /\ re[t] = <<>> /\ Cardinality(Live) < MaxOwned
  /\ \E b \in owned :
       /\ majors[Where(b[1])[1]].minors[Where(b[1])[2]].req_size < n
       /\ re' = [re EXCEPT ![t] = <<[old |-> b, size |-> n, new |-> 0, pc |-> "malloc"]>>]
       /\ owned' = owned \ {b}
  /\ UNCHANGED <<majors, l_bestBet, call>>

ReallocMalloc(t) ==
  /\ re[t] # <<>> /\ re[t][1].pc = "malloc"
  /\ Malloc(t, re[t][1].size)
  /\ re' = [re EXCEPT ![t][1].pc = "search"]

ReallocFree(t) ==
  /\ call = <<>>
  /\ re[t] # <<>> /\ re[t][1].pc = "free"
  /\ Unlink(re[t][1].old[1])
  /\ owned' = owned \cup (IF re[t][1].new = 0 THEN {} ELSE {<<re[t][1].new, re[t][1].size>>})
  /\ re' = [re EXCEPT ![t] = <<>>]
  /\ UNCHANGED call

Next ==
  \/ SearchPlace \/ SearchHop \/ SearchGrow \/ SearchFail
  \/ Free
  \/ \E n \in Requests : ReallocCut(n)
  \/ \E t \in Thread :
       \/ ReallocMalloc(t) \/ ReallocFree(t)
       \/ \E n \in Requests : MallocCall(t, n) \/ Realloc(t, n)

Spec == Init /\ [][Next]_vars

-----------------------------------------------------------------------------
(* usage, by which malloc decides whether a block is worth searching and   *)
(* free finds the best bet, is what headers and minor blocks take up; the  *)
(* best bet is a block of the list.                                        *)
UsageExact ==
  /\ \A m \in DOMAIN majors :
       majors[m].usage =
         MajorSize + FoldSeq(LAMBDA x, sum : sum + x.size + MinorSize, 0, majors[m].minors)
  /\ l_bestBet # 0 => \E m \in DOMAIN majors : majors[m].page = l_bestBet

(* Every block lies inside a minor block of its own behind the header, and *)
(* minor blocks lie one behind the other inside their major block.         *)
HeapSound ==
  /\ \A m \in DOMAIN majors : \A k \in 0 .. Len(majors[m].minors) : Gap(majors[m], k) >= 0
  /\ \A b \in Live : \E m \in DOMAIN majors : \E k \in DOMAIN majors[m].minors :
       LET min == majors[m].minors[k]
       IN  min.at + MinorSize + ALIGN_INFO <= b[1] /\ b[1] + b[2] <= End(min)

A == INSTANCE Allocator WITH live <- Live

(* malloc, free and realloc implement an allocator. *)
ImplementsAllocator == A!Spec
===========================================================================
