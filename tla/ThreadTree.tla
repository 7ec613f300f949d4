----------------------------- MODULE ThreadTree -----------------------------
(***************************************************************************)
(* The threads of one process: the family tree (ds/family.h), the list     *)
(* (ds/list.h) and the table they are in, as new_thread and delete_thread  *)
(* of processes/threads.c change them under the lock of the process.       *)
(*                                                                         *)
(* Threads are their tids, NULL is 0.  The pointers of the nodes are       *)
(* functions; a fam is a record of the four of a tree.                     *)
(***************************************************************************)
EXTENDS Integers, FiniteSets

CONSTANT MaxTid     \* bound on last_tid; the code's is 2^31

NULL == 0
Thread == 1 .. MaxTid

VARIABLES smk,              \* this is the kernel's own process
          threads_htable,   \* threads of the process
          thread_count,
          last_tid,
          threads,          \* proc->threads, where walks begin
          fam,              \* family_tree of every thread
          list              \* list of every thread

vars == <<smk, threads_htable, thread_count, last_tid, threads, fam, list>>

Nowhere == [t \in Thread |-> NULL]

(* family_init and list_init for every node; a process without threads. *)
Init ==
  /\ smk \in BOOLEAN
  /\ threads_htable = {} /\ thread_count = 0 /\ last_tid = 1
  /\ threads = NULL
  /\ fam = [parent |-> Nowhere, child |-> Nowhere, sibling_prev |-> Nowhere, sibling_next |-> Nowhere]
  /\ list = [prev |-> Nowhere, next |-> Nowhere]

(* f with the pointer of node t set to v, if there is such a node. *)
Set(f, t, v) == IF t = NULL THEN f ELSE [f EXCEPT ![t] = v]

-----------------------------------------------------------------------------
family_remove(f, t) ==
  LET p == f.parent[t] IN
  [f EXCEPT !.child = IF p # NULL /\ f.child[p] = t THEN Set(@, p, f.sibling_next[t]) ELSE @,
            !.sibling_next = [Set(@, f.sibling_prev[t], f.sibling_next[t]) EXCEPT ![t] = NULL],
            !.sibling_prev = [Set(@, f.sibling_next[t], f.sibling_prev[t]) EXCEPT ![t] = NULL],
            !.parent[t] = NULL]

family_add_child(f, p, t) ==
  LET old == f.child[p] IN
  [f EXCEPT !.sibling_prev = Set(@, old, t),
            !.sibling_next[t] = IF old # NULL THEN old ELSE @,
            !.child[p] = t,
            !.parent[t] = p]

(* Fault: the sibling behind is not told. *)
AddSiblingNotTold(f, bro, t) ==
  [f EXCEPT !.sibling_prev[t] = bro,
            !.sibling_next = [@ EXCEPT ![t] = f.sibling_next[bro], ![bro] = t],
            !.parent[t] = f.parent[bro]]

family_add_sibling(f, bro, t) ==
  [f EXCEPT !.sibling_prev = [Set(@, f.sibling_next[bro], t) EXCEPT ![t] = bro],
            !.sibling_next = [@ EXCEPT ![t] = f.sibling_next[bro], ![bro] = t],
            !.parent[t] = f.parent[bro]]

(* family_adopt: the loop, one child of the dead parent per call; tmp is   *)
(* the next one.  The child it begins with is the last of the new list.    *)
adopt[x \in [f : [{"parent", "child", "sibling_prev", "sibling_next"} -> [Thread -> 0 .. MaxTid]],
             step : Thread, tmp : 0 .. MaxTid]] ==
  LET f == x.f IN
  IF x.tmp = NULL THEN f
  ELSE adopt[[x EXCEPT !.tmp = f.sibling_next[x.tmp],
                       !.f = [f EXCEPT !.parent[x.tmp] = x.step,
                                       !.sibling_prev = Set([@ EXCEPT ![x.tmp] = NULL], f.child[x.step], x.tmp),
                                       !.sibling_next[x.tmp] = f.child[x.step],
                                       !.child[x.step] = x.tmp]]]

family_adopt(f, step, dead) ==
  [adopt[[f |-> f, step |-> step, tmp |-> f.child[dead]]] EXCEPT !.child[dead] = NULL]

list_remove(l, t) ==
  [l EXCEPT !.next = [Set(@, l.prev[t], l.next[t]) EXCEPT ![t] = NULL],
            !.prev = [Set(@, l.next[t], l.prev[t]) EXCEPT ![t] = NULL]]

list_insertAfter(l, position, t) ==
  [l EXCEPT !.prev = [Set(@, l.next[position], t) EXCEPT ![t] = position],
            !.next = [@ EXCEPT ![t] = l.next[position], ![position] = t]]

-----------------------------------------------------------------------------
(* new_thread, with the calling thread as parent; the first thread and the *)
(* threads of smk have none.  next_tid: last_tid is free until it wraps.   *)
new_thread(parent) ==
  LET tr == last_tid IN
  /\ tr \in Thread
  /\ parent \in IF smk \/ threads = NULL THEN {NULL} ELSE threads_htable
  /\ UNCHANGED smk
  /\ last_tid' = last_tid + 1
  /\ threads_htable' = threads_htable \cup {tr}
  /\ thread_count' = thread_count + 1
  /\ IF threads = NULL
     THEN threads' = tr /\ UNCHANGED <<fam, list>>
     ELSE /\ fam' = IF parent = NULL THEN family_add_sibling(fam, threads, tr)
                    ELSE family_add_child(fam, parent, tr)
          /\ list' = list_insertAfter(list, threads, tr)
          /\ UNCHANGED threads

(* A thread without parent leaves its children behind as its siblings. *)
orphan[x \in [f : [{"parent", "child", "sibling_prev", "sibling_next"} -> [Thread -> 0 .. MaxTid]],
              tr : Thread]] ==
  LET child == x.f.child[x.tr] IN
  IF child = NULL THEN x.f
  ELSE orphan[[x EXCEPT !.f = family_add_sibling(family_remove(@, child), x.tr, child)]]

delete_thread(tr) ==
  LET kept == IF fam.parent[tr] # NULL THEN family_adopt(fam, fam.parent[tr], tr)
              ELSE orphan[[f |-> fam, tr |-> tr]]
  IN
  /\ tr \in threads_htable
  /\ thread_count' = thread_count - 1
  /\ threads_htable' = threads_htable \ {tr}
  /\ fam' = family_remove(kept, tr)
  /\ list' = list_remove(list, tr)
  /\ threads' = IF threads = tr THEN kept.sibling_next[tr] ELSE threads
  /\ UNCHANGED <<smk, last_tid>>

Next ==
  \/ \E parent \in 0 .. MaxTid : new_thread(parent)
  \/ \E tr \in Thread : delete_thread(tr)

Spec == Init /\ [][Next]_vars

-----------------------------------------------------------------------------
(* What n steps along the given pointers reach from a set of threads. *)
Reached(from, Near(_)) ==
  LET walk[n \in 0 .. MaxTid] ==
        IF n = 0 THEN from ELSE walk[n - 1] \cup (UNION {Near(t) : t \in walk[n - 1]})
  IN  walk[MaxTid] \ {NULL}

(* Threads come and go in any order and at any place of the tree, and the  *)
(* tree stays one: from proc->threads, where gc_do_process begins each     *)
(* deletion, first children and next siblings lead to exactly the threads  *)
(* of the process; the pointers back agree; the count is right.            *)
TreeSound ==
  /\ Reached({threads} \ {NULL}, LAMBDA t : {fam.child[t], fam.sibling_next[t]} \ {NULL}) = threads_htable
  /\ thread_count = Cardinality(threads_htable)
  /\ \A t \in threads_htable :
       /\ fam.sibling_next[t] # NULL => /\ fam.sibling_prev[fam.sibling_next[t]] = t
                                        /\ fam.parent[fam.sibling_next[t]] = fam.parent[t]
       /\ fam.child[t] # NULL => /\ fam.sibling_prev[fam.child[t]] = NULL
                                 /\ fam.parent[fam.child[t]] = t
       /\ t # threads /\ fam.sibling_prev[t] = NULL => fam.child[fam.parent[t]] = t

(* threads.c: "ensure the head of the list is always the head."  The list  *)
(* from proc->threads on, which gc_do_process walks to wake the threads it *)
(* waits for, has every thread.                                            *)
ListFromHead ==
  Reached({threads} \ {NULL}, LAMBDA t : {list.next[t]} \ {NULL}) = threads_htable
=============================================================================
