-------------------------------- MODULE Env ---------------------------------
(***************************************************************************)
(* env.c: the environment of a process, an array of names with a block of  *)
(* data each.  Callers hold the process, so a call is one step.  kmalloc   *)
(* fails when there is no block left, krealloc may fail whenever the array *)
(* grows; that an array can always shrink is liballoc's realloc.           *)
(***************************************************************************)
EXTENDS Integers, Sequences, SequencesExt, FiniteSets, FiniteSetsExt

CONSTANTS Process, Name, Value,
          Block          \* bound: the blocks kmalloc has

VARIABLES environ,       \* proc->environment of each process: <<[name, data]>>
          heap,          \* what is in each block that is allocated
          lost,          \* blocks of arrays that a krealloc did not return
          latest,        \* history: what was set last, by process and name
          dropped        \* history: the names a process lost in a krealloc

vars == <<environ, heap, lost, latest, dropped>>

NotFound == "NOT_FOUND"
Nothing == [n \in Name |-> NotFound]

Init ==
  /\ environ = [p \in Process |-> <<>>]
  /\ heap = <<>>
  /\ lost = {}
  /\ latest = [p \in Process |-> Nothing]
  /\ dropped = [p \in Process |-> {}]

Find(env, n) == SelectInSeq(env, LAMBDA e : e.name = n)
Datas(env) == {e.data : e \in ToSet(env)}
Names(env) == {e.name : e \in ToSet(env)}
kfree(h, blocks) == [b \in DOMAIN h \ blocks |-> h[b]]
kmalloc(h) == {b \in Block : b \notin DOMAIN h}
Filled(h, b, v) == [x \in DOMAIN h \cup {b} |-> IF x = b THEN v ELSE h[x]]

(* What a call leaves: rc, the array, the heap and the blocks it lost. *)
Result(rc, env, h, gone) == [rc |-> rc, env |-> env, heap |-> h, lost |-> gone]

(* Fault: the block of the old value is kept. *)
OverwriteKeeps(env, h, i, v) ==
  LET b == Min(kmalloc(h)) IN Result("OK", [env EXCEPT ![i].data = b], Filled(h, b, v), {})

(* The new block is allocated before the old one is freed. *)
Overwrite(env, h, i, v) ==
  LET b == Min(kmalloc(h))
  IN  Result("OK", [env EXCEPT ![i].data = b], Filled(kfree(h, {env[i].data}), b, v), {})

(* set_environment, for an array env; grows says what krealloc does. *)
Assign(env, h, n, v, grows) ==
  LET i == Find(env, n)
      b == Min(kmalloc(h))
  IN  IF kmalloc(h) = {} THEN Result("NOMEM", env, h, {})
      ELSE IF i # 0 THEN Overwrite(env, h, i, v)
      ELSE IF ~ grows THEN Result("NOMEM", <<>>, h, Datas(env))
      ELSE Result("OK", Append(env, [name |-> n, data |-> b]), Filled(h, b, v), {})

set_environment(p, n, v, grows) ==
  LET r == Assign(environ[p], heap, n, v, grows) IN
  /\ environ' = [environ EXCEPT ![p] = r.env]
  /\ heap' = r.heap
  /\ lost' = lost \cup r.lost
  /\ latest' = [latest EXCEPT ![p][n] = IF r.rc = "OK" THEN v ELSE @]
  /\ dropped' = [dropped EXCEPT ![p] = (@ \cup Names(environ[p])) \ Names(r.env)]

(* get_environment, get_environment_size. *)
get_environment(p, n) ==
  LET i == Find(environ[p], n) IN IF i = 0 THEN NotFound ELSE heap[environ[p][i].data]

(* The entries behind the one that goes move up. *)
remove_environment(p, n) ==
  LET i == Find(environ[p], n) IN
  /\ i # 0
  /\ heap' = kfree(heap, {environ[p][i].data})
  /\ environ' = [environ EXCEPT ![p] = RemoveAt(@, i)]
  /\ latest' = [latest EXCEPT ![p][n] = NotFound]
  /\ UNCHANGED <<lost, dropped>>

release_environment(p) ==
  /\ heap' = kfree(heap, Datas(environ[p]))
  /\ environ' = [environ EXCEPT ![p] = <<>>]
  /\ latest' = [latest EXCEPT ![p] = Nothing]
  /\ dropped' = [dropped EXCEPT ![p] = {}]
  /\ UNCHANGED lost

(* clone_environment: release, then set one after the other; the first     *)
(* that fails releases again.  The grow-th krealloc is the one that fails, *)
(* if there are so many.                                                   *)
clone_environment(dest, src, grow) ==
  LET start == Result("OK", <<>>, kfree(heap, Datas(environ[dest])), {})
      Copy(r, i) ==
        IF r.rc # "OK" THEN r
        ELSE LET e == environ[src][i]
                 s == Assign(r.env, r.heap, e.name, heap[e.data], i # grow)
             IN  [s EXCEPT !.lost = @ \cup r.lost]
      done == FoldLeft(Copy, start, [i \in 1 .. Len(environ[src]) |-> i])
      ok == done.rc = "OK"
  IN
  /\ dest # src
  /\ environ' = [environ EXCEPT ![dest] = IF ok THEN done.env ELSE <<>>]
  /\ heap' = IF ok THEN done.heap ELSE kfree(done.heap, Datas(done.env))
  /\ lost' = lost \cup done.lost
  /\ latest' = [latest EXCEPT ![dest] =
                   IF ok THEN [n \in Name |-> get_environment(src, n)] ELSE Nothing]
  /\ dropped' = [dropped EXCEPT ![dest] = {}]

Next ==
  \E p \in Process :
    \/ \E n \in Name :
         \/ \E v \in Value, grows \in BOOLEAN : set_environment(p, n, v, grows)
         \/ remove_environment(p, n)
    \/ release_environment(p)
    \/ \E src \in Process, grow \in 0 .. Cardinality(Name) : clone_environment(p, src, grow)

Spec == Init /\ [][Next]_vars

-----------------------------------------------------------------------------
(* A name has the value it was last set to or cloned with, in the process  *)
(* it was set in and in no other; a failed overwrite keeps the old value.  *)
(* The one way to lose a value is the one env.c:30 warns of: a new name    *)
(* for which the array could not grow loses all the process had, and they  *)
(* stay lost until they are set again.                                     *)
HoldsLatest ==
  \A p \in Process, n \in Name :
    get_environment(p, n) = IF n \in dropped[p] THEN NotFound ELSE latest[p][n]

(* Every block that is allocated has exactly one owner, an entry, or was   *)
(* lost with an array krealloc did not return, as the warning of           *)
(* set_environment says: nothing else is leaked, shared or freed twice.    *)
BlocksOwned ==
  /\ DOMAIN heap = UNION {Datas(environ[p]) : p \in Process} \cup lost
  /\ Cardinality(DOMAIN heap) = MapThenSumSet(LAMBDA p : Len(environ[p]), Process) + Cardinality(lost)
=============================================================================
