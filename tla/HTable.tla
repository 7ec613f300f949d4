------------------------------- MODULE HTable -------------------------------
(***************************************************************************)
(* ds/htable.c: the table behind pids, tids and shared memory ids.  Open   *)
(* addressing; the table doubles when it is filled to more than percent    *)
(* and halves when it is nearly empty.  kmalloc may fail: the table then   *)
(* keeps its size.                                                         *)
(***************************************************************************)
EXTENDS Integers, Sequences, SequencesExt, FiniteSets, FiniteSetsExt

CONSTANTS Data,       \* what callers insert, each at most once
          Key,        \* the key function: Data -> Int
          percent,
          InitSize,   \* the size the table is created with
          MinSize     \* 32 in the code: no larger table is ever halved below it

NULL == "NULL"

VARIABLES table, total,
          inside      \* history: the data inserted and not removed

vars == <<table, total, inside>>

Size(tbl) == Cardinality(DOMAIN tbl)
Empty(n) == [i \in 0 .. n - 1 |-> NULL]
Abs(k) == IF k < 0 THEN - k ELSE k

Init ==
  /\ table = Empty(InitSize)
  /\ total = 0
  /\ inside = {}

(* Slots in the order in which a key is looked for. *)
Probe(tbl, d) == [i \in 1 .. Size(tbl) |-> (i - 1 + Abs(Key[d])) % Size(tbl)]

(* The end of htable_insert: the first empty slot. *)
Place(tbl, d) ==
  LET p == Probe(tbl, d)
  IN  [tbl EXCEPT ![p[SelectInSeq(p, LAMBDA s : tbl[s] = NULL)]] = d]

(* Fault: the old entries are counted again. *)
RehashKeepsTotal(n) ==
  LET old == [i \in 1 .. Size(table) |-> table[i - 1]] IN
  [table |-> FoldLeft(LAMBDA tbl, d : IF d = NULL THEN tbl ELSE Place(tbl, d), Empty(n), old),
   total |-> total + Cardinality({i \in DOMAIN old : old[i] # NULL})]

(* htable_rehash: every entry is inserted again.  Those calls of           *)
(* htable_insert never rehash in turn, see NotNested.                      *)
Rehash(n) ==
  LET old == [i \in 1 .. Size(table) |-> table[i - 1]] IN
  [table |-> FoldLeft(LAMBDA tbl, d : IF d = NULL THEN tbl ELSE Place(tbl, d), Empty(n), old),
   total |-> Cardinality({i \in DOMAIN old : old[i] # NULL})]

Same == [table |-> table, total |-> total]

Grows == ((total + 1) * 100) \div Size(table) > percent
Shrinks == ((total - 1) * 100) \div Size(table) < percent \div 4 /\ Size(table) > MinSize

htable_insert(d) ==
  /\ total # Size(table)
  /\ \E to \in {Same} \cup (IF Grows THEN {Rehash(Size(table) * 2)} ELSE {}) :
       /\ table' = Place(to.table, d)
       /\ total' = to.total + 1
  /\ inside' = inside \cup {d}

htable_remove(d) ==
  /\ total # 0
  /\ \E to \in {Same} \cup (IF Shrinks THEN {Rehash(Size(table) \div 2)} ELSE {}) :
       LET p == Probe(to.table, d)
           at == SelectInSeq(p, LAMBDA s : to.table[s] = d)
       IN  IF at = 0
           THEN table' = to.table /\ total' = to.total
           ELSE table' = [to.table EXCEPT ![p[at]] = NULL] /\ total' = to.total - 1
  /\ inside' = inside \ {d}

(* htable_retrieve by a key, and htable_get by position. *)
htable_retrieve(d) ==
  LET p == Probe(table, d)
      at == SelectInSeq(p, LAMBDA s : table[s] # NULL /\ Key[table[s]] = Key[d])
  IN  IF total = 0 \/ at = 0 THEN NULL ELSE table[p[at]]

htable_get(num) ==
  LET full == SelectSeq([i \in 1 .. Size(table) |-> table[i - 1]], LAMBDA d : d # NULL)
  IN  IF num >= total THEN NULL ELSE full[num + 1]

Next ==
  \/ \E d \in Data \ inside : htable_insert(d)
  \/ \E d \in Data : htable_remove(d)

Spec == Init /\ [][Next]_vars

-----------------------------------------------------------------------------
(* Putting the entries back after a change of size never fills the new     *)
(* table so far that this would start another change of size.              *)
NotNested ==
  /\ Grows => (total * 100) \div (Size(table) * 2) <= percent
  /\ Shrinks /\ total > 0 => (total * 100) \div (Size(table) \div 2) <= percent

(* Through all growing, shrinking and failing to, the table holds exactly  *)
(* what callers have put in and not taken out, its count is right, every   *)
(* key is found, and counting through it with htable_get meets everything. *)
HoldsExactly ==
  /\ {table[i] : i \in DOMAIN table} \ {NULL} = inside
  /\ total = Cardinality(inside)
  /\ \A d \in Data : htable_retrieve(d) # NULL <=> \E e \in inside : Key[e] = Key[d]
  /\ {htable_get(n) : n \in 0 .. Size(table)} \ {NULL} = inside
  /\ NotNested

=============================================================================
