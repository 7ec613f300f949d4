-------------------------- MODULE ProcessesProofs ---------------------------
(***************************************************************************)
(* The protocol between system calls and the garbage collector, for any    *)
(* number of threads, processes and processors: kernel_threads counts the  *)
(* threads inside; what threads and collectors work on; which numbers      *)
(* processes have; and how threads and processes end.  On these layers     *)
(* rest two more, the locks, and the list and the family tree of           *)
(* processes: no process is used after it is freed, every checkout is      *)
(* matched and the table stays consistent, although a thread may be        *)
(* deleted inside the kernel and a reader of a lock be counted for ever.   *)
(***************************************************************************)
EXTENDS Processes, FiniteSetTheorems, SequenceTheorems, TLAPS

(* Where a thread is between syscall_enter and its end, and elsewhere. *)
Inside == {"kernel", "co_table", "co_lock", "commit", "leave", "list", "insert", "clone", "cloned",
           "spawn", "exit_process", "exit_thread", "finish_process", "finish_thread"}
Outside == {"user", "entering", "dormant", "finished"}

In(p) == {u \in User : Home[u] = p /\ pc[u] \in Inside}

Types ==
  /\ DOMAIN pc = Actor
  /\ DOMAIN arg = Actor
  /\ kernel_threads \in [Pid -> Int]
  /\ threads \in [Pid -> SUBSET User]

(* A checkout of a thread returns inside the kernel. *)
UsersGo ==
  \A u \in User : /\ pc[u] \in Inside \cup Outside
                  /\ pc[u] \in {"co_table", "co_lock"} => arg[u].then \in Inside

(* kernel_threads counts the threads inside. *)
Counted == \A p \in Pid : kernel_threads[p] = Cardinality(In(p))

OwnThreads == \A p \in Pid : \A u \in threads[p] : Home[u] = p

Core == Types /\ UsersGo /\ Counted /\ OwnThreads

(* The slots of a ring that are in use name processes of threads, and the  *)
(* collector works only while there is one.                                *)
Homes == {Home[u] : u \in User}

Entry == Int \X ({WHOLE} \cup User)

Ring == [info : [0 .. MAX_GC - 1 -> Entry], pos : 0 .. MAX_GC - 1, size : 0 .. MAX_GC]

Slot(q, i) == IF q.pos + i < MAX_GC THEN q.pos + i ELSE q.pos + i - MAX_GC

Named(q) == \A i \in 0 .. q.size - 1 : q.info[Slot(q, i)][1] \in Homes

Rings ==
  /\ qdata \in [Cpu -> Ring]
  /\ \A c \in Cpu : Named(qdata[c]) /\ (pc[c] # "gc_peek" => qdata[c].size > 0)

IInv == Core /\ Rings

-----------------------------------------------------------------------------
LEMMA InitInv == Init => IInv
<1> SUFFICES ASSUME Init PROVE IInv
  OBVIOUS
<1> USE ProcessesAssumption
<1>1. \A u \in User : pc[u] = "user"
  BY DEF Init, Actor
<1>2. \A c \in Cpu : pc[c] = "gc_peek" /\ qdata[c].size = 0
  BY DEF Init, Actor
<1>3. Types
  <2>1. DOMAIN pc = Actor
    BY DEF Init
  <2>2. DOMAIN arg = Actor
    BY DEF Init
  <2>3. kernel_threads \in [Pid -> Int] /\ threads \in [Pid -> SUBSET User]
    BY DEF Init
  <2> QED
    BY <2>1, <2>2, <2>3 DEF Types
<1>4. UsersGo
  BY <1>1 DEF UsersGo, Outside
<1>5. Counted
  <2> SUFFICES ASSUME NEW p \in Pid PROVE kernel_threads[p] = Cardinality(In(p))
    BY DEF Counted
  <2>1. In(p) = {}
    BY <1>1 DEF In, Inside
  <2> QED
    BY <2>1, FS_EmptySet DEF Init
<1>6. OwnThreads
  BY DEF Init, OwnThreads
<1>7. qdata \in [Cpu -> Ring]
  BY DEF Init, Ring, Entry
<1>8. Rings
  BY <1>2, <1>7 DEF Rings, Named
<1> QED
  BY <1>3, <1>4, <1>5, <1>6, <1>8 DEF IInv, Core

-----------------------------------------------------------------------------
LEMMA InFinite ==
  ASSUME NEW p PROVE IsFiniteSet(In(p))
BY ProcessesAssumption, FS_Subset DEF In

LEMMA Apart == \A x \in Outside : x \notin Inside
BY DEF Inside, Outside

LEMMA UsersAct == \A u \in User : u \in Actor /\ u \notin Cpu /\ Home[u] \in Pid
BY ProcessesAssumption DEF Actor, Pid

LEMMA HomesArePids == Homes \subseteq Pid
BY UsersAct DEF Homes

(* A step of one actor that does not cross the border of the kernel. *)
LEMMA MoveCore ==
  ASSUME Core,
         NEW a \in Actor, NEW label,
         pc' = [pc EXCEPT ![a] = label],
         DOMAIN arg' = Actor, \A b \in Actor \ {a} : arg'[b] = arg[b],
         kernel_threads' = kernel_threads,
         threads' \in [Pid -> SUBSET User], \A p \in Pid : threads'[p] \subseteq threads[p],
         a \in User => /\ \/ pc[a] \in Inside /\ label \in Inside
                          \/ pc[a] \in Outside /\ label \in Outside
                       /\ label \in {"co_table", "co_lock"} => arg'[a].then \in Inside
  PROVE  Core'
<1>1. Types'
  BY DEF Core, Types
<1>2. ASSUME NEW u \in User PROVE pc'[u] = IF u = a THEN label ELSE pc[u]
  BY UsersAct DEF Core, Types
<1>3. \A u \in User : pc'[u] \in Inside <=> pc[u] \in Inside
  BY <1>2, Apart
<1>4. UsersGo'
  <2> SUFFICES ASSUME NEW u \in User
               PROVE  /\ pc'[u] \in Inside \cup Outside
                      /\ pc'[u] \in {"co_table", "co_lock"} => arg'[u].then \in Inside
    BY DEF UsersGo
  <2>1. CASE u = a
    BY <1>2, <2>1
  <2>2. CASE u # a
    BY <1>2, <2>2, UsersAct DEF Core, UsersGo
  <2> QED
    BY <2>1, <2>2
<1>5. Counted'
  <2> SUFFICES ASSUME NEW p \in Pid PROVE kernel_threads'[p] = Cardinality(In(p)')
    BY DEF Counted
  <2>1. In(p)' = In(p)
    BY <1>3 DEF In
  <2> QED
    BY <2>1 DEF Core, Counted
<1>6. OwnThreads'
  BY DEF Core, OwnThreads
<1> QED
  BY <1>1, <1>4, <1>5, <1>6 DEF Core

(* A step that leaves the ring of a processor alone, or its collector. *)
LEMMA MoveRings ==
  ASSUME Rings, qdata' = qdata,
         \A c \in Cpu : pc'[c] = pc[c] \/ pc[c] # "gc_peek" \/ qdata[c].size > 0
  PROVE  Rings'
BY DEF Rings, Named, Slot, Ring

LEMMA SameInv ==
  ASSUME IInv, UNCHANGED <<pc, arg, kernel_threads, threads, qdata>>
  PROVE  IInv'
<1>1. Core'
  <2>1. Types' /\ UsersGo' /\ OwnThreads'
    BY DEF IInv, Core, Types, UsersGo, OwnThreads
  <2>2. \A p : In(p)' = In(p)
    BY DEF In
  <2>3. Counted'
    BY <2>2 DEF IInv, Core, Counted
  <2> QED
    BY <2>1, <2>3 DEF Core
<1>2. Rings'
  BY MoveRings DEF IInv
<1> QED
  BY <1>1, <1>2 DEF IInv

LEMMA UserMove ==
  ASSUME IInv,
         NEW u \in User, NEW label,
         pc' = [pc EXCEPT ![u] = label],
         DOMAIN arg' = Actor, \A b \in Actor \ {u} : arg'[b] = arg[b],
         UNCHANGED <<kernel_threads, threads, qdata>>,
         \/ pc[u] \in Inside /\ label \in Inside
         \/ pc[u] \in Outside /\ label \in Outside,
         label \in {"co_table", "co_lock"} => arg'[u].then \in Inside
  PROVE  IInv'
<1>1. Core'
  <2>1. threads' \in [Pid -> SUBSET User] /\ \A p \in Pid : threads'[p] \subseteq threads[p]
    BY DEF IInv, Core, Types
  <2> QED
    BY <2>1, UsersAct, MoveCore DEF IInv
<1>2. Rings'
  <2>1. \A c \in Cpu : pc'[c] = pc[c]
    BY UsersAct DEF IInv, Core, Types, Actor
  <2> QED
    BY <2>1, MoveRings DEF IInv
<1> QED
  BY <1>1, <1>2 DEF IInv

(* A collector moves on; it may have deleted a thread. *)
LEMMA CpuMove ==
  ASSUME IInv,
         NEW c \in Cpu, NEW label,
         pc' = [pc EXCEPT ![c] = label],
         DOMAIN arg' = Actor, \A b \in Actor \ {c} : arg'[b] = arg[b],
         UNCHANGED <<kernel_threads, qdata>>,
         threads' \in [Pid -> SUBSET User], \A p \in Pid : threads'[p] \subseteq threads[p],
         pc[c] # "gc_peek" \/ qdata[c].size > 0
  PROVE  IInv'
<1>1. c \in Actor /\ c \notin User
  BY ProcessesAssumption DEF Actor
<1>2. Core'
  BY <1>1, MoveCore DEF IInv
<1>3. Rings'
  <2>1. \A d \in Cpu : d # c => pc'[d] = pc[d]
    BY DEF IInv, Core, Types, Actor
  <2> QED
    BY <2>1, MoveRings DEF IInv
<1> QED
  BY <1>2, <1>3 DEF IInv

(* and the end of a sleep: the thread is counted. *)
LEMMA EnterInv ==
  ASSUME IInv, NEW u \in User, NEW label \in {"kernel", "leave"},
         pc[u] \in Outside, pc' = [pc EXCEPT ![u] = label],
         kernel_threads' = [kernel_threads EXCEPT ![Home[u]] = @ + 1],
         UNCHANGED <<arg, threads, qdata>>
  PROVE  IInv'
<1>1. u \in Actor /\ Home[u] \in Pid
  BY UsersAct
<1>2. ASSUME NEW v \in User PROVE pc'[v] = IF v = u THEN label ELSE pc[v]
  BY UsersAct DEF IInv, Core, Types
<1>3. label \in Inside /\ pc[u] \notin Inside /\ label \notin {"co_table", "co_lock"}
  BY Apart DEF Inside
<1>5. Types'
  BY <1>1 DEF IInv, Core, Types
<1>6. UsersGo'
  BY <1>2, <1>3 DEF IInv, Core, UsersGo
<1>7. ASSUME NEW p \in Pid PROVE kernel_threads'[p] = Cardinality(In(p)')
  <2>0. kernel_threads'[p] = IF p = Home[u] THEN kernel_threads[p] + 1 ELSE kernel_threads[p]
    BY DEF IInv, Core, Types
  <2>1. CASE p = Home[u]
    <3>1. In(p)' = In(p) \cup {u} /\ u \notin In(p)
      BY <1>2, <1>3, <2>1 DEF In
    <3>2. Cardinality(In(p)') = Cardinality(In(p)) + 1
      BY <3>1, InFinite, FS_AddElement
    <3> QED
      BY <2>0, <2>1, <3>2 DEF IInv, Core, Counted
  <2>2. CASE p # Home[u]
    <3>1. In(p)' = In(p)
      BY <1>2, <2>2 DEF In
    <3> QED
      BY <2>0, <2>2, <3>1 DEF IInv, Core, Counted
  <2> QED
    BY <2>1, <2>2
<1>8. Core'
  <2>1. OwnThreads'
    BY DEF IInv, Core, OwnThreads
  <2> QED
    BY <1>5, <1>6, <1>7, <2>1 DEF Core, Counted
<1>9. Rings'
  <2>1. \A c \in Cpu : pc'[c] = pc[c]
    BY UsersAct DEF IInv, Core, Types, Actor
  <2> QED
    BY <2>1, MoveRings DEF IInv
<1> QED
  BY <1>8, <1>9 DEF IInv

(* syscall_leave, a sleep and the end of an exit: it no longer is. *)
LEMMA LeaveInv ==
  ASSUME IInv, NEW u \in User, NEW label \in {"user", "dormant", "finished"},
         pc[u] \in Inside, pc' = [pc EXCEPT ![u] = label],
         kernel_threads' = [kernel_threads EXCEPT ![Home[u]] = @ - 1],
         UNCHANGED <<arg, threads, qdata>>
  PROVE  IInv'
<1>1. u \in Actor /\ Home[u] \in Pid
  BY UsersAct
<1>2. ASSUME NEW v \in User PROVE pc'[v] = IF v = u THEN label ELSE pc[v]
  BY UsersAct DEF IInv, Core, Types
<1>3. label \in Outside /\ label \notin Inside
  BY DEF Inside, Outside
<1>4. Types'
  BY <1>1 DEF IInv, Core, Types
<1>5. UsersGo'
  BY <1>2, <1>3 DEF IInv, Core, UsersGo
<1>6. ASSUME NEW p \in Pid PROVE kernel_threads'[p] = Cardinality(In(p)')
  <2>0. kernel_threads'[p] = IF p = Home[u] THEN kernel_threads[p] - 1 ELSE kernel_threads[p]
    BY DEF IInv, Core, Types
  <2>1. CASE p = Home[u]
    <3>1. In(p)' = In(p) \ {u} /\ u \in In(p)
      BY <1>2, <1>3, <2>1 DEF In
    <3>2. Cardinality(In(p)') = Cardinality(In(p)) - 1
      BY <3>1, InFinite, FS_RemoveElement
    <3> QED
      BY <2>0, <2>1, <3>2 DEF IInv, Core, Counted
  <2>2. CASE p # Home[u]
    <3>1. In(p)' = In(p)
      BY <1>2, <2>2 DEF In
    <3> QED
      BY <2>0, <2>2, <3>1 DEF IInv, Core, Counted
  <2> QED
    BY <2>1, <2>2
<1>7. Core'
  <2>1. OwnThreads'
    BY DEF IInv, Core, OwnThreads
  <2> QED
    BY <1>4, <1>5, <1>6, <2>1 DEF Core, Counted
<1>8. Rings'
  <2>1. \A c \in Cpu : pc'[c] = pc[c]
    BY UsersAct DEF IInv, Core, Types, Actor
  <2> QED
    BY <2>1, MoveRings DEF IInv
<1> QED
  BY <1>7, <1>8 DEF IInv

-----------------------------------------------------------------------------
LEMMA Stored ==
  ASSUME NEW S, NEW T, NEW f \in [S -> T], NEW x \in S, NEW y \in T
  PROVE  [f EXCEPT ![x] = y] \in [S -> T]
OBVIOUS

LEMMA IsRing ==
  ASSUME NEW r, NEW info \in [0 .. MAX_GC - 1 -> Entry], NEW pos \in 0 .. MAX_GC - 1, NEW size \in 0 .. MAX_GC,
         r = [info |-> info, pos |-> pos, size |-> size]
  PROVE  r \in Ring
BY DEF Ring

LEMMA QueuedFields ==
  ASSUME NEW q \in Ring, NEW x, NEW e, NEW n, NEW r, r = [q EXCEPT !.info[x] = e, !.size = n]
  PROVE  r = [info |-> [q.info EXCEPT ![x] = e], pos |-> q.pos, size |-> n]
<1>1. r.info = [q.info EXCEPT ![x] = e] /\ r.pos = q.pos /\ r.size = n
  BY DEF Ring
<1>2. r = [info |-> r.info, pos |-> r.pos, size |-> r.size]
  BY DEF Ring
<1> QED
  BY <1>1, <1>2, Zenon

LEMMA DroppedFields ==
  ASSUME NEW q \in Ring, NEW x, NEW n, NEW r, r = [q EXCEPT !.pos = x, !.size = n]
  PROVE  r = [info |-> q.info, pos |-> x, size |-> n]
<1>1. r.info = q.info /\ r.pos = x /\ r.size = n
  BY DEF Ring
<1>2. r = [info |-> r.info, pos |-> r.pos, size |-> r.size]
  BY DEF Ring
<1> QED
  BY <1>1, <1>2, Zenon

(* gc_queue: the entry behind the last one in use names the caller's home. *)
LEMMA FreeSlot ==
  ASSUME NEW q \in Ring, q.size # MAX_GC
  PROVE  (q.pos + q.size) % MAX_GC = Slot(q, q.size)
<1> USE ProcessesAssumption
<1>1. q.pos \in 0 .. MAX_GC - 1 /\ q.size \in 0 .. MAX_GC - 1
  BY DEF Ring
<1>2. CASE q.pos + q.size < MAX_GC
  BY <1>1, <1>2 DEF Slot
<1>3. CASE ~ (q.pos + q.size < MAX_GC)
  <2> DEFINE k == q.pos + q.size - MAX_GC
  <2>1. k \in 0 .. MAX_GC - 1 /\ q.pos + q.size = 1 * MAX_GC + k
    BY <1>1, <1>3
  <2>2. (1 * MAX_GC + k) % MAX_GC = k
    <3> HIDE DEF k
    <3> QED
      BY <2>1
  <2> QED
    BY <1>1, <1>3, <2>1, <2>2 DEF Slot
<1> QED
  BY <1>2, <1>3

LEMMA QueueRing ==
  ASSUME NEW q \in Ring, q.size # MAX_GC, Named(q), NEW r, NEW e \in Entry, e[1] \in Homes,
         r = [info |-> [q.info EXCEPT ![Slot(q, q.size)] = e], pos |-> q.pos, size |-> q.size + 1]
  PROVE  r \in Ring /\ Named(r) /\ r.size > 0
<1> USE ProcessesAssumption
<1>1. q.pos \in 0 .. MAX_GC - 1 /\ q.size \in 0 .. MAX_GC - 1
  BY DEF Ring
<1>2. Slot(q, q.size) \in 0 .. MAX_GC - 1
  BY <1>1 DEF Slot
<1>3. q.info \in [0 .. MAX_GC - 1 -> Entry]
  BY DEF Ring
<1>4. [q.info EXCEPT ![Slot(q, q.size)] = e] \in [0 .. MAX_GC - 1 -> Entry]
  BY <1>2, <1>3, Stored
<1>5. r \in Ring
  <2>1. q.size + 1 \in 0 .. MAX_GC
    BY <1>1
  <2> QED
    BY <1>1, <1>4, <2>1, IsRing
<1>6. ASSUME NEW i \in 0 .. r.size - 1 PROVE r.info[Slot(r, i)][1] \in Homes
  <2>1. Slot(r, i) = Slot(q, i) /\ Slot(q, i) \in 0 .. MAX_GC - 1
    BY <1>1 DEF Slot
  <2>2. CASE i = q.size
    BY <1>2, <1>3, <2>1, <2>2
  <2>3. CASE i # q.size
    <3>1. i \in 0 .. q.size - 1
      BY <1>1, <2>3
    <3>2. Slot(q, i) # Slot(q, q.size)
      BY <1>1, <3>1 DEF Slot
    <3>3. q.info[Slot(q, i)][1] \in Homes
      BY <3>1 DEF Named
    <3> QED
      BY <1>3, <2>1, <3>2, <3>3
  <2> QED
    BY <2>2, <2>3
<1> QED
  BY <1>1, <1>5, <1>6 DEF Named

(* gc_queue fills the first free slot. *)
LEMMA QueuedData ==
  ASSUME NEW u, NEW c \in Cpu, NEW tid, gc_queue(u, c, tid), qdata[c] \in Ring
  PROVE  /\ qdata[c].size # MAX_GC
         /\ qdata' = [qdata EXCEPT ![c] = [info |-> [qdata[c].info EXCEPT ![Slot(qdata[c], qdata[c].size)] = <<Home[u], tid>>],
                                            pos |-> qdata[c].pos, size |-> qdata[c].size + 1]]
<1> DEFINE q == qdata[c]
           e == <<Home[u], tid>>
           r == [info |-> [q.info EXCEPT ![Slot(q, q.size)] = e], pos |-> q.pos, size |-> q.size + 1]
<1>1. q.size # MAX_GC
  BY DEF gc_queue
<1>2. r = [q EXCEPT !.info[Slot(q, q.size)] = e, !.size = @ + 1]
  <2> DEFINE x == Slot(q, q.size)
             n == q.size + 1
  <2> HIDE DEF q, e, x, n
  <2>1. [q EXCEPT !.info[x] = e, !.size = n] = [info |-> [q.info EXCEPT ![x] = e], pos |-> q.pos, size |-> n]
    BY QueuedFields, ZenonT(60) DEF q
  <2> QED
    BY <2>1 DEF x, n
<1>3. Slot(q, q.size) = (q.pos + q.size) % MAX_GC
  BY <1>1, FreeSlot
<1> QED
  BY <1>1, <1>2, <1>3 DEF gc_queue

LEMMA QueueInv ==
  ASSUME IInv, NEW u \in User, QueueProcess(u) \/ QueueThread(u)
  PROVE  IInv'
<1>1. PICK c \in Cpu, tid \in {WHOLE} \cup User : gc_queue(u, c, tid)
  BY DEF QueueProcess, QueueThread
<1>2. PICK label \in {"finish_process", "finish_thread"} : pc' = [pc EXCEPT ![u] = label]
  BY DEF QueueProcess, QueueThread, Go
<1>3. pc[u] \in Inside /\ label \in Inside /\ label \notin {"co_table", "co_lock"}
  BY DEF QueueProcess, QueueThread, Inside
<1>4. UNCHANGED <<arg, kernel_threads, threads>>
  BY DEF QueueProcess, QueueThread, treeVars, lockVars, procVars
<1>5. u \in Actor /\ u \notin Cpu /\ Home[u] \in Pid
  BY UsersAct
<1>6. Core'
  <2>1. threads' \in [Pid -> SUBSET User] /\ \A p \in Pid : threads'[p] \subseteq threads[p]
    BY <1>4 DEF IInv, Core, Types
  <2>2. DOMAIN arg' = Actor /\ \A b \in Actor \ {u} : arg'[b] = arg[b]
    BY <1>4 DEF IInv, Core, Types
  <2> QED
    BY <1>2, <1>3, <1>4, <1>5, <2>1, <2>2, MoveCore DEF IInv
<1>7. \A d \in Cpu : pc'[d] = pc[d]
  BY <1>2, <1>5 DEF IInv, Core, Types, Actor
<1>8. Rings'
  <2> DEFINE q == qdata[c]
             e == <<Home[u], tid>>
             r == [info |-> [q.info EXCEPT ![Slot(q, q.size)] = e], pos |-> q.pos, size |-> q.size + 1]
  <2>1. q \in Ring /\ Named(q)
    BY DEF IInv, Rings
  <2>2. e \in Entry /\ e[1] \in Homes
    BY <1>1, <1>5 DEF Entry, Pid, Homes
  <2>3. q.size # MAX_GC /\ qdata' = [qdata EXCEPT ![c] = r]
    BY <1>1, QueuedData DEF IInv, Rings
  <2>4. r \in Ring /\ Named(r) /\ r.size > 0
    <3> HIDE DEF q, e
    <3> QED
      BY <2>1, <2>2, <2>3, QueueRing
  <2> HIDE DEF r
  <2>5. qdata' \in [Cpu -> Ring]
    BY <2>3, <2>4 DEF IInv, Rings
  <2>6. ASSUME NEW d \in Cpu
        PROVE  Named(qdata'[d]) /\ (pc'[d] # "gc_peek" => qdata'[d].size > 0)
    <3>1. qdata'[d] = IF d = c THEN r ELSE qdata[d]
      BY <2>3 DEF IInv, Rings
    <3>2. CASE d = c
      BY <2>4, <3>1, <3>2
    <3>3. CASE d # c
      BY <1>7, <3>1, <3>3 DEF IInv, Rings
    <3> QED
      BY <3>2, <3>3
  <2> QED
    BY <2>5, <2>6 DEF Rings, Named, Slot
<1> QED
  BY <1>6, <1>8 DEF IInv

(* The collector drops the oldest entry. *)
LEMMA NextRing ==
  ASSUME NEW q \in Ring, q.size > 0, Named(q), NEW r,
         r = [info |-> q.info, pos |-> Slot(q, 1), size |-> q.size - 1]
  PROVE  r \in Ring /\ Named(r)
<1> USE ProcessesAssumption
<1>1. q.pos \in 0 .. MAX_GC - 1 /\ q.size \in 1 .. MAX_GC
  BY DEF Ring
<1>2. Slot(q, 1) \in 0 .. MAX_GC - 1 /\ q.size - 1 \in 0 .. MAX_GC
  BY <1>1 DEF Slot
<1>3. r \in Ring
  <2>1. q.info \in [0 .. MAX_GC - 1 -> Entry]
    BY DEF Ring
  <2> QED
    BY <1>2, <2>1, IsRing
<1>4. ASSUME NEW i \in 0 .. r.size - 1 PROVE r.info[Slot(r, i)][1] \in Homes
  <2>1. i + 1 \in 0 .. q.size - 1
    BY <1>1
  <2>2. Slot(r, i) = Slot(q, i + 1)
    BY <1>1, <2>1 DEF Slot
  <2> QED
    BY <2>1, <2>2 DEF Named
<1> QED
  BY <1>3, <1>4 DEF Named

LEMMA DroppedData ==
  ASSUME NEW c \in Cpu, gc_next(c), qdata[c] \in Ring
  PROVE  qdata' = [qdata EXCEPT ![c] = [info |-> qdata[c].info, pos |-> Slot(qdata[c], 1), size |-> qdata[c].size - 1]]
<1> DEFINE q == qdata[c]
           r == [info |-> q.info, pos |-> Slot(q, 1), size |-> q.size - 1]
<1>1. (q.pos + 1) % MAX_GC = Slot(q, 1)
  <2>1. MAX_GC \in Nat \ {0} /\ q.pos \in 0 .. MAX_GC - 1
    BY ProcessesAssumption DEF Ring
  <2>2. CASE q.pos + 1 < MAX_GC
    BY <2>1, <2>2 DEF Slot
  <2>3. CASE q.pos + 1 = MAX_GC
    <3>1. MAX_GC % MAX_GC = 0
      BY <2>1
    <3> QED
      BY <2>1, <2>3, <3>1 DEF Slot
  <2> QED
    BY <2>1, <2>2, <2>3
<1>2. r = [q EXCEPT !.pos = (@ + 1) % MAX_GC, !.size = @ - 1]
  <2>1. q \in Ring
    OBVIOUS
  <2> DEFINE x == Slot(q, 1)
             n == q.size - 1
  <2> HIDE DEF q, x, n
  <2>2. [q EXCEPT !.pos = x, !.size = n] = [info |-> q.info, pos |-> x, size |-> n]
    BY <2>1, DroppedFields, ZenonT(60)
  <2> QED
    BY <1>1, <2>2 DEF x, n
<1> QED
  BY <1>2 DEF gc_next

LEMMA NextInvGc ==
  ASSUME IInv, NEW c \in Cpu, gc_next(c)
  PROVE  IInv'
<1>1. c \in Actor /\ c \notin User
  BY ProcessesAssumption DEF Actor
<1>2. UNCHANGED <<arg, kernel_threads, threads>> /\ pc' = [pc EXCEPT ![c] = "gc_peek"]
  BY DEF gc_next, treeVars, lockVars, procVars, Go
<1>3. Core'
  <2>1. threads' \in [Pid -> SUBSET User] /\ \A p \in Pid : threads'[p] \subseteq threads[p]
    BY <1>2 DEF IInv, Core, Types
  <2>2. DOMAIN arg' = Actor /\ \A b \in Actor \ {c} : arg'[b] = arg[b]
    BY <1>2 DEF IInv, Core, Types
  <2> QED
    BY <1>1, <1>2, <2>1, <2>2, MoveCore DEF IInv
<1>4. \A d \in Cpu : pc'[d] = IF d = c THEN "gc_peek" ELSE pc[d]
  BY <1>2 DEF IInv, Core, Types, Actor
<1>5. Rings'
  <2> DEFINE q == qdata[c]
             r == [info |-> q.info, pos |-> Slot(q, 1), size |-> q.size - 1]
  <2>1. q \in Ring /\ Named(q) /\ q.size > 0
    BY DEF IInv, Rings, gc_next
  <2>2. qdata' = [qdata EXCEPT ![c] = r]
    BY <2>1, DroppedData
  <2>4. r \in Ring /\ Named(r)
    <3> HIDE DEF q
    <3> QED
      BY <2>1, NextRing
  <2> HIDE DEF r
  <2>5. qdata' \in [Cpu -> Ring]
    BY <2>2, <2>4 DEF IInv, Rings
  <2>6. ASSUME NEW d \in Cpu
        PROVE  Named(qdata'[d]) /\ (pc'[d] # "gc_peek" => qdata'[d].size > 0)
    <3>1. qdata'[d] = IF d = c THEN r ELSE qdata[d]
      BY <2>2 DEF IInv, Rings
    <3>2. CASE d = c
      BY <1>4, <2>4, <3>1, <3>2
    <3>3. CASE d # c
      BY <1>4, <3>1, <3>3 DEF IInv, Rings
    <3> QED
      BY <3>2, <3>3
  <2> QED
    BY <2>5, <2>6 DEF Rings, Named, Slot
<1> QED
  BY <1>3, <1>5 DEF IInv

-----------------------------------------------------------------------------
(* The collector's job is an entry of its ring. *)
LEMMA JobNamed ==
  ASSUME Rings, NEW c \in Cpu, pc[c] # "gc_peek"
  PROVE  Job(c)[1] \in Homes
<1>1. qdata[c] \in Ring /\ Named(qdata[c]) /\ qdata[c].size > 0
  BY DEF Rings
<1>2. qdata[c].pos \in 0 .. MAX_GC - 1 /\ 0 \in 0 .. qdata[c].size - 1
  BY <1>1, ProcessesAssumption DEF Ring
<1>3. Slot(qdata[c], 0) = qdata[c].pos
  BY <1>2, ProcessesAssumption DEF Slot
<1> QED
  BY <1>1, <1>2, <1>3 DEF Job, Named

(* A thread that the collector deletes stays where it is, counted or not. *)
LEMMA DeleteInv ==
  ASSUME IInv, NEW c \in Cpu, delete_threads(c)
  PROVE  IInv'
<1>1. PICK p, u : threads' = [threads EXCEPT ![p] = @ \ {u}]
  BY DEF delete_threads
<1>2. UNCHANGED <<pc, arg, kernel_threads, qdata>>
  BY DEF delete_threads, treeVars
<1>3. threads' \in [Pid -> SUBSET User] /\ \A k \in Pid : threads'[k] \subseteq threads[k]
  BY <1>1 DEF IInv, Core, Types
<1>4. Types' /\ UsersGo' /\ OwnThreads'
  BY <1>2, <1>3 DEF IInv, Core, Types, UsersGo, OwnThreads
<1>5. Counted'
  <2>1. \A k : In(k)' = In(k)
    BY <1>2 DEF In
  <2> QED
    BY <1>2, <2>1 DEF IInv, Core, Counted
<1>6. Rings'
  BY <1>2, MoveRings DEF IInv
<1> QED
  BY <1>4, <1>5, <1>6 DEF IInv, Core

-----------------------------------------------------------------------------
(* One step per action. *)
LEMMA UserStep ==
  ASSUME IInv, NEW u \in User,
         \/ checkout_table(u) \/ checkout_lock(u)
         \/ syscall_check(u) \/ syscall_enter(u) \/ syscall_leave(u)
         \/ Begin(u) \/ Commit(u) \/ Sleep(u) \/ Wake(u) \/ BeginList(u) \/ process_get_list(u)
         \/ new_process(u) \/ insert_process(u) \/ CloneFrom(u) \/ CloneDone(u) \/ Spawn(u)
         \/ QueueProcess(u) \/ QueueThread(u) \/ Finish(u)
  PROVE  IInv'
<1> DEFINE Others == DOMAIN arg' = Actor /\ \A b \in Actor \ {u} : arg'[b] = arg[b]
<1>0. /\ arg' = arg => Others
      /\ \A x : arg' = [arg EXCEPT ![u] = x] => Others /\ arg'[u] = x
  BY UsersAct DEF IInv, Core, Types
<1>1. CASE checkout_table(u)
  <2>1. PICK label \in {"co_lock", "leave"} : pc' = [pc EXCEPT ![u] = label]
    BY <1>1 DEF checkout_table, Go
  <2>2. pc[u] = "co_table" /\ UNCHANGED <<arg, kernel_threads, threads, qdata>>
    BY <1>1 DEF checkout_table, treeVars, procVars
  <2>3. arg[u].then \in Inside
    BY <2>2 DEF IInv, Core, UsersGo
  <2>4. pc[u] \in Inside /\ label \in Inside
    BY <2>2 DEF Inside
  <2> QED
    BY <1>0, <2>1, <2>2, <2>3, <2>4, UserMove
<1>2. CASE checkout_lock(u)
  <2>1. pc[u] = "co_lock" /\ pc' = [pc EXCEPT ![u] = arg[u].then]
        /\ UNCHANGED <<arg, kernel_threads, threads, qdata>>
    BY <1>2 DEF checkout_lock, treeVars, procVars, Go
  <2>2. pc[u] \in Inside /\ arg[u].then \in Inside
    BY <2>1 DEF IInv, Core, UsersGo, Inside
  <2> QED
    BY <1>0, <2>1, <2>2, UserMove
<1>3. CASE syscall_check(u)
  <2>1. pc[u] = "user" /\ pc' = [pc EXCEPT ![u] = "entering"]
        /\ UNCHANGED <<arg, kernel_threads, threads, qdata>>
    BY <1>3 DEF syscall_check, treeVars, procVars, lockVars, Go
  <2>2. pc[u] \in Outside /\ "entering" \in Outside /\ "entering" \notin {"co_table", "co_lock"}
    BY <2>1 DEF Outside
  <2> QED
    BY <1>0, <2>1, <2>2, UserMove
<1>4. CASE syscall_enter(u)
  <2>1. /\ pc[u] = "entering" /\ pc' = [pc EXCEPT ![u] = "kernel"]
        /\ kernel_threads' = [kernel_threads EXCEPT ![Home[u]] = @ + 1]
        /\ UNCHANGED <<arg, threads, qdata>>
    BY <1>4 DEF syscall_enter, treeVars, lockVars, Go
  <2>2. pc[u] \in Outside
    BY <2>1 DEF Outside
  <2> QED
    BY <2>1, <2>2, EnterInv
<1>5. CASE syscall_leave(u)
  <2>1. /\ pc[u] = "leave" /\ pc' = [pc EXCEPT ![u] = "user"]
        /\ kernel_threads' = [kernel_threads EXCEPT ![Home[u]] = @ - 1]
        /\ UNCHANGED <<arg, threads, qdata>>
    BY <1>5 DEF syscall_leave, treeVars, lockVars, Go
  <2>2. pc[u] \in Inside
    BY <2>1 DEF Inside
  <2> QED
    BY <2>1, <2>2, LeaveInv
<1>6. CASE Begin(u)
  <2>1. PICK pid \in Pid, mode \in {"READER", "WRITER"}, then \in {"commit", "exit_process", "exit_thread"} :
          Checkout(u, pid, mode, then)
    BY <1>6, UsersAct DEF Begin
  <2>2. pc[u] = "kernel" /\ pc' = [pc EXCEPT ![u] = "co_table"]
        /\ UNCHANGED <<kernel_threads, threads, qdata>>
    BY <1>6, <2>1 DEF Begin, Checkout, Go, treeVars, procVars, lockVars
  <2>3. pc[u] \in Inside /\ "co_table" \in Inside /\ then \in Inside
    BY <2>2 DEF Inside
  <2>4. arg' = [arg EXCEPT ![u] = [pid |-> pid, mode |-> mode, then |-> then]]
    BY <2>1 DEF Checkout
  <2>5. Others /\ arg'[u] = [pid |-> pid, mode |-> mode, then |-> then]
    BY <1>0, <2>4, Zenon
  <2>6. arg'[u].then \in Inside
    BY <2>3, <2>5
  <2> QED
    BY <2>2, <2>3, <2>5, <2>6, UserMove
<1>7. CASE Commit(u)
  <2>1. pc[u] = "commit" /\ pc' = [pc EXCEPT ![u] = "leave"]
        /\ UNCHANGED <<arg, kernel_threads, threads, qdata>>
    BY <1>7 DEF Commit, treeVars, procVars, Go
  <2>2. pc[u] \in Inside /\ "leave" \in Inside
    BY <2>1 DEF Inside
  <2> QED
    BY <1>0, <2>1, <2>2, UserMove
<1>8. CASE BeginList(u)
  <2>1. pc[u] = "kernel" /\ pc' = [pc EXCEPT ![u] = "list"]
        /\ UNCHANGED <<arg, kernel_threads, threads, qdata>>
    BY <1>8 DEF BeginList, treeVars, procVars, lockVars, Go
  <2>2. pc[u] \in Inside /\ "list" \in Inside
    BY <2>1 DEF Inside
  <2> QED
    BY <1>0, <2>1, <2>2, UserMove
<1>9. CASE process_get_list(u)
  <2>1. pc[u] = "list" /\ pc' = [pc EXCEPT ![u] = "leave"]
        /\ UNCHANGED <<arg, kernel_threads, threads, qdata>>
    BY <1>9 DEF process_get_list, treeVars, procVars, Go
  <2>2. pc[u] \in Inside /\ "leave" \in Inside
    BY <2>1 DEF Inside
  <2> QED
    BY <1>0, <2>1, <2>2, UserMove
<1>10. CASE new_process(u)
  <2>1. PICK label \in {"insert", "leave"} : pc' = [pc EXCEPT ![u] = label]
    BY <1>10 DEF new_process, Go
  <2>2. pc[u] = "kernel" /\ UNCHANGED <<arg, kernel_threads, threads, qdata>>
    BY <1>10 DEF new_process, procVars, lockVars
  <2>3. pc[u] \in Inside /\ label \in Inside /\ label \notin {"co_table", "co_lock"}
    BY <2>2 DEF Inside
  <2> QED
    BY <1>0, <2>1, <2>2, <2>3, UserMove
<1>11. CASE insert_process(u)
  <2>1. pc[u] = "insert" /\ pc' = [pc EXCEPT ![u] = "co_table"]
        /\ UNCHANGED <<kernel_threads, threads, qdata>>
    BY <1>11 DEF insert_process, Checkout, Go, procVars
  <2>2. pc[u] \in Inside /\ "co_table" \in Inside /\ "clone" \in Inside
    BY <2>1 DEF Inside
  <2>3. arg' = [arg EXCEPT ![u] = [pid |-> new[u], mode |-> "WRITER", then |-> "clone"]]
    BY <1>11 DEF insert_process, Checkout
  <2>4. Others /\ arg'[u].then \in Inside
    BY <1>0, <2>2, <2>3
  <2> QED
    BY <2>1, <2>2, <2>4, UserMove
<1>12. CASE CloneFrom(u)
  <2>1. pc[u] = "clone" /\ pc' = [pc EXCEPT ![u] = "co_table"]
        /\ UNCHANGED <<kernel_threads, threads, qdata>>
    BY <1>12 DEF CloneFrom, Checkout, Go, treeVars, procVars, lockVars
  <2>2. pc[u] \in Inside /\ "co_table" \in Inside /\ "cloned" \in Inside
    BY <2>1 DEF Inside
  <2>3. arg' = [arg EXCEPT ![u] = [pid |-> Home[u], mode |-> "READER", then |-> "cloned"]]
    BY <1>12 DEF CloneFrom, Checkout
  <2>4. Others /\ arg'[u].then \in Inside
    BY <1>0, <2>2, <2>3
  <2> QED
    BY <2>1, <2>2, <2>4, UserMove
<1>13. CASE CloneDone(u)
  <2>1. pc[u] = "cloned" /\ pc' = [pc EXCEPT ![u] = "spawn"]
        /\ UNCHANGED <<arg, kernel_threads, threads, qdata>>
    BY <1>13 DEF CloneDone, treeVars, procVars, Go
  <2>2. pc[u] \in Inside /\ "spawn" \in Inside
    BY <2>1 DEF Inside
  <2> QED
    BY <1>0, <2>1, <2>2, UserMove
<1>14. CASE Spawn(u)
  <2>1. pc[u] = "spawn" /\ pc' = [pc EXCEPT ![u] = "leave"]
        /\ UNCHANGED <<arg, kernel_threads, threads, qdata>>
    BY <1>14 DEF Spawn, treeVars, Go
  <2>2. pc[u] \in Inside /\ "leave" \in Inside
    BY <2>1 DEF Inside
  <2> QED
    BY <1>0, <2>1, <2>2, UserMove
<1>15. CASE QueueProcess(u) \/ QueueThread(u)
  BY <1>15, QueueInv
<1>16. CASE Finish(u)
  <2>1. /\ pc[u] \in {"finish_process", "finish_thread"} /\ pc' = [pc EXCEPT ![u] = "finished"]
        /\ kernel_threads' = [kernel_threads EXCEPT ![Home[u]] = @ - 1]
        /\ UNCHANGED <<arg, threads, qdata>>
    BY <1>16 DEF Finish, treeVars, Go
  <2>2. pc[u] \in Inside
    BY <2>1 DEF Inside
  <2> QED
    BY <2>1, <2>2, LeaveInv
<1>17. CASE Sleep(u)
  <2>1. /\ pc[u] = "leave" /\ pc' = [pc EXCEPT ![u] = "dormant"]
        /\ kernel_threads' = [kernel_threads EXCEPT ![Home[u]] = @ - 1]
        /\ UNCHANGED <<arg, threads, qdata>>
    BY <1>17 DEF Sleep, treeVars, lockVars, Go
  <2>2. pc[u] \in Inside
    BY <2>1 DEF Inside
  <2> QED
    BY <2>1, <2>2, LeaveInv
<1>18. CASE Wake(u)
  <2>1. /\ pc[u] = "dormant" /\ pc' = [pc EXCEPT ![u] = "leave"]
        /\ kernel_threads' = [kernel_threads EXCEPT ![Home[u]] = @ + 1]
        /\ UNCHANGED <<arg, threads, qdata>>
    BY <1>18 DEF Wake, treeVars, lockVars, Go
  <2>2. pc[u] \in Outside
    BY <2>1 DEF Outside
  <2> QED
    BY <2>1, <2>2, EnterInv
<1> HIDE DEF Others
<1> QED
  BY <1>1, <1>2, <1>3, <1>4, <1>5, <1>6, <1>7, <1>8, <1>9, <1>10, <1>11, <1>12, <1>13, <1>14, <1>15, <1>16,
     <1>17, <1>18

LEMMA CpuStep ==
  ASSUME IInv, NEW c \in Cpu,
         \/ checkout_table(c) \/ checkout_lock(c)
         \/ gc_peek(c) \/ gc_next(c) \/ gc_do_thread(c) \/ gc_wait(c) \/ gc_do_process(c)
         \/ delete_threads(c) \/ gc_release(c) \/ remove_process(c) \/ delete_process(c)
  PROVE  IInv'
<1> DEFINE Others == DOMAIN arg' = Actor /\ \A b \in Actor \ {c} : arg'[b] = arg[b]
           Fewer == threads' \in [Pid -> SUBSET User] /\ \A p \in Pid : threads'[p] \subseteq threads[p]
           Gone == pc[c] # "gc_peek" \/ qdata[c].size > 0
<1>0. /\ arg' = arg => Others
      /\ \A x : arg' = [arg EXCEPT ![c] = x] => Others
      /\ threads' = threads => Fewer
  BY DEF IInv, Core, Types, Actor
<1>1. CASE checkout_table(c)
  <2>1. PICK label : pc' = [pc EXCEPT ![c] = label]
    BY <1>1 DEF checkout_table, Go
  <2>2. pc[c] # "gc_peek" /\ UNCHANGED <<arg, kernel_threads, threads, qdata>>
    BY <1>1 DEF checkout_table, treeVars, procVars
  <2> QED
    BY <1>0, <2>1, <2>2, CpuMove
<1>2. CASE checkout_lock(c)
  <2>1. pc' = [pc EXCEPT ![c] = arg[c].then] /\ pc[c] # "gc_peek" /\ UNCHANGED <<arg, kernel_threads, threads, qdata>>
    BY <1>2 DEF checkout_lock, treeVars, procVars, Go
  <2> QED
    BY <1>0, <2>1, CpuMove
<1>3. CASE gc_peek(c)
  <2>1. /\ pc' = [pc EXCEPT ![c] = "co_table"] /\ qdata[c].size # 0
        /\ UNCHANGED <<kernel_threads, threads, qdata>>
    BY <1>3 DEF gc_peek, treeVars, procVars, lockVars, Checkout, Go
  <2>2. \E x : arg' = [arg EXCEPT ![c] = x]
    BY <1>3 DEF gc_peek, Checkout
  <2>3. qdata[c].size > 0
    BY <2>1, ProcessesAssumption DEF IInv, Rings, Ring
  <2> QED
    BY <1>0, <2>1, <2>2, <2>3, CpuMove
<1>4. CASE gc_next(c)
  BY <1>4, NextInvGc
<1>5. CASE gc_do_thread(c)
  <2>1. pc' = [pc EXCEPT ![c] = "gc_next"] /\ pc[c] # "gc_peek" /\ UNCHANGED <<arg, kernel_threads, qdata>>
    BY <1>5 DEF gc_do_thread, treeVars, Go
  <2>2. threads' = threads \/ \E p, u : threads' = [threads EXCEPT ![p] = @ \ {u}]
    BY <1>5 DEF gc_do_thread
  <2>3. Fewer
    BY <1>0, <2>2 DEF IInv, Core, Types
  <2> QED
    BY <1>0, <2>1, <2>3, CpuMove
<1>6. CASE gc_wait(c)
  <2>1. pc' = [pc EXCEPT ![c] = "co_table"] /\ pc[c] # "gc_peek" /\ UNCHANGED <<arg, kernel_threads, threads, qdata>>
    BY <1>6 DEF gc_wait, treeVars, procVars, Go
  <2> QED
    BY <1>0, <2>1, CpuMove
<1>7. CASE gc_do_process(c)
  <2>1. pc' = [pc EXCEPT ![c] = "gc_kill"] /\ pc[c] # "gc_peek" /\ UNCHANGED <<arg, kernel_threads, threads, qdata>>
    BY <1>7 DEF gc_do_process, treeVars, procVars, lockVars, Go
  <2> QED
    BY <1>0, <2>1, CpuMove
<1>10. CASE delete_threads(c)
  BY <1>10, DeleteInv
<1>11. CASE gc_release(c)
  <2>1. pc' = [pc EXCEPT ![c] = "remove"] /\ pc[c] # "gc_peek" /\ UNCHANGED <<arg, kernel_threads, threads, qdata>>
    BY <1>11 DEF gc_release, treeVars, procVars, Go
  <2> QED
    BY <1>0, <2>1, CpuMove
<1>8. CASE remove_process(c)
  <2>1. pc' = [pc EXCEPT ![c] = "delete"] /\ pc[c] # "gc_peek" /\ UNCHANGED <<arg, kernel_threads, threads, qdata>>
    BY <1>8 DEF remove_process, procVars, Go
  <2> QED
    BY <1>0, <2>1, CpuMove
<1>9. CASE delete_process(c)
  <2>1. pc' = [pc EXCEPT ![c] = "gc_next"] /\ pc[c] # "gc_peek" /\ UNCHANGED <<arg, kernel_threads, threads, qdata>>
    BY <1>9 DEF delete_process, treeVars, procVars, Go
  <2> QED
    BY <1>0, <2>1, CpuMove
<1> HIDE DEF Others, Fewer
<1> QED
  BY <1>1, <1>2, <1>3, <1>4, <1>5, <1>6, <1>7, <1>8, <1>9, <1>10, <1>11

LEMMA NextInv ==
  ASSUME IInv, [Next]_vars
  PROVE  IInv'
<1>1. ASSUME NEW a \in Actor, Request(a) PROVE IInv'
  BY <1>1, SameInv DEF Request, treeVars, procVars
<1>2. ASSUME NEW a \in Actor, checkout_table(a) \/ checkout_lock(a) PROVE IInv'
  BY <1>2, UserStep, CpuStep DEF Actor
<1>3. CASE UNCHANGED vars
  BY <1>3, SameInv DEF vars
<1> QED
  BY <1>1, <1>2, <1>3, UserStep, CpuStep DEF Next

-----------------------------------------------------------------------------
(* kernel_threads of every process is, at any moment, the number of its    *)
(* threads between syscall_enter and their way out, however many of them   *)
(* come in, leave or end on however many processors.                       *)
THEOREM CountIsExact == Spec => []Counted
<1>1. Init => IInv
  BY InitInv
<1>2. IInv /\ [Next]_vars => IInv'
  BY NextInv
<1>3. IInv => Counted
  BY DEF IInv, Core
<1> QED
  BY <1>1, <1>2, <1>3, PTL DEF Spec

-----------------------------------------------------------------------------
(* A garbage ring is read from now on as a queue: entry 0 is the job. *)
Used(c) == 0 .. qdata[c].size - 1
At(c, i) == qdata[c].info[Slot(qdata[c], i)]

LEMMA SlotsApart ==
  ASSUME NEW q, q.pos \in 0 .. MAX_GC - 1, q.size \in 0 .. MAX_GC, NEW i \in 0 .. q.size - 1
  PROVE  /\ Slot(q, i) \in 0 .. MAX_GC - 1
         /\ q.size # MAX_GC => Slot(q, i) # Slot(q, q.size)
BY ProcessesAssumption DEF Slot

LEMMA RingFacts ==
  ASSUME IInv, NEW c \in Cpu
  PROVE  /\ qdata[c].size \in 0 .. MAX_GC
         /\ At(c, 0) = Job(c)
         /\ pc[c] # "gc_peek" => 0 \in Used(c)
         /\ \A i \in Used(c) : At(c, i)[1] \in Homes /\ At(c, i)[2] \in {WHOLE} \cup User
<1>1. qdata[c] \in Ring /\ Named(qdata[c])
  BY DEF IInv, Rings
<1>2. qdata[c].size \in 0 .. MAX_GC /\ qdata[c].pos \in 0 .. MAX_GC - 1
      /\ qdata[c].info \in [0 .. MAX_GC - 1 -> Entry]
  BY <1>1 DEF Ring
<1>3. At(c, 0) = Job(c)
  BY <1>2, ProcessesAssumption DEF At, Job, Slot
<1>4. pc[c] # "gc_peek" => 0 \in Used(c)
  BY <1>2, ProcessesAssumption DEF IInv, Rings, Used
<1>5. ASSUME NEW i \in Used(c) PROVE At(c, i)[1] \in Homes /\ At(c, i)[2] \in {WHOLE} \cup User
  <2>1. Slot(qdata[c], i) \in 0 .. MAX_GC - 1
    BY <1>2, SlotsApart DEF Used
  <2>2. At(c, i) \in Entry
    BY <1>2, <2>1 DEF At
  <2> QED
    BY <1>1, <2>2 DEF Named, Used, At, Entry
<1> QED
  BY <1>2, <1>3, <1>4, <1>5

(* gc_queue puts an entry behind the last one. *)
LEMMA QueueView ==
  ASSUME IInv, NEW u, NEW c \in Cpu, NEW tid, gc_queue(u, c, tid)
  PROVE  /\ Used(c) \subseteq Used(c)'
         /\ \A i \in Used(c)' : At(c, i)' = IF i \in Used(c) THEN At(c, i) ELSE <<Home[u], tid>>
         /\ \A i, j \in Used(c)' \ Used(c) : i = j
         /\ \A d \in Cpu \ {c} : Used(d)' = Used(d) /\ \A i : At(d, i)' = At(d, i)
<1> USE ProcessesAssumption
<1> DEFINE q == qdata[c]
           e == <<Home[u], tid>>
           r == [info |-> [q.info EXCEPT ![Slot(q, q.size)] = e], pos |-> q.pos, size |-> q.size + 1]
<1>1. q \in Ring /\ DOMAIN qdata = Cpu
  BY DEF IInv, Rings
<1>2. q.size # MAX_GC /\ qdata' = [qdata EXCEPT ![c] = r]
  BY <1>1, QueuedData
<1>3. q.pos \in 0 .. MAX_GC - 1 /\ q.size \in 0 .. MAX_GC - 1 /\ q.info \in [0 .. MAX_GC - 1 -> Entry]
  BY <1>1, <1>2 DEF Ring
<1>4. qdata'[c] = r /\ \A d \in Cpu \ {c} : qdata'[d] = qdata[d]
  BY <1>1, <1>2
<1>5. /\ r.size = q.size + 1 /\ r.pos = q.pos
      /\ r.info[Slot(q, q.size)] = e
      /\ \A x \in 0 .. MAX_GC - 1 : x # Slot(q, q.size) => r.info[x] = q.info[x]
  <2>1. Slot(q, q.size) \in 0 .. MAX_GC - 1
    BY <1>3, SMTT(30) DEF Slot
  <2> QED
    BY <1>3, <2>1
<1> HIDE DEF r
<1>6. Used(c)' = 0 .. q.size /\ Used(c) = 0 .. q.size - 1
  BY <1>3, <1>4, <1>5 DEF Used
<1>7. \A i : At(c, i)' = r.info[Slot(q, i)]
  BY <1>4, <1>5 DEF At, Slot
<1>8. ASSUME NEW i \in Used(c)' PROVE At(c, i)' = IF i \in Used(c) THEN At(c, i) ELSE e
  <2>1. CASE i \in Used(c)
    <3>1. Slot(q, i) \in 0 .. MAX_GC - 1 /\ Slot(q, i) # Slot(q, q.size)
      BY <1>3, <1>6, <2>1, SlotsApart, SMTT(30)
    <3> QED
      BY <1>5, <1>7, <2>1, <3>1 DEF At
  <2>2. CASE i \notin Used(c)
    <3>1. i = q.size
      BY <1>3, <1>6, <2>2
    <3> QED
      BY <1>5, <1>7, <2>2, <3>1
  <2> QED
    BY <2>1, <2>2
<1>9. Used(c) \subseteq Used(c)' /\ \A i, j \in Used(c)' \ Used(c) : i = j
  BY <1>3, <1>6
<1>10. ASSUME NEW d \in Cpu \ {c} PROVE Used(d)' = Used(d) /\ \A i : At(d, i)' = At(d, i)
  BY <1>4 DEF Used, At, Slot
<1> QED
  BY <1>8, <1>9, <1>10

(* The collector moves on to the next entry. *)
LEMMA NextView ==
  ASSUME IInv, NEW c \in Cpu, gc_next(c)
  PROVE  /\ \A i \in Used(c)' : i + 1 \in Used(c) /\ At(c, i)' = At(c, i + 1)
         /\ \A d \in Cpu \ {c} : Used(d)' = Used(d) /\ \A i : At(d, i)' = At(d, i)
<1> USE ProcessesAssumption
<1> DEFINE q == qdata[c]
           r == [info |-> q.info, pos |-> Slot(q, 1), size |-> q.size - 1]
<1>1. q \in Ring /\ DOMAIN qdata = Cpu /\ q.size > 0
  BY DEF IInv, Rings, gc_next
<1>2. qdata' = [qdata EXCEPT ![c] = r]
  BY <1>1, DroppedData
<1>3. q.pos \in 0 .. MAX_GC - 1 /\ q.size \in 1 .. MAX_GC
  BY <1>1 DEF Ring
<1>4. qdata'[c] = r /\ \A d \in Cpu \ {c} : qdata'[d] = qdata[d]
  BY <1>1, <1>2
<1>5. r.size = q.size - 1 /\ r.pos = Slot(q, 1) /\ r.info = q.info
  OBVIOUS
<1> HIDE DEF r
<1>6. ASSUME NEW i \in Used(c)' PROVE i + 1 \in Used(c) /\ At(c, i)' = At(c, i + 1)
  <2>1. i \in 0 .. q.size - 2
    BY <1>3, <1>4, <1>5 DEF Used
  <2>2. Slot(r, i) = Slot(q, i + 1)
    BY <1>3, <1>5, <2>1 DEF Slot
  <2>3. At(c, i)' = r.info[Slot(r, i)]
    BY <1>4 DEF At, Slot
  <2> QED
    BY <1>3, <1>5, <2>1, <2>2, <2>3 DEF Used, At
<1>7. ASSUME NEW d \in Cpu \ {c} PROVE Used(d)' = Used(d) /\ \A i : At(d, i)' = At(d, i)
  BY <1>4 DEF Used, At, Slot
<1> QED
  BY <1>6, <1>7

LEMMA SameView ==
  ASSUME qdata' = qdata
  PROVE  \A c : Used(c)' = Used(c) /\ Job(c)' = Job(c) /\ \A i : At(c, i)' = At(c, i)
BY DEF Used, At, Slot, Job

-----------------------------------------------------------------------------
(* The steps of a thread and those of a collector. *)
UserActs(u) ==
  /\ u \notin killed
  /\ \/ checkout_table(u) \/ checkout_lock(u)
     \/ syscall_check(u) \/ syscall_enter(u) \/ syscall_leave(u)
     \/ Begin(u) \/ Commit(u) \/ Sleep(u) \/ Wake(u) \/ BeginList(u) \/ process_get_list(u)
     \/ new_process(u) \/ insert_process(u) \/ CloneFrom(u) \/ CloneDone(u) \/ Spawn(u)
     \/ QueueProcess(u) \/ QueueThread(u) \/ Finish(u)

CpuActs(c) ==
  \/ checkout_table(c) \/ checkout_lock(c)
  \/ gc_peek(c) \/ gc_next(c) \/ gc_do_thread(c) \/ gc_wait(c) \/ gc_do_process(c)
  \/ delete_threads(c) \/ gc_release(c) \/ remove_process(c) \/ delete_process(c)

Quiet == UNCHANGED vars \/ \E a \in Actor : Request(a)

LEMMA Steps ==
  ASSUME [Next]_vars
  PROVE  Quiet \/ (\E u \in User : UserActs(u)) \/ (\E c \in Cpu : CpuActs(c))
BY DEF Next, Actor, UserActs, CpuActs, Quiet

LEMMA QuietStep ==
  ASSUME Quiet
  PROVE  UNCHANGED <<table, list, parent, l_PID, state, kernel_threads, threads, cmdline, qdata,
                     pc, arg, new, killed, held, deleted>>
BY DEF Quiet, Request, vars, treeVars, procVars

LEMMA CpusAct == \A c \in Cpu : c \in Actor /\ c \notin User
BY ProcessesAssumption DEF Actor

(* What the step of a thread leaves alone. *)
LEMMA UserFrame ==
  ASSUME IInv, DOMAIN new = User, NEW u \in User, UserActs(u)
  PROVE  /\ \A b \in Actor \ {u} : pc'[b] = pc[b] /\ arg'[b] = arg[b]
         /\ DOMAIN new' = User
         /\ \A v \in User \ {u} : new'[v] = new[v]
         /\ \A c \in Cpu : pc[c] # "gc_peek" => Job(c)' = Job(c)
         /\ killed' = killed
<1>1. u \in Actor /\ DOMAIN pc = Actor /\ DOMAIN arg = Actor
  BY UsersAct DEF IInv, Core, Types
<1>2. \E label : pc' = [pc EXCEPT ![u] = label]
  BY DEF UserActs, Go, Checkout, checkout_table, checkout_lock, syscall_check, syscall_enter, syscall_leave,
     Begin, Commit, Sleep, Wake, BeginList, process_get_list, new_process, insert_process, CloneFrom, CloneDone, Spawn,
     QueueProcess, QueueThread, Finish
<1>3. arg' = arg \/ \E x : arg' = [arg EXCEPT ![u] = x]
  BY DEF UserActs, Go, Checkout, checkout_table, checkout_lock, syscall_check, syscall_enter, syscall_leave,
     Begin, Commit, Sleep, Wake, BeginList, process_get_list, new_process, insert_process, CloneFrom, CloneDone, Spawn,
     QueueProcess, QueueThread, Finish
<1>4. new' = new \/ \E x : new' = [new EXCEPT ![u] = x]
  BY DEF UserActs, checkout_table, checkout_lock, syscall_check, syscall_enter, syscall_leave,
     Begin, Commit, Sleep, Wake, BeginList, process_get_list, new_process, insert_process, CloneFrom, CloneDone, Spawn,
     QueueProcess, QueueThread, Finish
<1>5. qdata' = qdata \/ \E c \in Cpu : \E tid : gc_queue(u, c, tid)
  BY DEF UserActs, checkout_table, checkout_lock, syscall_check, syscall_enter, syscall_leave,
     Begin, Commit, Sleep, Wake, BeginList, process_get_list, new_process, insert_process, CloneFrom, CloneDone, Spawn,
     QueueProcess, QueueThread, Finish
<1>7. killed' = killed
  BY DEF UserActs, checkout_table, checkout_lock, syscall_check, syscall_enter, syscall_leave,
     Begin, Commit, Sleep, Wake, BeginList, process_get_list, new_process, insert_process, CloneFrom, CloneDone, Spawn,
     QueueProcess, QueueThread, Finish
<1>6. ASSUME NEW c \in Cpu, pc[c] # "gc_peek" PROVE Job(c)' = Job(c)
  <2>1. CASE qdata' = qdata
    BY <2>1 DEF Job
  <2>2. ASSUME NEW d \in Cpu, NEW tid, gc_queue(u, d, tid) PROVE Job(c)' = Job(c)
    <3>1. 0 \in Used(c) /\ At(c, 0) = Job(c)
      BY <1>6, RingFacts
    <3>2. At(c, 0)' = At(c, 0)
      BY <2>2, <3>1, QueueView
    <3>3. IInv' /\ pc'[c] = pc[c]
      <4>1. IInv'
        BY UserStep DEF UserActs
      <4> QED
        BY <1>1, <1>2, <4>1, CpusAct
    <3>4. At(c, 0)' = Job(c)'
      <4>1. qdata'[c] \in Ring
        BY <3>3 DEF IInv, Rings
      <4>2. qdata'[c].pos \in 0 .. MAX_GC - 1
        BY <4>1 DEF Ring
      <4> QED
        BY <4>2, ProcessesAssumption DEF At, Job, Slot
    <3> QED
      BY <3>1, <3>2, <3>4
  <2> QED
    BY <1>5, <2>1, <2>2
<1> QED
  BY <1>1, <1>2, <1>3, <1>4, <1>6, <1>7

(* What the step of a collector leaves alone. *)
LEMMA CpuFrame ==
  ASSUME IInv, NEW c \in Cpu, CpuActs(c)
  PROVE  /\ new' = new
         /\ \A b \in Actor \ {c} : arg'[b] = arg[b]
         /\ \A d \in Cpu \ {c} : pc'[d] = pc[d] /\ Job(d)' = Job(d)
         /\ \A u \in User : pc'[u] = pc[u]
<1>1. c \in Actor /\ DOMAIN pc = Actor /\ DOMAIN arg = Actor
  BY CpusAct DEF IInv, Core, Types
<1>2. new' = new
  BY DEF CpuActs, checkout_table, checkout_lock, gc_peek, gc_next, gc_do_thread, gc_wait, gc_do_process,
     delete_threads, gc_release, remove_process, delete_process
<1>3. arg' = arg \/ \E x : arg' = [arg EXCEPT ![c] = x]
  BY DEF CpuActs, Checkout, checkout_table, checkout_lock, gc_peek, gc_next, gc_do_thread, gc_wait, gc_do_process,
     delete_threads, gc_release, remove_process, delete_process
<1>4. qdata' = qdata \/ gc_next(c)
  BY DEF CpuActs, checkout_table, checkout_lock, gc_peek, gc_next, gc_do_thread, gc_wait, gc_do_process,
     delete_threads, gc_release, remove_process, delete_process
<1>5. \A d \in Cpu \ {c} : Job(d)' = Job(d)
  <2>1. CASE qdata' = qdata
    BY <2>1 DEF Job
  <2>2. CASE gc_next(c)
    <3>1. qdata[c] \in Ring /\ DOMAIN qdata = Cpu
      BY DEF IInv, Rings
    <3>2. \A d \in Cpu \ {c} : qdata'[d] = qdata[d]
      BY <2>2, <3>1, DroppedData
    <3> QED
      BY <3>2 DEF Job
  <2> QED
    BY <1>4, <2>1, <2>2
<1>6. pc' = pc \/ \E label : pc' = [pc EXCEPT ![c] = label]
  BY DEF CpuActs, Go, Checkout, checkout_table, checkout_lock, gc_peek, gc_next, gc_do_thread, gc_wait, gc_do_process,
     delete_threads, gc_release, remove_process, delete_process
<1> QED
  BY <1>1, <1>2, <1>3, <1>5, <1>6, UsersAct, CpusAct

-----------------------------------------------------------------------------
(* Layer 1: what a thread checks out is what it needs where it is, and a   *)
(* collector works on the entry at the head of its ring.                   *)
Asks(u) ==
  /\ pc[u] \in {"co_table", "co_lock"} =>
       \/ arg[u].then = "commit" /\ arg[u].pid \in Pid
       \/ arg[u].then \in {"exit_process", "exit_thread", "cloned"} /\ arg[u].pid = Home[u]
       \/ arg[u].then = "clone" /\ arg[u].pid = new[u]
  /\ pc[u] = "commit" => arg[u].pid \in Pid
  /\ pc[u] = "clone" => arg[u].pid = new[u]
  /\ pc[u] \in {"cloned", "spawn", "exit_process", "exit_thread", "finish_process", "finish_thread"}
       => arg[u].pid = Home[u]

Working == {"co_table", "co_lock", "gc_thread", "gc_process", "gc_kill", "gc_next", "remove", "delete"}

Works(c) ==
  /\ pc[c] \in {"gc_peek"} \cup Working
  /\ pc[c] # "gc_peek" =>
       /\ arg[c].pid = Job(c)[1] /\ arg[c].mode = "WRITER"
       /\ arg[c].then = IF Job(c)[2] = WHOLE THEN "gc_process" ELSE "gc_thread"
  /\ pc[c] = "gc_thread" => Job(c)[2] # WHOLE
  /\ pc[c] \in {"gc_process", "gc_kill", "remove", "delete"} => Job(c)[2] = WHOLE

ArgInv ==
  /\ DOMAIN new = User
  /\ \A u \in User : Asks(u)
  /\ \A c \in Cpu : Works(c)

LEMMA InitArg == Init => ArgInv
<1> SUFFICES ASSUME Init PROVE ArgInv
  OBVIOUS
<1>1. \A u \in User : pc[u] = "user"
  BY UsersAct DEF Init
<1>2. \A c \in Cpu : pc[c] = "gc_peek"
  BY CpusAct DEF Init
<1>3. DOMAIN new = User
  BY DEF Init
<1> QED
  BY <1>1, <1>2, <1>3 DEF ArgInv, Asks, Works

(* The mover's own part, action by action. *)
LEMMA UserAsks ==
  ASSUME IInv, ArgInv, NEW u \in User, UserActs(u)
  PROVE  Asks(u)'
<1>1. u \in Actor /\ DOMAIN pc = Actor /\ DOMAIN arg = Actor /\ DOMAIN new = User /\ Asks(u) /\ Home[u] \in Pid
  BY UsersAct DEF IInv, Core, Types, ArgInv
<1>2. \A x : pc' = [pc EXCEPT ![u] = x] => pc'[u] = x
  BY <1>1
<1>3. CASE checkout_table(u)
  <2>1. pc'[u] \in {"co_lock", "leave"} /\ pc[u] = "co_table" /\ UNCHANGED <<arg, new>>
    BY <1>1, <1>3 DEF checkout_table, Go
  <2> QED
    BY <1>1, <2>1 DEF Asks
<1>4. CASE checkout_lock(u)
  <2>1. pc'[u] = arg[u].then /\ pc[u] = "co_lock" /\ UNCHANGED <<arg, new>>
    BY <1>2, <1>4 DEF checkout_lock, Go
  <2> QED
    BY <1>1, <2>1 DEF Asks
<1>5. CASE \/ syscall_check(u) \/ syscall_enter(u) \/ syscall_leave(u) \/ Commit(u) \/ Sleep(u) \/ Wake(u) \/ BeginList(u)
           \/ process_get_list(u) \/ new_process(u)
  <2>1. pc'[u] \in {"entering", "kernel", "user", "leave", "dormant", "list", "insert"}
    BY <1>1, <1>5 DEF syscall_check, syscall_enter, syscall_leave, Commit, Sleep, Wake, BeginList, process_get_list,
       new_process, Go
  <2> QED
    BY <2>1 DEF Asks
<1>6. CASE Begin(u)
  <2>1. pc'[u] = "co_table"
    BY <1>1, <1>6 DEF Begin, Checkout, Go
  <2>2. \/ arg'[u].then = "commit" /\ arg'[u].pid \in Pid
        \/ arg'[u].then \in {"exit_process", "exit_thread"} /\ arg'[u].pid = Home[u]
    BY <1>1, <1>6 DEF Begin, Checkout
  <2> QED
    BY <2>1, <2>2 DEF Asks
<1>7. CASE insert_process(u)
  <2>1. pc'[u] = "co_table" /\ arg'[u].then = "clone" /\ arg'[u].pid = new[u] /\ new' = new
    BY <1>1, <1>7 DEF insert_process, Checkout, Go
  <2> QED
    BY <2>1 DEF Asks
<1>8. CASE CloneFrom(u)
  <2>1. pc'[u] = "co_table" /\ arg'[u].then = "cloned" /\ arg'[u].pid = Home[u]
    BY <1>1, <1>8 DEF CloneFrom, Checkout, Go
  <2> QED
    BY <2>1 DEF Asks
<1>9. CASE CloneDone(u) \/ Spawn(u) \/ QueueProcess(u) \/ QueueThread(u) \/ Finish(u)
  <2>1. arg' = arg
    BY <1>9 DEF CloneDone, Spawn, QueueProcess, QueueThread, Finish
  <2>2. \/ pc[u] = "cloned" /\ pc'[u] = "spawn"
        \/ pc[u] = "spawn" /\ pc'[u] = "leave"
        \/ pc[u] = "exit_process" /\ pc'[u] = "finish_process"
        \/ pc[u] = "exit_thread" /\ pc'[u] = "finish_thread"
        \/ pc'[u] = "finished"
    BY <1>1, <1>9 DEF CloneDone, Spawn, QueueProcess, QueueThread, Finish, Go
  <2> QED
    BY <1>1, <2>1, <2>2 DEF Asks
<1> QED
  BY <1>3, <1>4, <1>5, <1>6, <1>7, <1>8, <1>9 DEF UserActs

LEMMA CpuWorks ==
  ASSUME IInv, ArgInv, NEW c \in Cpu, CpuActs(c)
  PROVE  Works(c)'
<1>1. c \in Actor /\ c \notin User /\ DOMAIN pc = Actor /\ DOMAIN arg = Actor /\ Works(c)
  BY CpusAct DEF IInv, Core, Types, ArgInv
<1>2. CASE checkout_table(c)
  <2>1. pc'[c] \in {"co_lock", "gc_next"} /\ pc[c] = "co_table" /\ arg' = arg /\ Job(c)' = Job(c)
    BY <1>1, <1>2 DEF checkout_table, Go, Job
  <2> QED
    BY <1>1, <2>1 DEF Works, Working
<1>3. CASE checkout_lock(c)
  <2>1. pc'[c] = arg[c].then /\ pc[c] = "co_lock" /\ arg' = arg /\ Job(c)' = Job(c)
    BY <1>1, <1>3 DEF checkout_lock, Go, Job
  <2> QED
    BY <1>1, <2>1 DEF Works, Working
<1>4. CASE gc_peek(c)
  <2>1. /\ pc'[c] = "co_table" /\ Job(c)' = Job(c)
        /\ arg'[c].pid = Job(c)[1] /\ arg'[c].mode = "WRITER"
        /\ arg'[c].then = IF Job(c)[2] = WHOLE THEN "gc_process" ELSE "gc_thread"
    BY <1>1, <1>4 DEF gc_peek, Checkout, Go, Job
  <2> QED
    BY <2>1 DEF Works, Working
<1>5. CASE gc_next(c)
  <2>1. pc'[c] = "gc_peek"
    BY <1>1, <1>5 DEF gc_next, Go
  <2> QED
    BY <2>1 DEF Works
<1>6. CASE \/ gc_do_thread(c) \/ gc_wait(c) \/ gc_do_process(c) \/ delete_threads(c) \/ gc_release(c)
           \/ remove_process(c) \/ delete_process(c)
  <2>0. arg' = arg /\ qdata' = qdata
    BY <1>6 DEF gc_do_thread, gc_wait, gc_do_process, delete_threads, gc_release, remove_process, delete_process
  <2>1. arg' = arg /\ Job(c)' = Job(c)
    BY <2>0 DEF Job
  <2>2. \/ pc[c] \in {"gc_thread", "delete"} /\ pc'[c] = "gc_next"
        \/ pc[c] = "gc_process" /\ pc'[c] = "co_table"
        \/ pc[c] \in {"gc_process", "gc_kill"} /\ pc'[c] = "gc_kill"
        \/ pc[c] = "gc_kill" /\ pc'[c] = "remove"
        \/ pc[c] = "remove" /\ pc'[c] = "delete"
    BY <1>1, <1>6 DEF gc_do_thread, gc_wait, gc_do_process, delete_threads, gc_release, remove_process, delete_process, Go
  <2> QED
    BY <1>1, <2>1, <2>2 DEF Works, Working
<1> QED
  BY <1>2, <1>3, <1>4, <1>5, <1>6 DEF CpuActs

LEMMA StepArg ==
  ASSUME IInv, ArgInv, [Next]_vars
  PROVE  ArgInv'
<1>1. CASE Quiet
  BY <1>1, QuietStep DEF ArgInv, Asks, Works, Job
<1>2. ASSUME NEW u \in User, UserActs(u) PROVE ArgInv'
  <2>1. DOMAIN new = User
    BY DEF ArgInv
  <2>2. /\ \A b \in Actor \ {u} : pc'[b] = pc[b] /\ arg'[b] = arg[b]
        /\ DOMAIN new' = User
        /\ \A v \in User \ {u} : new'[v] = new[v]
        /\ \A c \in Cpu : pc[c] # "gc_peek" => Job(c)' = Job(c)
    BY <1>2, <2>1, UserFrame
  <2>3. Asks(u)'
    BY <1>2, UserAsks
  <2>4. \A v \in User \ {u} : Asks(v)'
    BY <2>2, UsersAct DEF ArgInv, Asks
  <2>5. \A c \in Cpu : Works(c)'
    BY <2>2, UsersAct, CpusAct DEF ArgInv, Works, Working
  <2> QED
    BY <2>2, <2>3, <2>4, <2>5 DEF ArgInv
<1>3. ASSUME NEW c \in Cpu, CpuActs(c) PROVE ArgInv'
  <2>1. /\ new' = new
        /\ \A b \in Actor \ {c} : arg'[b] = arg[b]
        /\ \A d \in Cpu \ {c} : pc'[d] = pc[d] /\ Job(d)' = Job(d)
        /\ \A u \in User : pc'[u] = pc[u]
    BY <1>3, CpuFrame
  <2>2. Works(c)'
    BY <1>3, CpuWorks
  <2>3. \A d \in Cpu \ {c} : Works(d)'
    BY <2>1, CpusAct DEF ArgInv, Works, Working
  <2>4. \A u \in User : Asks(u)'
    BY <2>1, UsersAct, CpusAct DEF ArgInv, Asks
  <2> QED
    BY <2>1, <2>2, <2>3, <2>4 DEF ArgInv
<1> QED
  BY <1>1, <1>2, <1>3, Steps

-----------------------------------------------------------------------------
(* Layer 2: the numbers of processes.  No pid is given out twice, and the  *)
(* child that a thread is making is no process of threads, nor is it freed.*)
Child(u) ==
  \/ pc[u] \in {"insert", "clone", "cloned", "spawn"}
  \/ pc[u] \in {"co_table", "co_lock"} /\ arg[u].then \in {"clone", "cloned"}

Numbers ==
  /\ l_PID \in 2 .. MaxPid + 1
  /\ table \subseteq 1 .. l_PID - 1 /\ deleted \subseteq 2 .. l_PID - 1
  /\ Homes \subseteq 2 .. l_PID - 1
  /\ SMK \in table /\ deleted \cap table = {}

Made(u) ==
  Child(u) => /\ new[u] \in 2 .. l_PID - 1
              /\ new[u] \notin Homes /\ new[u] \notin deleted
              /\ new[u] \notin table <=> pc[u] = "insert"

Apart2 == \A u, v \in User : Child(u) /\ Child(v) /\ u # v => new[u] # new[v]

Removed == \A c \in Cpu : pc[c] = "delete" => Job(c)[1] \notin table

PidInv == Numbers /\ (\A u \in User : Made(u)) /\ Apart2 /\ Removed

LEMMA InitPid == Init => PidInv
<1> SUFFICES ASSUME Init PROVE PidInv
  OBVIOUS
<1> USE ProcessesAssumption
<1>1. \A u \in User : pc[u] = "user"
  BY UsersAct DEF Init
<1>2. \A c \in Cpu : pc[c] = "gc_peek"
  BY CpusAct DEF Init
<1>3. PICK n \in 1 .. MaxPid : Homes = 2 .. n
  BY DEF Homes
<1>4. Cardinality(Homes) = n - 1
  <2>1. CASE n = 1
    <3>1. Homes = {}
      BY <1>3, <2>1
    <3> QED
      BY <2>1, <3>1, FS_EmptySet
  <2>2. CASE n > 1
    <3>1. Cardinality(2 .. n) = n - 2 + 1
      BY <2>2, FS_Interval
    <3> QED
      BY <1>3, <3>1
  <2> QED
    BY <2>1, <2>2
<1>5. table = {SMK} \cup Homes /\ l_PID = 2 + Cardinality(Homes) /\ deleted = {}
  BY DEF Init, Homes
<1>6. Numbers
  BY <1>3, <1>4, <1>5 DEF Numbers, SMK
<1> QED
  BY <1>1, <1>2, <1>6 DEF PidInv, Made, Apart2, Removed, Child

(* Only the two steps below make a child or put it into the table. *)
LEMMA ChildMoves ==
  ASSUME IInv, ArgInv, NEW u \in User, UserActs(u), ~ new_process(u), ~ insert_process(u)
  PROVE  /\ Child(u)' => Child(u) /\ pc[u] # "insert" /\ pc'[u] # "insert"
         /\ UNCHANGED <<table, list, parent, l_PID, deleted, new>>
<1>1. u \in Actor /\ DOMAIN pc = Actor /\ DOMAIN arg = Actor /\ Asks(u)
  BY UsersAct DEF IInv, Core, Types, ArgInv
<1>2. UNCHANGED <<table, list, parent, l_PID, deleted, new>>
  BY DEF UserActs, treeVars, checkout_table, checkout_lock, syscall_check, syscall_enter, syscall_leave,
     Begin, Commit, Sleep, Wake, BeginList, process_get_list, CloneFrom, CloneDone, Spawn, QueueProcess, QueueThread, Finish
<1>3. CASE checkout_table(u)
  <2>1. pc'[u] \in {"co_lock", "leave"} /\ pc[u] = "co_table" /\ arg' = arg
    BY <1>1, <1>3 DEF checkout_table, Go
  <2> QED
    BY <1>2, <2>1 DEF Child
<1>4. CASE checkout_lock(u)
  <2>1. pc'[u] = arg[u].then /\ pc[u] = "co_lock" /\ arg' = arg
    BY <1>1, <1>4 DEF checkout_lock, Go
  <2> QED
    BY <1>1, <1>2, <2>1 DEF Child, Asks
<1>5. CASE \/ syscall_check(u) \/ syscall_enter(u) \/ syscall_leave(u) \/ Commit(u) \/ Sleep(u) \/ Wake(u) \/ BeginList(u)
           \/ process_get_list(u) \/ Spawn(u) \/ QueueProcess(u) \/ QueueThread(u) \/ Finish(u)
  <2>1. pc'[u] \in {"entering", "kernel", "user", "leave", "dormant", "list", "finish_process", "finish_thread",
                 "finished"}
    BY <1>1, <1>5 DEF syscall_check, syscall_enter, syscall_leave, Commit, Sleep, Wake, BeginList, process_get_list, Spawn,
       QueueProcess, QueueThread, Finish, Go
  <2> QED
    BY <1>2, <2>1 DEF Child
<1>6. CASE Begin(u)
  <2>1. pc'[u] = "co_table" /\ arg'[u].then \in {"commit", "exit_process", "exit_thread"}
    BY <1>1, <1>6 DEF Begin, Checkout, Go
  <2> QED
    BY <1>2, <2>1 DEF Child
<1>7. CASE CloneFrom(u) \/ CloneDone(u)
  <2>1. pc[u] \in {"clone", "cloned"} /\ pc'[u] \in {"co_table", "spawn"}
    BY <1>1, <1>7 DEF CloneFrom, CloneDone, Checkout, Go
  <2> QED
    BY <1>2, <2>1 DEF Child
<1> QED
  BY <1>3, <1>4, <1>5, <1>6, <1>7 DEF UserActs

LEMMA PidFrame ==
  ASSUME PidInv, UNCHANGED <<table, l_PID, deleted, new>>,
         \A u \in User : Child(u)' => Child(u) /\ (pc'[u] = "insert" <=> pc[u] = "insert"),
         \A c \in Cpu : pc'[c] = "delete" => pc[c] = "delete" /\ Job(c)' = Job(c)
  PROVE  PidInv'
<1>1. Numbers'
  BY DEF PidInv, Numbers, Homes
<1>2. \A u \in User : Made(u)'
  BY DEF PidInv, Made, Homes
<1>3. Apart2'
  BY DEF PidInv, Apart2
<1>4. Removed'
  BY DEF PidInv, Removed
<1> QED
  BY <1>1, <1>2, <1>3, <1>4 DEF PidInv

(* next_pid: every process there was has a smaller number. *)
LEMMA NextPid ==
  ASSUME Numbers
  PROVE  next_pid = l_PID
<1> DEFINE P(p) == p \notin table /\ \A q \in l_PID .. p - 1 : q \in table
<1>1. l_PID \in l_PID .. MaxPid + 1 /\ P(l_PID)
  BY ProcessesAssumption DEF Numbers
<1>2. \A p \in l_PID .. MaxPid + 1 : P(p) => p = l_PID
  BY ProcessesAssumption DEF Numbers
<1>3. next_pid \in l_PID .. MaxPid + 1 /\ P(next_pid)
  BY <1>1 DEF next_pid
<1> QED
  BY <1>2, <1>3

LEMMA NewPid ==
  ASSUME IInv, ArgInv, PidInv, NEW u \in User, new_process(u)
  PROVE  PidInv'
<1>1. u \in Actor /\ DOMAIN pc = Actor /\ DOMAIN arg = Actor /\ DOMAIN new = User
  BY UsersAct DEF IInv, Core, Types, ArgInv
<1>2. next_pid = l_PID
  BY NextPid DEF PidInv
<1>3. /\ l_PID <= MaxPid /\ l_PID' = l_PID + 1 /\ UNCHANGED <<table, arg, qdata>>
      /\ \A b \in Actor \ {u} : pc'[b] = pc[b]
      /\ \A v \in User \ {u} : new'[v] = new[v]
  BY <1>1, <1>2 DEF new_process, Go
<1>4. l_PID \in 2 .. MaxPid + 1 /\ l_PID \in Nat
  BY ProcessesAssumption DEF PidInv, Numbers
<1>4a. l_PID' \in 2 .. MaxPid + 1 /\ 1 .. l_PID - 1 \subseteq 1 .. l_PID' - 1
       /\ 2 .. l_PID - 1 \subseteq 2 .. l_PID' - 1 /\ l_PID \in 2 .. l_PID' - 1
  BY <1>3, <1>4, ProcessesAssumption
<1>5. \A v \in User \ {u} : Child(v)' = Child(v) /\ pc'[v] = pc[v]
  BY <1>3, UsersAct DEF Child
<1>6. \A c \in Cpu : pc'[c] = pc[c] /\ Job(c)' = Job(c)
  BY <1>3, CpusAct DEF Job
<1>7. Removed'
  BY <1>3, <1>6 DEF PidInv, Removed
<1>8. CASE pc'[u] = "insert" /\ new'[u] = l_PID /\ deleted' = deleted
  <2>1. Numbers'
    BY <1>3, <1>8, <1>4a DEF PidInv, Numbers, Homes
  <2>2. Made(u)'
    BY <1>3, <1>4, <1>8 DEF PidInv, Numbers, Made, Homes
  <2>3. \A v \in User \ {u} : Made(v)'
    BY <1>3, <1>4, <1>5, <1>8 DEF PidInv, Made, Homes
  <2>4. Apart2'
    BY <1>3, <1>4, <1>5, <1>8 DEF PidInv, Apart2, Made
  <2> QED
    BY <1>7, <2>1, <2>2, <2>3, <2>4 DEF PidInv
<1>9. CASE pc'[u] = "leave" /\ deleted' = deleted \cup {l_PID} /\ new' = new
  <2>1. Numbers'
    <3>1. l_PID \notin table
      BY <1>4 DEF PidInv, Numbers
    <3> QED
      BY <1>3, <1>9, <1>4a, <3>1 DEF PidInv, Numbers, Homes
  <2>2. ~ Child(u)'
    BY <1>9 DEF Child
  <2>3. \A v \in User : Made(v)'
    BY <1>3, <1>4, <1>5, <1>9, <2>2 DEF PidInv, Made, Homes
  <2>4. Apart2'
    BY <1>5, <1>9, <2>2 DEF PidInv, Apart2
  <2> QED
    BY <1>7, <2>1, <2>3, <2>4 DEF PidInv
<1> QED
  BY <1>1, <1>2, <1>8, <1>9 DEF new_process, Go

LEMMA InsertPid ==
  ASSUME IInv, ArgInv, PidInv, NEW u \in User, insert_process(u)
  PROVE  PidInv'
<1>1. u \in Actor /\ DOMAIN pc = Actor /\ DOMAIN arg = Actor /\ DOMAIN new = User
  BY UsersAct DEF IInv, Core, Types, ArgInv
<1>2. /\ UNCHANGED <<l_PID, deleted, new, qdata>> /\ table' = table \cup {new[u]}
      /\ pc[u] = "insert" /\ pc'[u] = "co_table"
      /\ \A b \in Actor \ {u} : pc'[b] = pc[b] /\ arg'[b] = arg[b]
  BY <1>1 DEF insert_process, Checkout, Go
<1>3. Child(u) /\ \A v \in User \ {u} : Child(v)' = Child(v) /\ pc'[v] = pc[v]
  BY <1>2, UsersAct DEF Child
<1>4. new[u] \in 2 .. l_PID - 1 /\ new[u] \notin Homes /\ new[u] \notin deleted
  BY <1>3 DEF PidInv, Made
<1>5. Numbers'
  <2>1. l_PID \in 2 .. MaxPid + 1 /\ table' \subseteq 1 .. l_PID - 1
    <3>1. l_PID \in 2 .. MaxPid + 1 /\ table \subseteq 1 .. l_PID - 1
      BY DEF PidInv, Numbers
    <3>2. new[u] \in 1 .. l_PID - 1
      BY <1>4, <3>1
    <3> QED
      BY <1>2, <3>1, <3>2
  <2>2. deleted \subseteq 2 .. l_PID - 1 /\ Homes \subseteq 2 .. l_PID - 1 /\ SMK \in table'
    BY <1>2 DEF PidInv, Numbers
  <2>3. deleted' \cap table' = {}
    BY <1>2, <1>4 DEF PidInv, Numbers
  <2>4. Homes' = Homes /\ l_PID' = l_PID /\ deleted' = deleted
    BY <1>2 DEF Homes
  <2> QED
    BY <2>1, <2>2, <2>3, <2>4 DEF Numbers
<1>6. Made(u)'
  BY <1>2, <1>4 DEF Made, Homes
<1>7. \A v \in User \ {u} : Made(v)'
  BY <1>2, <1>3 DEF PidInv, Made, Apart2, Homes
<1>8. Apart2'
  BY <1>2, <1>3 DEF PidInv, Apart2
<1>9. Removed'
  <2>1. \A c \in Cpu : pc'[c] = pc[c] /\ Job(c)' = Job(c)
    BY <1>2, UsersAct, CpusAct DEF Job
  <2>2. \A c \in Cpu : pc[c] = "delete" => Job(c)[1] \in Homes
    BY JobNamed DEF IInv
  <2> QED
    BY <1>2, <1>4, <2>1, <2>2 DEF PidInv, Removed
<1> QED
  BY <1>5, <1>6, <1>7, <1>8, <1>9 DEF PidInv

LEMMA RemovePid ==
  ASSUME IInv, ArgInv, PidInv, NEW c \in Cpu, remove_process(c) \/ delete_process(c)
  PROVE  PidInv'
<1> DEFINE p == Job(c)[1]
<1>1. c \in Actor /\ DOMAIN pc = Actor
  BY CpusAct DEF IInv, Core, Types
<1>2. p \in Homes /\ p # SMK
  <2>1. p \in Homes
    BY JobNamed DEF IInv, remove_process, delete_process
  <2> QED
    BY <2>1 DEF PidInv, Numbers, SMK
<1>3. UNCHANGED <<l_PID, new, qdata, arg>> /\ \A b \in Actor \ {c} : pc'[b] = pc[b]
  BY <1>1 DEF remove_process, delete_process, Go, treeVars
<1>4. \A u \in User : Child(u)' = Child(u) /\ pc'[u] = pc[u]
  BY <1>3, UsersAct, CpusAct DEF Child
<1>5. \A d \in Cpu : Job(d)' = Job(d)
  BY <1>3 DEF Job
<1>6. Apart2'
  BY <1>3, <1>4 DEF PidInv, Apart2
<1>7. CASE remove_process(c)
  <2>1. table' = table \ {p} /\ deleted' = deleted /\ pc'[c] = "delete"
    BY <1>1, <1>7 DEF remove_process, Go
  <2>2. Numbers'
    BY <1>2, <1>3, <2>1 DEF PidInv, Numbers, Homes
  <2>3. \A u \in User : Made(u)'
    BY <1>2, <1>3, <1>4, <2>1 DEF PidInv, Made, Homes
  <2>4. Removed'
    BY <1>3, <1>5, <2>1, CpusAct DEF PidInv, Removed
  <2> QED
    BY <1>6, <2>2, <2>3, <2>4 DEF PidInv
<1>8. CASE delete_process(c)
  <2>1. table' = table /\ deleted' = deleted \cup {p} /\ pc'[c] = "gc_next" /\ pc[c] = "delete"
    BY <1>1, <1>8 DEF delete_process, Go, treeVars
  <2>2. Numbers'
    BY <1>2, <1>3, <2>1 DEF PidInv, Numbers, Homes, Removed
  <2>3. \A u \in User : Made(u)'
    BY <1>2, <1>3, <1>4, <2>1 DEF PidInv, Made, Homes
  <2>4. Removed'
    BY <1>3, <1>5, <2>1, CpusAct DEF PidInv, Removed
  <2> QED
    BY <1>6, <2>2, <2>3, <2>4 DEF PidInv
<1> QED
  BY <1>7, <1>8

LEMMA StepPid ==
  ASSUME IInv, ArgInv, PidInv, [Next]_vars
  PROVE  PidInv'
<1>1. CASE Quiet
  <2>1. \A u \in User : Child(u)' = Child(u) /\ pc'[u] = pc[u]
    BY <1>1, QuietStep DEF Child
  <2>2. \A c \in Cpu : pc'[c] = pc[c] /\ Job(c)' = Job(c)
    BY <1>1, QuietStep DEF Job
  <2> QED
    BY <1>1, <2>1, <2>2, QuietStep, PidFrame
<1>2. ASSUME NEW u \in User, UserActs(u), ~ new_process(u), ~ insert_process(u) PROVE PidInv'
  <2>1. /\ \A b \in Actor \ {u} : pc'[b] = pc[b] /\ arg'[b] = arg[b]
        /\ \A c \in Cpu : pc[c] # "gc_peek" => Job(c)' = Job(c)
    BY <1>2, UserFrame DEF ArgInv
  <2>2. /\ Child(u)' => Child(u) /\ pc[u] # "insert" /\ pc'[u] # "insert"
        /\ UNCHANGED <<table, l_PID, deleted, new>>
    BY <1>2, ChildMoves
  <2>3. \A v \in User \ {u} : Child(v)' = Child(v) /\ pc'[v] = pc[v]
    BY <2>1, UsersAct DEF Child
  <2>4. \A c \in Cpu : pc'[c] = "delete" => pc[c] = "delete" /\ Job(c)' = Job(c)
    BY <2>1, UsersAct, CpusAct
  <2> QED
    BY <2>2, <2>3, <2>4, PidFrame
<1>3. ASSUME NEW c \in Cpu, CpuActs(c), ~ remove_process(c), ~ delete_process(c) PROVE PidInv'
  <2>1. /\ new' = new
        /\ \A b \in Actor \ {c} : arg'[b] = arg[b]
        /\ \A d \in Cpu \ {c} : pc'[d] = pc[d] /\ Job(d)' = Job(d)
        /\ \A u \in User : pc'[u] = pc[u]
    BY <1>3, CpuFrame
  <2>2. UNCHANGED <<table, l_PID, deleted>>
    BY <1>3 DEF CpuActs, treeVars, checkout_table, checkout_lock, gc_peek, gc_next, gc_do_thread, gc_wait, gc_do_process,
       delete_threads, gc_release
  <2>3. pc'[c] # "delete"
    <3>1. DOMAIN pc = Actor /\ c \in Actor /\ c \notin User /\ Works(c)
      BY CpusAct DEF IInv, Core, Types, ArgInv
    <3> QED
      BY <1>3, <3>1 DEF CpuActs, Works, Go, Checkout, checkout_table, checkout_lock, gc_peek, gc_next, gc_do_thread,
         gc_wait, gc_do_process,
       delete_threads, gc_release
  <2>4. \A u \in User : Child(u)' => Child(u) /\ (pc'[u] = "insert" <=> pc[u] = "insert")
    BY <2>1, UsersAct, CpusAct DEF Child
  <2>5. \A d \in Cpu : pc'[d] = "delete" => pc[d] = "delete" /\ Job(d)' = Job(d)
    BY <2>1, <2>3
  <2> QED
    BY <2>1, <2>2, <2>4, <2>5, PidFrame
<1> QED
  BY <1>1, <1>2, <1>3, Steps, NewPid, InsertPid, RemovePid

-----------------------------------------------------------------------------
(* Layer 3: how processes and threads end. *)
Leaving == {"finish_thread", "finished"}
Over(u) == u \in killed \/ pc[u] = "finished"

Ended(p) == \A u \in User : Home[u] = p => Over(u)

(* A thread that is neither deleted nor about to end is a thread of its    *)
(* process.                                                                *)
Present == \A u \in User : u \notin killed /\ pc[u] \notin Leaving => u \in threads[Home[u]]

(* A process is removed when all of its threads are over; a thread that is *)
(* deleted goes with its process.                                          *)
EndedFirst == \A c \in Cpu : pc[c] \in {"remove", "delete"} => Ended(Job(c)[1])
NotListed == \A p \in Homes \ table : Ended(p)
GoneWith ==
  \A u \in User : u \in killed =>
    Home[u] \notin table \/ \E c \in Cpu : pc[c] \in {"gc_kill", "remove"} /\ Job(c)[1] = Home[u]

(* Who ends itself holds its process, as the collector does that deletes   *)
(* the threads: layer 4 shows that they never meet.                        *)
Alone ==
  \A c \in Cpu, u \in User : pc[c] = "gc_kill" /\ Home[u] = Job(c)[1] => pc[u] # "finish_thread"

(* What the entries of the rings stand for: a process that is finishing,   *)
(* or about to be marked so, or a thread that is leaving and is among the  *)
(* threads of its process until its entry has been dealt with.             *)
Whole(p) == state[p] = "FINISHING" \/ \E u \in User : Home[u] = p /\ pc[u] = "finish_process"

EntryOK(c, i, e) ==
  /\ e[2] = WHOLE => Whole(e[1])
  /\ e[2] # WHOLE =>
       /\ Home[e[2]] = e[1] /\ pc[e[2]] \in Leaving
       /\ e[2] \in killed \/ e[2] \in threads[e[1]] \/ (i = 0 /\ pc[c] = "gc_next")

Entries == \A c \in Cpu : \A i \in Used(c) : EntryOK(c, i, At(c, i))

Once ==
  \A c, d \in Cpu : \A i \in Used(c), j \in Used(d) :
    At(c, i)[2] # WHOLE /\ At(c, i)[2] = At(d, j)[2] => c = d /\ i = j

EndInv ==
  /\ DOMAIN state = Pid
  /\ Present /\ EndedFirst /\ NotListed /\ GoneWith
  /\ Entries /\ Once

LEMMA InitEnd == Init => EndInv
<1> SUFFICES ASSUME Init PROVE EndInv
  OBVIOUS
<1>1. \A u \in User : pc[u] = "user"
  BY UsersAct DEF Init
<1>2. \A c \in Cpu : pc[c] = "gc_peek"
  BY CpusAct DEF Init
<1>3. Present
  BY UsersAct DEF Present, Init
<1>4. table = {SMK} \cup Homes
  BY DEF Init, Homes
<1>5. \A c \in Cpu : Used(c) = {}
  BY DEF Init, Used
<1>6. DOMAIN state = Pid
  BY DEF Init
<1>7. killed = {}
  BY DEF Init
<1> QED
  BY <1>1, <1>2, <1>3, <1>4, <1>5, <1>6, <1>7 DEF EndInv, EndedFirst, NotListed, GoneWith, Entries, Once

(* A step that ends no process and removes none. *)
LEMMA LifeFrame ==
  ASSUME EndInv, Present', killed' = killed,
         \A u \in User : pc[u] = "finished" => pc'[u] = "finished",
         \A p \in Homes : p \in table' <=> p \in table,
         \A c \in Cpu : /\ pc'[c] \in {"remove", "delete"} => pc[c] = pc'[c] /\ Job(c)' = Job(c)
                        /\ pc[c] \in {"gc_kill", "remove"} => pc'[c] = pc[c] /\ Job(c)' = Job(c)
  PROVE  EndedFirst' /\ NotListed' /\ GoneWith'
<1>1. \A p : Ended(p) => Ended(p)'
  BY DEF Ended, Over
<1>2. EndedFirst'
  BY <1>1 DEF EndInv, EndedFirst
<1>3. NotListed'
  BY <1>1 DEF EndInv, NotListed, Homes
<1>4. GoneWith'
  <2> SUFFICES ASSUME NEW u \in User, u \in killed', Home[u] \in table'
               PROVE  \E c \in Cpu : pc'[c] \in {"gc_kill", "remove"} /\ Job(c)'[1] = Home[u]
    BY DEF GoneWith
  <2>1. u \in killed /\ Home[u] \in table
    BY DEF Homes
  <2>2. PICK c \in Cpu : pc[c] \in {"gc_kill", "remove"} /\ Job(c)[1] = Home[u]
    BY <2>1 DEF EndInv, GoneWith
  <2>3. pc'[c] = pc[c] /\ Job(c)' = Job(c)
    BY <2>2
  <2> QED
    BY <2>2, <2>3
<1> QED
  BY <1>2, <1>3, <1>4

(* A step that leaves the rings alone. *)
LEMMA EntryFrame ==
  ASSUME IInv, EndInv, qdata' = qdata,
         \A p \in Homes : Whole(p) => Whole(p)',
         \A u \in User : pc[u] \in Leaving => pc'[u] \in Leaving,
         killed \subseteq killed',
         \A u \in User : u \in threads[Home[u]] => u \in threads'[Home[u]] \/ u \in killed',
         \A c \in Cpu : pc[c] = "gc_next" => pc'[c] = "gc_next"
  PROVE  Entries' /\ Once'
<1>1. \A c \in Cpu : Used(c)' = Used(c) /\ \A i : At(c, i)' = At(c, i)
  BY SameView
<1>2. Once'
  BY <1>1 DEF EndInv, Once
<1>3. ASSUME NEW c \in Cpu, NEW i \in Used(c) PROVE EntryOK(c, i, At(c, i))'
  <2> DEFINE e == At(c, i)
  <2>1. e[1] \in Homes /\ e[2] \in {WHOLE} \cup User
    BY RingFacts
  <2>2. EntryOK(c, i, e)
    BY DEF EndInv, Entries
  <2>3. At(c, i)' = e
    BY <1>1
  <2> HIDE DEF e
  <2> QED
    BY <2>1, <2>2, <2>3 DEF EntryOK, Whole
<1> QED
  BY <1>1, <1>2, <1>3 DEF Entries

LEMMA UserStays ==
  ASSUME IInv, ArgInv, NEW u \in User, UserActs(u), ~ QueueProcess(u), ~ QueueThread(u), ~ Finish(u)
  PROVE  /\ pc[u] \notin Leaving \cup {"finish_process"} /\ pc'[u] \notin Leaving \cup {"finish_process"}
         /\ UNCHANGED <<state, threads, qdata>>
<1>1. u \in Actor /\ DOMAIN pc = Actor /\ Asks(u)
  BY UsersAct DEF IInv, Core, Types, ArgInv
<1>2. UNCHANGED <<state, threads, qdata>>
  BY DEF UserActs, procVars, checkout_table, checkout_lock, syscall_check, syscall_enter, syscall_leave,
     Begin, Commit, Sleep, Wake, BeginList, process_get_list, new_process, insert_process, CloneFrom, CloneDone, Spawn
<1>3. CASE checkout_lock(u)
  <2>1. pc'[u] = arg[u].then /\ pc[u] = "co_lock"
    BY <1>1, <1>3 DEF checkout_lock, Go
  <2> QED
    BY <1>1, <1>2, <2>1 DEF Asks, Leaving
<1>4. CASE ~ checkout_lock(u)
  BY <1>1, <1>2, <1>4 DEF UserActs, Leaving, Go, Checkout, checkout_table, syscall_check, syscall_enter, syscall_leave,
     Begin, Commit, Sleep, Wake, BeginList, process_get_list, new_process, insert_process, CloneFrom, CloneDone, Spawn
<1> QED
  BY <1>3, <1>4

(* Whatever a thread does, the processes of threads stay in the table. *)
LEMMA UserTable ==
  ASSUME IInv, ArgInv, PidInv, NEW u \in User, UserActs(u)
  PROVE  \A p \in Homes : p \in table' <=> p \in table
<1>1. CASE insert_process(u)
  <2>1. table' = table \cup {new[u]} /\ pc[u] = "insert"
    BY <1>1 DEF insert_process
  <2>2. new[u] \notin Homes
    BY <2>1 DEF PidInv, Made, Child
  <2> QED
    BY <2>1, <2>2
<1>2. CASE new_process(u)
  BY <1>2 DEF new_process
<1>3. CASE ~ insert_process(u) /\ ~ new_process(u)
  BY <1>3, ChildMoves
<1> QED
  BY <1>1, <1>2, <1>3

LEMMA UserEnd ==
  ASSUME IInv, ArgInv, PidInv, EndInv, NEW u \in User, UserActs(u)
  PROVE  EndInv'
<1>1. /\ \A b \in Actor \ {u} : pc'[b] = pc[b] /\ arg'[b] = arg[b]
      /\ \A c \in Cpu : pc[c] # "gc_peek" => Job(c)' = Job(c)
      /\ killed' = killed
  BY UserFrame DEF ArgInv
<1>2. \A p \in Homes : p \in table' <=> p \in table
  BY UserTable
<1>3. \A c \in Cpu : pc'[c] = pc[c]
  BY <1>1, UsersAct, CpusAct
<1>4. \A v \in User \ {u} : pc'[v] = pc[v]
  BY <1>1, UsersAct
<1>5. u \in Actor /\ DOMAIN pc = Actor /\ Home[u] \in Pid /\ DOMAIN state = Pid
  BY UsersAct DEF IInv, Core, Types, EndInv
<1>6. \A c \in Cpu : /\ pc'[c] \in {"remove", "delete"} => pc[c] = pc'[c] /\ Job(c)' = Job(c)
                     /\ pc[c] \in {"gc_kill", "remove"} => pc'[c] = pc[c] /\ Job(c)' = Job(c)
  BY <1>1, <1>3
<1>7. CASE ~ QueueProcess(u) /\ ~ QueueThread(u) /\ ~ Finish(u)
  <2>1. /\ pc[u] \notin Leaving \cup {"finish_process"} /\ pc'[u] \notin Leaving \cup {"finish_process"}
        /\ UNCHANGED <<state, threads, qdata>>
    BY <1>7, UserStays
  <2>2. Present'
    BY <1>1, <1>4, <2>1 DEF EndInv, Present
  <2>3. EndedFirst' /\ NotListed' /\ GoneWith'
    BY <1>1, <1>2, <1>4, <1>6, <2>1, <2>2, LifeFrame DEF Leaving
  <2>4. Entries' /\ Once'
    <3>1. \A p \in Homes : Whole(p) => Whole(p)'
      BY <1>4, <2>1 DEF Whole
    <3> QED
      BY <1>1, <1>3, <1>4, <2>1, <3>1, EntryFrame DEF Leaving
  <2> QED
    BY <1>5, <2>1, <2>2, <2>3, <2>4 DEF EndInv
<1>8. CASE Finish(u)
  <2>1. /\ pc[u] \in {"finish_process", "finish_thread"} /\ pc'[u] = "finished"
        /\ UNCHANGED <<threads, qdata>>
        /\ state' = [state EXCEPT ![Home[u]] = IF pc[u] = "finish_process" THEN "FINISHING" ELSE @]
    BY <1>5, <1>8 DEF Finish, Go
  <2>2. Present'
    BY <1>1, <1>4, <2>1 DEF EndInv, Present, Leaving
  <2>3. EndedFirst' /\ NotListed' /\ GoneWith'
    BY <1>1, <1>2, <1>4, <1>6, <2>1, <2>2, LifeFrame
  <2>4. Entries' /\ Once'
    <3>1. ASSUME NEW p \in Homes, Whole(p) PROVE Whole(p)'
      <4>1. p \in Pid
        BY HomesArePids
      <4>2. state[p] = "FINISHING" => state'[p] = "FINISHING"
        BY <1>5, <2>1, <4>1
      <4>3. Home[u] = p /\ pc[u] = "finish_process" => state'[p] = "FINISHING"
        BY <1>5, <2>1, <4>1
      <4> QED
        BY <1>4, <3>1, <4>2, <4>3 DEF Whole
    <3> QED
      BY <1>1, <1>3, <1>4, <2>1, <3>1, EntryFrame DEF Leaving
  <2> QED
    BY <1>5, <2>1, <2>2, <2>3, <2>4 DEF EndInv
<1>9. CASE QueueProcess(u) \/ QueueThread(u)
  <2>1. PICK c \in Cpu, tid \in {WHOLE, u} :
          /\ gc_queue(u, c, tid)
          /\ tid = WHOLE => pc[u] = "exit_process" /\ pc'[u] = "finish_process"
          /\ tid # WHOLE => tid = u /\ pc[u] = "exit_thread" /\ pc'[u] = "finish_thread"
    <3>1. CASE QueueProcess(u)
      BY <1>5, <3>1 DEF QueueProcess, Go
    <3>2. CASE QueueThread(u)
      BY <1>5, <3>2, ProcessesAssumption DEF QueueThread, Go
    <3> QED
      BY <1>9, <3>1, <3>2
  <2>2. UNCHANGED <<state, threads>>
    BY <1>9 DEF QueueProcess, QueueThread, procVars
  <2>3. pc[u] \notin Leaving \cup {"finish_process"} /\ pc'[u] \in {"finish_process", "finish_thread"}
    BY <2>1 DEF Leaving
  <2>4. Present'
    BY <1>1, <1>4, <2>2, <2>3 DEF EndInv, Present
  <2>5. EndedFirst' /\ NotListed' /\ GoneWith'
    BY <1>1, <1>2, <1>4, <1>6, <2>3, <2>4, LifeFrame DEF Leaving
  <2>6. /\ Used(c) \subseteq Used(c)'
        /\ \A i \in Used(c)' : At(c, i)' = IF i \in Used(c) THEN At(c, i) ELSE <<Home[u], tid>>
        /\ \A i, j \in Used(c)' \ Used(c) : i = j
        /\ \A d \in Cpu \ {c} : Used(d)' = Used(d) /\ \A i : At(d, i)' = At(d, i)
    BY <2>1, QueueView
  <2>7. \A p \in Homes : Whole(p) => Whole(p)'
    BY <1>4, <2>2, <2>3 DEF Whole
  <2>8. ASSUME NEW d \in Cpu, NEW i \in Used(d), NEW e, e = At(d, i)
        PROVE  /\ e[2] # u
               /\ e[2] = WHOLE => Whole(e[1])'
               /\ e[2] # WHOLE =>
                    /\ Home[e[2]] = e[1] /\ pc'[e[2]] \in Leaving
                    /\ e[2] \in killed' \/ e[2] \in threads'[e[1]] \/ (i = 0 /\ pc'[d] = "gc_next")
    <3>1. EntryOK(d, i, e) /\ e[1] \in Homes /\ e[2] \in {WHOLE} \cup User
      BY <2>8, RingFacts DEF EndInv, Entries
    <3>2. e[2] # u
      BY <2>3, <3>1, ProcessesAssumption DEF EntryOK
    <3> QED
      BY <1>1, <1>3, <1>4, <2>2, <2>7, <3>1, <3>2 DEF EntryOK
  <2>9. Entries'
    <3> SUFFICES ASSUME NEW d \in Cpu, NEW i \in Used(d)', NEW e, e = At(d, i)'
                 PROVE  /\ e[2] = WHOLE => Whole(e[1])'
                        /\ e[2] # WHOLE =>
                             /\ Home[e[2]] = e[1] /\ pc'[e[2]] \in Leaving
                             /\ e[2] \in killed' \/ e[2] \in threads'[e[1]] \/ (i = 0 /\ pc'[d] = "gc_next")
      BY DEF Entries, EntryOK
    <3>1. CASE i \in Used(d)
      <4>1. e = At(d, i)
        BY <2>6, <3>1
      <4> QED
        BY <2>8, <3>1, <4>1
    <3>2. CASE i \notin Used(d)
      <4>1. d = c /\ e[1] = Home[u] /\ e[2] = tid
        BY <2>6, <3>2
      <4>2. CASE tid = WHOLE
        BY <2>1, <4>1, <4>2 DEF Whole
      <4>3. CASE tid # WHOLE
        <5>1. u \in threads[Home[u]]
          BY <2>3 DEF EndInv, Present, UserActs
        <5> QED
          BY <2>1, <2>2, <4>1, <4>3, <5>1 DEF Leaving
      <4> QED
        BY <4>2, <4>3
    <3> QED
      BY <3>1, <3>2
  <2>10. Once'
    <3> SUFFICES ASSUME NEW b \in Cpu, NEW d \in Cpu, NEW i \in Used(b)', NEW j \in Used(d)',
                        At(b, i)'[2] # WHOLE, At(b, i)'[2] = At(d, j)'[2]
                 PROVE  b = d /\ i = j
      BY DEF Once
    <3>1. CASE i \in Used(b) /\ j \in Used(d)
      <4>1. At(b, i)' = At(b, i) /\ At(d, j)' = At(d, j)
        BY <2>6, <3>1
      <4> QED
        BY <3>1, <4>1 DEF EndInv, Once
    <3>2. CASE i \in Used(b) /\ j \notin Used(d)
      <4>1. At(b, i)' = At(b, i) /\ At(d, j)'[2] = tid
        BY <2>6, <3>2
      <4>2. At(b, i)[2] # u
        BY <2>8, <3>2
      <4> QED
        BY <2>1, <4>1, <4>2
    <3>3. CASE i \notin Used(b) /\ j \in Used(d)
      <4>1. At(d, j)' = At(d, j) /\ At(b, i)'[2] = tid
        BY <2>6, <3>3
      <4>2. At(d, j)[2] # u
        BY <2>8, <3>3
      <4> QED
        BY <2>1, <4>1, <4>2
    <3>4. CASE i \notin Used(b) /\ j \notin Used(d)
      BY <2>6, <3>4
    <3> QED
      BY <3>1, <3>2, <3>3, <3>4
  <2> QED
    BY <1>5, <2>2, <2>4, <2>5, <2>9, <2>10 DEF EndInv
<1> QED
  BY <1>7, <1>8, <1>9

LEMMA CpuEnd ==
  ASSUME IInv, ArgInv, PidInv, EndInv, Alone, NEW c \in Cpu, CpuActs(c)
  PROVE  EndInv'
<1>1. /\ \A d \in Cpu \ {c} : pc'[d] = pc[d] /\ Job(d)' = Job(d)
      /\ \A u \in User : pc'[u] = pc[u]
  BY CpuFrame
<1>2. c \in Actor /\ c \notin User /\ DOMAIN pc = Actor /\ DOMAIN state = Pid /\ Works(c)
  BY CpusAct DEF IInv, Core, Types, EndInv, ArgInv
<1>3. CASE \/ checkout_table(c) \/ checkout_lock(c) \/ gc_peek(c) \/ gc_wait(c) \/ gc_do_process(c)
           \/ delete_process(c)
  <2>1. /\ UNCHANGED <<table, threads, state, qdata, killed>>
        /\ pc[c] \notin {"gc_kill", "remove", "gc_next"} /\ pc'[c] \notin {"remove", "delete"}
    BY <1>2, <1>3 DEF checkout_table, checkout_lock, gc_peek, gc_wait, gc_do_process, delete_process, treeVars,
       procVars, lockVars, Go, Checkout, Works
  <2>2. \A u \in User : pc'[u] = pc[u]
    BY <1>1
  <2>3. Present'
    BY <2>1, <2>2 DEF EndInv, Present
  <2>4. EndedFirst' /\ NotListed' /\ GoneWith'
    BY <1>1, <2>1, <2>2, <2>3, LifeFrame
  <2>5. Entries' /\ Once'
    <3>1. \A p \in Homes : Whole(p) => Whole(p)'
      BY <2>1, <2>2 DEF Whole
    <3> QED
      BY <1>1, <2>1, <2>2, <3>1, EntryFrame
  <2> QED
    BY <1>2, <2>1, <2>3, <2>4, <2>5 DEF EndInv
<1>4. CASE gc_next(c)
  <2>1. /\ UNCHANGED <<table, threads, state, killed>> /\ pc[c] = "gc_next" /\ pc'[c] = "gc_peek"
        /\ \A u \in User : pc'[u] = pc[u]
    BY <1>2, <1>4, UsersAct DEF gc_next, treeVars, procVars, Go
  <2>2. Present'
    BY <2>1 DEF EndInv, Present
  <2>3. EndedFirst' /\ NotListed' /\ GoneWith'
    BY <1>1, <2>1, <2>2, LifeFrame
  <2>4. /\ \A i \in Used(c)' : i + 1 \in Used(c) /\ At(c, i)' = At(c, i + 1)
        /\ \A d \in Cpu \ {c} : Used(d)' = Used(d) /\ \A i : At(d, i)' = At(d, i)
    BY <1>4, NextView
  <2>5. ASSUME NEW d \in Cpu, NEW i \in Used(d), NEW e, e = At(d, i), d = c => i # 0
        PROVE  /\ e[2] = WHOLE => Whole(e[1])'
               /\ e[2] # WHOLE =>
                    /\ Home[e[2]] = e[1] /\ pc'[e[2]] \in Leaving
                    /\ e[2] \in killed' \/ e[2] \in threads'[e[1]] \/ (d # c /\ i = 0 /\ pc'[d] = "gc_next")
    <3>1. EntryOK(d, i, e) /\ e[1] \in Homes /\ e[2] \in {WHOLE} \cup User
      BY <2>5, RingFacts DEF EndInv, Entries
    <3> QED
      BY <1>1, <2>1, <2>5, <3>1 DEF EntryOK, Whole
  <2>6. Entries'
    <3> SUFFICES ASSUME NEW d \in Cpu, NEW i \in Used(d)', NEW e, e = At(d, i)'
                 PROVE  /\ e[2] = WHOLE => Whole(e[1])'
                        /\ e[2] # WHOLE =>
                             /\ Home[e[2]] = e[1] /\ pc'[e[2]] \in Leaving
                             /\ e[2] \in killed' \/ e[2] \in threads'[e[1]] \/ (i = 0 /\ pc'[d] = "gc_next")
      BY DEF Entries, EntryOK
    <3>1. CASE d = c
      <4>1. i + 1 \in Used(c) /\ e = At(c, i + 1) /\ i + 1 # 0
        BY <2>4, <3>1 DEF Used
      <4> QED
        BY <2>5, <3>1, <4>1
    <3>2. CASE d # c
      <4>1. i \in Used(d) /\ e = At(d, i)
        BY <2>4, <3>2
      <4> QED
        BY <2>5, <3>2, <4>1
    <3> QED
      BY <3>1, <3>2
  <2>7. Once'
    <3> SUFFICES ASSUME NEW b \in Cpu, NEW d \in Cpu, NEW i \in Used(b)', NEW j \in Used(d)',
                        At(b, i)'[2] # WHOLE, At(b, i)'[2] = At(d, j)'[2]
                 PROVE  b = d /\ i = j
      BY DEF Once
    <3> DEFINE x == IF b = c THEN i + 1 ELSE i
               y == IF d = c THEN j + 1 ELSE j
    <3>1. x \in Used(b) /\ At(b, i)' = At(b, x)
      BY <2>4
    <3>2. y \in Used(d) /\ At(d, j)' = At(d, y)
      BY <2>4
    <3>3. i \in Int /\ j \in Int
      BY DEF Used
    <3>4. b = d /\ x = y
      <4> HIDE DEF x, y
      <4> QED
        BY <3>1, <3>2 DEF EndInv, Once
    <3> QED
      BY <3>3, <3>4
  <2> QED
    BY <1>2, <2>1, <2>2, <2>3, <2>6, <2>7 DEF EndInv
<1>5. CASE gc_do_thread(c)
  <2> DEFINE p == Job(c)[1]
             v == Job(c)[2]
  <2>1. /\ UNCHANGED <<table, state, qdata, killed>> /\ pc[c] = "gc_thread" /\ pc'[c] = "gc_next"
        /\ \A u \in User : pc'[u] = pc[u]
    BY <1>2, <1>5, UsersAct DEF gc_do_thread, treeVars, Go
  <2>2. 0 \in Used(c) /\ At(c, 0) = Job(c) /\ p \in Homes /\ v \in User /\ v # WHOLE
    BY <1>2, <2>1, RingFacts DEF Works
  <2>3. p \in Pid
    BY <2>2, HomesArePids
  <2>4. Home[v] = p /\ pc[v] \in Leaving
    BY <2>2 DEF EndInv, Entries, EntryOK
  <2>5. \A u \in User \ {v} : u \in threads[Home[u]] => u \in threads'[Home[u]]
    BY <1>5, <2>3, UsersAct DEF gc_do_thread, IInv, Core, Types
  <2>6. Present'
    BY <2>1, <2>4, <2>5 DEF EndInv, Present
  <2>7. EndedFirst' /\ NotListed' /\ GoneWith'
    BY <1>1, <2>1, <2>6, LifeFrame
  <2>8. \A d \in Cpu : Used(d)' = Used(d) /\ \A i : At(d, i)' = At(d, i)
    BY <2>1, SameView
  <2>9. Once'
    BY <2>8 DEF EndInv, Once
  <2>10. ASSUME NEW d \in Cpu, NEW i \in Used(d), NEW e, e = At(d, i)
         PROVE  /\ e[2] = WHOLE => Whole(e[1])'
                /\ e[2] # WHOLE =>
                     /\ Home[e[2]] = e[1] /\ pc'[e[2]] \in Leaving
                     /\ e[2] \in killed' \/ e[2] \in threads'[e[1]] \/ (i = 0 /\ pc'[d] = "gc_next")
    <3>1. EntryOK(d, i, e) /\ e[1] \in Homes /\ e[2] \in {WHOLE} \cup User
      BY <2>10, RingFacts DEF EndInv, Entries
    <3>2. CASE e[2] = WHOLE
      BY <2>1, <3>1, <3>2 DEF EntryOK, Whole
    <3>3. CASE e[2] = v
      <4>1. d = c /\ i = 0
        BY <2>2, <2>10, <3>3 DEF EndInv, Once
      <4> QED
        BY <2>1, <2>2, <3>1, <3>3, <4>1 DEF EntryOK
    <3>4. CASE e[2] # WHOLE /\ e[2] # v
      BY <1>1, <2>1, <2>5, <3>1, <3>4 DEF EntryOK
    <3> QED
      BY <3>2, <3>3, <3>4
  <2>11. Entries'
    BY <2>8, <2>10 DEF Entries, EntryOK
  <2> QED
    BY <1>2, <2>1, <2>6, <2>7, <2>9, <2>11 DEF EndInv
<1>6. CASE delete_threads(c)
  <2> DEFINE p == Job(c)[1]
  <2>1. PICK v \in threads[p] : threads' = [threads EXCEPT ![p] = @ \ {v}] /\ killed' = killed \cup {v}
    BY <1>6 DEF delete_threads
  <2>2. UNCHANGED <<table, state, qdata, pc>> /\ pc[c] = "gc_kill" /\ Job(c)' = Job(c)
    BY <1>6 DEF delete_threads, treeVars, Job
  <2>3. p \in Homes /\ p \in Pid
    BY <2>2, JobNamed, HomesArePids DEF IInv
  <2>4. v \in User /\ Home[v] = p
    BY <2>1, <2>3 DEF IInv, Core, Types, OwnThreads
  <2>5. \A u \in User : u \in threads[Home[u]] => u \in threads'[Home[u]] \/ u \in killed'
    BY <2>1, <2>3, UsersAct DEF IInv, Core, Types
  <2>6. Present'
    BY <2>1, <2>2, <2>5 DEF EndInv, Present
  <2>7. \A q : Ended(q) => Ended(q)'
    BY <2>1, <2>2 DEF Ended, Over
  <2>8. \A d \in Cpu : pc'[d] = pc[d] /\ Job(d)' = Job(d)
    BY <1>1, <2>2
  <2>9. EndedFirst' /\ NotListed'
    BY <2>2, <2>7, <2>8 DEF EndInv, EndedFirst, NotListed, Homes
  <2>10. GoneWith'
    <3> SUFFICES ASSUME NEW u \in User, u \in killed', Home[u] \in table'
                 PROVE  \E d \in Cpu : pc'[d] \in {"gc_kill", "remove"} /\ Job(d)'[1] = Home[u]
      BY DEF GoneWith
    <3>1. CASE u = v
      BY <2>2, <2>4, <2>8, <3>1
    <3>2. CASE u # v
      <4>1. PICK d \in Cpu : pc[d] \in {"gc_kill", "remove"} /\ Job(d)[1] = Home[u]
        BY <2>1, <2>2, <3>2 DEF EndInv, GoneWith
      <4> QED
        BY <2>8, <4>1
    <3> QED
      BY <3>1, <3>2
  <2>11. Entries' /\ Once'
    <3>1. \A q \in Homes : Whole(q) => Whole(q)'
      BY <2>2 DEF Whole
    <3> QED
      BY <2>1, <2>2, <2>5, <2>8, <3>1, EntryFrame
  <2> QED
    BY <1>2, <2>2, <2>6, <2>9, <2>10, <2>11 DEF EndInv
<1>8. CASE gc_release(c)
  <2> DEFINE p == Job(c)[1]
  <2>1. /\ UNCHANGED <<table, threads, state, qdata, killed>> /\ pc[c] = "gc_kill" /\ pc'[c] = "remove"
        /\ threads[p] = {}
    BY <1>2, <1>8 DEF gc_release, treeVars, procVars, Go
  <2>2. \A u \in User : pc'[u] = pc[u]
    BY <1>1
  <2>3. Job(c)' = Job(c)
    BY <2>1 DEF Job
  <2>4. Ended(p)
    <3> SUFFICES ASSUME NEW u \in User, Home[u] = p, u \notin killed PROVE pc[u] = "finished"
      BY DEF Ended, Over
    <3>1. pc[u] \in Leaving
      BY <2>1 DEF EndInv, Present
    <3>2. pc[u] # "finish_thread"
      BY <2>1 DEF Alone
    <3> QED
      BY <3>1, <3>2 DEF Leaving
  <2>5. \A q : Ended(q) => Ended(q)'
    BY <2>1, <2>2 DEF Ended, Over
  <2>6. Present'
    BY <2>1, <2>2 DEF EndInv, Present
  <2>7. EndedFirst'
    BY <1>1, <2>1, <2>3, <2>4, <2>5 DEF EndInv, EndedFirst
  <2>8. NotListed'
    BY <2>1, <2>5 DEF EndInv, NotListed, Homes
  <2>9. GoneWith'
    <3> SUFFICES ASSUME NEW u \in User, u \in killed', Home[u] \in table'
                 PROVE  \E d \in Cpu : pc'[d] \in {"gc_kill", "remove"} /\ Job(d)'[1] = Home[u]
      BY DEF GoneWith
    <3>1. PICK d \in Cpu : pc[d] \in {"gc_kill", "remove"} /\ Job(d)[1] = Home[u]
      BY <2>1 DEF EndInv, GoneWith
    <3>2. pc'[d] \in {"gc_kill", "remove"} /\ Job(d)' = Job(d)
      BY <1>1, <2>1, <2>3, <3>1
    <3> QED
      BY <3>1, <3>2
  <2>10. Entries' /\ Once'
    <3>1. \A q \in Homes : Whole(q) => Whole(q)'
      BY <2>1, <2>2 DEF Whole
    <3> QED
      BY <1>1, <2>1, <2>2, <3>1, EntryFrame
  <2> QED
    BY <1>2, <2>1, <2>6, <2>7, <2>8, <2>9, <2>10 DEF EndInv
<1>7. CASE remove_process(c)
  <2> DEFINE p == Job(c)[1]
  <2>1. /\ UNCHANGED <<threads, state, qdata, killed>> /\ pc[c] = "remove" /\ pc'[c] = "delete" /\ table' = table \ {p}
        /\ \A u \in User : pc'[u] = pc[u]
    BY <1>2, <1>7, UsersAct DEF remove_process, procVars, Go
  <2>2. Ended(p) /\ Job(c)' = Job(c)
    BY <2>1 DEF EndInv, EndedFirst, Job
  <2>3. \A q : Ended(q) => Ended(q)'
    BY <2>1 DEF Ended, Over
  <2>4. Present'
    BY <2>1 DEF EndInv, Present
  <2>5. EndedFirst'
    BY <1>1, <2>1, <2>2, <2>3 DEF EndInv, EndedFirst
  <2>6. NotListed'
    BY <2>1, <2>2, <2>3 DEF EndInv, NotListed, Homes
  <2>7. GoneWith'
    <3> SUFFICES ASSUME NEW u \in User, u \in killed', Home[u] \in table'
                 PROVE  \E d \in Cpu : pc'[d] \in {"gc_kill", "remove"} /\ Job(d)'[1] = Home[u]
      BY DEF GoneWith
    <3>1. PICK d \in Cpu : pc[d] \in {"gc_kill", "remove"} /\ Job(d)[1] = Home[u]
      BY <2>1 DEF EndInv, GoneWith
    <3>2. d # c
      BY <2>1, <3>1
    <3> QED
      BY <1>1, <3>1, <3>2
  <2>8. Entries' /\ Once'
    <3>1. \A q \in Homes : Whole(q) => Whole(q)'
      BY <2>1 DEF Whole
    <3> QED
      BY <1>1, <2>1, <3>1, EntryFrame
  <2> QED
    BY <1>2, <2>1, <2>4, <2>5, <2>6, <2>7, <2>8 DEF EndInv
<1> QED
  BY <1>3, <1>4, <1>5, <1>6, <1>7, <1>8 DEF CpuActs

LEMMA StepEnd ==
  ASSUME IInv, ArgInv, PidInv, EndInv, Alone, [Next]_vars
  PROVE  EndInv'
<1>1. CASE Quiet
  <2>1. UNCHANGED <<table, state, threads, qdata, pc, killed>>
    BY <1>1, QuietStep
  <2>2. Present'
    BY <2>1 DEF EndInv, Present
  <2>3. EndedFirst' /\ NotListed' /\ GoneWith'
    BY <2>1, <2>2, LifeFrame DEF Job
  <2>4. Entries' /\ Once'
    <3>1. \A p \in Homes : Whole(p) => Whole(p)'
      BY <2>1 DEF Whole
    <3> QED
      BY <2>1, <3>1, EntryFrame
  <2> QED
    BY <2>1, <2>2, <2>3, <2>4 DEF EndInv
<1> QED
  BY <1>1, Steps, UserEnd, CpuEnd

-----------------------------------------------------------------------------
(* Layer 4: the locks.  What an actor holds follows from where it is: the  *)
(* lock of the table, twice while a parent is copied to its child ...      *)
Tab(a) ==
  IF pc[a] = "cloned" \/ (pc[a] = "co_lock" /\ arg[a].then = "cloned") THEN 2
  ELSE IF \/ pc[a] \in {"co_lock", "commit", "clone", "spawn", "exit_process", "exit_thread",
                        "finish_process", "finish_thread", "gc_thread", "gc_process", "gc_kill"}
          \/ pc[a] = "co_table" /\ arg[a].then = "cloned"
       THEN 1 ELSE 0

(* ... and the locks of processes. *)
Procs(a) ==
  IF pc[a] \in {"commit", "clone", "exit_process", "exit_thread", "finish_process", "finish_thread",
                "gc_thread", "gc_process", "gc_kill", "remove", "delete"} THEN {arg[a].pid}
  ELSE IF pc[a] = "cloned" THEN {Home[a], new[a]}
  ELSE IF pc[a] = "spawn" \/ (pc[a] \in {"co_table", "co_lock"} /\ arg[a].then = "cloned") THEN {new[a]}
  ELSE {}

Holds(a, l) == IF l = TABLE THEN Tab(a) ELSE IF l \in Procs(a) THEN 1 ELSE 0

HeldAt == \A a \in Actor, l \in Lock : held[a][l] = Holds(a, l)

(* Who has looked a process up finds it in the table until it is done, and *)
(* nobody else has freed what a collector is about to free.                *)
Reaching == {"co_lock", "commit", "clone", "cloned", "spawn", "exit_process", "exit_thread", "finish_process",
             "finish_thread", "gc_thread", "gc_process", "gc_kill", "remove"}

Using(a) ==
  /\ pc[a] \in Reaching => arg[a].pid \in table
  /\ pc[a] = "delete" => arg[a].pid \notin deleted

(* A collector has its process locked for writing. *)
Collecting == {"gc_thread", "gc_process", "gc_kill", "remove", "delete"}

Writing(c) == pc[c] \in Collecting => lock[arg[c].pid].writers = 1

(* A writer is alone, and readers are never counted short: a lost          *)
(* decrement, or a reader that was deleted, leaves the count too high.     *)
Units(l) == {x \in Actor \X (1 .. 2) : x[2] <= held[x[1]][l]}

LockOK(l) ==
  \/ /\ lock[l].writers = 1 /\ lock[l].readers = 0
     /\ \E a \in Actor : held[a][l] = 1 /\ \A b \in Actor \ {a} : held[b][l] = 0
  \/ lock[l].writers = 0 /\ lock[l].readers >= Cardinality(Units(l))

LockRec == [readers : Int, writers : {0, 1}, request : {0, 1}]

LockTypes == lock \in [Lock -> LockRec] /\ held \in [Actor -> [Lock -> Int]]

LockInv ==
  /\ LockTypes /\ HeldAt
  /\ \A a \in Actor : Using(a)
  /\ \A c \in Cpu : Writing(c)
  /\ lock[TABLE].writers = 0
  /\ \A l \in Lock \ deleted : LockOK(l)

LEMMA Locks == TABLE \in Lock /\ (\A p \in Pid : p \in Lock /\ p # TABLE) /\ \A l \in Lock \ {TABLE} : l \in Pid
BY DEF Lock, Pid, TABLE

-----------------------------------------------------------------------------
(* What a step of a does to a lock: nothing that counts, or it is taken    *)
(* for reading or for writing, or released.                                *)
Same(l) ==
  /\ lock'[l].readers = lock[l].readers /\ lock'[l].writers = lock[l].writers
  /\ \A b \in Actor : held'[b][l] = held[b][l]

TakenToRead(a, l) ==
  /\ lock[l].writers = 0 /\ lock'[l].writers = 0 /\ lock'[l].readers = lock[l].readers + 1
  /\ held'[a][l] = held[a][l] + 1

TakenToWrite(a, l) ==
  /\ lock[l].writers = 0 /\ lock[l].readers = 0 /\ lock'[l].writers = 1 /\ lock'[l].readers = 0
  /\ held'[a][l] = held[a][l] + 1

GivenBack(a, l) ==
  /\ held'[a][l] = held[a][l] - 1
  /\ lock'[l].writers = 0
  /\ \/ lock[l].writers = 1 /\ lock'[l].readers = lock[l].readers
     \/ lock[l].writers = 0 /\ lock'[l].readers \in {lock[l].readers - 1, lock[l].readers}

LEMMA UnitsFinite ==
  ASSUME NEW l PROVE IsFiniteSet(Units(l)) /\ Cardinality(Units(l)) \in Nat
<1>1. IsFiniteSet(Actor)
  BY ProcessesAssumption, FS_Union DEF Actor
<1>2. IsFiniteSet(1 .. 2)
  <2>1. 1 \in Int /\ 2 \in Int
    OBVIOUS
  <2> QED
    BY <2>1, FS_Interval
<1>3. IsFiniteSet(Actor \X (1 .. 2))
  BY <1>1, <1>2, FS_Product
<1>4. Units(l) \subseteq Actor \X (1 .. 2)
  BY DEF Units
<1> QED
  BY <1>3, <1>4, FS_Subset, FS_CardinalityType

LEMMA EffectOK ==
  ASSUME NEW a \in Actor, NEW l \in Lock,
         \A b \in Actor : held[b][l] \in 0 .. 2 /\ held'[b][l] \in 0 .. 2,
         \A b \in Actor \ {a} : held'[b][l] = held[b][l],
         lock[l].readers \in Int,
         LockOK(l),
         Same(l) \/ TakenToRead(a, l) \/ TakenToWrite(a, l) \/ GivenBack(a, l)
  PROVE  LockOK(l)'
<1>1. CASE Same(l)
  <2>1. Units(l)' = Units(l)
    BY <1>1 DEF Same, Units
  <2> QED
    BY <1>1, <2>1 DEF Same, LockOK
<1>2. CASE TakenToRead(a, l)
  <2> DEFINE k == held[a][l]
             x == <<a, k + 1>>
  <2>1. k \in 0 .. 1 /\ held'[a][l] = k + 1
    BY <1>2 DEF TakenToRead
  <2>2. x \in Actor \X (1 .. 2) /\ x \notin Units(l)
    BY <2>1 DEF Units
  <2>3. Units(l)' = Units(l) \cup {x}
    <3>1. ASSUME NEW y \in Actor \X (1 .. 2) PROVE y \in Units(l)' <=> y \in Units(l) \/ y = x
      <4>1. PICK b \in Actor, n \in 1 .. 2 : y = <<b, n>>
        OBVIOUS
      <4>2. y \in Units(l)' <=> n <= held'[b][l]
        BY <4>1 DEF Units
      <4>3. y \in Units(l) <=> n <= held[b][l]
        BY <4>1 DEF Units
      <4>4. CASE b = a
        BY <2>1, <4>1, <4>2, <4>3, <4>4
      <4>5. CASE b # a
        <5>1. y # x /\ held'[b][l] = held[b][l]
          BY <4>1, <4>5
        <5> QED
          BY <4>2, <4>3, <5>1
      <4> QED
        BY <4>4, <4>5
    <3>2. Units(l)' \subseteq Actor \X (1 .. 2) /\ Units(l) \subseteq Actor \X (1 .. 2)
      BY DEF Units
    <3> QED
      BY <2>2, <3>1, <3>2
  <2>4. Cardinality(Units(l)') = Cardinality(Units(l)) + 1
    BY <2>2, <2>3, UnitsFinite, FS_AddElement
  <2> QED
    BY <1>2, <2>4, UnitsFinite DEF TakenToRead, LockOK
<1>3. CASE TakenToWrite(a, l)
  <2>1. Cardinality(Units(l)) = 0
    BY <1>3, UnitsFinite DEF TakenToWrite, LockOK
  <2>2. Units(l) = {}
    BY <2>1, UnitsFinite, FS_EmptySet
  <2>3. ASSUME NEW b \in Actor PROVE held[b][l] = 0
    <3>1. <<b, 1>> \in Actor \X (1 .. 2)
      OBVIOUS
    <3>2. ~ (1 <= held[b][l])
      BY <2>2, <3>1 DEF Units
    <3> QED
      BY <3>2
  <2> QED
    BY <1>3, <2>3 DEF TakenToWrite, LockOK
<1>4. CASE GivenBack(a, l)
  <2>1. CASE lock[l].writers = 1
    <3>1. held'[a][l] = 0 /\ \A b \in Actor : held'[b][l] = 0
      BY <1>4, <2>1 DEF GivenBack, LockOK
    <3>2. Units(l)' = {}
      BY <3>1 DEF Units
    <3>3. Cardinality(Units(l)') = 0
      BY <3>2, FS_EmptySet
    <3> QED
      BY <1>4, <2>1, <3>3 DEF GivenBack, LockOK
  <2>2. CASE lock[l].writers = 0
    <3> DEFINE k == held[a][l]
               x == <<a, k>>
    <3>1. k \in 1 .. 2 /\ held'[a][l] = k - 1
      BY <1>4 DEF GivenBack
    <3>2. x \in Units(l)
      BY <3>1 DEF Units
    <3>3. Units(l)' = Units(l) \ {x}
      <4>1. ASSUME NEW y \in Actor \X (1 .. 2) PROVE y \in Units(l)' <=> y \in Units(l) /\ y # x
        <5>1. PICK b \in Actor, n \in 1 .. 2 : y = <<b, n>>
          OBVIOUS
        <5>2. y \in Units(l)' <=> n <= held'[b][l]
          BY <5>1 DEF Units
        <5>3. y \in Units(l) <=> n <= held[b][l]
          BY <5>1 DEF Units
        <5>4. CASE b = a
          BY <3>1, <5>1, <5>2, <5>3, <5>4
        <5>5. CASE b # a
          <6>1. y # x /\ held'[b][l] = held[b][l]
            BY <5>1, <5>5
          <6> QED
            BY <5>2, <5>3, <6>1
        <5> QED
          BY <5>4, <5>5
      <4>2. Units(l)' \subseteq Actor \X (1 .. 2) /\ Units(l) \subseteq Actor \X (1 .. 2)
        BY DEF Units
      <4> QED
        BY <4>1, <4>2
    <3>4. Cardinality(Units(l)') = Cardinality(Units(l)) - 1
      <4>1. IsFiniteSet(Units(l))
        BY UnitsFinite
      <4>2. Cardinality(Units(l) \ {x}) = Cardinality(Units(l)) - 1
        BY <3>2, <4>1, FS_RemoveElement
      <4> QED
        BY <3>3, <4>2
    <3> QED
      BY <1>4, <2>2, <3>4, UnitsFinite DEF GivenBack, LockOK
  <2> QED
    BY <2>1, <2>2 DEF LockOK
<1> QED
  BY <1>1, <1>2, <1>3, <1>4

(* A lock that is free for writing is held by no one. *)
LEMMA FreeOK ==
  ASSUME NEW l \in Lock, LockOK(l), lock[l].readers = 0, lock[l].writers = 0,
         \A b \in Actor : held[b][l] \in 0 .. 2
  PROVE  \A b \in Actor : held[b][l] = 0
<1>1. Cardinality(Units(l)) = 0
  BY UnitsFinite DEF LockOK
<1>2. Units(l) = {}
  BY <1>1, UnitsFinite, FS_EmptySet
<1>3. ASSUME NEW b \in Actor PROVE held[b][l] = 0
  <2>1. <<b, 1>> \in Actor \X (1 .. 2)
    OBVIOUS
  <2>2. ~ (1 <= held[b][l])
    BY <1>2, <2>1 DEF Units
  <2> QED
    BY <2>2
<1> QED
  BY <1>3

-----------------------------------------------------------------------------
(* The operations on locks, lock by lock. *)
LEMMA Records ==
  ASSUME NEW r \in LockRec
  PROVE  /\ [r EXCEPT !.readers = @ + 1] \in LockRec
         /\ [r EXCEPT !.readers = @ + 1].readers = r.readers + 1
         /\ [r EXCEPT !.readers = @ + 1].writers = r.writers
         /\ [r EXCEPT !.writers = 1] \in LockRec
         /\ [r EXCEPT !.writers = 1].readers = r.readers
         /\ [r EXCEPT !.writers = 1].writers = 1
         /\ [r EXCEPT !.request = 1] \in LockRec
         /\ [r EXCEPT !.request = 1].readers = r.readers
         /\ [r EXCEPT !.request = 1].writers = r.writers
BY DEF LockRec

LEMMA ReleasedRec ==
  ASSUME NEW r \in LockRec
  PROVE  /\ Released(r) \in LockRec /\ Released(r).writers = 0
         /\ r.writers = 1 => Released(r).readers = r.readers
         /\ r.writers = 0 => Released(r).readers = r.readers - 1
<1>1. CASE r.writers # 0
  <2>1. Released(r) = [r EXCEPT !.writers = 0, !.request = 0]
    BY <1>1 DEF Released
  <2> QED
    BY <1>1, <2>1 DEF LockRec
<1>2. CASE r.writers = 0
  <2>1. Released(r) = [r EXCEPT !.readers = @ - 1]
    BY <1>2 DEF Released
  <2> QED
    BY <1>2, <2>1 DEF LockRec
<1> QED
  BY <1>1, <1>2

(* What rwlock_release may leave of a lock. *)
LEMMA ReleaseRec ==
  ASSUME NEW a, NEW l, lock[l] \in LockRec, NEW r \in Release(a, l)
  PROVE  /\ r \in LockRec /\ r.writers = 0 /\ lock[l].writers \in {0, 1}
         /\ lock[l].writers = 1 => r.readers = lock[l].readers
         /\ lock[l].writers = 0 => r.readers \in {lock[l].readers - 1, lock[l].readers}
<1>1. lock[l].writers \in {0, 1}
  BY DEF LockRec
<1>2. CASE r = Released(lock[l])
  BY <1>1, <1>2, ReleasedRec
<1>3. CASE r # Released(lock[l])
  <2>1. r = lock[l] /\ lock[l].writers = 0
    BY <1>3 DEF Release, Reads, CanRead
  <2> QED
    BY <1>1, <2>1
<1> QED
  BY <1>2, <1>3

(* Only what a itself holds changes. *)
Mine(a) == LockTypes' /\ \A b \in Actor \ {a} : held'[b] = held[b]

LEMMA HeldUp ==
  ASSUME LockTypes, NEW a \in Actor, NEW l \in Lock, held' = [held EXCEPT ![a][l] = @ + 1]
  PROVE  /\ held' \in [Actor -> [Lock -> Int]]
         /\ \A b \in Actor \ {a} : held'[b] = held[b]
         /\ \A m \in Lock : held'[a][m] = IF m = l THEN held[a][m] + 1 ELSE held[a][m]
BY DEF LockTypes

LEMMA HeldDown ==
  ASSUME LockTypes, NEW a \in Actor, NEW l \in Lock, held' = [held EXCEPT ![a][l] = @ - 1]
  PROVE  /\ held' \in [Actor -> [Lock -> Int]]
         /\ \A b \in Actor \ {a} : held'[b] = held[b]
         /\ \A m \in Lock : held'[a][m] = IF m = l THEN held[a][m] - 1 ELSE held[a][m]
BY DEF LockTypes

LEMMA LockSet ==
  ASSUME LockTypes, NEW l \in Lock, NEW r \in LockRec, lock' = [lock EXCEPT ![l] = r]
  PROVE  /\ lock' \in [Lock -> LockRec]
         /\ \A m \in Lock : lock'[m] = IF m = l THEN r ELSE lock[m]
BY DEF LockTypes

LEMMA ReadEffect ==
  ASSUME LockTypes, NEW a \in Actor, NEW l \in Lock, Read(a, l)
  PROVE  /\ Mine(a) /\ TakenToRead(a, l)
         /\ \A m \in Lock \ {l} : Same(m)
         /\ \A m \in Lock : held'[a][m] = IF m = l THEN held[a][m] + 1 ELSE held[a][m]
<1> DEFINE r == [lock[l] EXCEPT !.readers = @ + 1]
<1>1. lock[l] \in LockRec /\ lock[l].writers = 0
  BY DEF LockTypes, Read, CanRead
<1>2. lock' = [lock EXCEPT ![l] = r]
  BY DEF Read
<1>3. r \in LockRec /\ r.readers = lock[l].readers + 1 /\ r.writers = lock[l].writers
  BY <1>1, Records
<1> HIDE DEF r
<1>4. lock' \in [Lock -> LockRec] /\ \A m \in Lock : lock'[m] = IF m = l THEN r ELSE lock[m]
  BY <1>2, <1>3, LockSet
<1>5. /\ held' \in [Actor -> [Lock -> Int]]
      /\ \A b \in Actor \ {a} : held'[b] = held[b]
      /\ \A m \in Lock : held'[a][m] = IF m = l THEN held[a][m] + 1 ELSE held[a][m]
  BY HeldUp DEF Read
<1>6. \A m \in Lock \ {l} : Same(m)
  BY <1>4, <1>5 DEF Same
<1> QED
  BY <1>1, <1>3, <1>4, <1>5, <1>6 DEF Mine, LockTypes, TakenToRead

LEMMA WriteEffect ==
  ASSUME LockTypes, NEW a \in Actor, NEW l \in Lock, Write(a, l)
  PROVE  /\ Mine(a) /\ TakenToWrite(a, l)
         /\ \A m \in Lock \ {l} : Same(m)
         /\ \A m \in Lock : held'[a][m] = IF m = l THEN held[a][m] + 1 ELSE held[a][m]
<1> DEFINE r == [lock[l] EXCEPT !.writers = 1]
<1>1. lock[l] \in LockRec /\ lock[l].writers = 0 /\ lock[l].readers = 0
  BY DEF LockTypes, Write, CanWrite
<1>2. lock' = [lock EXCEPT ![l] = r]
  BY DEF Write
<1>3. r \in LockRec /\ r.readers = lock[l].readers /\ r.writers = 1
  BY <1>1, Records
<1> HIDE DEF r
<1>4. lock' \in [Lock -> LockRec] /\ \A m \in Lock : lock'[m] = IF m = l THEN r ELSE lock[m]
  BY <1>2, <1>3, LockSet
<1>5. /\ held' \in [Actor -> [Lock -> Int]]
      /\ \A b \in Actor \ {a} : held'[b] = held[b]
      /\ \A m \in Lock : held'[a][m] = IF m = l THEN held[a][m] + 1 ELSE held[a][m]
  BY HeldUp DEF Write
<1>6. \A m \in Lock \ {l} : Same(m)
  BY <1>4, <1>5 DEF Same
<1> QED
  BY <1>1, <1>3, <1>4, <1>5, <1>6 DEF Mine, LockTypes, TakenToWrite

LEMMA ReleaseEffect ==
  ASSUME LockTypes, NEW a \in Actor, release_processes(a)
  PROVE  /\ Mine(a) /\ GivenBack(a, TABLE)
         /\ \A m \in Lock \ {TABLE} : Same(m)
         /\ \A m \in Lock : held'[a][m] = IF m = TABLE THEN held[a][m] - 1 ELSE held[a][m]
<1>1. TABLE \in Lock /\ lock[TABLE] \in LockRec
  BY Locks DEF LockTypes
<1>2. PICK r \in Release(a, TABLE) : lock' = [lock EXCEPT ![TABLE] = r]
  BY DEF release_processes
<1>3. /\ r \in LockRec /\ r.writers = 0 /\ lock[TABLE].writers \in {0, 1}
      /\ lock[TABLE].writers = 1 => r.readers = lock[TABLE].readers
      /\ lock[TABLE].writers = 0 => r.readers \in {lock[TABLE].readers - 1, lock[TABLE].readers}
  BY <1>1, ReleaseRec
<1>4. lock' \in [Lock -> LockRec] /\ \A m \in Lock : lock'[m] = IF m = TABLE THEN r ELSE lock[m]
  BY <1>1, <1>2, <1>3, LockSet
<1>5. /\ held' \in [Actor -> [Lock -> Int]]
      /\ \A b \in Actor \ {a} : held'[b] = held[b]
      /\ \A m \in Lock : held'[a][m] = IF m = TABLE THEN held[a][m] - 1 ELSE held[a][m]
  BY <1>1, HeldDown DEF release_processes
<1>6. \A m \in Lock \ {TABLE} : Same(m)
  BY <1>4, <1>5 DEF Same
<1> QED
  BY <1>1, <1>3, <1>4, <1>5, <1>6 DEF Mine, LockTypes, GivenBack

LEMMA CommitEffect ==
  ASSUME LockTypes, NEW a \in Actor, NEW p \in Pid, commit_process(a, p)
  PROVE  /\ Mine(a) /\ GivenBack(a, TABLE) /\ GivenBack(a, p)
         /\ \A m \in Lock \ {TABLE, p} : Same(m)
         /\ \A m \in Lock : held'[a][m] = IF m \in {TABLE, p} THEN held[a][m] - 1 ELSE held[a][m]
<1>1. TABLE \in Lock /\ p \in Lock /\ p # TABLE /\ lock[TABLE] \in LockRec /\ lock[p] \in LockRec
  BY Locks DEF LockTypes
<1>4. PICK s \in Release(a, p), r \in Release(a, TABLE) : lock' = [lock EXCEPT ![p] = s, ![TABLE] = r]
  BY DEF commit_process
<1>2. /\ r \in LockRec /\ r.writers = 0 /\ lock[TABLE].writers \in {0, 1}
      /\ lock[TABLE].writers = 1 => r.readers = lock[TABLE].readers
      /\ lock[TABLE].writers = 0 => r.readers \in {lock[TABLE].readers - 1, lock[TABLE].readers}
  BY <1>1, ReleaseRec
<1>3. /\ s \in LockRec /\ s.writers = 0 /\ lock[p].writers \in {0, 1}
      /\ lock[p].writers = 1 => s.readers = lock[p].readers
      /\ lock[p].writers = 0 => s.readers \in {lock[p].readers - 1, lock[p].readers}
  BY <1>1, ReleaseRec
<1>5. /\ lock' \in [Lock -> LockRec]
      /\ \A m \in Lock : lock'[m] = IF m = TABLE THEN r ELSE IF m = p THEN s ELSE lock[m]
  BY <1>1, <1>2, <1>3, <1>4 DEF LockTypes
<1>6. /\ held' \in [Actor -> [Lock -> Int]]
      /\ \A b \in Actor \ {a} : held'[b] = held[b]
      /\ \A m \in Lock : held'[a][m] = IF m \in {TABLE, p} THEN held[a][m] - 1 ELSE held[a][m]
  BY <1>1 DEF commit_process, LockTypes
<1>7. \A m \in Lock \ {TABLE, p} : Same(m)
  BY <1>5, <1>6 DEF Same
<1> QED
  BY <1>1, <1>2, <1>3, <1>5, <1>6, <1>7 DEF Mine, LockTypes, GivenBack

(* The table written within one step. *)
LEMMA WrittenEffect ==
  ASSUME LockTypes, NEW a \in Actor, CanWrite(TABLE), held' = held,
         lock' = [lock EXCEPT ![TABLE] = Released([@ EXCEPT !.writers = 1])]
  PROVE  Mine(a) /\ \A m \in Lock : Same(m)
<1> DEFINE w == [lock[TABLE] EXCEPT !.writers = 1]
           r == Released(w)
<1>1. TABLE \in Lock /\ lock[TABLE] \in LockRec /\ lock[TABLE].writers = 0
  BY Locks DEF LockTypes, CanWrite
<1>2. w \in LockRec /\ w.readers = lock[TABLE].readers /\ w.writers = 1
  BY <1>1, Records
<1>3. lock' = [lock EXCEPT ![TABLE] = r]
  OBVIOUS
<1> HIDE DEF w
<1>4. r \in LockRec /\ r.writers = 0 /\ r.readers = lock[TABLE].readers
  BY <1>2, ReleasedRec
<1> HIDE DEF r
<1>5. lock' \in [Lock -> LockRec] /\ \A m \in Lock : lock'[m] = IF m = TABLE THEN r ELSE lock[m]
  BY <1>1, <1>3, <1>4, LockSet
<1> QED
  BY <1>1, <1>4, <1>5 DEF Mine, Same, LockTypes

LEMMA QuietEffect ==
  ASSUME LockTypes, Quiet
  PROVE  LockTypes' /\ \A m \in Lock : Same(m)
<1>1. CASE UNCHANGED vars
  BY <1>1 DEF LockTypes, Same, vars
<1>2. ASSUME NEW a \in Actor, Request(a) PROVE LockTypes' /\ \A m \in Lock : Same(m)
  <2> DEFINE l == Wants(a)
             r == [lock[l] EXCEPT !.request = 1]
  <2>1. lock' = [lock EXCEPT ![l] = r] /\ held' = held
    BY <1>2 DEF Request
  <2>2. CASE l \in Lock
    <3>1. lock[l] \in LockRec
      BY <2>2 DEF LockTypes
    <3>2. r \in LockRec /\ r.readers = lock[l].readers /\ r.writers = lock[l].writers
      BY <3>1, Records
    <3> HIDE DEF r, l
    <3>3. lock' \in [Lock -> LockRec] /\ \A m \in Lock : lock'[m] = IF m = l THEN r ELSE lock[m]
      BY <2>1, <2>2, <3>2, LockSet
    <3> QED
      BY <2>1, <3>2, <3>3 DEF LockTypes, Same
  <2>3. CASE l \notin Lock
    <3> HIDE DEF r, l
    <3>1. lock' = lock
      BY <2>1, <2>3 DEF LockTypes
    <3> QED
      BY <2>1, <3>1 DEF LockTypes, Same
  <2> QED
    BY <2>2, <2>3
<1> QED
  BY <1>1, <1>2 DEF Quiet

-----------------------------------------------------------------------------
Effect(a, l) ==
  Same(l) \/ TakenToRead(a, l) \/ (TakenToWrite(a, l) /\ l # TABLE) \/ GivenBack(a, l)

LEMMA HeldRange ==
  ASSUME HeldAt PROVE \A a \in Actor, l \in Lock : held[a][l] \in 0 .. 2
<1>1. \A a : Tab(a) \in 0 .. 2
  BY DEF Tab
<1> QED
  BY <1>1 DEF HeldAt, Holds

LEMMA ChildPid ==
  ASSUME PidInv, NEW u \in User, Child(u)
  PROVE  new[u] \in Pid /\ new[u] # Home[u] /\ (pc[u] # "insert" => new[u] \in table)
<1>1. new[u] \in 2 .. l_PID - 1 /\ l_PID \in 2 .. MaxPid + 1 /\ MaxPid \in Nat
  BY ProcessesAssumption DEF PidInv, Made, Numbers
<1>2. new[u] \in Pid
  BY <1>1 DEF Pid
<1> QED
  BY <1>2 DEF PidInv, Made, Homes

(* A thread that is not over has its process in the table. *)
LEMMA HomeListed ==
  ASSUME EndInv, NEW u \in User, ~ Over(u)
  PROVE  Home[u] \in table
BY DEF EndInv, NotListed, Ended, Homes

(* While a collector works on a process, nobody else has it. *)
LEMMA Exclusive ==
  ASSUME IInv, ArgInv, PidInv, LockInv, NEW c \in Cpu, pc[c] \in Collecting
  PROVE  /\ arg[c].pid = Job(c)[1] /\ Job(c)[1] \in Homes /\ Job(c)[1] \in Pid \ deleted
         /\ held[c][Job(c)[1]] = 1
         /\ \A b \in Actor \ {c} : held[b][Job(c)[1]] = 0
<1>1. arg[c].pid = Job(c)[1]
  BY DEF ArgInv, Works, Collecting
<1>2. Job(c)[1] \in Homes /\ Job(c)[1] \in Pid
  BY JobNamed, HomesArePids DEF IInv, Collecting
<1>3. c \in Actor /\ Job(c)[1] \in Lock /\ Job(c)[1] # TABLE
  BY <1>2, CpusAct, Locks
<1>4. Job(c)[1] \notin deleted
  BY <1>1, <1>3 DEF LockInv, Using, Reaching, Collecting, PidInv, Numbers
<1>5. held[c][Job(c)[1]] = 1
  BY <1>1, <1>3 DEF LockInv, HeldAt, Holds, Procs, Collecting
<1>6. lock[Job(c)[1]].writers = 1
  BY <1>1 DEF LockInv, Writing
<1>7. LockOK(Job(c)[1])
  BY <1>3, <1>4 DEF LockInv
<1>8. PICK a \in Actor : held[a][Job(c)[1]] = 1 /\ \A b \in Actor \ {a} : held[b][Job(c)[1]] = 0
  BY <1>6, <1>7 DEF LockOK
<1>9. a = c
  BY <1>3, <1>5, <1>8
<1> QED
  BY <1>1, <1>2, <1>4, <1>5, <1>8, <1>9

LEMMA OthersHold ==
  ASSUME ArgInv, NEW b \in Actor, pc'[b] = pc[b], arg'[b] = arg[b], b \in User => new'[b] = new[b]
  PROVE  \A l : Holds(b, l)' = Holds(b, l)
<1>1. CASE b \in User
  BY <1>1 DEF Holds, Tab, Procs
<1>2. CASE b \in Cpu
  <2>1. pc[b] \in {"gc_peek"} \cup Working /\ (pc[b] # "gc_peek" => arg[b].then \in {"gc_process", "gc_thread"})
    BY <1>2 DEF ArgInv, Works
  <2> QED
    BY <2>1 DEF Holds, Tab, Procs, Working
<1> QED
  BY <1>1, <1>2 DEF Actor

LEMMA UserLocks ==
  ASSUME IInv, ArgInv, PidInv, EndInv, LockInv, NEW u \in User, UserActs(u)
  PROVE  /\ Mine(u) /\ \A l \in Lock : Effect(u, l)
         /\ \A l \in Lock : held'[u][l] = Holds(u, l)'
<1>1. /\ u \in Actor /\ DOMAIN pc = Actor /\ DOMAIN arg = Actor /\ DOMAIN new = User /\ Asks(u)
      /\ LockTypes /\ TABLE \in Lock /\ Home[u] \in Pid /\ TABLE \notin Pid /\ lock[TABLE].writers = 0
  BY UsersAct, Locks DEF IInv, Core, Types, ArgInv, LockInv
<1>2. \A l \in Lock : held[u][l] = Holds(u, l)
  BY <1>1 DEF LockInv, HeldAt
<1>3. Child(u) => new[u] \in Pid /\ new[u] # Home[u]
  BY ChildPid
<1>4. CASE checkout_table(u)
  <2>1. pc[u] = "co_table" /\ arg' = arg /\ new' = new
    BY <1>4 DEF checkout_table
  <2>2. CASE arg[u].pid \in table
    <3>1. Read(u, TABLE) /\ pc'[u] = "co_lock"
      BY <1>1, <1>4, <2>2 DEF checkout_table, Go
    <3>2. /\ Mine(u) /\ TakenToRead(u, TABLE)
          /\ \A m \in Lock \ {TABLE} : Same(m)
          /\ \A m \in Lock : held'[u][m] = IF m = TABLE THEN held[u][m] + 1 ELSE held[u][m]
      BY <1>1, <3>1, ReadEffect
    <3>3. \A l \in Lock : held'[u][l] = Holds(u, l)'
      BY <1>1, <1>2, <2>1, <3>1, <3>2 DEF Holds, Tab, Procs
    <3> QED
      BY <3>2, <3>3 DEF Effect
  <2>3. CASE arg[u].pid \notin table
    <3>1. arg[u].then # "cloned"
      BY <1>1, <2>1, <2>3, HomeListed DEF Asks, Over, UserActs
    <3>2. pc'[u] = "leave" /\ UNCHANGED lockVars
      BY <1>1, <1>4, <2>3 DEF checkout_table, Go
    <3>3. \A l \in Lock : held'[u][l] = Holds(u, l)'
      BY <1>1, <1>2, <2>1, <3>1, <3>2 DEF Holds, Tab, Procs, lockVars
    <3> QED
      BY <1>1, <3>2, <3>3 DEF Effect, Mine, Same, LockTypes, lockVars
  <2> QED
    BY <2>2, <2>3
<1>5. CASE checkout_lock(u)
  <2> DEFINE p == arg[u].pid
  <2>1. pc[u] = "co_lock" /\ pc'[u] = arg[u].then /\ arg' = arg /\ new' = new
    BY <1>1, <1>5 DEF checkout_lock, Go
  <2>2. p \in Pid /\ arg[u].then \in {"commit", "exit_process", "exit_thread", "cloned", "clone"}
    BY <1>1, <1>3, <2>1 DEF Asks, Child
  <2>3. p \in Lock /\ p # TABLE
    BY <2>2, Locks
  <2>4. /\ Mine(u) /\ (TakenToRead(u, p) \/ TakenToWrite(u, p))
        /\ \A m \in Lock \ {p} : Same(m)
        /\ \A m \in Lock : held'[u][m] = IF m = p THEN held[u][m] + 1 ELSE held[u][m]
    <3>1. Read(u, p) \/ Write(u, p)
      BY <1>5 DEF checkout_lock
    <3> HIDE DEF p
    <3> QED
      BY <1>1, <2>3, <3>1, ReadEffect, WriteEffect
  <2>5. \A l \in Lock : held'[u][l] = Holds(u, l)'
    <3>1. CASE arg[u].then = "cloned"
      <4>1. p = Home[u] /\ new[u] # Home[u]
        BY <1>1, <1>3, <2>1, <3>1 DEF Asks, Child
      <4> QED
        BY <1>2, <2>1, <2>3, <2>4, <3>1, <4>1 DEF Holds, Tab, Procs
    <3>2. CASE arg[u].then # "cloned"
      BY <1>2, <2>1, <2>2, <2>3, <2>4, <3>2 DEF Holds, Tab, Procs
    <3> QED
      BY <3>1, <3>2
  <2> QED
    BY <2>3, <2>4, <2>5 DEF Effect
<1>6. CASE \/ syscall_check(u) \/ syscall_enter(u) \/ syscall_leave(u) \/ Begin(u) \/ Sleep(u) \/ Wake(u)
           \/ BeginList(u) \/ new_process(u) \/ CloneFrom(u) \/ QueueProcess(u) \/ QueueThread(u)
  <2>1. UNCHANGED lockVars
    BY <1>6 DEF syscall_check, syscall_enter, syscall_leave, Begin, Sleep, Wake, BeginList, new_process, CloneFrom,
       QueueProcess, QueueThread
  <2>2. \A l \in Lock : Holds(u, l) = Holds(u, l)'
    <3>1. CASE CloneFrom(u)
      <4>1. pc[u] = "clone" /\ pc'[u] = "co_table" /\ arg'[u].then = "cloned" /\ new' = new
        BY <1>1, <3>1 DEF CloneFrom, Checkout, Go
      <4>2. arg[u].pid = new[u]
        BY <1>1, <4>1 DEF Asks
      <4> QED
        BY <4>1, <4>2 DEF Holds, Tab, Procs
    <3>2. CASE QueueProcess(u) \/ QueueThread(u)
      <4>1. /\ arg' = arg
            /\ pc[u] \in {"exit_process", "exit_thread"} /\ pc'[u] \in {"finish_process", "finish_thread"}
        BY <1>1, <3>2 DEF QueueProcess, QueueThread, Go
      <4> QED
        BY <4>1 DEF Holds, Tab, Procs
    <3>3. CASE ~ CloneFrom(u) /\ ~ QueueProcess(u) /\ ~ QueueThread(u)
      <4>1. /\ pc[u] \in {"user", "entering", "kernel", "leave", "dormant"}
            /\ \/ pc'[u] \in {"user", "entering", "kernel", "leave", "dormant", "list", "insert"}
               \/ pc'[u] = "co_table" /\ arg'[u].then # "cloned"
        BY <1>1, <1>6, <3>3 DEF syscall_check, syscall_enter, syscall_leave, Begin, Sleep, Wake, BeginList, new_process,
           Checkout, Go
      <4> QED
        BY <4>1 DEF Holds, Tab, Procs
    <3> QED
      BY <3>1, <3>2, <3>3
  <2> QED
    BY <1>1, <1>2, <2>1, <2>2 DEF Effect, Mine, Same, LockTypes, lockVars
<1>7. CASE process_get_list(u) \/ insert_process(u)
  <2>1. Mine(u) /\ held' = held /\ \A m \in Lock : Same(m)
    BY <1>1, <1>7, WrittenEffect DEF process_get_list, insert_process
  <2>2. /\ pc[u] \in {"list", "insert"}
        /\ pc'[u] = "leave" \/ (pc'[u] = "co_table" /\ arg'[u].then # "cloned")
    BY <1>1, <1>7 DEF process_get_list, insert_process, Checkout, Go
  <2>3. \A l \in Lock : Holds(u, l) = Holds(u, l)'
    BY <2>2 DEF Holds, Tab, Procs
  <2> QED
    BY <1>2, <2>1, <2>3 DEF Effect
<1>8. CASE Commit(u) \/ CloneDone(u) \/ Spawn(u) \/ Finish(u)
  <2>1. PICK p \in Pid : /\ commit_process(u, p) /\ arg' = arg /\ new' = new
                         /\ \/ pc[u] = "cloned" /\ pc'[u] = "spawn" /\ p = Home[u]
                            \/ pc[u] = "spawn" /\ pc'[u] = "leave" /\ p = new[u]
                            \/ /\ pc[u] \in {"commit", "finish_process", "finish_thread"}
                               /\ pc'[u] \in {"leave", "finished"} /\ p = arg[u].pid
    <3>1. CASE Commit(u)
      BY <1>1, <3>1 DEF Commit, Go, Asks
    <3>2. CASE CloneDone(u)
      BY <1>1, <3>2 DEF CloneDone, Go
    <3>3. CASE Spawn(u)
      <4>1. new[u] \in Pid
        BY <1>3, <3>3 DEF Spawn, Child
      <4> QED
        BY <1>1, <3>3, <4>1 DEF Spawn, Go
    <3>4. CASE Finish(u)
      BY <1>1, <3>4 DEF Finish, Go, Asks
    <3> QED
      BY <1>8, <3>1, <3>2, <3>3, <3>4
  <2>2. /\ Mine(u) /\ GivenBack(u, TABLE) /\ GivenBack(u, p)
        /\ \A m \in Lock \ {TABLE, p} : Same(m)
        /\ \A m \in Lock : held'[u][m] = IF m \in {TABLE, p} THEN held[u][m] - 1 ELSE held[u][m]
    BY <1>1, <2>1, CommitEffect
  <2>3. \A l \in Lock : held'[u][l] = Holds(u, l)'
    BY <1>1, <1>2, <1>3, <2>1, <2>2 DEF Holds, Tab, Procs, Child
  <2> QED
    BY <2>2, <2>3 DEF Effect
<1> QED
  BY <1>4, <1>5, <1>6, <1>7, <1>8 DEF UserActs

(* The entry of a thread is dealt with while the thread is over and still  *)
(* among the threads of its process: the early return is not taken.        *)
LEMMA ThreadThere ==
  ASSUME IInv, ArgInv, PidInv, EndInv, LockInv, NEW c \in Cpu, pc[c] = "gc_thread"
  PROVE  pc[Job(c)[2]] = "finished" /\ Job(c)[2] \in threads[Job(c)[1]]
<1> DEFINE p == Job(c)[1]
           v == Job(c)[2]
<1>1. /\ arg[c].pid = p /\ p \in Homes /\ p \in Pid \ deleted
      /\ \A b \in Actor \ {c} : held[b][p] = 0
  BY Exclusive DEF Collecting
<1>2. 0 \in Used(c) /\ At(c, 0) = Job(c) /\ v \in User /\ v # WHOLE
  BY RingFacts DEF ArgInv, Works
<1>3. EntryOK(c, 0, Job(c))
  BY <1>2 DEF EndInv, Entries
<1>4. Home[v] = p /\ pc[v] \in Leaving /\ (v \in killed \/ v \in threads[p])
  BY <1>2, <1>3 DEF EntryOK
<1>5. v \notin killed
  <2> SUFFICES ASSUME v \in killed PROVE FALSE
    OBVIOUS
  <2>1. p \in table
    BY <1>1, CpusAct DEF LockInv, Using, Reaching
  <2>2. PICK d \in Cpu : pc[d] \in {"gc_kill", "remove"} /\ Job(d)[1] = p
    BY <1>2, <1>4, <2>1 DEF EndInv, GoneWith
  <2>3. held[d][p] = 1
    BY <2>2, Exclusive DEF Collecting
  <2>4. d # c /\ d \in Actor
    BY <2>2, CpusAct
  <2> QED
    BY <1>1, <2>3, <2>4
<1>6. pc[v] # "finish_thread"
  <2> SUFFICES ASSUME pc[v] = "finish_thread" PROVE FALSE
    OBVIOUS
  <2>1. v \in Actor \ {c} /\ arg[v].pid = p
    BY <1>2, <1>4, UsersAct DEF ArgInv, Asks
  <2>2. p \in Lock /\ p # TABLE
    BY <1>1, Locks
  <2>3. held[v][p] = 1
    BY <2>1, <2>2 DEF LockInv, HeldAt, Holds, Procs
  <2> QED
    BY <1>1, <2>1, <2>3
<1> QED
  BY <1>4, <1>5, <1>6 DEF Leaving

(* The process that a collector destroys has been marked by its thread. *)
LEMMA ProcessMarked ==
  ASSUME IInv, ArgInv, PidInv, EndInv, LockInv, NEW c \in Cpu, pc[c] \in {"gc_process", "gc_kill"}
  PROVE  state[Job(c)[1]] = "FINISHING"
<1> DEFINE p == Job(c)[1]
<1>1. /\ p \in Pid /\ \A b \in Actor \ {c} : held[b][p] = 0
  BY Exclusive DEF Collecting
<1>2. 0 \in Used(c) /\ At(c, 0) = Job(c) /\ Job(c)[2] = WHOLE
  BY RingFacts DEF ArgInv, Works
<1>3. EntryOK(c, 0, Job(c))
  BY <1>2 DEF EndInv, Entries
<1>4. Whole(p)
  BY <1>2, <1>3 DEF EntryOK
<1>5. ASSUME NEW u \in User, Home[u] = p, pc[u] = "finish_process" PROVE FALSE
  <2>1. u \in Actor \ {c} /\ arg[u].pid = p
    BY <1>5, UsersAct DEF ArgInv, Asks
  <2>2. p \in Lock /\ p # TABLE
    BY <1>1, Locks
  <2>3. held[u][p] = 1
    BY <1>5, <2>1, <2>2 DEF LockInv, HeldAt, Holds, Procs
  <2> QED
    BY <1>1, <2>1, <2>3
<1> QED
  BY <1>4, <1>5 DEF Whole

(* Nor is one of its threads just ending itself. *)
LEMMA KillsAlone ==
  ASSUME IInv, ArgInv, PidInv, LockInv
  PROVE  Alone
<1> SUFFICES ASSUME NEW c \in Cpu, NEW u \in User, pc[c] = "gc_kill", Home[u] = Job(c)[1],
                    pc[u] = "finish_thread"
             PROVE  FALSE
  BY DEF Alone
<1> DEFINE p == Job(c)[1]
<1>1. p \in Pid /\ \A b \in Actor \ {c} : held[b][p] = 0
  BY Exclusive DEF Collecting
<1>2. u \in Actor \ {c} /\ arg[u].pid = p
  BY UsersAct DEF ArgInv, Asks
<1>3. p \in Lock /\ p # TABLE
  BY <1>1, Locks
<1>4. held[u][p] = 1
  BY <1>2, <1>3 DEF LockInv, HeldAt, Holds, Procs
<1> QED
  BY <1>1, <1>2, <1>4

(* delete_process frees the lock as well. *)
Freed(l) == l # TABLE /\ l \in deleted' /\ lock'[l].writers = lock[l].writers

LEMMA CpuLocks ==
  ASSUME IInv, ArgInv, PidInv, EndInv, LockInv, NEW c \in Cpu, CpuActs(c)
  PROVE  /\ Mine(c) /\ \A l \in Lock : Effect(c, l) \/ Freed(l)
         /\ \A l \in Lock : held'[c][l] = Holds(c, l)'
         /\ Writing(c)'
<1>1. /\ c \in Actor /\ c \notin User /\ DOMAIN pc = Actor /\ DOMAIN arg = Actor /\ Works(c)
      /\ LockTypes /\ TABLE \in Lock /\ TABLE \notin Pid /\ lock[TABLE].writers = 0
  BY CpusAct, Locks DEF IInv, Core, Types, ArgInv, LockInv
<1>2. \A l \in Lock : held[c][l] = Holds(c, l)
  BY <1>1 DEF LockInv, HeldAt
<1>3. Writing(c)
  BY DEF LockInv
<1>4. pc[c] # "gc_peek" => arg[c].pid = Job(c)[1] /\ Job(c)[1] \in Pid /\ arg[c].mode = "WRITER"
                           /\ arg[c].then \in {"gc_process", "gc_thread"}
  BY <1>1, JobNamed, HomesArePids DEF IInv, Works
<1>5. CASE checkout_table(c)
  <2>1. pc[c] = "co_table" /\ arg' = arg
    BY <1>5 DEF checkout_table
  <2>2. CASE arg[c].pid \in table
    <3>1. Read(c, TABLE) /\ pc'[c] = "co_lock"
      BY <1>1, <1>5, <2>2 DEF checkout_table, Go
    <3>2. /\ Mine(c) /\ TakenToRead(c, TABLE)
          /\ \A m \in Lock \ {TABLE} : Same(m)
          /\ \A m \in Lock : held'[c][m] = IF m = TABLE THEN held[c][m] + 1 ELSE held[c][m]
      BY <1>1, <3>1, ReadEffect
    <3>3. \A l \in Lock : held'[c][l] = Holds(c, l)'
      BY <1>1, <1>2, <1>4, <2>1, <3>1, <3>2 DEF Holds, Tab, Procs
    <3> QED
      BY <3>1, <3>2, <3>3 DEF Effect, Writing, Collecting
  <2>3. CASE arg[c].pid \notin table
    <3>1. pc'[c] = "gc_next" /\ UNCHANGED lockVars
      BY <1>1, <1>5, <2>3 DEF checkout_table, Go
    <3>2. \A l \in Lock : held'[c][l] = Holds(c, l)'
      BY <1>1, <1>2, <1>4, <2>1, <3>1 DEF Holds, Tab, Procs, lockVars
    <3> QED
      BY <1>1, <3>1, <3>2 DEF Effect, Mine, Same, LockTypes, lockVars, Writing, Collecting
  <2> QED
    BY <2>2, <2>3
<1>6. CASE checkout_lock(c)
  <2> DEFINE p == arg[c].pid
  <2>1. pc[c] = "co_lock" /\ pc'[c] = arg[c].then /\ arg' = arg /\ Write(c, p)
    BY <1>1, <1>4, <1>6 DEF checkout_lock, Go
  <2>2. p \in Lock /\ p # TABLE
    BY <1>4, <2>1, Locks
  <2>3. /\ Mine(c) /\ TakenToWrite(c, p)
        /\ \A m \in Lock \ {p} : Same(m)
        /\ \A m \in Lock : held'[c][m] = IF m = p THEN held[c][m] + 1 ELSE held[c][m]
    <3> HIDE DEF p
    <3> QED
      BY <1>1, <2>1, <2>2, WriteEffect
  <2>4. \A l \in Lock : held'[c][l] = Holds(c, l)'
    BY <1>2, <1>4, <2>1, <2>2, <2>3 DEF Holds, Tab, Procs
  <2>5. Writing(c)'
    BY <2>1, <2>3 DEF Writing, TakenToWrite
  <2> QED
    BY <2>2, <2>3, <2>4, <2>5 DEF Effect
<1>7. CASE gc_peek(c) \/ gc_next(c)
  <2>1. /\ UNCHANGED lockVars /\ pc[c] \in {"gc_peek", "gc_next"}
        /\ pc'[c] = "gc_peek" \/ (pc'[c] = "co_table" /\ arg'[c].then # "cloned")
    BY <1>1, <1>7 DEF gc_peek, gc_next, Checkout, Go
  <2>2. \A l \in Lock : held'[c][l] = Holds(c, l)'
    BY <1>1, <1>2, <2>1 DEF Holds, Tab, Procs, lockVars
  <2> QED
    BY <1>1, <2>1, <2>2 DEF Effect, Mine, Same, LockTypes, lockVars, Writing, Collecting
<1>8. CASE gc_do_thread(c) \/ gc_wait(c)
  <2> DEFINE p == Job(c)[1]
  <2>1. /\ pc[c] \in {"gc_thread", "gc_process"} /\ pc'[c] \in {"gc_next", "co_table"} /\ arg' = arg
        /\ commit_process(c, p)
    BY <1>1, <1>8, ThreadThere DEF gc_do_thread, gc_wait, Go
  <2>2. p \in Pid /\ arg[c].pid = p /\ arg[c].then # "cloned"
    BY <1>4, <2>1
  <2> HIDE DEF p
  <2>3. /\ Mine(c) /\ GivenBack(c, TABLE) /\ GivenBack(c, p)
        /\ \A m \in Lock \ {TABLE, p} : Same(m)
        /\ \A m \in Lock : held'[c][m] = IF m \in {TABLE, p} THEN held[c][m] - 1 ELSE held[c][m]
    BY <1>1, <2>1, <2>2, CommitEffect
  <2>4. \A l \in Lock : held'[c][l] = Holds(c, l)'
    BY <1>1, <1>2, <2>1, <2>2, <2>3 DEF Holds, Tab, Procs
  <2> QED
    BY <2>1, <2>3, <2>4 DEF Effect, Writing, Collecting
<1>12. CASE gc_do_process(c) \/ delete_threads(c)
  <2>1. UNCHANGED lockVars /\ arg' = arg /\ pc[c] \in {"gc_process", "gc_kill"} /\ pc'[c] = "gc_kill"
    BY <1>1, <1>12 DEF gc_do_process, delete_threads, Go
  <2>2. \A l \in Lock : held'[c][l] = Holds(c, l)'
    BY <1>1, <1>2, <2>1 DEF Holds, Tab, Procs, lockVars
  <2> QED
    BY <1>1, <1>3, <2>1, <2>2 DEF Effect, Mine, Same, LockTypes, lockVars, Writing, Collecting
<1>9. CASE gc_release(c)
  <2>1. pc[c] = "gc_kill" /\ pc'[c] = "remove" /\ arg' = arg /\ release_processes(c)
    BY <1>1, <1>9 DEF gc_release, Go
  <2>2. /\ Mine(c) /\ GivenBack(c, TABLE)
        /\ \A m \in Lock \ {TABLE} : Same(m)
        /\ \A m \in Lock : held'[c][m] = IF m = TABLE THEN held[c][m] - 1 ELSE held[c][m]
    BY <1>1, <2>1, ReleaseEffect
  <2>3. \A l \in Lock : held'[c][l] = Holds(c, l)'
    BY <1>1, <1>2, <2>1, <2>2 DEF Holds, Tab, Procs
  <2>4. arg[c].pid \in Lock \ {TABLE}
    BY <1>4, <2>1, Locks
  <2>5. Writing(c)'
    BY <1>3, <2>1, <2>2, <2>4 DEF Writing, Collecting, Same
  <2> QED
    BY <2>2, <2>3, <2>5 DEF Effect
<1>10. CASE remove_process(c)
  <2>1. pc[c] = "remove" /\ pc'[c] = "delete" /\ arg' = arg
    BY <1>1, <1>10 DEF remove_process, Go
  <2>2. Mine(c) /\ held' = held /\ \A m \in Lock : Same(m)
    BY <1>1, <1>10, WrittenEffect DEF remove_process
  <2>3. \A l \in Lock : held'[c][l] = Holds(c, l)'
    BY <1>2, <2>1, <2>2 DEF Holds, Tab, Procs
  <2>4. arg[c].pid \in Lock
    BY <1>4, <2>1, Locks
  <2>5. Writing(c)'
    BY <1>3, <2>1, <2>2, <2>4 DEF Writing, Collecting, Same
  <2> QED
    BY <2>2, <2>3, <2>5 DEF Effect
<1>11. CASE delete_process(c)
  <2> DEFINE p == Job(c)[1]
  <2>1. /\ pc[c] = "delete" /\ pc'[c] = "gc_next" /\ arg' = arg /\ lock' = lock
        /\ deleted' = deleted \cup {p} /\ held' = [held EXCEPT ![c][p] = 0]
    BY <1>1, <1>11 DEF delete_process, Go
  <2>2. p \in Lock /\ p # TABLE /\ arg[c].pid = p
    BY <1>4, <2>1, Locks
  <2> HIDE DEF p
  <2>3. /\ Mine(c)
        /\ \A m \in Lock : held'[c][m] = IF m = p THEN 0 ELSE held[c][m]
    BY <1>1, <2>1, <2>2 DEF Mine, LockTypes
  <2>4. \A l \in Lock : held'[c][l] = Holds(c, l)'
    BY <1>1, <1>2, <2>1, <2>2, <2>3 DEF Holds, Tab, Procs
  <2>5. \A m \in Lock \ {p} : Same(m)
    BY <2>1, <2>3 DEF Same, Mine
  <2>6. Freed(p)
    BY <2>1, <2>2 DEF Freed
  <2> QED
    BY <2>1, <2>3, <2>4, <2>5, <2>6 DEF Effect, Writing, Collecting
<1> QED
  BY <1>5, <1>6, <1>7, <1>8, <1>9, <1>10, <1>11, <1>12 DEF CpuActs

LEMMA LockStep ==
  ASSUME IInv, ArgInv, PidInv, LockInv, NEW a \in Actor,
         Mine(a), \A l \in Lock : Effect(a, l) \/ Freed(l),
         \A l \in Lock : held'[a][l] = Holds(a, l)',
         \A b \in Actor \ {a} : \A l \in Lock : Holds(b, l)' = Holds(b, l),
         \A b \in Actor : Using(b)',
         a \in Cpu => Writing(a)',
         \A c \in Cpu \ {a} : pc'[c] = pc[c] /\ arg'[c] = arg[c],
         deleted \subseteq deleted'
  PROVE  LockInv'
<1>1. LockTypes' /\ \A b \in Actor \ {a} : held'[b] = held[b]
  BY DEF Mine
<1>2. HeldAt'
  BY <1>1 DEF LockInv, HeldAt
<1>3. \A b \in Actor, l \in Lock : held[b][l] \in 0 .. 2
  BY HeldRange DEF LockInv
<1>4. \A b \in Actor, l \in Lock : held'[b][l] \in 0 .. 2
  <2>1. \A b : Tab(b)' \in 0 .. 2
    BY DEF Tab
  <2> QED
    BY <1>2, <2>1 DEF HeldAt, Holds
<1>5. lock'[TABLE].writers = 0
  BY Locks DEF LockInv, Effect, Freed, Same, TakenToRead, GivenBack
<1>6. ASSUME NEW l \in Lock, l \notin deleted' PROVE LockOK(l)'
  <2>1. LockOK(l) /\ lock[l].readers \in Int
    BY <1>6 DEF LockInv, LockTypes, LockRec
  <2>2. Same(l) \/ TakenToRead(a, l) \/ TakenToWrite(a, l) \/ GivenBack(a, l)
    BY <1>6 DEF Effect, Freed
  <2> QED
    BY <1>1, <1>3, <1>4, <2>1, <2>2, EffectOK
<1>7. ASSUME NEW c \in Cpu \ {a} PROVE Writing(c)'
  <2> SUFFICES ASSUME pc[c] \in Collecting PROVE lock'[arg[c].pid].writers = 1
    BY DEF Writing
  <2> DEFINE p == arg[c].pid
  <2>1. p \in Pid /\ held[a][p] = 0
    BY Exclusive
  <2>2. p \in Lock
    BY <2>1, Locks
  <2>3. lock[p].writers = 1
    BY DEF LockInv, Writing
  <2>4. ~ GivenBack(a, p)
    BY <1>4, <2>1, <2>2 DEF GivenBack
  <2> HIDE DEF p
  <2>5. Same(p) \/ Freed(p)
    BY <2>2, <2>3, <2>4 DEF Effect, TakenToRead, TakenToWrite
  <2>6. lock'[p].writers = 1
    BY <2>3, <2>5 DEF Same, Freed
  <2> QED
    BY <2>6 DEF p
<1> QED
  BY <1>1, <1>2, <1>5, <1>6, <1>7 DEF LockInv

LEMMA UserUsing ==
  ASSUME IInv, ArgInv, PidInv, EndInv, LockInv, NEW u \in User, UserActs(u)
  PROVE  deleted \subseteq deleted' /\ \A b \in Actor : Using(b)'
<1>1. /\ \A b \in Actor \ {u} : pc'[b] = pc[b] /\ arg'[b] = arg[b]
  BY UserFrame DEF ArgInv
<1>2. u \in Actor /\ DOMAIN pc = Actor /\ DOMAIN arg = Actor /\ Asks(u) /\ Using(u) /\ pc[u] \in Inside \cup Outside
  BY UsersAct DEF IInv, Core, Types, UsersGo, ArgInv, LockInv
<1>3. table \subseteq table' /\ deleted \subseteq deleted' /\ \A p \in deleted' \ deleted : p \notin Homes
  <2>1. CASE insert_process(u)
    BY <2>1 DEF insert_process
  <2>2. CASE new_process(u)
    <3>1. next_pid = l_PID
      BY NextPid DEF PidInv
    <3>2. next_pid \notin Homes
      BY <3>1, ProcessesAssumption DEF PidInv, Numbers
    <3>3. table' = table /\ deleted \subseteq deleted' /\ deleted' \subseteq deleted \cup {next_pid}
      BY <2>2 DEF new_process
    <3> QED
      BY <3>2, <3>3
  <2>3. CASE ~ insert_process(u) /\ ~ new_process(u)
    BY <2>3, ChildMoves
  <2> QED
    BY <2>1, <2>2, <2>3
<1>4. ASSUME NEW b \in Actor \ {u} PROVE Using(b)'
  <2>1. Using(b) /\ pc'[b] = pc[b] /\ arg'[b] = arg[b]
    BY <1>1 DEF LockInv
  <2>2. pc[b] = "delete" => arg[b].pid \in Homes
    <3>1. b \in User => pc[b] # "delete"
      BY DEF IInv, Core, UsersGo, Inside, Outside
    <3> QED
      BY <3>1, Exclusive DEF Collecting, Actor
  <2> QED
    BY <1>3, <2>1, <2>2 DEF Using
<1>5. Using(u)'
  <2>1. CASE checkout_table(u)
    <3>1. arg' = arg /\ (pc'[u] = "co_lock" => arg[u].pid \in table) /\ pc'[u] \in {"co_lock", "leave"}
      BY <1>2, <2>1 DEF checkout_table, Go
    <3> QED
      BY <1>3, <3>1 DEF Using, Reaching
  <2>2. CASE \/ checkout_lock(u) \/ CloneDone(u) \/ QueueProcess(u) \/ QueueThread(u)
    <3>1. arg' = arg /\ pc[u] \in Reaching
      BY <2>2 DEF checkout_lock, CloneDone, QueueProcess, QueueThread, Reaching
    <3>2. pc'[u] # "delete"
      <4>1. (pc'[u] = arg[u].then /\ pc[u] = "co_lock") \/ pc'[u] \in {"spawn", "finish_process", "finish_thread"}
        BY <1>2, <2>2 DEF checkout_lock, CloneDone, QueueProcess, QueueThread, Go
      <4> QED
        BY <1>2, <4>1 DEF Asks
    <3> QED
      BY <1>2, <1>3, <3>1, <3>2 DEF Using
  <2>3. CASE ~ checkout_table(u) /\ ~ checkout_lock(u) /\ ~ CloneDone(u) /\ ~ QueueProcess(u) /\ ~ QueueThread(u)
    <3>1. pc'[u] \notin Reaching \cup {"delete"}
      BY <1>2, <2>3 DEF UserActs, Reaching, Go, Checkout, syscall_check, syscall_enter, syscall_leave, Begin, Commit,
         Sleep, Wake, BeginList, process_get_list, new_process, insert_process, CloneFrom, Spawn, Finish
    <3> QED
      BY <3>1 DEF Using
  <2> QED
    BY <2>1, <2>2, <2>3
<1> QED
  BY <1>3, <1>4, <1>5

LEMMA CpuUsing ==
  ASSUME IInv, ArgInv, PidInv, EndInv, LockInv, NEW c \in Cpu, CpuActs(c)
  PROVE  deleted \subseteq deleted' /\ \A b \in Actor : Using(b)'
<1>1. /\ \A b \in Actor \ {c} : arg'[b] = arg[b]
      /\ \A b \in Actor \ {c} : pc'[b] = pc[b]
  <2>1. \A d \in Cpu \ {c} : pc'[d] = pc[d]
    BY CpuFrame
  <2>2. \A u \in User : pc'[u] = pc[u]
    BY CpuFrame
  <2>3. \A b \in Actor \ {c} : arg'[b] = arg[b]
    BY CpuFrame
  <2> QED
    BY <2>1, <2>2, <2>3 DEF Actor
<1>2. c \in Actor /\ c \notin User /\ DOMAIN pc = Actor /\ DOMAIN arg = Actor /\ Works(c) /\ Using(c)
  BY CpusAct DEF IInv, Core, Types, ArgInv, LockInv
<1>3. CASE remove_process(c)
  <2> DEFINE p == Job(c)[1]
  <2>1. /\ pc[c] = "remove" /\ pc'[c] = "delete" /\ arg' = arg /\ deleted' = deleted /\ table' = table \ {p}
        /\ CanWrite(TABLE)
    BY <1>2, <1>3 DEF remove_process, Go
  <2>2. arg[c].pid = p /\ p \in Pid \ deleted /\ \A b \in Actor \ {c} : held[b][p] = 0
    BY <2>1, Exclusive DEF Collecting
  <2> HIDE DEF p
  <2>3. \A b \in Actor : held[b][TABLE] = 0
    <3>1. TABLE \in Lock /\ TABLE \notin deleted
      BY Locks DEF PidInv, Numbers, TABLE
    <3>2. LockOK(TABLE) /\ \A b \in Actor : held[b][TABLE] \in 0 .. 2
      BY <3>1, HeldRange DEF LockInv
    <3> QED
      BY <2>1, <3>1, <3>2, FreeOK DEF CanWrite
  <2>4. ASSUME NEW b \in Actor \ {c} PROVE Using(b)'
    <3>1. Using(b) /\ held[b][TABLE] = Holds(b, TABLE) /\ p \in Lock /\ p # TABLE /\ held[b][p] = Holds(b, p)
      BY <2>2, Locks DEF LockInv, HeldAt
    <3>2. Tab(b) = 0
      BY <2>3, <3>1 DEF Holds
    <3>3. pc[b] \in Reaching => pc[b] = "remove"
      BY <3>2 DEF Tab, Reaching
    <3>4. pc[b] = "remove" => arg[b].pid # p
      BY <2>2, <3>1 DEF Holds, Procs
    <3> QED
      BY <1>1, <2>1, <3>1, <3>3, <3>4 DEF Using, Reaching
  <2>5. Using(c)'
    BY <2>1, <2>2 DEF Using, Reaching
  <2> QED
    BY <2>1, <2>4, <2>5
<1>4. CASE delete_process(c)
  <2> DEFINE p == Job(c)[1]
  <2>1. /\ pc[c] = "delete" /\ pc'[c] = "gc_next" /\ arg' = arg /\ deleted' = deleted \cup {p} /\ table' = table
    BY <1>2, <1>4 DEF delete_process, Go, treeVars
  <2>2. arg[c].pid = p /\ p \in Pid \ deleted /\ \A b \in Actor \ {c} : held[b][p] = 0
    BY <2>1, Exclusive DEF Collecting
  <2> HIDE DEF p
  <2>3. ASSUME NEW b \in Actor \ {c} PROVE Using(b)'
    <3>1. Using(b) /\ p \in Lock /\ p # TABLE /\ held[b][p] = Holds(b, p)
      BY <2>2, Locks DEF LockInv, HeldAt
    <3>2. pc[b] = "delete" => arg[b].pid # p
      BY <2>2, <3>1 DEF Holds, Procs
    <3> QED
      BY <1>1, <2>1, <3>1, <3>2 DEF Using, Reaching
  <2>4. Using(c)'
    BY <2>1 DEF Using, Reaching
  <2> QED
    BY <2>1, <2>3, <2>4
<1>5. CASE ~ remove_process(c) /\ ~ delete_process(c)
  <2>1. UNCHANGED <<table, deleted>>
    BY <1>5 DEF CpuActs, treeVars, checkout_table, checkout_lock, gc_peek, gc_next, gc_do_thread, gc_wait, gc_do_process,
       delete_threads, gc_release
  <2>2. \A b \in Actor \ {c} : Using(b)'
    BY <1>1, <2>1 DEF LockInv, Using, Reaching
  <2>3. Using(c)'
    <3>1. CASE checkout_table(c)
      <4>1. arg' = arg /\ (pc'[c] = "co_lock" => arg[c].pid \in table) /\ pc'[c] \in {"co_lock", "gc_next"}
        BY <1>2, <3>1 DEF checkout_table, Go
      <4> QED
        BY <2>1, <4>1 DEF Using, Reaching
    <3>2. CASE checkout_lock(c) \/ gc_do_process(c) \/ delete_threads(c) \/ gc_release(c)
      <4>1. arg' = arg /\ pc[c] \in Reaching
        BY <3>2 DEF checkout_lock, gc_do_process, delete_threads, gc_release, Reaching
      <4>2. pc'[c] # "delete"
        BY <1>2, <3>2 DEF checkout_lock, gc_do_process, delete_threads, gc_release, Go, Works
      <4> QED
        BY <1>2, <2>1, <4>1, <4>2 DEF Using
    <3>3. CASE gc_peek(c) \/ gc_next(c) \/ gc_do_thread(c) \/ gc_wait(c)
      <4>1. pc'[c] \in {"co_table", "gc_peek", "gc_next"}
        BY <1>2, <3>3 DEF gc_peek, gc_next, gc_do_thread, gc_wait, Checkout, Go
      <4> QED
        BY <4>1 DEF Using, Reaching
    <3> QED
      BY <1>5, <3>1, <3>2, <3>3 DEF CpuActs
  <2> QED
    BY <2>1, <2>2, <2>3
<1> QED
  BY <1>3, <1>4, <1>5

LEMMA InitLocks == Init => LockInv
<1> SUFFICES ASSUME Init PROVE LockInv
  OBVIOUS
<1>1. \A a \in Actor : pc[a] \in {"user", "gc_peek"}
  BY DEF Init
<1>2. LockTypes
  BY DEF Init, LockTypes, LockRec
<1>3. \A a \in Actor, l \in Lock : held[a][l] = 0
  BY DEF Init
<1>4. HeldAt
  BY <1>1, <1>3 DEF HeldAt, Holds, Tab, Procs
<1>5. \A l \in Lock : lock[l].readers = 0 /\ lock[l].writers = 0
  BY DEF Init
<1>6. ASSUME NEW l \in Lock PROVE LockOK(l)
  <2>1. Units(l) = {}
    BY <1>3 DEF Units
  <2> QED
    BY <1>5, <2>1, FS_EmptySet DEF LockOK
<1>7. (\A a \in Actor : Using(a)) /\ (\A c \in Cpu : Writing(c))
  BY <1>1, CpusAct DEF Using, Writing, Reaching, Collecting
<1> QED
  BY <1>2, <1>4, <1>5, <1>6, <1>7, Locks DEF LockInv

LEMMA StepLocks ==
  ASSUME IInv, ArgInv, PidInv, EndInv, LockInv, [Next]_vars
  PROVE  LockInv'
<1>1. CASE Quiet
  <2>1. LockTypes' /\ \A m \in Lock : Same(m)
    BY <1>1, QuietEffect DEF LockInv
  <2>2. UNCHANGED <<table, qdata, pc, arg, new, held, deleted>>
    BY <1>1, QuietStep
  <2>3. HeldAt'
    BY <2>2 DEF LockInv, HeldAt, Holds, Tab, Procs
  <2>4. \A b \in Actor : Using(b)'
    BY <2>2 DEF LockInv, Using
  <2>5. lock'[TABLE].writers = 0
    BY <2>1, Locks DEF LockInv, Same
  <2>6. ASSUME NEW c \in Cpu PROVE Writing(c)'
    <3>1. pc[c] \in Collecting => arg[c].pid \in Pid
      BY Exclusive
    <3> QED
      BY <2>1, <2>2, <3>1, Locks DEF LockInv, Writing, Same
  <2>7. ASSUME NEW l \in Lock \ deleted PROVE LockOK(l)'
    <3>1. Units(l)' = Units(l)
      BY <2>2 DEF Units
    <3>2. LockOK(l) /\ Same(l)
      BY <2>1 DEF LockInv
    <3> QED
      BY <2>2, <3>1, <3>2 DEF LockOK, Same
  <2> QED
    BY <2>1, <2>2, <2>3, <2>4, <2>5, <2>6, <2>7 DEF LockInv
<1>2. ASSUME NEW u \in User, UserActs(u) PROVE LockInv'
  <2>1. u \in Actor /\ u \notin Cpu
    BY UsersAct
  <2>2. /\ \A b \in Actor \ {u} : pc'[b] = pc[b] /\ arg'[b] = arg[b]
        /\ \A v \in User \ {u} : new'[v] = new[v]
    BY <1>2, UserFrame DEF ArgInv
  <2>3. \A b \in Actor \ {u} : \A l \in Lock : Holds(b, l)' = Holds(b, l)
    BY <2>2, OthersHold
  <2>4. deleted \subseteq deleted' /\ \A b \in Actor : Using(b)'
    BY <1>2, UserUsing
  <2>5. /\ Mine(u) /\ \A l \in Lock : Effect(u, l)
        /\ \A l \in Lock : held'[u][l] = Holds(u, l)'
    BY <1>2, UserLocks
  <2> QED
    BY <2>1, <2>2, <2>3, <2>4, <2>5, CpusAct, LockStep
<1>3. ASSUME NEW c \in Cpu, CpuActs(c) PROVE LockInv'
  <2>1. c \in Actor
    BY CpusAct
  <2>2. /\ new' = new
        /\ \A b \in Actor \ {c} : arg'[b] = arg[b]
        /\ \A d \in Cpu \ {c} : pc'[d] = pc[d]
        /\ \A u \in User : pc'[u] = pc[u]
    BY <1>3, CpuFrame
  <2>3. ASSUME NEW b \in Actor \ {c}, NEW l \in Lock PROVE Holds(b, l)' = Holds(b, l)
    <3>1. pc'[b] = pc[b]
      BY <2>2 DEF Actor
    <3> QED
      BY <2>2, <3>1, OthersHold
  <2>4. deleted \subseteq deleted' /\ \A b \in Actor : Using(b)'
    BY <1>3, CpuUsing
  <2>5. /\ Mine(c) /\ \A l \in Lock : Effect(c, l) \/ Freed(l)
        /\ \A l \in Lock : held'[c][l] = Holds(c, l)'
        /\ Writing(c)'
    BY <1>3, CpuLocks
  <2> QED
    BY <2>1, <2>2, <2>3, <2>4, <2>5, CpusAct, LockStep
<1> QED
  BY <1>1, <1>2, <1>3, Steps

-----------------------------------------------------------------------------
(* Layer 5: the linear list and the family tree.  A parent is older than   *)
(* its children, so adopting the children of a process that is removed     *)
(* leaves none with it as its parent.                                      *)
Distinct(s) == \A i, j \in 1 .. Len(s) : s[i] = s[j] => i = j
Among(x, s) == \E i \in 1 .. Len(s) : s[i] = x

Listed ==
  /\ list \in Seq(Int) /\ Len(list) >= 1 /\ list[1] = SMK /\ Distinct(list)
  /\ \A p : p \in table <=> Among(p, list)

Family == \A p \in table \ {SMK} : parent[p] \in table /\ parent[p] < p

TreeInv == DOMAIN parent = Pid /\ Listed /\ Family

LEMMA SetAsSeq ==
  ASSUME NEW S, IsFiniteSet(S), NEW s, s = SetToSeq(S)
  PROVE  /\ s \in Seq(S)
         /\ \A i, j \in 1 .. Len(s) : s[i] = s[j] => i = j
         /\ \A x : x \in S <=> \E i \in 1 .. Len(s) : s[i] = x
<1> DEFINE n == Cardinality(S)
<1>1. n \in Nat /\ ExistsBijection(1 .. n, S)
  BY FS_CardinalityType
<1>2. PICK g : g \in Bijection(1 .. n, S)
  BY <1>1 DEF ExistsBijection
<1>3. g \in [1 .. n -> S] /\ IsInjective(g)
  BY <1>2 DEF Bijection, Injection, IsInjective
<1>4. s \in [1 .. n -> S] /\ IsInjective(s)
  BY <1>3 DEF SetToSeq
<1>5. s \in Injection(1 .. n, S)
  BY <1>4 DEF Injection, IsInjective
<1>6. IsFiniteSet(1 .. n) /\ Cardinality(1 .. n) = n
  BY <1>1, FS_Interval
<1>7. s \in Surjection(1 .. n, S)
  BY <1>5, <1>6, FS_Injection
<1>8. \A x \in S : \E i \in 1 .. n : s[i] = x
  BY <1>7 DEF Surjection
<1> HIDE DEF n
<1>9. s \in Seq(S) /\ Len(s) = n
  BY <1>1, <1>4
<1> QED
  BY <1>4, <1>8, <1>9 DEF IsInjective

LEMMA Part ==
  ASSUME NEW s \in Seq(Int), NEW m \in 1 .. Len(s) + 1, NEW n \in m - 1 .. Len(s), NEW r, r = SubSeq(s, m, n)
  PROVE  /\ r \in Seq(Int) /\ Len(r) = n - m + 1
         /\ \A i \in 1 .. n - m + 1 : r[i] = s[m + i - 1]
<1>1. m \in Int /\ n \in Int /\ \A i \in m .. n : s[i] \in Int
  OBVIOUS
<1>2. /\ SubSeq(s, m, n) \in Seq(Int)
      /\ Len(SubSeq(s, m, n)) = IF m <= n THEN n - m + 1 ELSE 0
      /\ \A i \in 1 .. n - m + 1 : SubSeq(s, m, n)[i] = s[m + i - 1]
  BY <1>1, SubSeqProperties
<1>3. (IF m <= n THEN n - m + 1 ELSE 0) = n - m + 1
  OBVIOUS
<1> QED
  BY <1>2, <1>3, Zenon

LEMMA InsertSecond ==
  ASSUME NEW s \in Seq(Int), Len(s) >= 1, NEW p \in Int, NEW r, r = InsertAt(s, 2, p)
  PROVE  /\ r \in Seq(Int) /\ Len(r) = Len(s) + 1
         /\ r[1] = s[1] /\ r[2] = p
         /\ \A i \in 3 .. Len(r) : r[i] = s[i - 1]
<1> DEFINE a == SubSeq(s, 1, 2 - 1)
           b == SubSeq(s, 2, Len(s))
           o == <<p>>
           t == a \o o
<1>1. r = t \o b
  BY DEF InsertAt
<1>0. Len(s) \in Nat /\ 2 - 1 = 1
  OBVIOUS
<1>2. a \in Seq(Int) /\ Len(a) = 1 /\ a[1] = s[1]
  <2>1. /\ a \in Seq(Int) /\ Len(a) = 1 - 1 + 1
        /\ \A i \in 1 .. 1 - 1 + 1 : a[i] = s[1 + i - 1]
    BY <1>0, Part
  <2> HIDE DEF a
  <2> QED
    BY <2>1
<1>3. b \in Seq(Int) /\ Len(b) = Len(s) - 2 + 1 /\ \A i \in 1 .. Len(s) - 2 + 1 : b[i] = s[2 + i - 1]
  <2>1. 2 \in 1 .. Len(s) + 1 /\ Len(s) \in 2 - 1 .. Len(s)
    BY <1>0
  <2> QED
    BY <2>1, Part, Zenon
<1>4. o \in Seq(Int) /\ Len(o) = 1 /\ o[1] = p
  OBVIOUS
<1> HIDE DEF a, b, o
<1>5. t \in Seq(Int) /\ Len(t) = 2 /\ t[1] = s[1] /\ t[2] = p
  <2>1. /\ t \in Seq(Int) /\ Len(t) = Len(a) + Len(o)
        /\ \A i \in 1 .. Len(a) : t[i] = a[i]
        /\ \A i \in 1 .. Len(o) : t[Len(a) + i] = o[i]
    <3>1. a \in Seq(Int) /\ o \in Seq(Int)
      BY <1>2, <1>4
    <3> QED
      BY <3>1
  <2>2. t[1] = a[1] /\ t[1 + 1] = o[1]
    BY <1>2, <1>4, <2>1
  <2> HIDE DEF t
  <2> QED
    BY <1>2, <1>4, <2>1, <2>2
<1> HIDE DEF t
<1>6. /\ r \in Seq(Int) /\ Len(r) = Len(t) + Len(b)
      /\ \A i \in 1 .. Len(t) : r[i] = t[i]
      /\ \A i \in 1 .. Len(b) : r[Len(t) + i] = b[i]
  <2>1. t \in Seq(Int) /\ b \in Seq(Int)
    BY <1>3, <1>5
  <2>2. t \o b \in Seq(Int) /\ Len(t \o b) = Len(t) + Len(b)
    BY <2>1
  <2>3. \A i \in 1 .. Len(t) : (t \o b)[i] = t[i]
    BY <2>1
  <2>4. \A i \in 1 .. Len(b) : (t \o b)[Len(t) + i] = b[i]
    BY <2>1, SMTT(30)
  <2> QED
    BY <1>1, <2>2, <2>3, <2>4, Zenon
<1>7. ASSUME NEW i \in 3 .. Len(r) PROVE r[i] = s[i - 1]
  <2>1. i - 2 \in 1 .. Len(b) /\ 2 + (i - 2) = i /\ 2 + (i - 2) - 1 = i - 1
    BY <1>0, <1>3, <1>5, <1>6
  <2>2. r[2 + (i - 2)] = b[i - 2] /\ b[i - 2] = s[2 + (i - 2) - 1]
    BY <1>3, <1>5, <1>6, <2>1
  <2> QED
    BY <2>1, <2>2, Zenon
<1> QED
  BY <1>0, <1>3, <1>5, <1>6, <1>7

LEMMA RemoveOne ==
  ASSUME NEW s \in Seq(Int), NEW k \in 1 .. Len(s), NEW r, r = RemoveAt(s, k)
  PROVE  /\ r \in Seq(Int) /\ Len(r) = Len(s) - 1
         /\ \A i \in 1 .. Len(r) : r[i] = IF i < k THEN s[i] ELSE s[i + 1]
<1> DEFINE a == SubSeq(s, 1, k - 1)
           b == SubSeq(s, k + 1, Len(s))
<1>0. Len(s) \in Nat /\ k \in Nat /\ k <= Len(s) /\ k >= 1
  OBVIOUS
<1>1. r = a \o b
  BY DEF RemoveAt
<1>2. a \in Seq(Int) /\ Len(a) = (k - 1) - 1 + 1 /\ \A i \in 1 .. (k - 1) - 1 + 1 : a[i] = s[1 + i - 1]
  <2>1. 1 \in 1 .. Len(s) + 1 /\ k - 1 \in 1 - 1 .. Len(s)
    BY <1>0
  <2> QED
    BY <2>1, Part
<1>3. b \in Seq(Int) /\ Len(b) = Len(s) - (k + 1) + 1 /\ \A i \in 1 .. Len(s) - (k + 1) + 1 : b[i] = s[(k + 1) + i - 1]
  <2>1. k + 1 \in 1 .. Len(s) + 1 /\ Len(s) \in (k + 1) - 1 .. Len(s)
    BY <1>0
  <2> QED
    BY <2>1, Part
<1> HIDE DEF a, b
<1>4. /\ r \in Seq(Int) /\ Len(r) = Len(a) + Len(b)
      /\ \A i \in 1 .. Len(a) : r[i] = a[i]
      /\ \A i \in 1 .. Len(b) : r[Len(a) + i] = b[i]
  <2>1. a \in Seq(Int) /\ b \in Seq(Int)
    BY <1>2, <1>3
  <2>2. a \o b \in Seq(Int) /\ Len(a \o b) = Len(a) + Len(b)
    BY <2>1
  <2>3. \A i \in 1 .. Len(a) : (a \o b)[i] = a[i]
    BY <2>1
  <2>4. \A i \in 1 .. Len(b) : (a \o b)[Len(a) + i] = b[i]
    BY <2>1, SMTT(30)
  <2> QED
    BY <1>1, <2>2, <2>3, <2>4, Zenon
<1>5. Len(r) = Len(s) - 1 /\ Len(a) = k - 1
  BY <1>0, <1>2, <1>3, <1>4
<1>6. ASSUME NEW i \in 1 .. Len(r) PROVE r[i] = IF i < k THEN s[i] ELSE s[i + 1]
  <2>1. CASE i < k
    <3>1. i \in 1 .. Len(a) /\ i \in 1 .. (k - 1) - 1 + 1 /\ 1 + i - 1 = i
      BY <1>0, <1>5, <2>1
    <3>2. r[i] = a[i] /\ a[i] = s[1 + i - 1]
      BY <1>2, <1>4, <3>1, Zenon
    <3> QED
      BY <2>1, <3>1, <3>2
  <2>2. CASE ~ (i < k)
    <3> DEFINE j == i - (k - 1)
    <3>1. j \in 1 .. Len(b) /\ j \in 1 .. Len(s) - (k + 1) + 1 /\ Len(a) + j = i /\ (k + 1) + j - 1 = i + 1
      BY <1>0, <1>3, <1>5, <2>2
    <3> HIDE DEF j
    <3>2. r[Len(a) + j] = b[j] /\ b[j] = s[(k + 1) + j - 1]
      BY <1>3, <1>4, <3>1, Zenon
    <3> QED
      BY <2>2, <3>1, <3>2
  <2> QED
    BY <2>1, <2>2
<1> QED
  BY <1>4, <1>5, <1>6

LEMMA InsertDistinct ==
  ASSUME NEW s \in Seq(Int), Len(s) >= 1, NEW p \in Int, NEW r, r = InsertAt(s, 2, p),
         Distinct(s), ~ Among(p, s)
  PROVE  /\ r \in Seq(Int) /\ Len(r) >= 1 /\ r[1] = s[1] /\ Distinct(r)
         /\ \A x : Among(x, r) <=> Among(x, s) \/ x = p
<1>1. /\ r \in Seq(Int) /\ Len(r) = Len(s) + 1 /\ r[1] = s[1] /\ r[2] = p
      /\ \A i \in 3 .. Len(r) : r[i] = s[i - 1]
  <2>1. /\ r \in Seq(Int) /\ Len(r) = Len(s) + 1
        /\ r[1] = s[1] /\ r[2] = p
        /\ \A i \in 3 .. Len(r) : r[i] = s[i - 1]
    BY InsertSecond, SMTT(30)
  <2> QED
    BY <2>1
<1>2. Len(s) \in Nat
  OBVIOUS
<1> DEFINE f(i) == IF i = 1 THEN 1 ELSE i - 1
<1>3. ASSUME NEW i \in 1 .. Len(r), i # 2 PROVE f(i) \in 1 .. Len(s) /\ r[i] = s[f(i)] /\ r[i] # p
  <2>0. i \in Int /\ i >= 1 /\ i <= Len(s) + 1 /\ Len(r) = Len(s) + 1
    BY <1>1, <1>2
  <2>1. f(i) \in 1 .. Len(s) /\ (i = 1 \/ i \in 3 .. Len(r))
    BY <1>2, <1>3, <2>0
  <2>2. r[i] = s[f(i)]
    BY <1>1, <1>3, <2>1
  <2> QED
    BY <2>1, <2>2 DEF Among
<1>4. ASSUME NEW i \in 1 .. Len(r), NEW j \in 1 .. Len(r), i # 2, j # 2, f(i) = f(j) PROVE i = j
  <2>1. i \in Int /\ j \in Int /\ i >= 1 /\ j >= 1
    BY <1>1, <1>2
  <2> QED
    BY <1>4, <2>1
<1> HIDE DEF f
<1>5. Distinct(r)
  <2> SUFFICES ASSUME NEW i \in 1 .. Len(r), NEW j \in 1 .. Len(r), r[i] = r[j] PROVE i = j
    BY DEF Distinct
  <2>1. CASE i = 2 \/ j = 2
    BY <1>1, <1>3, <2>1
  <2>2. CASE i # 2 /\ j # 2
    <3>1. s[f(i)] = s[f(j)] /\ f(i) \in 1 .. Len(s) /\ f(j) \in 1 .. Len(s)
      BY <1>3, <2>2
    <3>2. f(i) = f(j)
      BY <3>1 DEF Distinct
    <3> QED
      BY <1>4, <2>2, <3>2
  <2> QED
    BY <2>1, <2>2
<1>6. ASSUME NEW x, Among(x, r) PROVE Among(x, s) \/ x = p
  <2>1. PICK i \in 1 .. Len(r) : r[i] = x
    BY <1>6 DEF Among
  <2> QED
    BY <1>1, <1>3, <2>1 DEF Among
<1>7. Among(p, r)
  <2>1. 2 \in 1 .. Len(r)
    BY <1>1, <1>2
  <2> QED
    BY <1>1, <2>1 DEF Among
<1>8. ASSUME NEW x, Among(x, s) PROVE Among(x, r)
  <2>1. PICK i \in 1 .. Len(s) : s[i] = x
    BY <1>8 DEF Among
  <2>2. CASE i = 1
    <3>1. 1 \in 1 .. Len(r)
      BY <1>1, <1>2
    <3> QED
      BY <1>1, <2>1, <2>2, <3>1 DEF Among
  <2>3. CASE i # 1
    <3>1. i + 1 \in 3 .. Len(r) /\ i + 1 \in 1 .. Len(r) /\ (i + 1) - 1 = i
      BY <1>1, <1>2, <2>3
    <3>2. r[i + 1] = s[(i + 1) - 1]
      BY <1>1, <3>1
    <3> QED
      BY <2>1, <3>1, <3>2 DEF Among
  <2> QED
    BY <2>2, <2>3
<1> QED
  BY <1>1, <1>2, <1>5, <1>6, <1>7, <1>8

LEMMA RemoveDistinct ==
  ASSUME NEW s \in Seq(Int), NEW k \in 2 .. Len(s), NEW r, r = RemoveAt(s, k), Distinct(s)
  PROVE  /\ r \in Seq(Int) /\ Len(r) >= 1 /\ r[1] = s[1] /\ Distinct(r)
         /\ \A x : Among(x, r) <=> Among(x, s) /\ x # s[k]
<1>0. Len(s) \in Nat /\ k \in Nat /\ k >= 2 /\ k <= Len(s) /\ k \in 1 .. Len(s)
  OBVIOUS
<1>1. /\ r \in Seq(Int) /\ Len(r) = Len(s) - 1
      /\ \A i \in 1 .. Len(r) : r[i] = IF i < k THEN s[i] ELSE s[i + 1]
  BY <1>0, RemoveOne
<1> DEFINE f(i) == IF i < k THEN i ELSE i + 1
<1>2. ASSUME NEW i \in 1 .. Len(r) PROVE f(i) \in 1 .. Len(s) /\ f(i) # k /\ r[i] = s[f(i)]
  <2>1. i \in Int /\ i >= 1 /\ i <= Len(s) - 1
    BY <1>0, <1>1
  <2>2. f(i) \in 1 .. Len(s) /\ f(i) # k
    BY <1>0, <2>1
  <2>3. r[i] = s[f(i)]
    BY <1>1
  <2> QED
    BY <2>2, <2>3
<1>3. \A i, j \in 1 .. Len(r) : f(i) = f(j) => i = j
  BY <1>0, 1 .. Len(r) \subseteq Int, SMTT(30)
<1>4. ASSUME NEW m \in 1 .. Len(s), m # k PROVE \E i \in 1 .. Len(r) : f(i) = m
  <2>1. CASE m < k
    <3>1. m \in 1 .. Len(r) /\ f(m) = m
      BY <1>0, <1>1, <2>1
    <3> QED
      BY <3>1
  <2>2. CASE m > k
    <3>1. m - 1 \in 1 .. Len(r) /\ f(m - 1) = m
      BY <1>0, <1>1, <2>2
    <3> QED
      BY <3>1
  <2> QED
    BY <1>0, <1>4, <2>1, <2>2
<1>5. r[1] = s[1] /\ Len(r) >= 1
  BY <1>0, <1>1
<1> HIDE DEF f
<1>6. Distinct(r)
  <2> SUFFICES ASSUME NEW i \in 1 .. Len(r), NEW j \in 1 .. Len(r), r[i] = r[j] PROVE i = j
    BY DEF Distinct
  <2>1. s[f(i)] = s[f(j)] /\ f(i) \in 1 .. Len(s) /\ f(j) \in 1 .. Len(s)
    BY <1>2
  <2>2. f(i) = f(j)
    BY <2>1 DEF Distinct
  <2> QED
    BY <1>3, <2>2
<1>7. ASSUME NEW x, Among(x, r) PROVE Among(x, s) /\ x # s[k]
  <2>1. PICK i \in 1 .. Len(r) : r[i] = x
    BY <1>7 DEF Among
  <2>2. s[f(i)] = x /\ f(i) \in 1 .. Len(s) /\ f(i) # k
    BY <1>2, <2>1
  <2> QED
    BY <1>0, <2>2 DEF Among, Distinct
<1>8. ASSUME NEW x, Among(x, s), x # s[k] PROVE Among(x, r)
  <2>1. PICK m \in 1 .. Len(s) : s[m] = x
    BY <1>8 DEF Among
  <2>2. m # k
    BY <1>8, <2>1
  <2>3. PICK i \in 1 .. Len(r) : f(i) = m
    BY <1>4, <2>2
  <2> QED
    BY <1>2, <2>1, <2>3 DEF Among
<1> QED
  BY <1>1, <1>5, <1>6, <1>7, <1>8

LEMMA InitTree == Init => TreeInv
<1> SUFFICES ASSUME Init PROVE TreeInv
  OBVIOUS
<1> DEFINE t == SetToSeq(Homes)
<1>1. PICK n \in 1 .. MaxPid : Homes = 2 .. n
  BY ProcessesAssumption DEF Homes
<1>2. IsFiniteSet(Homes) /\ Homes \subseteq Int /\ SMK \notin Homes
  <2>1. 2 \in Int /\ n \in Int
    BY <1>1, ProcessesAssumption
  <2>2. IsFiniteSet(2 .. n)
    BY <2>1, FS_Interval
  <2> QED
    BY <1>1, <2>2 DEF SMK
<1>3. /\ t \in Seq(Homes) /\ Distinct(t)
      /\ \A x : x \in Homes <=> Among(x, t)
  BY <1>2, SetAsSeq DEF Distinct, Among
<1>4. list = <<SMK>> \o t /\ table = {SMK} \cup Homes /\ DOMAIN parent = Pid
      /\ \A p \in Pid : parent[p] = IF p \in Homes THEN SMK ELSE 0
  BY DEF Init, Homes
<1> HIDE DEF t
<1>5. t \in Seq(Int)
  <2>1. Len(t) \in Nat /\ t \in [1 .. Len(t) -> Homes]
    BY <1>3
  <2>2. t \in [1 .. Len(t) -> Int]
    BY <1>2, <2>1
  <2> QED
    BY <2>1, <2>2
<1>6. /\ list \in Seq(Int) /\ Len(list) = Len(t) + 1 /\ list[1] = SMK
      /\ \A i \in 1 .. Len(t) : list[i + 1] = t[i]
  <2>1. /\ <<SMK>> \o t \in Seq(Int) /\ Len(<<SMK>> \o t) = Len(t) + 1 /\ (<<SMK>> \o t)[1] = SMK
    BY <1>5 DEF SMK
  <2>2. \A i \in 1 .. Len(t) : (<<SMK>> \o t)[i + 1] = t[i]
    BY <1>5 DEF SMK
  <2> QED
    BY <1>4, <2>1, <2>2, Zenon
<1>7. Len(t) \in Nat
  BY <1>5
<1>8. ASSUME NEW i \in 1 .. Len(list), i # 1
      PROVE  i - 1 \in 1 .. Len(t) /\ list[i] = t[i - 1] /\ list[i] \in Homes
  <2>1. i - 1 \in 1 .. Len(t) /\ (i - 1) + 1 = i
    BY <1>6, <1>7, <1>8
  <2>2. list[(i - 1) + 1] = t[i - 1]
    BY <1>6, <2>1
  <2>3. t[i - 1] \in Homes
    BY <1>3, <2>1
  <2> QED
    BY <2>1, <2>2, <2>3
<1>9. Distinct(list)
  <2> SUFFICES ASSUME NEW i \in 1 .. Len(list), NEW j \in 1 .. Len(list), list[i] = list[j] PROVE i = j
    BY DEF Distinct
  <2>1. CASE i = 1 \/ j = 1
    BY <1>2, <1>6, <1>8, <2>1
  <2>2. CASE i # 1 /\ j # 1
    <3>1. i - 1 = j - 1
      BY <1>3, <1>8, <2>2 DEF Distinct
    <3> QED
      BY <1>6, <1>7, <3>1
  <2> QED
    BY <2>1, <2>2
<1>10. ASSUME NEW p, p \in table PROVE Among(p, list)
  <2>1. CASE p = SMK
    <3>1. 1 \in 1 .. Len(list)
      BY <1>6, <1>7
    <3> QED
      BY <1>6, <2>1, <3>1 DEF Among
  <2>2. CASE p \in Homes
    <3>1. PICK i \in 1 .. Len(t) : t[i] = p
      BY <1>3, <2>2 DEF Among
    <3>2. i + 1 \in 1 .. Len(list)
      BY <1>6, <1>7
    <3> QED
      BY <1>6, <3>1, <3>2 DEF Among
  <2> QED
    BY <1>4, <1>10, <2>1, <2>2
<1>11. ASSUME NEW p, Among(p, list) PROVE p \in table
  BY <1>4, <1>6, <1>8, <1>11 DEF Among
<1>12. Family
  <2>1. ASSUME NEW p \in table \ {SMK} PROVE parent[p] \in table /\ parent[p] < p
    <3>1. p \in Homes /\ p \in Pid
      BY <1>4, HomesArePids
    <3>2. parent[p] = SMK
      BY <1>4, <3>1
    <3> QED
      BY <1>1, <1>4, <3>1, <3>2 DEF SMK
  <2> QED
    BY <2>1 DEF Family
<1> QED
  BY <1>4, <1>6, <1>7, <1>9, <1>10, <1>11, <1>12 DEF TreeInv, Listed

LEMMA InsertTree ==
  ASSUME IInv, ArgInv, PidInv, EndInv, TreeInv, NEW u \in User, u \notin killed, insert_process(u)
  PROVE  TreeInv'
<1> DEFINE p == new[u]
<1>1. /\ list' = InsertAt(list, 2, p) /\ table' = table \cup {p} /\ parent' = [parent EXCEPT ![p] = Home[u]]
      /\ pc[u] = "insert"
  BY DEF insert_process
<1>2. Child(u) /\ Made(u) /\ Numbers
  BY <1>1 DEF Child, PidInv
<1>3. p \in Pid /\ p \notin table /\ p \notin Homes /\ p \in Int /\ p >= 2
  BY <1>1, <1>2, ChildPid DEF Made, Pid
<1>4. Home[u] \in table /\ Home[u] \in Homes
  BY <1>1, HomeListed DEF Homes, Over
<1>5. Home[u] < p
  <2>1. PICK n \in 1 .. MaxPid : Homes = 2 .. n
    BY ProcessesAssumption DEF Homes
  <2> QED
    BY <1>3, <1>4, <2>1
<1>6. /\ list' \in Seq(Int) /\ Len(list') >= 1 /\ list'[1] = list[1] /\ Distinct(list')
      /\ \A x : Among(x, list') <=> Among(x, list) \/ x = p
  <2>1. list \in Seq(Int) /\ Len(list) >= 1 /\ Distinct(list) /\ ~ Among(p, list)
    BY <1>3 DEF TreeInv, Listed
  <2> HIDE DEF p
  <2> QED
    BY <1>1, <1>3, <2>1, InsertDistinct
<1> HIDE DEF p
<1>7. Listed'
  <2>1. \A x : x \in table' <=> Among(x, list')
    BY <1>1, <1>6 DEF TreeInv, Listed
  <2>2. list'[1] = SMK
    BY <1>6 DEF TreeInv, Listed
  <2>3. list' \in Seq(Int) /\ Len(list') >= 1 /\ Distinct(list')
    BY <1>6
  <2> QED
    BY <2>1, <2>2, <2>3 DEF Listed, Distinct, Among
<1>8. DOMAIN parent' = Pid /\ Family'
  <2>1. DOMAIN parent' = Pid /\ \A q \in Pid : parent'[q] = IF q = p THEN Home[u] ELSE parent[q]
    BY <1>1, <1>3 DEF TreeInv
  <2>2. ASSUME NEW q \in table' \ {SMK} PROVE parent'[q] \in table' /\ parent'[q] < q
    <3>1. CASE q = p
      BY <1>1, <1>3, <1>4, <1>5, <2>1, <3>1
    <3>2. CASE q # p
      <4>1. q \in table \ {SMK} /\ q \in Pid
        BY <1>1, <1>2, <3>2, ProcessesAssumption DEF Numbers, Pid
      <4> QED
        BY <1>1, <2>1, <3>2, <4>1 DEF TreeInv, Family
    <3> QED
      BY <3>1, <3>2
  <2> QED
    BY <2>1, <2>2 DEF Family
<1> QED
  BY <1>7, <1>8 DEF TreeInv

LEMMA RemoveTree ==
  ASSUME IInv, ArgInv, PidInv, EndInv, LockInv, TreeInv, NEW c \in Cpu, remove_process(c)
  PROVE  TreeInv'
<1> DEFINE p == Job(c)[1]
           k == CHOOSE i \in DOMAIN list : list[i] = p
<1>1. /\ list' = RemoveAt(list, k) /\ table' = table \ {p} /\ pc[c] = "remove"
      /\ parent' = [q \in Pid |-> IF parent[q] = p THEN parent[p] ELSE IF q = p THEN 0 ELSE parent[q]]
  BY DEF remove_process
<1>2. p \in table /\ p \in Homes /\ p \in Pid /\ p # SMK
  <2>1. arg[c].pid = p /\ p \in Homes /\ p \in Pid
    BY <1>1, Exclusive DEF Collecting
  <2>2. p \in table
    BY <1>1, <2>1, CpusAct DEF LockInv, Using, Reaching
  <2>3. p # SMK
    BY <2>1 DEF PidInv, Numbers, SMK
  <2> QED
    BY <2>1, <2>2, <2>3
<1>3. list \in Seq(Int) /\ Distinct(list) /\ Len(list) >= 1 /\ list[1] = SMK /\ Among(p, list)
  BY <1>2 DEF TreeInv, Listed
<1>4. k \in 2 .. Len(list) /\ list[k] = p
  <2>1. DOMAIN list = 1 .. Len(list) /\ Len(list) \in Nat
    BY <1>3
  <2>2. \E i \in DOMAIN list : list[i] = p
    BY <1>3, <2>1 DEF Among
  <2>3. k \in DOMAIN list /\ list[k] = p
    BY <2>2
  <2> HIDE DEF k, p
  <2>4. k # 1
    BY <1>2, <1>3, <2>3
  <2> QED
    BY <2>1, <2>3, <2>4
<1> HIDE DEF k
<1>5. /\ list' \in Seq(Int) /\ Len(list') >= 1 /\ list'[1] = list[1] /\ Distinct(list')
      /\ \A x : Among(x, list') <=> Among(x, list) /\ x # list[k]
  BY <1>1, <1>3, <1>4, RemoveDistinct
<1> HIDE DEF p
<1>6. Listed'
  <2>1. \A x : x \in table' <=> Among(x, list')
    BY <1>1, <1>4, <1>5 DEF TreeInv, Listed
  <2>2. list'[1] = SMK
    BY <1>5 DEF TreeInv, Listed
  <2>3. list' \in Seq(Int) /\ Len(list') >= 1 /\ Distinct(list')
    BY <1>5
  <2> QED
    BY <2>1, <2>2, <2>3 DEF Listed, Distinct, Among
<1>7. Family'
  <2>1. table \subseteq Pid /\ Pid \subseteq Int
    BY ProcessesAssumption DEF PidInv, Numbers, Pid
  <2>2. parent[p] \in table /\ parent[p] < p
    BY <1>2 DEF TreeInv, Family
  <2>3. ASSUME NEW q \in table' \ {SMK} PROVE parent'[q] \in table' /\ parent'[q] < q
    <3>1. q \in table \ {SMK} /\ q # p /\ q \in Pid
      BY <1>1, <2>1
    <3>2. parent[q] \in table /\ parent[q] < q
      BY <3>1 DEF TreeInv, Family
    <3>3. parent'[q] = IF parent[q] = p THEN parent[p] ELSE parent[q]
      BY <1>1, <3>1
    <3>4. parent[p] # p /\ p \in Int /\ q \in Int /\ parent[p] \in Int
      <4>1. p \in Int /\ q \in Int /\ parent[p] \in Int
        BY <1>2, <2>1, <2>2, <3>1, Zenon
      <4>2. ASSUME NEW x \in Int, NEW y \in Int, x < y PROVE x # y
        BY <4>2
      <4> QED
        BY <2>2, <4>1, <4>2
    <3>5. parent[q] = p => parent[p] < q
      BY <2>2, <3>2, <3>4
    <3> QED
      BY <1>1, <2>2, <3>2, <3>3, <3>4, <3>5
  <2> QED
    BY <2>3 DEF Family
<1>8. DOMAIN parent' = Pid
  BY <1>1
<1> QED
  BY <1>6, <1>7, <1>8 DEF TreeInv

LEMMA StepTree ==
  ASSUME IInv, ArgInv, PidInv, EndInv, LockInv, TreeInv, [Next]_vars
  PROVE  TreeInv'
<1>1. ASSUME UNCHANGED <<table, list, parent>> PROVE TreeInv'
  BY <1>1 DEF TreeInv, Listed, Family, Distinct, Among
<1>2. CASE Quiet
  BY <1>1, <1>2, QuietStep
<1>3. ASSUME NEW u \in User, UserActs(u) PROVE TreeInv'
  <2>1. CASE insert_process(u)
    BY <1>3, <2>1, InsertTree DEF UserActs
  <2>2. CASE new_process(u)
    BY <1>1, <2>2 DEF new_process
  <2>3. CASE ~ insert_process(u) /\ ~ new_process(u)
    BY <1>1, <1>3, <2>3, ChildMoves
  <2> QED
    BY <2>1, <2>2, <2>3
<1>4. ASSUME NEW c \in Cpu, CpuActs(c) PROVE TreeInv'
  <2>1. CASE remove_process(c)
    BY <2>1, RemoveTree
  <2>2. CASE ~ remove_process(c)
    BY <1>1, <1>4, <2>2 DEF CpuActs, treeVars, checkout_table, checkout_lock, gc_peek, gc_next, gc_do_thread, gc_wait,
       gc_do_process, delete_threads, gc_release, delete_process
  <2> QED
    BY <2>1, <2>2
<1> QED
  BY <1>2, <1>3, <1>4, Steps

-----------------------------------------------------------------------------
LocksInv == IInv /\ ArgInv /\ PidInv /\ EndInv /\ LockInv /\ TreeInv

(* From boot on, and whatever step is taken, all the layers hold. *)
THEOREM LocksInductive == Spec => []LocksInv
<1>1. Init => LocksInv
  BY InitInv, InitArg, InitPid, InitEnd, InitLocks, InitTree DEF LocksInv
<1>2. LocksInv /\ [Next]_vars => LocksInv'
  <2> SUFFICES ASSUME LocksInv, [Next]_vars PROVE LocksInv'
    OBVIOUS
  <2>1. IInv' /\ ArgInv' /\ PidInv'
    BY NextInv, StepArg, StepPid DEF LocksInv
  <2>2. EndInv' /\ LockInv' /\ TreeInv'
    BY KillsAlone, StepEnd, StepLocks, StepTree DEF LocksInv
  <2> QED
    BY <2>1, <2>2 DEF LocksInv
<1> QED
  BY <1>1, <1>2, PTL DEF Spec

(* The warning above delete_process in gc.c: no process is used or waited  *)
(* for after it has been freed, for any number of threads and processors.  *)
THEOREM NeverUsedAfterDelete == Spec => []NoUseAfterDelete
<1>1. LocksInv => NoUseAfterDelete
  <2> SUFFICES ASSUME LocksInv, NEW p \in deleted, NEW a \in Actor
               PROVE  /\ held[a][p] = 0
                      /\ ~ (pc[a] \in {"co_lock", "commit", "clone", "cloned", "spawn"} /\ arg[a].pid = p)
    BY DEF NoUseAfterDelete
  <2>1. p \in Pid /\ p \notin table /\ p \in Lock /\ p # TABLE
    <3>1. p \in 2 .. l_PID - 1 /\ l_PID \in 2 .. MaxPid + 1 /\ p \notin table /\ MaxPid \in Nat
      BY ProcessesAssumption DEF LocksInv, PidInv, Numbers
    <3>2. p \in Pid
      BY <3>1 DEF Pid
    <3> QED
      BY <3>1, <3>2, Locks
  <2>2. Using(a) /\ held[a][p] = Holds(a, p)
    BY <2>1 DEF LocksInv, LockInv, HeldAt
  <2>3. p \notin Procs(a)
    <3>1. CASE pc[a] \in Reaching \cup {"delete"} /\ pc[a] \notin {"cloned", "spawn", "co_lock"}
      BY <2>1, <2>2, <3>1 DEF Using, Procs, Reaching
    <3>2. CASE pc[a] \in {"cloned", "spawn", "co_lock", "co_table"}
      <4>1. CASE a \in User
        <5>1. Child(a) => new[a] \in table
          BY <3>2, <4>1, ChildPid DEF LocksInv
        <5>2. pc[a] = "cloned" => Home[a] \in table
          BY <2>2, <4>1 DEF LocksInv, ArgInv, Asks, Using, Reaching
        <5> QED
          BY <2>1, <3>2, <5>1, <5>2 DEF Procs, Child
      <4>2. CASE a \in Cpu
        <5>1. pc[a] \in Working /\ arg[a].then \in {"gc_process", "gc_thread"}
          BY <3>2, <4>2 DEF LocksInv, ArgInv, Works
        <5> QED
          BY <3>2, <5>1 DEF Procs, Working
      <4> QED
        BY <4>1, <4>2 DEF Actor
    <3>3. CASE pc[a] \notin Reaching \cup {"delete", "co_table"}
      BY <3>3 DEF Procs, Reaching
    <3> QED
      BY <3>1, <3>2, <3>3
  <2> QED
    BY <2>1, <2>2, <2>3 DEF Holds, Using, Reaching
<1> QED
  BY <1>1, LocksInductive, PTL

(* Every checkout is matched by a commit or a release: who is outside the  *)
(* kernel or between two jobs holds no lock, a writer is alone and readers *)
(* are never counted short, though decrements are lost and threads deleted *)
(* with locks in their hands, for any number of threads and processors.    *)
THEOREM AllMatched == Spec => []Matched
<1>1. LocksInv => Matched
  <2> SUFFICES ASSUME LocksInv PROVE Matched
    OBVIOUS
  <2>1. ASSUME NEW a \in Actor, NEW l \in Lock,
               pc[a] \in {"user", "entering", "kernel", "leave", "dormant", "finished", "gc_peek", "gc_next"}
        PROVE  held[a][l] = 0
    BY <2>1 DEF LocksInv, LockInv, HeldAt, Holds, Tab, Procs
  <2>2. ASSUME NEW l \in Lock \ deleted, NEW holders, holders = {a \in Actor : held[a][l] > 0}
        PROVE  IF lock[l].writers = 1 THEN Cardinality(holders) = 1 /\ lock[l].readers = 0
               ELSE lock[l].readers >= Cardinality({x \in holders \X (1 .. 2) : x[2] <= held[x[1]][l]})
    <3>1. LockOK(l) /\ \A a \in Actor : held[a][l] \in 0 .. 2
      BY HeldRange DEF LocksInv, LockInv
    <3>2. CASE lock[l].writers = 1
      <4>1. PICK a \in Actor : held[a][l] = 1 /\ \A b \in Actor \ {a} : held[b][l] = 0
        BY <3>1, <3>2 DEF LockOK
      <4>2. holders = {a}
        BY <2>2, <4>1
      <4>3. Cardinality(holders) = 1
        BY <4>2, FS_Singleton
      <4> QED
        BY <3>1, <3>2, <4>3 DEF LockOK
    <3>3. CASE lock[l].writers # 1
      <4>1. {x \in holders \X (1 .. 2) : x[2] <= held[x[1]][l]} = Units(l)
        <5>1. ASSUME NEW x \in Actor \X (1 .. 2), x[2] <= held[x[1]][l] PROVE x \in holders \X (1 .. 2)
          <6>1. x[1] \in Actor /\ x[2] \in 1 .. 2 /\ x = <<x[1], x[2]>>
            OBVIOUS
          <6>2. held[x[1]][l] > 0
            BY <3>1, <5>1, <6>1
          <6>3. x[1] \in holders
            BY <2>2, <6>1, <6>2
          <6> QED
            BY <6>1, <6>3
        <5>2. holders \X (1 .. 2) \subseteq Actor \X (1 .. 2)
          BY <2>2
        <5> QED
          BY <5>1, <5>2 DEF Units
      <4> QED
        BY <3>1, <3>3, <4>1 DEF LockOK
    <3> QED
      BY <3>2, <3>3
  <2> QED
    BY <2>1, <2>2 DEF Matched
<1> QED
  BY <1>1, LocksInductive, PTL

(* The table, the list and the tree of processes agree, and the asserts of *)
(* exec, gc_do_thread and gc_do_process hold, for any number of threads,   *)
(* processes and processors.                                               *)
THEOREM TableIsSound == Spec => []TableSound
<1>1. LocksInv => TableSound
  <2> SUFFICES ASSUME LocksInv PROVE TableSound
    OBVIOUS
  <2>1. IsInjective(list) /\ {list[i] : i \in 1 .. Len(list)} = table /\ list[1] = SMK
    <3>1. Listed
      BY DEF LocksInv, TreeInv
    <3>2. DOMAIN list = 1 .. Len(list)
      BY <3>1 DEF Listed
    <3> QED
      BY <3>1, <3>2 DEF Listed, Distinct, Among, IsInjective
  <2>2. \A p \in table \ {SMK} : parent[p] \in table
    BY DEF LocksInv, TreeInv, Family
  <2>3. \A u \in User \ killed : pc[u] # "finished" => Home[u] \in table
    BY HomeListed DEF LocksInv, Over
  <2>4. ASSUME NEW c \in Cpu
        PROVE  /\ pc[c] \in {"gc_process", "gc_kill"} => state[Job(c)[1]] = "FINISHING"
               /\ pc[c] = "gc_thread" => pc[Job(c)[2]] = "finished"
    BY ProcessMarked, ThreadThere DEF LocksInv
  <2> QED
    BY <2>1, <2>2, <2>3, <2>4 DEF TableSound
<1> QED
  BY <1>1, LocksInductive, PTL
=============================================================================
