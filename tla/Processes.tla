------------------------------ MODULE Processes ------------------------------
(***************************************************************************)
(* processes/process.c, gc.c, exec.c and the entry of syscalls.c: the      *)
(* table of processes, its reader-writer lock and the lock of every        *)
(* process, taken together by checkout_process; threads of user processes  *)
(* that start, list and look at processes and end themselves or their      *)
(* process; and the garbage collector thread of every processor.  The      *)
(* calls of gc_queue are those of old.syscalls.                            *)
(***************************************************************************)
EXTENDS Integers, Sequences, SequencesExt, FiniteSets

CONSTANTS User,      \* threads of user processes
          Home,      \* their process: User -> pid
          Cpu,       \* processors; each stands for its garbage collector too
          MAX_GC,    \* slots of a garbage ring, 32 in the code
          MaxPid,    \* bound on the processes ever made
          MaxReaders \* bound: a lock with more readers loses no release

SMK == 1             \* the pid of the root process
TABLE == 0           \* the name of l_processLock among the locks
WHOLE == "WHOLE"     \* the tid of -1: the process is to be destroyed

(* Threads and processors are different actors, and no user thread belongs *)
(* to smk; next_pid has numbered the processes of boot one after the other.*)
ASSUME ProcessesAssumption ==
  /\ IsFiniteSet(User) /\ IsFiniteSet(Cpu) /\ User \cap Cpu = {} /\ WHOLE \notin User
  /\ MAX_GC \in Nat \ {0} /\ MaxPid \in Nat \ {0} /\ MaxReaders \in Nat
  /\ Home \in [User -> 2 .. MaxPid]
  /\ \E n \in 1 .. MaxPid : {Home[u] : u \in User} = 2 .. n

Actor == User \cup Cpu
Pid == 1 .. MaxPid
Lock == {TABLE} \cup Pid

VARIABLES table,           \* pids in l_processTable
          list,            \* the linear list, from the root process
          parent,          \* the family tree
          l_PID,
          state, kernel_threads, threads, cmdline,   \* of each process
          lock,            \* num_readers, num_writers and write_request of each lock
          qdata,           \* the garbage ring of each processor
          pc, arg, new,    \* where each actor is, what it checks out, what it started
          killed,          \* threads the collector has deleted, wherever they were
          held,            \* history: how often each actor holds each lock
          deleted          \* history: processes whose memory is freed

procVars == <<state, kernel_threads, threads, cmdline>>
treeVars == <<table, list, parent, l_PID>>
lockVars == <<lock, held>>
vars == <<table, list, parent, l_PID, state, kernel_threads, threads, cmdline,
          lock, qdata, pc, arg, new, killed, held, deleted>>

(* After boot: smk is the root, and every user process is a child of it.   *)
Init ==
  LET homes == {Home[u] : u \in User} IN
  /\ table = {SMK} \cup homes
  /\ list = <<SMK>> \o SetToSeq(homes)
  /\ parent = [p \in Pid |-> IF p \in homes THEN SMK ELSE 0]
  /\ l_PID = 2 + Cardinality(homes)
  /\ state = [p \in Pid |-> IF p \in homes THEN "RUNNING" ELSE "INIT"]
  /\ kernel_threads = [p \in Pid |-> 0]
  /\ threads = [p \in Pid |-> {u \in User : Home[u] = p}]
  /\ cmdline = [p \in Pid |-> p \in table]
  /\ lock = [l \in Lock |-> [readers |-> 0, writers |-> 0, request |-> 0]]
  /\ qdata = [c \in Cpu |-> [info |-> [i \in 0 .. MAX_GC - 1 |-> <<0, WHOLE>>], pos |-> 0, size |-> 0]]
  /\ pc = [a \in Actor |-> IF a \in User THEN "user" ELSE "gc_peek"]
  /\ arg = [a \in Actor |-> [pid |-> 0, mode |-> "READER", then |-> "leave"]]
  /\ new = [u \in User |-> 0]
  /\ killed = {}
  /\ held = [a \in Actor |-> [l \in Lock |-> 0]]
  /\ deleted = {}

Go(a, label) == pc' = [pc EXCEPT ![a] = label]

-----------------------------------------------------------------------------
(* The locks, as ds/rwlock.c takes and releases them. *)
CanRead(l) == lock[l].writers = 0 /\ lock[l].request = 0
CanWrite(l) == lock[l].readers = 0 /\ lock[l].writers = 0

Read(a, l) ==
  /\ CanRead(l)
  /\ lock' = [lock EXCEPT ![l].readers = @ + 1]
  /\ held' = [held EXCEPT ![a][l] = @ + 1]

Write(a, l) ==
  /\ CanWrite(l)
  /\ lock' = [lock EXCEPT ![l].writers = 1]
  /\ held' = [held EXCEPT ![a][l] = @ + 1]

Released(lk) ==
  IF lk.writers # 0 THEN [lk EXCEPT !.writers = 0, !.request = 0] ELSE [lk EXCEPT !.readers = @ - 1]

(* b is in rwlock_get_read_access, which adds to num_readers in two steps  *)
(* (RWLock): the decrement of a reader that leaves in between is lost.     *)
Reads(b, l) ==
  /\ CanRead(l)
  /\ \/ pc[b] = "co_table" /\ l = TABLE
     \/ pc[b] = "co_lock" /\ arg[b].mode = "READER" /\ l = arg[b].pid

(* What rwlock_release of l by a may leave. *)
Release(a, l) ==
  {Released(lock[l])} \cup
  {lk \in {lock[l]} : lk.readers \in 1 .. MaxReaders /\ \E b \in Actor \ (killed \cup {a}) : Reads(b, l)}

(* Fault: the lock of the table is kept. *)
CommitKeepsTable(a, p) ==
  /\ \E lk \in Release(a, p) : lock' = [lock EXCEPT ![p] = lk]
  /\ held' = [held EXCEPT ![a][p] = @ - 1]

(* commit_process: the lock of p, then the one of the table. *)
commit_process(a, p) ==
  /\ \E lk \in Release(a, p), tab \in Release(a, TABLE) :
       lock' = [lock EXCEPT ![p] = lk, ![TABLE] = tab]
  /\ held' = [held EXCEPT ![a][p] = @ - 1, ![a][TABLE] = @ - 1]

(* release_processes. *)
release_processes(a) ==
  /\ \E tab \in Release(a, TABLE) : lock' = [lock EXCEPT ![TABLE] = tab]
  /\ held' = [held EXCEPT ![a][TABLE] = @ - 1]

(* The lock that a asks for writing where it is. *)
Wants(a) ==
  CASE pc[a] \in {"insert", "remove", "list"} -> TABLE
    [] pc[a] = "co_lock" /\ arg[a].mode = "WRITER" -> arg[a].pid
    [] OTHER -> -1

(* rwlock_get_write_access finds the lock taken. *)
Request(a) ==
  LET l == Wants(a) IN
  /\ l # -1
  /\ ~ CanWrite(l) /\ lock[l].request = 0
  /\ lock' = [lock EXCEPT ![l].request = 1]
  /\ UNCHANGED <<treeVars, procVars, qdata, pc, arg, new, held, deleted, killed>>

-----------------------------------------------------------------------------
(* checkout_process( pid, mode ), after which a goes on at then. *)
Checkout(a, pid, mode, then) ==
  /\ arg' = [arg EXCEPT ![a] = [pid |-> pid, mode |-> mode, then |-> then]]
  /\ Go(a, "co_table")

checkout_table(a) ==
  /\ pc[a] = "co_table"
  /\ CanRead(TABLE)
  /\ IF arg[a].pid \in table
     THEN Read(a, TABLE) /\ Go(a, "co_lock")
     ELSE Go(a, IF a \in User THEN "leave" ELSE "gc_next") /\ UNCHANGED lockVars
  /\ UNCHANGED <<treeVars, procVars, qdata, arg, new, deleted, killed>>

checkout_lock(a) ==
  /\ pc[a] = "co_lock"
  /\ IF arg[a].mode = "READER" THEN Read(a, arg[a].pid) ELSE Write(a, arg[a].pid)
  /\ Go(a, arg[a].then)
  /\ UNCHANGED <<treeVars, procVars, qdata, arg, new, deleted, killed>>

-----------------------------------------------------------------------------
(* syscall: threads of a process that is ending never enter the kernel ... *)
syscall_check(u) ==
  /\ pc[u] = "user"
  /\ state[Home[u]] # "FINISHING"
  /\ Go(u, "entering")
  /\ UNCHANGED <<treeVars, procVars, lockVars, qdata, arg, new, deleted, killed>>

(* ... the others are counted while they are inside. *)
syscall_enter(u) ==
  /\ pc[u] = "entering"
  /\ kernel_threads' = [kernel_threads EXCEPT ![Home[u]] = @ + 1]
  /\ Go(u, "kernel")
  /\ UNCHANGED <<treeVars, state, threads, cmdline, lockVars, qdata, arg, new, deleted, killed>>

syscall_leave(u) ==
  /\ pc[u] = "leave"
  /\ kernel_threads' = [kernel_threads EXCEPT ![Home[u]] = @ - 1]
  /\ Go(u, "user")
  /\ UNCHANGED <<treeVars, state, threads, cmdline, lockVars, qdata, arg, new, deleted, killed>>

(* What a thread may ask of the kernel: to look at or change a process, or *)
(* to end its process or itself; each of them checks a process out.        *)
Begin(u) ==
  /\ pc[u] = "kernel"
  /\ \/ \E p \in Pid, mode \in {"READER", "WRITER"} : Checkout(u, p, mode, "commit")
     \/ \E then \in {"exit_process", "exit_thread"} : Checkout(u, Home[u], "WRITER", then)
  /\ UNCHANGED <<treeVars, procVars, lockVars, qdata, new, deleted, killed>>

Commit(u) ==
  /\ pc[u] = "commit"
  /\ commit_process(u, arg[u].pid)
  /\ Go(u, "leave")
  /\ UNCHANGED <<treeVars, procVars, qdata, arg, new, deleted, killed>>

(* go_dormant without a timeout, its own process committed: a thread that  *)
(* sleeps is not counted, whoever wakes it.                                *)
Sleep(u) ==
  /\ pc[u] = "leave"
  /\ arg[u] = [pid |-> Home[u], mode |-> "WRITER", then |-> "commit"]
  /\ kernel_threads' = [kernel_threads EXCEPT ![Home[u]] = @ - 1]
  /\ Go(u, "dormant")
  /\ UNCHANGED <<treeVars, state, threads, cmdline, lockVars, qdata, arg, new, deleted, killed>>

Wake(u) ==
  /\ pc[u] = "dormant"
  /\ kernel_threads' = [kernel_threads EXCEPT ![Home[u]] = @ + 1]
  /\ Go(u, "leave")
  /\ UNCHANGED <<treeVars, state, threads, cmdline, lockVars, qdata, arg, new, deleted, killed>>

(* process_get_list, process_foreach: the list, locked for writing. *)
BeginList(u) ==
  /\ pc[u] = "kernel"
  /\ Go(u, "list")
  /\ UNCHANGED <<treeVars, procVars, lockVars, qdata, arg, new, deleted, killed>>

process_get_list(u) ==
  /\ pc[u] = "list"
  /\ CanWrite(TABLE)
  /\ lock' = [lock EXCEPT ![TABLE] = Released([@ EXCEPT !.writers = 1])]
  /\ Go(u, "leave")
  /\ UNCHANGED <<treeVars, procVars, held, qdata, arg, new, deleted, killed>>

-----------------------------------------------------------------------------
(* exec_memory_region, called for a child of the caller's process: a pid   *)
(* from next_pid; loading the image may fail.                              *)
next_pid ==
  CHOOSE p \in l_PID .. MaxPid + 1 : p \notin table /\ \A q \in l_PID .. p - 1 : q \in table

new_process(u) ==
  /\ pc[u] = "kernel" /\ next_pid <= MaxPid
  /\ l_PID' = next_pid + 1
  /\ \/ new' = [new EXCEPT ![u] = next_pid] /\ Go(u, "insert") /\ UNCHANGED deleted
     \/ Go(u, "leave") /\ deleted' = deleted \cup {next_pid} /\ UNCHANGED new
  /\ UNCHANGED <<table, list, parent, procVars, lockVars, qdata, arg, killed>>

insert_process(u) ==
  LET p == new[u] IN
  /\ pc[u] = "insert"
  /\ CanWrite(TABLE)
  /\ lock' = [lock EXCEPT ![TABLE] = Released([@ EXCEPT !.writers = 1])]
  /\ table' = table \cup {p}
  /\ list' = InsertAt(list, 2, p)
  /\ parent' = [parent EXCEPT ![p] = Home[u]]
  /\ Checkout(u, p, "WRITER", "clone")
  /\ UNCHANGED <<l_PID, procVars, held, qdata, new, deleted, killed>>

(* The child is locked; to copy its environment the parent is as well. *)
CloneFrom(u) ==
  /\ pc[u] = "clone"
  /\ Checkout(u, Home[u], "READER", "cloned")
  /\ UNCHANGED <<treeVars, procVars, lockVars, qdata, new, deleted, killed>>

CloneDone(u) ==
  /\ pc[u] = "cloned"
  /\ commit_process(u, Home[u])
  /\ Go(u, "spawn")
  /\ UNCHANGED <<treeVars, procVars, qdata, arg, new, deleted, killed>>

Spawn(u) ==
  /\ pc[u] = "spawn"
  /\ cmdline' = [cmdline EXCEPT ![new[u]] = TRUE]
  /\ commit_process(u, new[u])
  /\ Go(u, "leave")
  /\ UNCHANGED <<treeVars, state, kernel_threads, threads, qdata, arg, new, deleted, killed>>

-----------------------------------------------------------------------------
(* gc_queue on the caller's processor; while the ring is full the caller   *)
(* yields and tries again, with its process checked out.                   *)
gc_queue(u, c, tid) ==
  LET q == qdata[c] IN
  /\ q.size # MAX_GC
  /\ qdata' = [qdata EXCEPT ![c].info[(q.pos + q.size) % MAX_GC] = <<Home[u], tid>>, ![c].size = @ + 1]

QueueProcess(u) ==
  /\ pc[u] = "exit_process"
  /\ \E c \in Cpu : gc_queue(u, c, WHOLE)
  /\ Go(u, "finish_process")
  /\ UNCHANGED <<treeVars, procVars, lockVars, arg, new, deleted, killed>>

QueueThread(u) ==
  /\ pc[u] = "exit_thread"
  /\ \E c \in Cpu : gc_queue(u, c, u)
  /\ Go(u, "finish_thread")
  /\ UNCHANGED <<treeVars, procVars, lockVars, arg, new, deleted, killed>>

(* The caller is no longer counted and never runs again. *)
Finish(u) ==
  /\ pc[u] \in {"finish_process", "finish_thread"}
  /\ kernel_threads' = [kernel_threads EXCEPT ![Home[u]] = @ - 1]
  /\ state' = [state EXCEPT ![Home[u]] = IF pc[u] = "finish_process" THEN "FINISHING" ELSE @]
  /\ commit_process(u, Home[u])
  /\ Go(u, "finished")
  /\ UNCHANGED <<treeVars, threads, cmdline, qdata, arg, new, deleted, killed>>

-----------------------------------------------------------------------------
(* gc: the oldest entry of the ring stays there until it is done. *)
Job(c) == qdata[c].info[qdata[c].pos]

gc_peek(c) ==
  /\ pc[c] = "gc_peek"
  /\ qdata[c].size # 0
  /\ Checkout(c, Job(c)[1], "WRITER", IF Job(c)[2] = WHOLE THEN "gc_process" ELSE "gc_thread")
  /\ UNCHANGED <<treeVars, procVars, lockVars, qdata, new, deleted, killed>>

gc_next(c) ==
  /\ pc[c] = "gc_next"
  /\ qdata' = [qdata EXCEPT ![c].pos = (@ + 1) % MAX_GC, ![c].size = @ - 1]
  /\ Go(c, "gc_peek")
  /\ UNCHANGED <<treeVars, procVars, lockVars, arg, new, deleted, killed>>

(* gc_do_thread: when the thread is gone already, nothing is committed. *)
gc_do_thread(c) ==
  LET p == Job(c)[1]  u == Job(c)[2] IN
  /\ pc[c] = "gc_thread"
  /\ IF u \in threads[p]
     THEN /\ threads' = [threads EXCEPT ![p] = @ \ {u}]
          /\ commit_process(c, p)
     ELSE UNCHANGED <<threads, lock, held>>
  /\ Go(c, "gc_next")
  /\ UNCHANGED <<treeVars, state, kernel_threads, cmdline, qdata, arg, new, deleted, killed>>

(* gc_do_process: threads are still in the kernel, try again. *)
gc_wait(c) ==
  LET p == Job(c)[1] IN
  /\ pc[c] = "gc_process"
  /\ kernel_threads[p] # 0
  /\ commit_process(c, p)
  /\ Go(c, "co_table")
  /\ UNCHANGED <<treeVars, procVars, qdata, arg, new, deleted, killed>>

(* No thread is inside, as kernel_threads says: the process is the         *)
(* collector's, and its threads are deleted one after the other, wherever  *)
(* they are by then; set_thread_state stops each one first.                *)
gc_do_process(c) ==
  /\ pc[c] = "gc_process"
  /\ kernel_threads[Job(c)[1]] = 0
  /\ Go(c, "gc_kill")
  /\ UNCHANGED <<treeVars, procVars, lockVars, qdata, arg, new, deleted, killed>>

delete_threads(c) ==
  LET p == Job(c)[1] IN
  /\ pc[c] = "gc_kill"
  /\ \E u \in threads[p] :
       /\ threads' = [threads EXCEPT ![p] = @ \ {u}]
       /\ killed' = killed \cup {u}
  /\ UNCHANGED <<treeVars, state, kernel_threads, cmdline, lockVars, qdata, pc, arg, new, deleted>>

(* All are: the table is let go of, and the lock of the process kept. *)
gc_release(c) ==
  /\ pc[c] = "gc_kill"
  /\ threads[Job(c)[1]] = {}
  /\ release_processes(c)
  /\ Go(c, "remove")
  /\ UNCHANGED <<treeVars, procVars, qdata, arg, new, deleted, killed>>

(* Fault: the table is changed with readers in it. *)
RemoveUnlocked(c) ==
  LET p == Job(c)[1] IN
  /\ pc[c] = "remove"
  /\ parent' = [q \in Pid |-> IF parent[q] = p THEN parent[p] ELSE IF q = p THEN 0 ELSE parent[q]]
  /\ list' = RemoveAt(list, CHOOSE i \in DOMAIN list : list[i] = p)
  /\ table' = table \ {p}
  /\ Go(c, "delete")
  /\ UNCHANGED <<l_PID, procVars, lockVars, qdata, arg, new, deleted, killed>>

(* Fault: the children of a removed process keep it as their parent. *)
RemoveNoAdopt(c) ==
  LET p == Job(c)[1] IN
  /\ pc[c] = "remove"
  /\ CanWrite(TABLE)
  /\ lock' = [lock EXCEPT ![TABLE] = Released([@ EXCEPT !.writers = 1])]
  /\ parent' = [parent EXCEPT ![p] = 0]
  /\ list' = RemoveAt(list, CHOOSE i \in DOMAIN list : list[i] = p)
  /\ table' = table \ {p}
  /\ Go(c, "delete")
  /\ UNCHANGED <<l_PID, procVars, held, qdata, arg, new, deleted, killed>>

(* remove_process: its children are adopted by its parent. *)
remove_process(c) ==
  LET p == Job(c)[1] IN
  /\ pc[c] = "remove"
  /\ CanWrite(TABLE)
  /\ lock' = [lock EXCEPT ![TABLE] = Released([@ EXCEPT !.writers = 1])]
  /\ parent' = [q \in Pid |-> IF parent[q] = p THEN parent[p] ELSE IF q = p THEN 0 ELSE parent[q]]
  /\ list' = RemoveAt(list, CHOOSE i \in DOMAIN list : list[i] = p)
  /\ table' = table \ {p}
  /\ Go(c, "delete")
  /\ UNCHANGED <<l_PID, procVars, held, qdata, arg, new, deleted, killed>>

(* delete_process frees the lock, which the collector still holds, and all. *)
delete_process(c) ==
  LET p == Job(c)[1] IN
  /\ pc[c] = "delete"
  /\ deleted' = deleted \cup {p}
  /\ held' = [held EXCEPT ![c][p] = 0]
  /\ Go(c, "gc_next")
  /\ UNCHANGED <<treeVars, procVars, lock, qdata, arg, new, killed>>

-----------------------------------------------------------------------------
Next ==
  \/ \E a \in Actor \ killed : Request(a) \/ checkout_table(a) \/ checkout_lock(a)
  \/ \E u \in User \ killed :
       \/ syscall_check(u) \/ syscall_enter(u) \/ syscall_leave(u)
       \/ Begin(u) \/ Commit(u) \/ Sleep(u) \/ Wake(u) \/ BeginList(u) \/ process_get_list(u)
       \/ new_process(u) \/ insert_process(u) \/ CloneFrom(u) \/ CloneDone(u) \/ Spawn(u)
       \/ QueueProcess(u) \/ QueueThread(u) \/ Finish(u)
  \/ \E c \in Cpu :
       \/ gc_peek(c) \/ gc_next(c) \/ gc_do_thread(c) \/ gc_wait(c) \/ gc_do_process(c)
       \/ delete_threads(c) \/ gc_release(c) \/ remove_process(c) \/ delete_process(c)

Spec == Init /\ [][Next]_vars

-----------------------------------------------------------------------------
(* The warning above delete_process in gc.c: "someone else could be        *)
(* acquiring it".  No one holds or waits for the lock of a freed process,  *)
(* and no one is about to touch it: who looks a process up keeps the table *)
(* from being written until it has committed.                              *)
NoUseAfterDelete ==
  \A p \in deleted, a \in Actor :
    /\ held[a][p] = 0
    /\ ~ (pc[a] \in {"co_lock", "commit", "clone", "cloned", "spawn"} /\ arg[a].pid = p)

(* gc_do_process: "Wait for all threads to exit the kernel."  No thread is *)
(* deleted inside the kernel, where it may hold locks.                     *)
InsideKept == \A u \in killed : pc[u] \in {"user", "entering", "dormant", "finished"}

(* Every checkout is matched: in user mode, or between two jobs of the     *)
(* collector, no lock is held, so the early return of gc_do_thread without *)
(* commit_process is never taken.  A lock has a writer exactly when one    *)
(* actor alone holds it, and never fewer readers than hold it, whatever    *)
(* decrements were lost and whoever was deleted with locks in its hands.   *)
Matched ==
  /\ \A a \in Actor :
       pc[a] \in {"user", "entering", "kernel", "leave", "dormant", "finished", "gc_peek", "gc_next"}
         => \A l \in Lock : held[a][l] = 0
  /\ \A l \in Lock \ deleted :
       LET holders == {a \in Actor : held[a][l] > 0} IN
       IF lock[l].writers = 1 THEN Cardinality(holders) = 1 /\ lock[l].readers = 0
       ELSE lock[l].readers >= Cardinality({x \in holders \X (1 .. 2) : x[2] <= held[x[1]][l]})

(* The table, the linear list from the root and the tree hold the same     *)
(* processes; every process but smk has a parent in the table, and so does *)
(* every thread that is not deleted or ended; those that the collector     *)
(* counts on (the asserts of gc_do_thread and gc_do_process) are in the    *)
(* right state.                                                            *)
TableSound ==
  /\ IsInjective(list) /\ {list[i] : i \in 1 .. Len(list)} = table /\ list[1] = SMK
  /\ \A p \in table \ {SMK} : parent[p] \in table
  /\ \A u \in User \ killed : pc[u] # "finished" => Home[u] \in table
  /\ \A c \in Cpu :
       /\ pc[c] \in {"gc_process", "gc_kill"} => state[Job(c)[1]] = "FINISHING"
       /\ pc[c] = "gc_thread" => pc[Job(c)[2]] = "finished"

(* process_get_list asserts that every process it meets has a CMD_LINE. *)
ListedHasCmdLine ==
  \A u \in User : pc[u] = "list" /\ CanWrite(TABLE) => \A p \in table : cmdline[p]
=============================================================================
