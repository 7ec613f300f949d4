------------------------------ MODULE RWLock ------------------------------
(***************************************************************************)
(* ds/rwlock.c: the reader-writer lock that guards the process table, every *)
(* process and every kernel allocator structure.                           *)
(*                                                                         *)
(* The two acquire functions work under a spinlock; rwlock_release() takes *)
(* no lock at all.  Each access to a shared word is therefore a step of    *)
(* its own.  The kernel is built with -O0, so "num_readers += 1" is a load *)
(* and a store, while atomic_inc and atomic_dec carry the lock prefix.     *)
(***************************************************************************)
EXTENDS Integers, FiniteSets

CONSTANTS Readers,     \* the threads of control that ask for read access
          Writers,     \* the threads of control that ask for write access
          MaxReaders   \* bound: no caller starts a read at this count

Proc == Readers \cup Writers

ASSUME ProcAssumption == IsFiniteSet(Readers) /\ IsFiniteSet(Writers)
ASSUME MaxReadersAssumption == MaxReaders \in Nat

VARIABLES num_readers,    \* struct rwlock
          num_writers,
          write_request,
          spinlock,
          pc,             \* where each caller is in the code
          loaded,         \* register of "num_readers += 1", line 59
          hold            \* history: what each caller has been granted

vars == <<num_readers, num_writers, write_request, spinlock, pc, loaded, hold>>

(* Program points.  Those of Critical lie between acquire_spinlock and     *)
(* release_spinlock.                                                       *)
WriteCritical == {"w_readers", "w_writers", "w_claim", "w_request",
                  "w_again", "w_leave"}
ReadCritical  == {"r_writers", "r_request", "r_load", "r_store",
                  "r_again", "r_leave"}
Critical == WriteCritical \cup ReadCritical
Releasing == {"release", "clear_request", "clear_writers", "dec"}
PC == {"out", "w_enter", "r_enter", "held"} \cup Critical \cup Releasing

Init ==
  /\ num_readers = 0 /\ num_writers = 0 /\ write_request = 0 /\ spinlock = 0
  /\ pc = [p \in Proc |-> "out"]
  /\ loaded = [p \in Proc |-> 0]
  /\ hold = [p \in Proc |-> "none"]

Goto(p, from, to) == pc[p] = from /\ pc' = [pc EXCEPT ![p] = to]

fields == <<num_readers, num_writers, write_request>>

-----------------------------------------------------------------------------
(* The callers: each may ask for access whenever it is outside. *)
CallWrite(p) ==
  /\ p \in Writers
  /\ Goto(p, "out", "w_enter")
  /\ UNCHANGED <<fields, spinlock, loaded, hold>>

CallRead(p) ==
  /\ p \in Readers
  /\ num_readers < MaxReaders
  /\ Goto(p, "out", "r_enter")
  /\ UNCHANGED <<fields, spinlock, loaded, hold>>

CallRelease(p) ==
  /\ Goto(p, "held", "release")
  /\ UNCHANGED <<fields, spinlock, loaded, hold>>

-----------------------------------------------------------------------------
(* acquire_spinlock: "lock btsl" succeeds only on a clear bit. *)
Acquire(p, from, to) ==
  /\ spinlock = 0
  /\ spinlock' = 1
  /\ Goto(p, from, to)
  /\ UNCHANGED <<fields, loaded, hold>>

(* release_spinlock: "lock btrl". *)
Drop(p, from, to) ==
  /\ spinlock' = 0
  /\ Goto(p, from, to)
  /\ UNCHANGED <<fields, loaded, hold>>

(* A test of a shared word. *)
Test(p, from, cond, yes, no) ==
  /\ Goto(p, from, IF cond THEN yes ELSE no)
  /\ UNCHANGED <<fields, spinlock, loaded, hold>>

-----------------------------------------------------------------------------
(* rwlock_get_write_access *)
WriteAcquire(p) == Acquire(p, "w_enter", "w_readers")

(* Fault: the writer does not look at num_readers. *)
WriteIgnoresReaders(p) == Test(p, "w_readers", TRUE, "w_writers", "w_request")

WriteTestReaders(p) == Test(p, "w_readers", num_readers = 0, "w_writers", "w_request")

WriteTestWriters(p) == Test(p, "w_writers", num_writers = 0, "w_claim", "w_request")

WriteClaim(p) ==
  /\ Goto(p, "w_claim", "w_leave")
  /\ num_writers' = num_writers + 1
  /\ hold' = [hold EXCEPT ![p] = "write"]
  /\ UNCHANGED <<num_readers, write_request, spinlock, loaded>>

WriteRequest(p) ==
  /\ Goto(p, "w_request", "w_again")
  /\ write_request' = 1
  /\ UNCHANGED <<num_readers, num_writers, spinlock, loaded, hold>>

WriteAgain(p) == Drop(p, "w_again", "w_enter")
WriteLeave(p) == Drop(p, "w_leave", "held")

-----------------------------------------------------------------------------
(* rwlock_get_read_access *)
ReadAcquire(p) == Acquire(p, "r_enter", "r_writers")

(* Fault: the reader does not look at num_writers. *)
ReadIgnoresWriters(p) == Test(p, "r_writers", TRUE, "r_request", "r_again")

ReadTestWriters(p) == Test(p, "r_writers", num_writers = 0, "r_request", "r_again")

ReadTestRequest(p) == Test(p, "r_request", write_request = 0, "r_load", "r_again")

ReadLoad(p) ==
  /\ Goto(p, "r_load", "r_store")
  /\ loaded' = [loaded EXCEPT ![p] = num_readers]
  /\ UNCHANGED <<fields, spinlock, hold>>

(* Fault: the first reader's count for every reader. *)
ReadStoresOne(p) ==
  /\ Goto(p, "r_store", "r_leave")
  /\ num_readers' = 1
  /\ hold' = [hold EXCEPT ![p] = "read"]
  /\ UNCHANGED <<num_writers, write_request, spinlock, loaded>>

ReadStore(p) ==
  /\ Goto(p, "r_store", "r_leave")
  /\ num_readers' = loaded[p] + 1
  /\ hold' = [hold EXCEPT ![p] = "read"]
  /\ UNCHANGED <<num_writers, write_request, spinlock, loaded>>

ReadAgain(p) == Drop(p, "r_again", "r_enter")
ReadLeave(p) == Drop(p, "r_leave", "held")

-----------------------------------------------------------------------------
(* Fault: the release decides by write_request. *)
ReleaseTestsRequest(p) == Test(p, "release", write_request # 0, "clear_request", "dec")

(* rwlock_release: one function for both kinds of holder, told apart only  *)
(* by num_writers, and without the spinlock.                               *)
ReleaseTest(p) == Test(p, "release", num_writers # 0, "clear_request", "dec")

(* Fault: the release leaves write_request set. *)
ReleaseKeepsRequest(p) ==
  /\ Goto(p, "clear_request", "clear_writers")
  /\ UNCHANGED <<fields, spinlock, loaded, hold>>

ReleaseClearRequest(p) ==
  /\ Goto(p, "clear_request", "clear_writers")
  /\ write_request' = 0
  /\ UNCHANGED <<num_readers, num_writers, spinlock, loaded, hold>>

ReleaseClearWriters(p) ==
  /\ Goto(p, "clear_writers", "out")
  /\ num_writers' = 0
  /\ hold' = [hold EXCEPT ![p] = "none"]
  /\ UNCHANGED <<num_readers, write_request, spinlock, loaded>>

ReleaseDec(p) ==
  /\ Goto(p, "dec", "out")
  /\ num_readers' = num_readers - 1
  /\ hold' = [hold EXCEPT ![p] = "none"]
  /\ UNCHANGED <<num_writers, write_request, spinlock, loaded>>

-----------------------------------------------------------------------------
(* A step of p inside the lock's code other than taking the spinlock. *)
Step(p) ==
  \/ WriteTestReaders(p) \/ WriteTestWriters(p) \/ WriteClaim(p)
  \/ WriteRequest(p) \/ WriteAgain(p) \/ WriteLeave(p)
  \/ ReadTestWriters(p) \/ ReadTestRequest(p) \/ ReadLoad(p)
  \/ ReadStore(p) \/ ReadAgain(p) \/ ReadLeave(p)
  \/ ReleaseTest(p) \/ ReleaseClearRequest(p) \/ ReleaseClearWriters(p)
  \/ ReleaseDec(p)

Enter(p) == WriteAcquire(p) \/ ReadAcquire(p)

Next ==
  \E p \in Proc : CallWrite(p) \/ CallRead(p) \/ CallRelease(p)
                    \/ Enter(p) \/ Step(p)

Spec == Init /\ [][Next]_vars

(* A caller keeps executing, a holder eventually releases, and the bus     *)
(* arbitrates "lock btsl" so that a spinning processor is not passed over  *)
(* for ever.  Nobody is obliged to ask for the lock.                       *)
Fairness ==
  \A p \in Proc : /\ WF_vars(Step(p))
                  /\ WF_vars(CallRelease(p))
                  /\ SF_vars(Enter(p))

FairSpec == Spec /\ Fairness

-----------------------------------------------------------------------------
TypeOK ==
  /\ num_readers \in Nat
  /\ num_writers \in {0, 1}
  /\ write_request \in {0, 1}
  /\ spinlock \in {0, 1}
  /\ pc \in [Proc -> PC]
  /\ loaded \in [Proc -> Nat]
  /\ hold \in [Proc -> {"none", "read", "write"}]

reading == {p \in Proc : hold[p] = "read"}
writing == {p \in Proc : hold[p] = "write"}

(* The promise of the lock: a writer is alone. *)
Exclusion ==
  \A p, q \in Proc : hold[p] = "write" /\ q # p => hold[q] = "none"

(* rwlock_release() is not told what its caller holds.  It never takes the *)
(* writer's path for a reader nor the reader's path for a writer, although *)
(* it decides by a word that others are writing.                           *)
ReleaseMatchesHold ==
  \A p \in Proc :
    /\ pc[p] \in {"clear_request", "clear_writers"} => hold[p] = "write"
    /\ pc[p] = "dec" => hold[p] = "read"

(* num_readers may exceed the number of readers (a decrement that falls    *)
(* between the load and the store of line 59 is lost) but never falls      *)
(* short of it: a writer that reads 0 really has no reader beside it.      *)
ReadersCounted == Cardinality(reading) <= num_readers

(* A raised write_request, which shuts every reader out, always has a      *)
(* writer behind it that is still in the code and will clear it.           *)
RequestHasWriter ==
  write_request = 1 => \E p \in Proc :
     \/ pc[p] \in WriteCritical \cup {"w_enter", "clear_request"}
     \/ hold[p] = "write" /\ pc[p] \in {"held", "release"}

(* Every grant and release is one the abstract lock allows. *)
Abstract == INSTANCE RWLockSpec WITH readers <- reading, writers <- writing
ImplementsLock == Abstract!AbstractSpec

Waiting(p) == pc[p] \in {"w_enter", "r_enter"}

(* As long as somebody asks for the lock, somebody is given it. *)
SomebodyGetsIn ==
  (\E p \in Proc : Waiting(p)) ~> (\E p \in Proc : hold[p] # "none")
===========================================================================
