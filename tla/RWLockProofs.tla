--------------------------- MODULE RWLockProofs ---------------------------
(***************************************************************************)
(* Proofs about ds/rwlock.c for every set of callers.                      *)
(***************************************************************************)
EXTENDS RWLock, FiniteSetTheorems, TLAPS

(* What a caller holds agrees with where it is. *)
HoldAtPC ==
  \A p \in Proc :
    /\ pc[p] \in {"w_leave", "clear_request", "clear_writers"} => hold[p] = "write"
    /\ pc[p] \in {"r_leave", "dec"} => hold[p] = "read"
    /\ pc[p] \in {"held", "release"} => hold[p] # "none"
    /\ pc[p] \notin {"w_leave", "r_leave", "held"} \cup Releasing => hold[p] = "none"

(* The spinlock is set while somebody is inside, and admits one. *)
SpinExclusion ==
  \A p \in Proc : pc[p] \in Critical =>
    spinlock = 1 /\ \A q \in Proc : pc[q] \in Critical => q = p

(* num_writers is set exactly while a writer holds the lock. *)
WritersCounted ==
  /\ \A p \in Proc : hold[p] = "write" => num_writers = 1
  /\ num_writers = 1 => \E p \in Proc : hold[p] = "write"

(* What a caller has read is still true until it acts on it, although      *)
(* rwlock_release() runs without the spinlock.                             *)
TestsStillHold ==
  \A p \in Proc :
    /\ pc[p] \in {"w_writers", "w_claim"} => \A q \in Proc : hold[q] # "read"
    /\ pc[p] \in {"w_claim", "r_request", "r_load", "r_store"} => num_writers = 0
    /\ pc[p] = "r_store" => Cardinality(reading) <= loaded[p]

IInv ==
  /\ TypeOK
  /\ HoldAtPC
  /\ SpinExclusion
  /\ WritersCounted
  /\ TestsStillHold
  /\ Exclusion
  /\ ReadersCounted
  /\ RequestHasWriter

-----------------------------------------------------------------------------
LEMMA ReadingFinite ==
  /\ IsFiniteSet(Proc)
  /\ IsFiniteSet(reading)
  /\ Cardinality(reading) \in Nat
<1>1. IsFiniteSet(Proc)
  BY ProcAssumption, FS_Union DEF Proc
<1>2. IsFiniteSet(reading)
  BY <1>1, FS_Subset DEF reading
<1> QED
  BY <1>1, <1>2, FS_CardinalityType

(* How the number of readers moves with the history variable hold. *)
LEMMA ReadingSame ==
  ASSUME UNCHANGED hold
  PROVE  reading' = reading /\ Cardinality(reading') = Cardinality(reading)
BY DEF reading

LEMMA ReadingAdd ==
  ASSUME TypeOK, NEW p \in Proc, hold[p] = "none",
         hold' = [hold EXCEPT ![p] = "read"]
  PROVE  Cardinality(reading') = Cardinality(reading) + 1
<1>1. reading' = reading \cup {p} /\ p \notin reading
  BY DEF reading, TypeOK
<1> QED
  BY <1>1, ReadingFinite, FS_AddElement

LEMMA ReadingRemove ==
  ASSUME TypeOK, NEW p \in Proc, hold[p] = "read",
         hold' = [hold EXCEPT ![p] = "none"]
  PROVE  Cardinality(reading') = Cardinality(reading) - 1
<1>1. reading' = reading \ {p} /\ p \in reading
  BY DEF reading, TypeOK
<1> QED
  BY <1>1, ReadingFinite, FS_RemoveElement

LEMMA ReadingWriter ==
  ASSUME TypeOK, NEW p \in Proc, hold[p] # "read", NEW v, v # "read",
         hold' = [hold EXCEPT ![p] = v]
  PROVE  Cardinality(reading') = Cardinality(reading)
<1>1. reading' = reading
  BY DEF reading, TypeOK
<1> QED
  BY <1>1

-----------------------------------------------------------------------------
LEMMA InitIInv == Init => IInv
<1> SUFFICES ASSUME Init PROVE IInv
  OBVIOUS
<1>1. reading = {}
  BY DEF Init, reading
<1>2. Cardinality(reading) = 0
  BY <1>1, FS_EmptySet
<1> QED
  BY <1>2 DEF Init, IInv, TypeOK, HoldAtPC, SpinExclusion, WritersCounted,
     TestsStillHold, Exclusion, ReadersCounted, RequestHasWriter, PC, Critical,
     WriteCritical, ReadCritical, Releasing

(* Every step of a caller that leaves hold alone. *)
LEMMA QuietStep ==
  ASSUME IInv, NEW p \in Proc,
         \/ CallWrite(p) \/ CallRead(p) \/ CallRelease(p) \/ Enter(p)
         \/ WriteTestReaders(p) \/ WriteTestWriters(p) \/ WriteRequest(p)
         \/ WriteAgain(p) \/ WriteLeave(p) \/ ReadTestWriters(p)
         \/ ReadTestRequest(p) \/ ReadLoad(p) \/ ReadAgain(p) \/ ReadLeave(p)
         \/ ReleaseTest(p) \/ ReleaseClearRequest(p)
  PROVE  IInv'
<1> USE DEF Goto, fields, Test, Drop, Acquire, Critical, WriteCritical,
            ReadCritical, Releasing
<1> DEFINE Quiet ==
         /\ UNCHANGED <<num_readers, num_writers, hold>>
<1>1. Quiet
  BY DEF CallWrite, CallRead, CallRelease, Enter, WriteAcquire, ReadAcquire,
     WriteTestReaders, WriteTestWriters, WriteRequest, WriteAgain, WriteLeave,
     ReadTestWriters, ReadTestRequest, ReadLoad, ReadAgain, ReadLeave,
     ReleaseTest, ReleaseClearRequest
<1>2. Cardinality(reading') = Cardinality(reading) /\ Cardinality(reading) \in Nat
  BY <1>1, ReadingSame, ReadingFinite
<1>3. num_readers = 0 => \A q \in Proc : hold[q] # "read"
  <2> SUFFICES ASSUME num_readers = 0 PROVE \A q \in Proc : hold[q] # "read"
    OBVIOUS
  <2>1. Cardinality(reading) = 0
    BY <1>2 DEF IInv, ReadersCounted
  <2>2. reading = {}
    BY <2>1, ReadingFinite, FS_EmptySet
  <2> QED
    BY <2>2 DEF reading
<1>4. TypeOK'
  BY DEF IInv, TypeOK, PC, CallWrite, CallRead, CallRelease, Enter, WriteAcquire,
     ReadAcquire, WriteTestReaders, WriteTestWriters, WriteRequest, WriteAgain,
     WriteLeave, ReadTestWriters, ReadTestRequest, ReadLoad, ReadAgain, ReadLeave,
     ReleaseTest, ReleaseClearRequest
<1>5. HoldAtPC'
  BY <1>1 DEF IInv, TypeOK, HoldAtPC, WritersCounted, Exclusion, CallWrite, CallRead,
     CallRelease, Enter, WriteAcquire, ReadAcquire, WriteTestReaders,
     WriteTestWriters, WriteRequest, WriteAgain, WriteLeave, ReadTestWriters,
     ReadTestRequest, ReadLoad, ReadAgain, ReadLeave, ReleaseTest,
     ReleaseClearRequest
<1>6. SpinExclusion'
  BY DEF IInv, TypeOK, SpinExclusion, CallWrite, CallRead, CallRelease, Enter,
     WriteAcquire, ReadAcquire, WriteTestReaders, WriteTestWriters, WriteRequest,
     WriteAgain, WriteLeave, ReadTestWriters, ReadTestRequest, ReadLoad, ReadAgain,
     ReadLeave, ReleaseTest, ReleaseClearRequest
<1>7. WritersCounted' /\ Exclusion'
  BY <1>1 DEF IInv, WritersCounted, Exclusion
<1>8. ReadersCounted'
  BY <1>1, <1>2 DEF IInv, ReadersCounted
<1>9. TestsStillHold'
  BY <1>1, <1>2, <1>3 DEF IInv, TypeOK, TestsStillHold, ReadersCounted, CallWrite,
     CallRead, CallRelease, Enter, WriteAcquire, ReadAcquire, WriteTestReaders,
     WriteTestWriters, WriteRequest, WriteAgain, WriteLeave, ReadTestWriters,
     ReadTestRequest, ReadLoad, ReadAgain, ReadLeave, ReleaseTest,
     ReleaseClearRequest
<1>10. RequestHasWriter'
  BY <1>1 DEF IInv, TypeOK, RequestHasWriter, WritersCounted, HoldAtPC, CallWrite,
     CallRead, CallRelease, Enter, WriteAcquire, ReadAcquire, WriteTestReaders,
     WriteTestWriters, WriteRequest, WriteAgain, WriteLeave, ReadTestWriters,
     ReadTestRequest, ReadLoad, ReadAgain, ReadLeave, ReleaseTest,
     ReleaseClearRequest
<1> QED
  BY <1>4, <1>5, <1>6, <1>7, <1>8, <1>9, <1>10 DEF IInv

(* The four steps that grant or give up the lock. *)
LEMMA WriteClaimStep ==
  ASSUME IInv, NEW p \in Proc, WriteClaim(p)
  PROVE  IInv'
<1> USE DEF Goto, Critical, WriteCritical, ReadCritical, Releasing
<1>1. hold[p] = "none" /\ (\A q \in Proc : hold[q] = "none") /\ num_writers = 0
  BY DEF IInv, TypeOK, HoldAtPC, TestsStillHold, WritersCounted, WriteClaim
<1>2. Cardinality(reading') = Cardinality(reading)
  BY <1>1, ReadingWriter DEF IInv, WriteClaim
<1>3. TypeOK' /\ HoldAtPC' /\ SpinExclusion' /\ WritersCounted' /\ Exclusion'
  BY <1>1 DEF IInv, TypeOK, PC, HoldAtPC, SpinExclusion, WritersCounted, Exclusion,
     WriteClaim
<1>4. ReadersCounted' /\ TestsStillHold'
  BY <1>1, <1>2 DEF IInv, TypeOK, ReadersCounted, TestsStillHold, SpinExclusion,
     WriteClaim
<1>5. RequestHasWriter'
  BY DEF IInv, TypeOK, RequestHasWriter, WriteClaim
<1> QED
  BY <1>3, <1>4, <1>5 DEF IInv

LEMMA ReadStoreStep ==
  ASSUME IInv, NEW p \in Proc, ReadStore(p)
  PROVE  IInv'
<1> USE DEF Goto, Critical, WriteCritical, ReadCritical, Releasing
<1>1. hold[p] = "none" /\ (\A q \in Proc : hold[q] # "write") /\ num_writers = 0
  BY DEF IInv, TypeOK, HoldAtPC, TestsStillHold, WritersCounted, ReadStore
<1>2. /\ Cardinality(reading') = Cardinality(reading) + 1
      /\ Cardinality(reading) \in Nat
  BY <1>1, ReadingAdd, ReadingFinite DEF IInv, ReadStore
<1>3. TypeOK' /\ HoldAtPC' /\ SpinExclusion' /\ WritersCounted' /\ Exclusion'
  BY <1>1 DEF IInv, TypeOK, PC, HoldAtPC, SpinExclusion, WritersCounted, Exclusion,
     ReadStore
<1>4. ReadersCounted'
  BY <1>2 DEF IInv, TypeOK, ReadersCounted, TestsStillHold, ReadStore
<1>5. TestsStillHold'
  BY <1>1, <1>2 DEF IInv, TypeOK, TestsStillHold, SpinExclusion, ReadStore
<1>6. RequestHasWriter'
  BY <1>1 DEF IInv, TypeOK, RequestHasWriter, ReadStore
<1> QED
  BY <1>3, <1>4, <1>5, <1>6 DEF IInv

LEMMA ReleaseClearWritersStep ==
  ASSUME IInv, NEW p \in Proc, ReleaseClearWriters(p)
  PROVE  IInv'
<1> USE DEF Goto, Critical, WriteCritical, ReadCritical, Releasing
<1>1. hold[p] = "write" /\ \A q \in Proc : q # p => hold[q] = "none"
  BY DEF IInv, HoldAtPC, Exclusion, ReleaseClearWriters
<1>2. Cardinality(reading') = Cardinality(reading)
  BY <1>1, ReadingWriter DEF IInv, ReleaseClearWriters
<1>3. TypeOK' /\ HoldAtPC' /\ SpinExclusion' /\ WritersCounted' /\ Exclusion'
  BY <1>1 DEF IInv, TypeOK, PC, HoldAtPC, SpinExclusion, WritersCounted, Exclusion,
     ReleaseClearWriters
<1>4. ReadersCounted' /\ TestsStillHold'
  BY <1>1, <1>2 DEF IInv, TypeOK, ReadersCounted, TestsStillHold,
     ReleaseClearWriters
<1>5. RequestHasWriter'
  BY <1>1 DEF IInv, TypeOK, RequestHasWriter, ReleaseClearWriters
<1> QED
  BY <1>3, <1>4, <1>5 DEF IInv

LEMMA ReleaseDecStep ==
  ASSUME IInv, NEW p \in Proc, ReleaseDec(p)
  PROVE  IInv'
<1> USE DEF Goto, Critical, WriteCritical, ReadCritical, Releasing
<1>1. hold[p] = "read" /\ \A q \in Proc : hold[q] # "write"
  BY DEF IInv, HoldAtPC, Exclusion, ReleaseDec
<1>2. /\ Cardinality(reading') = Cardinality(reading) - 1
      /\ Cardinality(reading) \in Nat
      /\ Cardinality(reading') \in Nat
  <2>1. Cardinality(reading') = Cardinality(reading) - 1
    BY <1>1, ReadingRemove DEF IInv, ReleaseDec
  <2>2. reading' \subseteq reading
    BY <1>1 DEF reading, ReleaseDec, IInv, TypeOK
  <2>3. Cardinality(reading') \in Nat
    BY <2>2, ReadingFinite, FS_Subset, FS_CardinalityType
  <2> QED
    BY <2>1, <2>3, ReadingFinite
<1>3. num_readers - 1 \in Nat
  BY <1>2 DEF IInv, TypeOK, ReadersCounted
<1>4. TypeOK' /\ HoldAtPC' /\ SpinExclusion' /\ WritersCounted' /\ Exclusion'
  BY <1>1, <1>3 DEF IInv, TypeOK, PC, HoldAtPC, SpinExclusion, WritersCounted,
     Exclusion, ReleaseDec
<1>5. ReadersCounted' /\ TestsStillHold'
  BY <1>1, <1>2 DEF IInv, TypeOK, ReadersCounted, TestsStillHold, ReleaseDec
<1>6. RequestHasWriter'
  BY <1>1 DEF IInv, TypeOK, RequestHasWriter, ReleaseDec
<1> QED
  BY <1>4, <1>5, <1>6 DEF IInv

LEMMA StutterStep ==
  ASSUME IInv, UNCHANGED vars
  PROVE  IInv'
<1>1. Cardinality(reading') = Cardinality(reading)
  BY ReadingSame DEF vars
<1> QED
  BY <1>1 DEF vars, IInv, TypeOK, HoldAtPC, SpinExclusion, WritersCounted,
     TestsStillHold, Exclusion, ReadersCounted, RequestHasWriter

-----------------------------------------------------------------------------
(* IInv is an invariant of ds/rwlock.c whatever the number of callers. *)
THEOREM Inductive == Spec => []IInv
<1>1. ASSUME IInv, [Next]_vars PROVE IInv'
  <2>1. CASE UNCHANGED vars
    BY <1>1, <2>1, StutterStep
  <2>2. CASE Next
    <3>1. PICK p \in Proc : CallWrite(p) \/ CallRead(p) \/ CallRelease(p)
                              \/ Enter(p) \/ Step(p)
      BY <2>2 DEF Next
    <3>2. CASE WriteClaim(p)
      BY <1>1, <3>2, WriteClaimStep
    <3>3. CASE ReadStore(p)
      BY <1>1, <3>3, ReadStoreStep
    <3>4. CASE ReleaseClearWriters(p)
      BY <1>1, <3>4, ReleaseClearWritersStep
    <3>5. CASE ReleaseDec(p)
      BY <1>1, <3>5, ReleaseDecStep
    <3> QED
      BY <1>1, <3>1, <3>2, <3>3, <3>4, <3>5, QuietStep DEF Step
  <2> QED
    BY <1>1, <2>1, <2>2
<1> QED
  BY <1>1, InitIInv, PTL DEF Spec

(* Type correctness: num_readers never goes below zero, num_writers never  *)
(* above one.                                                              *)
THEOREM TypeCorrect == Spec => []TypeOK
<1>1. IInv => TypeOK
  BY DEF IInv
<1> QED
  BY <1>1, Inductive, PTL

(* A writer is alone, for every number of readers and writers and although *)
(* rwlock_release() takes no lock.                                         *)
THEOREM MutualExclusion == Spec => []Exclusion
<1>1. IInv => Exclusion
  BY DEF IInv
<1> QED
  BY <1>1, Inductive, PTL

(* The reader count is never too low. *)
THEOREM ReadersNeverLost == Spec => []ReadersCounted
<1>1. IInv => ReadersCounted
  BY DEF IInv
<1> QED
  BY <1>1, Inductive, PTL

(* rwlock_release() always undoes what its caller was granted. *)
THEOREM ReleaseIsRight == Spec => []ReleaseMatchesHold
<1>1. IInv => ReleaseMatchesHold
  BY DEF IInv, HoldAtPC, ReleaseMatchesHold
<1> QED
  BY <1>1, Inductive, PTL

(* No write_request is left behind without a writer that will clear it. *)
THEOREM NoOrphanRequest == Spec => []RequestHasWriter
<1>1. IInv => RequestHasWriter
  BY DEF IInv
<1> QED
  BY <1>1, Inductive, PTL

-----------------------------------------------------------------------------
(* ds/rwlock.c implements the abstract reader-writer lock. *)
THEOREM Refinement == Spec => ImplementsLock
<1>1. Init => Abstract!SpecInit
  BY DEF Init, Abstract!SpecInit, reading, writing
<1>2. ASSUME IInv, [Next]_vars PROVE [Abstract!SpecNext]_(Abstract!specVars)
  <2> USE DEF Abstract!specVars
  <2>1. CASE UNCHANGED hold
    BY <2>1 DEF reading, writing
  <2>2. ASSUME NEW p \in Proc, WriteClaim(p) PROVE Abstract!GrantWrite(p)
    <3>1. \A q \in Proc : hold[q] = "none"
      BY <1>2, <2>2 DEF IInv, TypeOK, TestsStillHold, WritersCounted, WriteClaim, Goto
    <3> QED
      BY <1>2, <2>2, <3>1 DEF IInv, TypeOK, WriteClaim, Abstract!GrantWrite,
         reading, writing
  <2>3. ASSUME NEW p \in Proc, ReadStore(p) PROVE Abstract!GrantRead(p)
    <3>1. (\A q \in Proc : hold[q] # "write") /\ hold[p] = "none"
      BY <1>2, <2>3 DEF IInv, TypeOK, HoldAtPC, TestsStillHold, WritersCounted,
         ReadStore, Goto, Releasing
    <3> QED
      BY <1>2, <2>3, <3>1 DEF IInv, TypeOK, ReadStore, Abstract!GrantRead,
         reading, writing
  <2>4. ASSUME NEW p \in Proc, ReleaseClearWriters(p) \/ ReleaseDec(p)
        PROVE  Abstract!Release(p)
    <3>1. hold[p] # "none"
      BY <1>2, <2>4 DEF IInv, HoldAtPC, ReleaseClearWriters, ReleaseDec, Goto
    <3> QED
      BY <1>2, <2>4, <3>1 DEF IInv, TypeOK, ReleaseClearWriters, ReleaseDec,
         Abstract!Release, reading, writing
  <2>5. \/ UNCHANGED hold
        \/ \E p \in Proc : WriteClaim(p) \/ ReadStore(p)
                            \/ ReleaseClearWriters(p) \/ ReleaseDec(p)
    BY <1>2 DEF Next, vars, CallWrite, CallRead, CallRelease, Enter, Step,
       WriteAcquire, ReadAcquire, WriteTestReaders, WriteTestWriters, WriteRequest,
       WriteAgain, WriteLeave, ReadTestWriters, ReadTestRequest, ReadLoad,
       ReadAgain, ReadLeave, ReleaseTest, ReleaseClearRequest, Acquire, Drop, Test
  <2> QED
    BY <2>1, <2>2, <2>3, <2>4, <2>5 DEF Abstract!SpecNext
<1> QED
  BY <1>1, <1>2, Inductive, PTL DEF Spec, ImplementsLock, Abstract!AbstractSpec
===========================================================================
