-------------------------- MODULE SchedLockProofs --------------------------
(***************************************************************************)
(* Proofs about sched_lock() and sched_unlock() for every number of        *)
(* processors and threads and every mixture of light, complete and "all"   *)
(* locks.                                                                  *)
(***************************************************************************)
EXTENDS SchedLock, TLAPS

(* t has taken the spinlock of c and not given it back. *)
Held(t, c) ==
  \/ pc[t] = "spin" /\ use[t] = "all" /\ c < target[t]
  \/ pc[t] \in {"wait", "own"} /\ (c = target[t] \/ (use[t] = "all" /\ c < target[t]))
  \/ pc[t] = "unlock" /\ c >= target[t]

(* A thread that believes it holds a spinlock does. *)
HeldIsHolder ==
  \A t \in Thread, c \in CPU : Held(t, c) => lock_scheduler[c] = t

(* The scheduler works on its tables only under its spinlock, and a thread *)
(* runs exactly while running is set.                                      *)
ModeInv ==
  \A c \in CPU : /\ mode[c] = "sched" => lock_scheduler[c] = Scheduler
                 /\ mode[c] = "run" <=> running[c] = 1

(* The arguments and loop indices of the calls under way. *)
ArgInv ==
  \A t \in Thread :
    /\ pc[t] \in {"spin", "wait", "own"} => target[t] \in CPU
    /\ pc[t] = "own" /\ use[t] = "all" => target[t] = N - 1
    /\ pc[t] = "unlock" => use[t] = "all"

(* Processors behind which t has waited have stopped and stay stopped. *)
HaltedInv ==
  \A t \in Thread, c \in CPU :
    /\ Held(t, c) /\ c # Home[t] /\ use[t] # "light"
    /\ pc[t] # "unlock" /\ ~ (pc[t] = "wait" /\ c = target[t])
    => mode[c] = "back"

LInv ==
  /\ TypeOK
  /\ HeldIsHolder
  /\ ModeInv
  /\ ArgInv
  /\ HaltedInv

-----------------------------------------------------------------------------
LEMMA InitLInv == Init => LInv
BY CPUAssumption, HomeAssumption
   DEF Init, LInv, TypeOK, HeldIsHolder, ModeInv, ArgInv, HaltedInv, Held, CPU

(* Steps of a processor: its scheduler starts or stops a thread. *)
LEMMA ProcessorStep ==
  ASSUME LInv, NEW c \in CPU,
         \/ SwitchOut(c) \/ Retake(c)
         \/ \E t \in Thread \cup {NoThread} : Dispatch(c, t)
  PROVE  LInv'
<1>1. UNCHANGED threadVars
  BY DEF SwitchOut, Retake, Dispatch
<1>2. TypeOK'
  BY HolderAssumption DEF LInv, TypeOK, SwitchOut, Retake, Dispatch, threadVars
<1>3. HeldIsHolder'
  BY <1>1, HolderAssumption DEF LInv, TypeOK, HeldIsHolder, ModeInv, Held, SwitchOut,
     Retake, Dispatch, threadVars
<1>4. ModeInv'
  BY HolderAssumption DEF LInv, TypeOK, ModeInv, SwitchOut, Retake, Dispatch
<1>5. ArgInv'
  BY <1>1 DEF LInv, ArgInv, threadVars
<1>6. HaltedInv'
  BY <1>1, HolderAssumption DEF LInv, TypeOK, HeldIsHolder, ModeInv, HaltedInv, Held,
     SwitchOut, Retake, Dispatch, threadVars
<1> QED
  BY <1>2, <1>3, <1>4, <1>5, <1>6 DEF LInv

(* A step of t changes the locals of t only, so it changes what t holds    *)
(* and nothing about what the other threads hold.                          *)
OnlyLocals(t) ==
  \A u \in Thread \ {t} : pc'[u] = pc[u] /\ target'[u] = target[u] /\ use'[u] = use[u]

LEMMA OthersHold ==
  ASSUME NEW t \in Thread, OnlyLocals(t), NEW u \in Thread, u # t, NEW c \in CPU
  PROVE  Held(u, c)' <=> Held(u, c)
BY DEF OnlyLocals, Held

LEMMA LocalSteps ==
  ASSUME TypeOK, NEW t \in Thread,
         Call(t) \/ TakeGlobal(t) \/ TakeSpinlock(t) \/ Proceed(t)
  PROVE  OnlyLocals(t) /\ UNCHANGED <<running, mode, current>>
<1> USE DEF OnlyLocals, TypeOK, cpuVars
<1>1. CASE Call(t)
  BY <1>1 DEF Call, SchedLock, SchedLockAll, Enter
<1>2. CASE TakeGlobal(t)
  BY <1>2 DEF TakeGlobal, Enter
<1>3. CASE TakeSpinlock(t)
  BY <1>3 DEF TakeSpinlock, Locked, Enter
<1>4. CASE Proceed(t)
  BY <1>4 DEF Proceed, WaitHalted, Locked, Enter, SchedUnlock, SchedUnlockAll, Unlock, Return,
     UnlockFirst, UnlockNext, UnlockGlobal, ReturnToUser
<1> QED
  BY <1>1, <1>2, <1>3, <1>4

LocalTypes ==
  /\ pc \in [Thread -> {"out", "global", "spin", "wait", "own", "unlock"}]
  /\ target \in [Thread -> 0 .. N]
  /\ flag \in [Thread -> {0, 1}]
  /\ saved \in [Thread -> {0, 1}]

LEMMA LockedTypes ==
  ASSUME TypeOK, NEW t \in Thread, target[t] \in CPU, Locked(t)
  PROVE  LocalTypes'
<1> USE CPUAssumption DEF CPU, TypeOK, LocalTypes
<1>1. CASE use[t] = "all" /\ target[t] < N - 1
  <2>1. Enter(t, target[t] + 1)
    BY <1>1 DEF Locked
  <2>2. target[t] + 1 \in 0 .. N
    BY <1>1
  <2> QED
    BY <2>1, <2>2 DEF Enter
<1>2. CASE ~ (use[t] = "all" /\ target[t] < N - 1)
  BY <1>2 DEF Locked
<1> QED
  BY <1>1, <1>2

LEMMA TypeStep ==
  ASSUME LInv, NEW t \in Thread,
         Call(t) \/ TakeGlobal(t) \/ TakeSpinlock(t) \/ Proceed(t)
  PROVE  TypeOK'
<1> TypeOK /\ ArgInv
  BY DEF LInv
<1> USE CPUAssumption, HomeAssumption, HolderAssumption DEF cpuVars
<1>1. ASSUME NEW c \in CPU, NEW k \in Uses, SchedLock(t, c, k)
      PROVE  TypeOK'
  <2>1. k \in {"none", "light", "complete", "all"}
    BY UsesAssumption
  <2> QED
    BY <1>1, <2>1 DEF SchedLock, Enter, TypeOK, CPU
<1>2. CASE SchedLockAll(t)
  BY <1>2 DEF SchedLockAll, TypeOK
<1>3. CASE TakeGlobal(t)
  BY <1>3 DEF TakeGlobal, Enter, TypeOK
<1>4. CASE TakeSpinlock(t)
  <2>1. target[t] \in CPU
    BY <1>4 DEF TakeSpinlock, ArgInv
  <2>2. LocalTypes'
    <3>1. CASE Complete(t)
      BY <1>4, <3>1 DEF TakeSpinlock, TypeOK, LocalTypes
    <3>2. CASE ~ Complete(t)
      BY <1>4, <2>1, <3>2, LockedTypes DEF TakeSpinlock
    <3> QED
      BY <3>1, <3>2
  <2> QED
    BY <1>4, <2>1, <2>2 DEF TakeSpinlock, LocalTypes, TypeOK
<1>5. CASE WaitHalted(t)
  <2>1. LocalTypes'
    BY <1>5, LockedTypes DEF WaitHalted, ArgInv
  <2> QED
    BY <1>5, <2>1 DEF WaitHalted, LocalTypes, TypeOK
<1>6. CASE SchedUnlock(t)
  BY <1>6 DEF SchedUnlock, Unlock, Return, ArgInv, TypeOK, CPU
<1>7. CASE UnlockFirst(t)
  BY <1>7 DEF UnlockFirst, TypeOK
<1>8. CASE UnlockNext(t)
  BY <1>8 DEF UnlockNext, Unlock, TypeOK, CPU
<1>9. CASE UnlockGlobal(t)
  BY <1>9 DEF UnlockGlobal, Return, TypeOK
<1>10. CASE ReturnToUser(t)
  BY <1>10 DEF ReturnToUser, TypeOK
<1> QED
  BY <1>1, <1>2, <1>3, <1>4, <1>5, <1>6, <1>7, <1>8, <1>9, <1>10
     DEF Call, Proceed, SchedUnlockAll

(* What remains to be shown for a step of t: that t's own claims are       *)
(* right after it, and that it took no spinlock from anybody else.         *)
TakesNothing(t) ==
  \A c \in CPU : \/ lock_scheduler'[c] = lock_scheduler[c]
                \/ lock_scheduler[c] \in {t, NoThread}

HoldsAfter(t) == \A c \in CPU : Held(t, c)' => lock_scheduler'[c] = t

ArgAfter(t) ==
  /\ pc'[t] \in {"spin", "wait", "own"} => target'[t] \in CPU
  /\ pc'[t] = "own" /\ use'[t] = "all" => target'[t] = N - 1
  /\ pc'[t] = "unlock" => use'[t] = "all"

HaltedAfter(t) ==
  \A c \in CPU : /\ Held(t, c)' /\ c # Home[t] /\ use'[t] # "light"
                 /\ pc'[t] # "unlock" /\ ~ (pc'[t] = "wait" /\ c = target'[t])
                 => mode[c] = "back"

LEMMA ThreadStep ==
  ASSUME LInv, NEW t \in Thread,
         Call(t) \/ TakeGlobal(t) \/ TakeSpinlock(t) \/ Proceed(t),
         TakesNothing(t), HoldsAfter(t), ArgAfter(t), HaltedAfter(t)
  PROVE  LInv'
<1> USE DEF TakesNothing, HoldsAfter, ArgAfter, HaltedAfter
<1>1. OnlyLocals(t) /\ UNCHANGED <<running, mode, current>>
  BY LocalSteps DEF LInv
<1>2. TypeOK'
  BY TypeStep
<1>3. HeldIsHolder'
  <2>1. ASSUME NEW u \in Thread, NEW c \in CPU, Held(u, c)', u # t
        PROVE  lock_scheduler'[c] = u
    <3>1. Held(u, c)
      BY <1>1, <2>1, OthersHold
    <3>2. lock_scheduler[c] = u /\ u # NoThread
      BY <3>1, HolderAssumption DEF LInv, HeldIsHolder
    <3> QED
      BY <2>1, <3>2
  <2> QED
    BY <2>1 DEF HeldIsHolder, CPU
<1>4. ModeInv'
  <2>1. ASSUME NEW c \in CPU, mode[c] = "sched" PROVE lock_scheduler'[c] = Scheduler
    BY <2>1, HolderAssumption DEF LInv, ModeInv
  <2> QED
    BY <1>1, <2>1 DEF LInv, ModeInv, CPU
<1>5. ArgInv'
  BY <1>1 DEF LInv, ArgInv, OnlyLocals, CPU
<1>6. HaltedInv'
  <2>1. ASSUME NEW u \in Thread, NEW c \in CPU, u # t,
               Held(u, c)', c # Home[u], use'[u] # "light",
               pc'[u] # "unlock", ~ (pc'[u] = "wait" /\ c = target'[u])
        PROVE  mode'[c] = "back"
    <3>1. Held(u, c)
      BY <1>1, <2>1, OthersHold
    <3> QED
      BY <1>1, <2>1, <3>1 DEF LInv, HaltedInv, OnlyLocals
  <2> QED
    BY <1>1, <2>1 DEF HaltedInv, CPU
<1> QED
  BY <1>2, <1>3, <1>4, <1>5, <1>6 DEF LInv

(* Steps of a thread that leave every spinlock alone. *)
LEMMA QuietStep ==
  ASSUME LInv, NEW t \in Thread,
         \/ ReturnToUser(t) \/ Call(t) \/ TakeGlobal(t) \/ UnlockFirst(t) \/ UnlockGlobal(t)
  PROVE  LInv'
<1> USE CPUAssumption, HomeAssumption, UsesAssumption, HolderAssumption
    DEF CPU, cpuVars
<1> TypeOK /\ HeldIsHolder /\ ArgInv /\ HaltedInv
  BY DEF LInv
<1> USE DEF TypeOK, HeldIsHolder, ArgInv, HaltedInv, Held
<1>1. CASE ReturnToUser(t)
  BY <1>1, ThreadStep DEF ReturnToUser, Proceed, TakesNothing, HoldsAfter, ArgAfter,
     HaltedAfter
<1>2. ASSUME NEW k \in Uses, NEW c \in CPU, SchedLock(t, c, k) PROVE LInv'
  BY <1>2, ThreadStep DEF SchedLock, Enter, Call, TakesNothing, HoldsAfter, ArgAfter,
     HaltedAfter
<1>3. CASE SchedLockAll(t)
  BY <1>3, ThreadStep DEF SchedLockAll, Call, TakesNothing, HoldsAfter, ArgAfter,
     HaltedAfter
<1>4. CASE TakeGlobal(t)
  <2>1. pc[t] = "global" /\ pc'[t] = "spin" /\ target'[t] = 0
        /\ lock_scheduler' = lock_scheduler
    BY <1>4 DEF TakeGlobal, Enter
  <2>2. \A c \in CPU : ~ Held(t, c)'
    BY <2>1
  <2>3. TakesNothing(t) /\ HoldsAfter(t) /\ ArgAfter(t) /\ HaltedAfter(t)
    BY <2>1, <2>2 DEF TakesNothing, HoldsAfter, ArgAfter, HaltedAfter
  <2> QED
    BY <1>4, <2>3, ThreadStep
<1>5. CASE UnlockFirst(t)
  <2>1. /\ pc[t] = "own" /\ pc'[t] = "unlock" /\ target'[t] = 0
        /\ use[t] = "all" /\ use' = use /\ target[t] = N - 1
        /\ lock_scheduler' = lock_scheduler
    BY <1>5 DEF UnlockFirst
  <2>2. \A c \in CPU : lock_scheduler[c] = t
    <3>1. \A c \in CPU : Held(t, c)
      BY <2>1
    <3> QED
      BY <3>1
  <2> QED
    BY <1>5, <2>1, <2>2, ThreadStep DEF Proceed, SchedUnlockAll, TakesNothing, HoldsAfter,
       ArgAfter, HaltedAfter
<1>6. CASE UnlockGlobal(t)
  <2>1. pc'[t] = "out" /\ lock_scheduler' = lock_scheduler
    BY <1>6 DEF UnlockGlobal, Return
  <2> QED
    BY <1>6, <2>1, ThreadStep DEF Proceed, SchedUnlockAll, TakesNothing, HoldsAfter,
       ArgAfter, HaltedAfter
<1> QED
  BY <1>1, <1>2, <1>3, <1>4, <1>5, <1>6 DEF Call

(* Locked(t): t owns target[t] and, if it had to wait, that processor has  *)
(* stopped; t goes on to the next processor or returns.                    *)
LEMMA LockedStep ==
  ASSUME LInv, NEW t \in Thread, TakeSpinlock(t) \/ WaitHalted(t), Locked(t),
         lock_scheduler'[target[t]] = t,
         \A c \in CPU \ {target[t]} : lock_scheduler'[c] = lock_scheduler[c],
         lock_scheduler[target[t]] \in {t, NoThread},
         target[t] # Home[t] /\ use[t] # "light" => mode[target[t]] = "back"
  PROVE  LInv'
<1> USE CPUAssumption, HomeAssumption, HolderAssumption DEF CPU
<1> TypeOK /\ HeldIsHolder /\ ArgInv /\ HaltedInv
  BY DEF LInv
<1> USE DEF TypeOK
<1>1. pc[t] \in {"spin", "wait"} /\ target[t] \in CPU /\ use' = use
  BY DEF ArgInv, TakeSpinlock, WaitHalted
<1>2. Call(t) \/ TakeGlobal(t) \/ TakeSpinlock(t) \/ Proceed(t)
  BY DEF Proceed
<1>3. \A c \in CPU : use[t] = "all" /\ c < target[t] => Held(t, c)
  BY <1>1 DEF Held
<1>4. \A c \in CPU : use[t] = "all" /\ c < target[t] =>
        /\ lock_scheduler'[c] = t
        /\ c # Home[t] => mode[c] = "back"
  BY <1>1, <1>3 DEF HeldIsHolder, HaltedInv
<1>7. TakesNothing(t)
  BY DEF TakesNothing
<1>5. CASE use[t] = "all" /\ target[t] < N - 1
  <2>1. pc'[t] = "spin" /\ target'[t] = target[t] + 1
    BY <1>5 DEF Locked, Enter
  <2>2. \A c \in CPU : Held(t, c)' => c = target[t] \/ c < target[t]
    BY <1>1, <2>1 DEF Held
  <2>3. ArgAfter(t)
    BY <1>1, <1>5, <2>1 DEF ArgAfter
  <2>4. HoldsAfter(t) /\ HaltedAfter(t)
    BY <1>1, <1>4, <1>5, <2>2 DEF HoldsAfter, HaltedAfter
  <2> QED
    BY <1>2, <1>7, <2>3, <2>4, ThreadStep
<1>6. CASE ~ (use[t] = "all" /\ target[t] < N - 1)
  <2>1. pc'[t] = "own" /\ target'[t] = target[t]
    BY <1>6 DEF Locked
  <2>2. \A c \in CPU : Held(t, c)' => c = target[t] \/ (use[t] = "all" /\ c < target[t])
    BY <1>1, <2>1 DEF Held
  <2>3. ArgAfter(t)
    BY <1>1, <1>6, <2>1 DEF ArgAfter
  <2>4. HoldsAfter(t) /\ HaltedAfter(t)
    BY <1>1, <1>4, <2>1, <2>2 DEF HoldsAfter, HaltedAfter
  <2> QED
    BY <1>2, <1>7, <2>3, <2>4, ThreadStep
<1> QED
  BY <1>5, <1>6

(* acquire_spinlock() on a free lock. *)
LEMMA SpinlockStep ==
  ASSUME LInv, NEW t \in Thread, TakeSpinlock(t)
  PROVE  LInv'
<1> USE CPUAssumption, HomeAssumption, HolderAssumption DEF CPU
<1> TypeOK /\ HeldIsHolder /\ ArgInv /\ HaltedInv
  BY DEF LInv
<1> USE DEF TypeOK
<1>1. target[t] \in CPU /\ lock_scheduler[target[t]] = NoThread /\ pc[t] = "spin"
  BY DEF ArgInv, TakeSpinlock
<1>2. /\ lock_scheduler'[target[t]] = t
      /\ \A c \in CPU \ {target[t]} : lock_scheduler'[c] = lock_scheduler[c]
  BY <1>1 DEF TakeSpinlock
<1>3. CASE Complete(t)
  <2>1. pc'[t] = "wait" /\ target' = target /\ use' = use
    BY <1>3 DEF TakeSpinlock
  <2>2. \A c \in CPU : Held(t, c)' => c = target[t] \/ Held(t, c)
    BY <1>1, <2>1 DEF Held
  <2>3. HoldsAfter(t)
    BY <1>1, <1>2, <2>2 DEF HeldIsHolder, HoldsAfter
  <2>4. HaltedAfter(t)
    BY <1>1, <2>1, <2>2 DEF HaltedInv, HaltedAfter
  <2>5. TakesNothing(t) /\ ArgAfter(t)
    BY <1>1, <1>2, <2>1 DEF TakesNothing, ArgAfter
  <2> QED
    BY <2>3, <2>4, <2>5, ThreadStep
<1>4. CASE ~ Complete(t)
  <2>1. Locked(t)
    BY <1>4 DEF TakeSpinlock
  <2> QED
    BY <1>1, <1>2, <1>4, <2>1, LockedStep DEF Complete
<1> QED
  BY <1>3, <1>4

(* The target has stopped. *)
LEMMA WaitStep ==
  ASSUME LInv, NEW t \in Thread, WaitHalted(t)
  PROVE  LInv'
<1>1. target[t] \in CPU /\ Held(t, target[t]) /\ lock_scheduler' = lock_scheduler
  BY DEF LInv, ArgInv, Held, WaitHalted, cpuVars
<1>2. lock_scheduler[target[t]] = t
  BY <1>1 DEF LInv, HeldIsHolder
<1>3. mode[target[t]] = "back"
  BY <1>1, <1>2, HolderAssumption DEF LInv, TypeOK, ModeInv, WaitHalted
<1> QED
  BY <1>1, <1>2, <1>3, LockedStep DEF WaitHalted

(* release_spinlock() by the holder. *)
LEMMA UnlockStep ==
  ASSUME LInv, NEW t \in Thread, SchedUnlock(t) \/ UnlockNext(t)
  PROVE  LInv'
<1> USE CPUAssumption, HomeAssumption, HolderAssumption DEF CPU
<1> TypeOK /\ HeldIsHolder /\ ArgInv /\ HaltedInv
  BY DEF LInv
<1> USE DEF TypeOK
<1>1. target[t] \in CPU /\ Held(t, target[t])
  BY DEF ArgInv, Held, SchedUnlock, UnlockNext
<1>2. lock_scheduler[target[t]] = t
  BY <1>1 DEF HeldIsHolder
<1>3. \A c \in CPU \ {target[t]} : lock_scheduler'[c] = lock_scheduler[c]
  BY DEF SchedUnlock, UnlockNext, Unlock
<1>4. CASE SchedUnlock(t)
  <2>1. pc'[t] = "out"
    BY <1>4 DEF SchedUnlock, Return
  <2> QED
    BY <1>2, <1>3, <1>4, <2>1, ThreadStep DEF Proceed, Held, TakesNothing, HoldsAfter,
       ArgAfter, HaltedAfter
<1>5. CASE UnlockNext(t)
  <2>1. /\ pc[t] = "unlock" /\ pc' = pc /\ use' = use
        /\ target'[t] = target[t] + 1
    BY <1>5 DEF UnlockNext
  <2>2. \A c \in CPU : Held(t, c)' => Held(t, c) /\ c # target[t]
    BY <1>1, <2>1 DEF Held
  <2>3. \A c \in CPU : Held(t, c)' => lock_scheduler'[c] = t
    BY <1>3, <2>2 DEF HeldIsHolder
  <2> QED
    BY <1>2, <1>3, <1>5, <2>1, <2>3, ThreadStep DEF Proceed, SchedUnlockAll, ArgInv,
       TakesNothing, HoldsAfter, ArgAfter, HaltedAfter
<1> QED
  BY <1>4, <1>5

-----------------------------------------------------------------------------
THEOREM Inductive == Spec => []LInv
<1>1. ASSUME LInv, [Next]_vars PROVE LInv'
  <2>1. CASE UNCHANGED vars
    BY <1>1, <2>1 DEF vars, cpuVars, threadVars, LInv, TypeOK, HeldIsHolder, ModeInv,
       ArgInv, HaltedInv, Held
  <2>2. CASE Next
    BY <1>1, <2>2, ProcessorStep, QuietStep, SpinlockStep, WaitStep,
       UnlockStep
       DEF Next, Proceed, SchedUnlockAll
  <2> QED
    BY <1>1, <2>1, <2>2
<1> QED
  BY <1>1, InitLInv, PTL DEF Spec

(* Type correctness of the locking state. *)
THEOREM TypeCorrect == Spec => []TypeOK
<1>1. LInv => TypeOK
  BY DEF LInv
<1> QED
  BY <1>1, Inductive, PTL

(* The tables of a processor have one user at a time, its scheduler        *)
(* included, however many processors there are.                            *)
THEOREM OneUser == Spec => []TablesExclusive
<1>1. LInv => TablesExclusive
  BY CPUAssumption, HolderAssumption
     DEF LInv, TypeOK, HeldIsHolder, ModeInv, ArgInv, Held, TablesExclusive, Owned, CPU
<1> QED
  BY <1>1, Inductive, PTL

(* A complete lock keeps its target from running any thread. *)
THEOREM CompleteHalts == Spec => []TargetHalted
<1>1. ASSUME LInv, NEW t \in Thread, NEW c \in Owned(t), use[t] # "light", c # Home[t]
      PROVE  running[c] = 0 /\ mode[c] = "back"
  <2>1. pc[t] = "own" /\ c \in CPU /\ Held(t, c)
    BY <1>1, CPUAssumption DEF LInv, TypeOK, ArgInv, Owned, Held, CPU
  <2>2. mode[c] = "back"
    BY <1>1, <2>1 DEF LInv, HaltedInv
  <2> QED
    BY <1>1, <2>1, <2>2 DEF LInv, TypeOK, ModeInv
<1>2. LInv => TargetHalted
  BY <1>1 DEF TargetHalted
<1> QED
  BY <1>2, Inductive, PTL

-----------------------------------------------------------------------------
(* A thread that asks for one processor has interrupts disabled and        *)
(* remembers its flag, first in its local variable, then in the lock_flags *)
(* of the processor, which are its own while it holds the spinlock.        *)
FlagInv ==
  \A t \in Thread : use[t] # "all" =>
    /\ pc[t] # "global"
    /\ pc[t] \in {"spin", "wait", "own"} => flag[t] = 0 /\ saved[t] = before[t]
    /\ pc[t] \in {"wait", "own"} => lock_flags[target[t]] = saved[t]

LEMMA FlagStep ==
  ASSUME LInv, FlagInv, NEW t \in Thread,
         \/ Call(t) \/ TakeGlobal(t) \/ TakeSpinlock(t) \/ Proceed(t)
  PROVE  FlagInv'
<1> USE DEF FlagInv, LInv, TypeOK
<1>1. CASE \E c \in CPU, k \in Uses : SchedLock(t, c, k)
  BY <1>1 DEF SchedLock, Enter, cpuVars
<1>2. CASE SchedLockAll(t)
  BY <1>2 DEF SchedLockAll, cpuVars
<1>3. CASE TakeGlobal(t)
  BY <1>3 DEF TakeGlobal, Enter, cpuVars
<1>4. CASE TakeSpinlock(t)
  <2>1. \A u \in Thread : u # t /\ pc[u] \in {"wait", "own"} => target[u] # target[t]
    BY <1>4, HolderAssumption DEF TakeSpinlock, HeldIsHolder, Held, ArgInv
  <2> QED
    BY <1>4, <2>1 DEF TakeSpinlock, Locked, Enter, ArgInv
<1>5. CASE WaitHalted(t)
  BY <1>5 DEF WaitHalted, Locked, Enter, cpuVars
<1>6. CASE SchedUnlock(t)
  BY <1>6 DEF SchedUnlock, Unlock, Return
<1>7. CASE SchedUnlockAll(t)
  BY <1>7 DEF SchedUnlockAll, UnlockFirst, UnlockNext, UnlockGlobal, Unlock, Return, cpuVars,
     ArgInv
<1>8. CASE ReturnToUser(t)
  BY <1>8 DEF ReturnToUser, cpuVars
<1> QED
  BY <1>1, <1>2, <1>3, <1>4, <1>5, <1>6, <1>7, <1>8 DEF Call, Proceed

(* Whoever unlocks the own processor gets back the interrupt flag it had,  *)
(* although the flag was kept in a field that every locker writes.         *)
THEOREM UnlockGivesBack == Spec => UnlockRestores
<1>1. Init => FlagInv
  BY DEF Init, FlagInv
<1>2. ASSUME LInv, FlagInv, [Next]_vars PROVE FlagInv'
  <2>1. CASE UNCHANGED vars
    BY <1>2, <2>1 DEF vars, cpuVars, threadVars, FlagInv
  <2>2. CASE \E c \in CPU : \/ SwitchOut(c) \/ Retake(c)
                           \/ \E t \in Thread \cup {NoThread} : Dispatch(c, t)
    BY <1>2, <2>2 DEF SwitchOut, Retake, Dispatch, threadVars, FlagInv
  <2> QED
    BY <1>2, <2>1, <2>2, FlagStep DEF Next
<1>3. ASSUME LInv, FlagInv, [Next]_vars, NEW t \in Thread,
             pc[t] = "own", pc'[t] = "out", target[t] = Home[t]
      PROVE  flag'[t] = before[t]
  <2>1. SchedUnlock(t)
    <3>1. CASE UNCHANGED vars
      BY <1>3, <3>1 DEF vars, threadVars
    <3>2. CASE \E c \in CPU : \/ SwitchOut(c) \/ Retake(c)
                             \/ \E u \in Thread \cup {NoThread} : Dispatch(c, u)
      BY <1>3, <3>2 DEF SwitchOut, Retake, Dispatch, threadVars
    <3>3. ASSUME NEW u \in Thread, Call(u) \/ TakeGlobal(u) \/ TakeSpinlock(u) \/ Proceed(u)
          PROVE  SchedUnlock(t)
      BY <1>3, <3>3 DEF Call, Proceed, SchedLock, SchedLockAll, TakeGlobal, TakeSpinlock,
         WaitHalted, SchedUnlock, SchedUnlockAll, UnlockFirst, UnlockNext, UnlockGlobal,
         ReturnToUser, Enter, Locked, Return, LInv, TypeOK
    <3> QED
      BY <1>3, <3>1, <3>2, <3>3 DEF Next
  <2> QED
    BY <1>3, <2>1 DEF SchedUnlock, Unlock, FlagInv, LInv, TypeOK
<1>4. LInv /\ FlagInv /\ [Next]_vars => [\A t \in Thread :
        pc[t] = "own" /\ pc'[t] = "out" /\ target[t] = Home[t] => flag'[t] = before[t]]_vars
  BY <1>3
<1> QED
  BY <1>1, <1>2, <1>4, Inductive, PTL DEF Spec, UnlockRestores
===========================================================================
