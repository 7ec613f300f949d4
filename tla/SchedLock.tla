----------------------------- MODULE SchedLock -----------------------------
(***************************************************************************)
(* The handshake between the schedulers of an SMP kernel and the threads   *)
(* that change a scheduler's tables: sched_lock, sched_unlock and their    *)
(* "all" forms (scheduler/scheduler.c), and the points where exec_thread   *)
(* (processes/threads.c) gives the lock up and takes it back.              *)
(*                                                                         *)
(* Each processor has a spinlock, lock_scheduler.  Its own scheduler holds *)
(* it except while a thread runs.  A "complete" lock on another processor  *)
(* takes that spinlock and then waits until no thread runs there.  All     *)
(* locking runs with interrupts disabled, so a thread in it is not         *)
(* preempted.                                                              *)
(***************************************************************************)
EXTENDS Integers

CONSTANTS N,         \* cpu_count
          Thread,    \* the threads, all of them runnable
          Home,      \* the processor whose queue each thread is in
          Uses,      \* which of "light", "complete", "all" locks are used
          NoThread,  \* no thread: a free lock, or the idle thread running
          Scheduler  \* a scheduler, as the holder of its own lock

CPU == 0 .. N - 1

ASSUME CPUAssumption == N \in Nat \ {0}
ASSUME HomeAssumption == Home \in [Thread -> CPU]
ASSUME UsesAssumption == Uses \subseteq {"light", "complete", "all"}
ASSUME HolderAssumption ==
  NoThread \notin Thread /\ Scheduler \notin Thread /\ NoThread # Scheduler

VARIABLES
  lock_scheduler,    \* per processor: its holder
  running, idle, lock_flags,         \* struct scheduler_info
  sched_global_lock,                 \* its holder
  mode,      \* per processor: "sched" in scheduler(), "run" in a thread (or
             \* the idle thread), "back" switched out, spinlock not retaken
  current,   \* the thread in "run" mode, NoThread for the idle thread
  pc,        \* per thread: where it is in the locking code
  target,    \* per thread: argument cpu_id, or the loop index of an "all" form
  use,       \* per thread: the kind of lock it takes
  flag,      \* per thread: the interrupt flag of its context
  saved,     \* per thread: local variable lock, disable_interrupts()'s result
  before     \* history: the interrupt flag when the lock was asked for

cpuVars == <<lock_scheduler, running, idle, lock_flags, mode, current>>
threadVars == <<pc, target, use, flag, saved, before>>
vars == <<cpuVars, threadVars, sched_global_lock>>

Init ==
  /\ lock_scheduler = [c \in CPU |-> Scheduler]
  /\ running = [c \in CPU |-> 0]
  /\ idle = [c \in CPU |-> 0]
  /\ lock_flags = [c \in CPU |-> 0]
  /\ sched_global_lock = NoThread
  /\ mode = [c \in CPU |-> "sched"]
  /\ current = [c \in CPU |-> NoThread]
  /\ pc = [t \in Thread |-> "out"]
  /\ target = [t \in Thread |-> 0]
  /\ use = [t \in Thread |-> "none"]
  /\ flag = [t \in Thread |-> 1]
  /\ saved = [t \in Thread |-> 0]
  /\ before = [t \in Thread |-> 0]

Runs(t) == mode[Home[t]] = "run" /\ current[Home[t]] = t

-----------------------------------------------------------------------------
(* exec_thread, first half: the scheduler of c picks t and lets go of its  *)
(* tables.  With nothing to run it starts the idle thread, marked so that  *)
(* sched_lock() knows to wake it.                                          *)
Dispatch(c, t) ==
  /\ mode[c] = "sched"
  /\ t # NoThread => Home[t] = c
  /\ running' = [running EXCEPT ![c] = 1]
  /\ current' = [current EXCEPT ![c] = t]
  /\ idle' = [idle EXCEPT ![c] = IF t = NoThread THEN 1 ELSE 0]
  /\ lock_scheduler' = [lock_scheduler EXCEPT ![c] = NoThread]
  /\ mode' = [mode EXCEPT ![c] = "run"]
  /\ UNCHANGED <<lock_flags, threadVars, sched_global_lock>>

(* exec_thread, second half up to the synchronization point: the running   *)
(* thread was interrupted (its flag is set) or yielded by "int".           *)
SwitchOut(c) ==
  /\ mode[c] = "run"
  /\ current[c] # NoThread => pc[current[c]] = "out" \/ flag[current[c]] = 1
  /\ current' = [current EXCEPT ![c] = NoThread]
  /\ running' = [running EXCEPT ![c] = 0]
  /\ mode' = [mode EXCEPT ![c] = "back"]
  /\ UNCHANGED <<lock_scheduler, idle, lock_flags, threadVars, sched_global_lock>>

Retake(c) ==
  /\ mode[c] = "back"
  /\ lock_scheduler[c] = NoThread
  /\ lock_scheduler' = [lock_scheduler EXCEPT ![c] = Scheduler]
  /\ idle' = [idle EXCEPT ![c] = 0]
  /\ mode' = [mode EXCEPT ![c] = "sched"]
  /\ UNCHANGED <<running, lock_flags, current, threadVars, sched_global_lock>>

(* A thread that left the locking code with interrupts disabled has them   *)
(* enabled again when it returns to user mode.                             *)
ReturnToUser(t) ==
  /\ Runs(t) /\ pc[t] = "out" /\ flag[t] = 0
  /\ flag' = [flag EXCEPT ![t] = 1]
  /\ UNCHANGED <<cpuVars, pc, target, use, saved, before, sched_global_lock>>

-----------------------------------------------------------------------------
(* sched_lock(c, ...), up to the spinlock: disable_interrupts(). *)
Enter(t, c) ==
  /\ saved' = [saved EXCEPT ![t] = flag[t]]
  /\ flag' = [flag EXCEPT ![t] = 0]
  /\ target' = [target EXCEPT ![t] = c]
  /\ pc' = [pc EXCEPT ![t] = "spin"]

(* The callers: queue() and pause() take a light lock, dequeue() and       *)
(* restart() a complete one when the processor is not their own.           *)
SchedLock(t, c, kind) ==
  /\ Runs(t) /\ pc[t] = "out"
  /\ kind \in Uses \ {"all"}
  /\ kind = "complete" => c # Home[t]
  /\ Enter(t, c)
  /\ use' = [use EXCEPT ![t] = kind]
  /\ before' = [before EXCEPT ![t] = flag[t]]
  /\ UNCHANGED <<cpuVars, sched_global_lock>>

SchedLockAll(t) ==
  /\ Runs(t) /\ pc[t] = "out"
  /\ "all" \in Uses
  /\ pc' = [pc EXCEPT ![t] = "global"]
  /\ use' = [use EXCEPT ![t] = "all"]
  /\ before' = [before EXCEPT ![t] = flag[t]]
  /\ UNCHANGED <<cpuVars, target, flag, saved, sched_global_lock>>

TakeGlobal(t) ==
  /\ Runs(t) /\ pc[t] = "global"
  /\ sched_global_lock = NoThread
  /\ sched_global_lock' = t
  /\ Enter(t, 0)
  /\ UNCHANGED <<cpuVars, use, before>>

Complete(t) == use[t] # "light" /\ target[t] # Home[t]

(* The lock on target[t] is complete: return, or go on to the next one. *)
Locked(t) ==
  IF use[t] = "all" /\ target[t] < N - 1
  THEN Enter(t, target[t] + 1)
  ELSE /\ pc' = [pc EXCEPT ![t] = "own"]
       /\ UNCHANGED <<target, flag, saved>>

(* Faults: the spinlock is taken whether or not it is free; the interrupt  *)
(* flag is not noted with the lock.                                        *)
TakeSpinlockBlindly(t) ==
  /\ Runs(t) /\ pc[t] = "spin"
  /\ lock_scheduler' = [lock_scheduler EXCEPT ![target[t]] = t]
  /\ lock_flags' = [lock_flags EXCEPT ![target[t]] = saved[t]]
  /\ idle' = [idle EXCEPT ![target[t]] = 0]
  /\ Locked(t)
  /\ UNCHANGED <<running, mode, current, use, before, sched_global_lock>>

TakeSpinlockNoFlags(t) ==
  /\ Runs(t) /\ pc[t] = "spin"
  /\ lock_scheduler[target[t]] = NoThread
  /\ lock_scheduler' = [lock_scheduler EXCEPT ![target[t]] = t]
  /\ idle' = [idle EXCEPT ![target[t]] = 0]
  /\ IF Complete(t)
     THEN /\ pc' = [pc EXCEPT ![t] = "wait"]
          /\ UNCHANGED <<target, flag, saved>>
     ELSE Locked(t)
  /\ UNCHANGED <<running, lock_flags, mode, current, use, before, sched_global_lock>>

(* acquire_spinlock, then wake the processor if it idles. *)
TakeSpinlock(t) ==
  LET c == target[t] IN
  /\ Runs(t) /\ pc[t] = "spin"
  /\ lock_scheduler[c] = NoThread
  /\ lock_scheduler' = [lock_scheduler EXCEPT ![c] = t]
  /\ lock_flags' = [lock_flags EXCEPT ![c] = saved[t]]
  /\ idle' = [idle EXCEPT ![c] = 0]
  /\ IF Complete(t)
     THEN /\ pc' = [pc EXCEPT ![t] = "wait"]
          /\ UNCHANGED <<target, flag, saved>>
     ELSE Locked(t)
  /\ UNCHANGED <<running, mode, current, use, before, sched_global_lock>>

(* Fault: the processor is asked to stop and not waited for. *)
WaitNot(t) ==
  /\ Runs(t) /\ pc[t] = "wait"
  /\ Locked(t)
  /\ UNCHANGED <<cpuVars, use, before, sched_global_lock>>

WaitHalted(t) ==
  /\ Runs(t) /\ pc[t] = "wait"
  /\ running[target[t]] = 0
  /\ Locked(t)
  /\ UNCHANGED <<cpuVars, use, before, sched_global_lock>>

-----------------------------------------------------------------------------
(* sched_unlock(c): interrupts come back only on the locked processor. *)
Unlock(t, c) ==
  /\ lock_scheduler' = [lock_scheduler EXCEPT ![c] = NoThread]
  /\ flag' = [flag EXCEPT ![t] =
                IF c = Home[t] /\ lock_flags[c] # 0 THEN 1 ELSE flag[t]]

(* The locals of a call are forgotten when it returns. *)
Return(t) ==
  /\ pc' = [pc EXCEPT ![t] = "out"]
  /\ target' = [target EXCEPT ![t] = 0]
  /\ use' = [use EXCEPT ![t] = "none"]
  /\ saved' = [saved EXCEPT ![t] = 0]
  /\ before' = [before EXCEPT ![t] = 0]

SchedUnlock(t) ==
  /\ Runs(t) /\ pc[t] = "own" /\ use[t] # "all"
  /\ Unlock(t, target[t])
  /\ Return(t)
  /\ UNCHANGED <<running, idle, lock_flags, mode, current, sched_global_lock>>

(* sched_unlock_all: processors in the order they were locked. *)
UnlockFirst(t) ==
  /\ Runs(t) /\ pc[t] = "own" /\ use[t] = "all"
  /\ pc' = [pc EXCEPT ![t] = "unlock"]
  /\ target' = [target EXCEPT ![t] = 0]
  /\ UNCHANGED <<cpuVars, use, flag, saved, before, sched_global_lock>>

UnlockNext(t) ==
  /\ Runs(t) /\ pc[t] = "unlock" /\ target[t] < N
  /\ Unlock(t, target[t])
  /\ target' = [target EXCEPT ![t] = target[t] + 1]
  /\ UNCHANGED <<running, idle, lock_flags, mode, current, pc, use, saved,
                 before, sched_global_lock>>

UnlockGlobal(t) ==
  /\ Runs(t) /\ pc[t] = "unlock" /\ target[t] = N
  /\ sched_global_lock' = NoThread
  /\ Return(t)
  /\ UNCHANGED <<cpuVars, flag>>

-----------------------------------------------------------------------------
SchedUnlockAll(t) == UnlockFirst(t) \/ UnlockNext(t) \/ UnlockGlobal(t)

Call(t) == (\E c \in CPU, k \in Uses : SchedLock(t, c, k)) \/ SchedLockAll(t)

Proceed(t) == WaitHalted(t) \/ SchedUnlock(t) \/ SchedUnlockAll(t) \/ ReturnToUser(t)

Next ==
  \/ \E c \in CPU : \/ SwitchOut(c) \/ Retake(c)
                    \/ \E t \in Thread \cup {NoThread} : Dispatch(c, t)
  \/ \E t \in Thread : Call(t) \/ TakeGlobal(t) \/ TakeSpinlock(t) \/ Proceed(t)

Spec == Init /\ [][Next]_vars

(* The timer interrupts every thread that can be interrupted, each queue   *)
(* is served round robin, code in the kernel goes on, and a processor that *)
(* spins on a lock is not passed over for ever.  No thread has to ask for  *)
(* a lock.                                                                 *)
Fairness ==
  /\ \A c \in CPU : WF_vars(SwitchOut(c)) /\ SF_vars(Retake(c))
  /\ \A t \in Thread : /\ SF_vars(Dispatch(Home[t], t))
                       /\ WF_vars(Proceed(t))
                       /\ SF_vars(TakeGlobal(t)) /\ SF_vars(TakeSpinlock(t))

FairSpec == Spec /\ Fairness

-----------------------------------------------------------------------------
TypeOK ==
  /\ lock_scheduler \in [CPU -> Thread \cup {NoThread, Scheduler}]
  /\ running \in [CPU -> {0, 1}]
  /\ idle \in [CPU -> {0, 1}]
  /\ lock_flags \in [CPU -> {0, 1}]
  /\ sched_global_lock \in Thread \cup {NoThread}
  /\ mode \in [CPU -> {"sched", "run", "back"}]
  /\ current \in [CPU -> Thread \cup {NoThread}]
  /\ pc \in [Thread -> {"out", "global", "spin", "wait", "own", "unlock"}]
  /\ target \in [Thread -> 0 .. N]
  /\ use \in [Thread -> {"none", "light", "complete", "all"}]
  /\ flag \in [Thread -> {0, 1}]
  /\ saved \in [Thread -> {0, 1}]
  /\ before \in [Thread -> {0, 1}]

(* The processors whose tables t may change. *)
Owned(t) ==
  IF pc[t] # "own" THEN {}
  ELSE IF use[t] = "all" THEN CPU
  ELSE {target[t]}

(* Two threads are never inside the tables of one processor, and its       *)
(* scheduler is not either.                                                *)
TablesExclusive ==
  \A t \in Thread : \A c \in Owned(t) :
    mode[c] # "sched" /\ \A u \in Thread : u # t => c \notin Owned(u)

(* While a complete lock is held on a processor no thread runs there, and  *)
(* none is started before the unlock.                                      *)
TargetHalted ==
  \A t \in Thread : \A c \in Owned(t) :
    use[t] # "light" /\ c # Home[t] => running[c] = 0 /\ mode[c] = "back"

(* sched_lock() "is guaranteed to return". *)
LockReturns ==
  \A t \in Thread : (pc[t] \in {"spin", "wait"}) ~> (pc[t] = "own")

(* sched_unlock() is sched_lock() "in reverse" on the caller's own         *)
(* processor: the flag noted in the shared lock_flags is still the         *)
(* caller's, and interrupts are after the call what they were before.      *)
UnlockRestores ==
  [][\A t \in Thread :
       pc[t] = "own" /\ pc'[t] = "out" /\ target[t] = Home[t] => flag'[t] = before[t]]_vars
===========================================================================
