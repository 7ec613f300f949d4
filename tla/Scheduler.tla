----------------------------- MODULE Scheduler -----------------------------
(***************************************************************************)
(* scheduler/scheduler.c with the code that puts threads to sleep and      *)
(* wakes them: set_thread_state and go_dormant (processes/threads.c) and   *)
(* the wake-up at the end of send_message and send_pulse (ipc/).           *)
(*                                                                         *)
(* A region between sched_lock and sched_unlock is one step: SchedLock and *)
(* its proofs are about that.  Fields of struct thread are read and        *)
(* written without a lock, so each such access is a step.  System calls    *)
(* run with interrupts enabled: a thread may be preempted at every step.   *)
(* A failed assert() stops the kernel.                                     *)
(*                                                                         *)
(* Times are relative to st_systemTime.usage, the clock of a processor:    *)
(* left is what remains until request, and of a duration only matters      *)
(* whether it is zero.  Each thread is in a process of its own, whose      *)
(* process lock go_dormant and the senders take as WRITER.                 *)
(***************************************************************************)
EXTENDS Integers, Sequences, SequencesExt

CONSTANTS N,          \* cpu_count
          Thread,
          Home,       \* cpu_affinity of a thread, or (tid - 1) % cpu_count
          SchedSize,  \* sched_size and
          PauseSize,  \* pause_size, INITIAL_SCHED_SIZE in load_scheduler
          Timeouts,   \* the timeouts given to go_dormant; 0 is none
          MaxTick,    \* bound: the clock advances by at most this per dispatch
          NoThread

CPU == 0 .. N - 1

ASSUME CPUAssumption == N \in Nat \ {0} /\ Home \in [Thread -> CPU]
ASSUME SizeAssumption == SchedSize \in Nat \ {0} /\ PauseSize \in Nat
ASSUME TimeAssumption == Timeouts \subseteq Nat /\ MaxTick \in Nat
ASSUME NoThreadAssumption == NoThread \notin Thread

VARIABLES
  sched_queue, pause_queue,       \* struct scheduler_info, per processor
  position, requesting_thread, current_thread,
  mode,       \* per processor: where it is in scheduler() and exec_thread()
  state, cpu, duration,           \* struct thread, per thread
  pc, dest,   \* per thread: where it is in a system call, and the receiver
  lock,       \* per thread: who has checked out its process
  roused,     \* per thread, history: since it asked to sleep, a sender found it asleep
  failed      \* the assertion that stopped the kernel, "none" if it runs

queueVars == <<sched_queue, pause_queue, position, requesting_thread>>
cpuVars == <<current_thread, mode>>
fieldVars == <<state, cpu, duration>>
callVars == <<pc, dest, lock, roused>>
vars == <<queueVars, cpuVars, fieldVars, callVars, failed>>

(* load_scheduler, create_thread *)
Init ==
  /\ sched_queue = [c \in CPU |-> <<>>]
  /\ pause_queue = [c \in CPU |-> <<>>]
  /\ position = [c \in CPU |-> 0]
  /\ requesting_thread = [c \in CPU |-> NoThread]
  /\ current_thread = [c \in CPU |-> NoThread]
  /\ mode = [c \in CPU |-> "timers"]
  /\ state = [t \in Thread |-> "SUSPENDED"]
  /\ cpu = [t \in Thread |-> -1]
  /\ duration = [t \in Thread |-> 0]
  /\ pc = [t \in Thread |-> "user"]
  /\ dest = [t \in Thread |-> t]
  /\ lock = [t \in Thread |-> NoThread]
  /\ roused = [t \in Thread |-> FALSE]
  /\ failed = "none"

(* assert(): what the rest of the step does no longer matters if it fails. *)
Check(ok, assertion) == failed' = IF ok THEN failed ELSE assertion

(* Processor c is at m in scheduler() or exec_thread(); t executes. *)
At(c, m) == failed = "none" /\ mode[c] = m
Runs(t) == At(Home[t], "run") /\ current_thread[Home[t]] = t
Goto(t, from, to) == Runs(t) /\ pc[t] = from /\ pc' = [pc EXCEPT ![t] = to]

(* sched_lock(d, 0), and the form that also waits for a processor other    *)
(* than the caller's to stop.                                              *)
Light(d) == mode[d] \in {"run", "back"}
(* Fault: another processor is locked without waiting for it to stop. *)
AlwaysLight(c, d) == Light(d)

LightOrComplete(c, d) == IF c = d THEN Light(d) ELSE mode[d] = "back"

-----------------------------------------------------------------------------
(* (p - 1) % n in 32 bit unsigned arithmetic. *)
PositionBack(p, n) ==
  IF n = 0 THEN 0
  ELSE IF p = 0 THEN ((65536 % n) * (65536 % n) + n - 1) % n
  ELSE (p - 1) % n

(* Close the gap that tr leaves in the queue of c. *)
CloseGap(c, tr) ==
  /\ sched_queue' = [sched_queue EXCEPT ![c] = RemoveFirst(@, tr)]
  /\ position' = [position EXCEPT ![c] = PositionBack(@, Len(sched_queue[c]) - 1)]

(* Fault: the last place of the queue is never used. *)
AppendShort(c, tr) ==
  sched_queue' = [sched_queue EXCEPT
                    ![c] = IF Len(@) + 1 >= SchedSize THEN @ ELSE Append(@, tr)]

(* sub_queue: a full queue turns the thread away, and no caller looks. *)
Append1(c, tr) ==
  sched_queue' = [sched_queue EXCEPT
                    ![c] = IF Len(@) = SchedSize THEN @ ELSE Append(@, tr)]

(* A thread that nobody else knows of yet is made to run: set_thread_state *)
(* and queue, start_first_module.                                          *)
StartThread(t) ==
  /\ failed = "none" /\ state[t] = "SUSPENDED"
  /\ Light(Home[t])
  /\ state' = [state EXCEPT ![t] = "RUNNING"]
  /\ cpu' = [cpu EXCEPT ![t] = Home[t]]
  /\ Append1(Home[t], t)
  /\ UNCHANGED <<pause_queue, position, requesting_thread, cpuVars, duration,
                 callVars, failed>>

-----------------------------------------------------------------------------
(* scheduler(): the thread that stops running. *)
SwitchOut(c) ==
  LET t == current_thread[c] IN
  /\ At(c, "run")
  /\ mode' = [mode EXCEPT ![c] = "back"]
  /\ current_thread' = [current_thread EXCEPT ![c] = NoThread]
  /\ pc' = [u \in Thread |-> IF u = t /\ pc[u] = "yield" THEN "woken" ELSE pc[u]]
  /\ UNCHANGED <<queueVars, fieldVars, dest, lock, roused, failed>>

(* The clock advances by d while the thread ran. *)
Elapse(q, d) ==
  [i \in DOMAIN q |-> [q[i] EXCEPT !.left = IF @ > d THEN @ - d ELSE 0,
                                   !.slept = IF d > 0 THEN 1 ELSE @]]

(* stats_time and remove_last, to the store of the new state. *)
RemoveLast(c) ==
  LET t == requesting_thread[c] IN
  /\ At(c, "back")
  /\ \E d \in 0 .. MaxTick : pause_queue' = [pause_queue EXCEPT ![c] = Elapse(@, d)]
  /\ IF t # NoThread /\ Contains(sched_queue[c], t)
     THEN /\ CloseGap(c, t)
          /\ state' = [state EXCEPT ![t] = "DORMANT"]
          /\ mode' = [mode EXCEPT ![c] = "last"]
          /\ UNCHANGED requesting_thread
     ELSE /\ requesting_thread' = [requesting_thread EXCEPT ![c] = NoThread]
          /\ mode' = [mode EXCEPT ![c] = "timers"]
          /\ UNCHANGED <<sched_queue, position, state>>
  /\ UNCHANGED <<current_thread, cpu, duration, callVars, failed>>

RemoveLastCpu(c) ==
  /\ At(c, "last")
  /\ cpu' = [cpu EXCEPT ![requesting_thread[c]] = -1]
  /\ requesting_thread' = [requesting_thread EXCEPT ![c] = NoThread]
  /\ mode' = [mode EXCEPT ![c] = "timers"]
  /\ UNCHANGED <<sched_queue, pause_queue, position, current_thread, state, duration,
                 callVars, failed>>

(* remove_timers: an entry whose time has come goes back to the queue. *)
Due(c) == pause_queue[c] # <<>> /\ Head(pause_queue[c]).left = 0

TimerState(c) ==
  /\ At(c, "timers") /\ Due(c)
  /\ state' = [state EXCEPT ![Head(pause_queue[c]).tr] = Head(pause_queue[c]).state]
  /\ mode' = [mode EXCEPT ![c] = "t_duration"]
  /\ UNCHANGED <<queueVars, current_thread, cpu, duration, callVars, failed>>

TimerDuration(c) ==
  /\ At(c, "t_duration")
  /\ duration' = [duration EXCEPT ![Head(pause_queue[c]).tr] = Head(pause_queue[c]).slept]
  /\ mode' = [mode EXCEPT ![c] = "t_cpu"]
  /\ UNCHANGED <<queueVars, current_thread, state, cpu, callVars, failed>>

(* Fault: the thread is queued, and its cpu still says that it is not. *)
TimerLeavesCpu(c) ==
  /\ At(c, "t_cpu")
  /\ Append1(c, Head(pause_queue[c]).tr)
  /\ pause_queue' = [pause_queue EXCEPT ![c] = Tail(@)]
  /\ mode' = [mode EXCEPT ![c] = "timers"]
  /\ UNCHANGED <<position, requesting_thread, current_thread, fieldVars, callVars, failed>>

TimerCpu(c) ==
  LET t == Head(pause_queue[c]).tr IN
  /\ At(c, "t_cpu")
  /\ cpu' = [cpu EXCEPT ![t] = c]
  /\ Check(Len(sched_queue[c]) # SchedSize, "sched_count != sched_size")
  /\ Append1(c, t)
  /\ pause_queue' = [pause_queue EXCEPT ![c] = Tail(@)]
  /\ mode' = [mode EXCEPT ![c] = "timers"]
  /\ UNCHANGED <<position, requesting_thread, current_thread, state, duration, callVars>>

(* The next thread, or the idle thread. *)
Pick(c) ==
  LET q == sched_queue[c] IN
  /\ At(c, "timers") /\ ~ Due(c)
  /\ mode' = [mode EXCEPT ![c] = "run"]
  /\ IF q = <<>>
     THEN /\ current_thread' = [current_thread EXCEPT ![c] = NoThread]
          /\ UNCHANGED position
     ELSE /\ current_thread' = [current_thread EXCEPT ![c] = q[position[c] + 1]]
          /\ position' = [position EXCEPT ![c] = (@ + 1) % Len(q)]
  /\ UNCHANGED <<sched_queue, pause_queue, requesting_thread, fieldVars, callVars, failed>>

-----------------------------------------------------------------------------
(* go_dormant: check out the own process.  The look for messages that      *)
(* follows never keeps the thread awake: messages_waiting and              *)
(* pulses_waiting add up aqueue_count, which is last_position - position,  *)
(* and aqueue_add leaves last_position as it is, so both return 0.         *)
GoDormantCheckout(t) ==
  /\ Goto(t, "user", "waiting")
  /\ lock[t] = NoThread
  /\ lock' = [lock EXCEPT ![t] = t]
  /\ UNCHANGED <<queueVars, cpuVars, fieldVars, dest, roused, failed>>

(* With interrupts disabled from here to the yield: the request of         *)
(* set_thread_state on oneself, and commit_process.                        *)
RequestDormant(t) ==
  /\ Goto(t, "waiting", "yield")
  /\ requesting_thread' = [requesting_thread EXCEPT ![Home[t]] = t]
  /\ lock' = [lock EXCEPT ![t] = NoThread]
  /\ roused' = [roused EXCEPT ![t] = FALSE]
  /\ UNCHANGED <<sched_queue, position, cpuVars, state, cpu, dest>>

GoDormant(t) ==
  /\ 0 \in Timeouts
  /\ RequestDormant(t)
  /\ Check(state[t] = "RUNNING", "state == THREAD_RUNNING")
  /\ duration' = [duration EXCEPT ![t] = 0]
  /\ UNCHANGED pause_queue

(* pause: insert before the first entry that is due later. *)
PauseInsert(q, e) ==
  LET later == SelectInSeq(q, LAMBDA x : x.left > e.left)
  IN  IF later = 0 THEN Append(q, e) ELSE InsertAt(q, later, e)

GoDormantFor(t, milliseconds) ==
  LET c == Home[t] IN
  /\ milliseconds # 0
  /\ Len(pause_queue[c]) # PauseSize
  /\ RequestDormant(t)
  /\ Check(state[t] = "RUNNING" /\ cpu[t] = c, "tr->cpu == CPUID")
  /\ pause_queue' = [pause_queue EXCEPT ![c] =
       PauseInsert(@, [tr |-> t, state |-> state[t], left |-> milliseconds, slept |-> 0])]
  /\ duration' = [duration EXCEPT ![t] = 1]

(* Fault: without room for a timer the thread sleeps all the same. *)
SleepsUntimed(t) ==
  /\ Timeouts # {0}
  /\ Len(pause_queue[Home[t]]) = PauseSize
  /\ RequestDormant(t)
  /\ duration' = [duration EXCEPT ![t] = 1]
  /\ UNCHANGED <<pause_queue, failed>>

(* A full pause queue: nothing is requested, the thread only yields. *)
GoDormantFull(t) ==
  /\ Timeouts # {0}
  /\ Len(pause_queue[Home[t]]) = PauseSize
  /\ Goto(t, "waiting", "yield")
  /\ lock' = [lock EXCEPT ![t] = NoThread]
  /\ UNCHANGED <<queueVars, cpuVars, fieldVars, dest, roused, failed>>

GoDormantReturn(t) ==
  /\ Goto(t, "woken", "user")
  /\ duration' = [duration EXCEPT ![t] = 0]
  /\ UNCHANGED <<queueVars, cpuVars, state, cpu, dest, lock, roused, failed>>

-----------------------------------------------------------------------------
(* send_message, send_pulse, with the receiver's process checked out: the  *)
(* message is queued, then the receiver is woken if it is dormant.         *)
Send(s, t) ==
  /\ s # t
  /\ state[t] # "SUSPENDED"
  /\ Goto(s, "user", "sent")
  /\ lock[t] = NoThread
  /\ lock' = [lock EXCEPT ![t] = s]
  /\ dest' = [dest EXCEPT ![s] = t]
  /\ UNCHANGED <<queueVars, cpuVars, fieldVars, roused, failed>>

(* The port has no owner or is masked, or there is no memory: nobody is    *)
(* woken.                                                                  *)
SendQuietly(s) ==
  /\ Goto(s, "sent", "commit")
  /\ UNCHANGED <<queueVars, cpuVars, fieldVars, dest, lock, roused, failed>>

(* A read of a field of the receiver. *)
Read(s, from, cond, yes, no) ==
  /\ Goto(s, from, IF cond THEN yes ELSE no)
  /\ UNCHANGED <<queueVars, cpuVars, fieldVars, dest, lock, roused, failed>>

SendTest(s) ==
  LET dormant == state[dest[s]] = "DORMANT" IN
  /\ Goto(s, "sent", IF dormant THEN "s_same" ELSE "commit")
  /\ roused' = [roused EXCEPT ![dest[s]] = @ \/ dormant]
  /\ UNCHANGED <<queueVars, cpuVars, fieldVars, dest, lock, failed>>

(* set_thread_state( dest, THREAD_RUNNING ) *)
SetTestSame(s) == Read(s, "s_same", state[dest[s]] = "RUNNING", "commit", "s_dormant")
SetTestDormant(s) ==
  Read(s, "s_dormant", state[dest[s]] = "DORMANT", "s_duration", "s_running")
SetTestDuration(s) == Read(s, "s_duration", duration[dest[s]] # 0, "restart", "s_running")
SetTestRunning(s) ==
  Read(s, "s_running", state[dest[s]] = "RUNNING", "dequeue", "s_store")

(* Faults: the sleeper's entry is copied to the head and not moved; it is  *)
(* made due where it is; it is left alone.                                 *)
RestartCopies(s) ==
  LET d   == Home[dest[s]]
      pos == SelectInSeq(pause_queue[d], LAMBDA x : x.tr = dest[s])
  IN
  /\ Goto(s, "restart", "commit")
  /\ LightOrComplete(Home[s], d)
  /\ pos # 0
  /\ pause_queue' = [pause_queue EXCEPT ![d] = <<[@[pos] EXCEPT !.left = 0]>> \o @]
  /\ UNCHANGED <<sched_queue, position, requesting_thread, cpuVars, fieldVars, dest,
                 lock, roused, failed>>

RestartInPlace(s) ==
  LET d   == Home[dest[s]]
      pos == SelectInSeq(pause_queue[d], LAMBDA x : x.tr = dest[s])
  IN
  /\ Goto(s, "restart", "commit")
  /\ LightOrComplete(Home[s], d)
  /\ pos # 0
  /\ pause_queue' = [pause_queue EXCEPT ![d][pos].left = 0]
  /\ UNCHANGED <<sched_queue, position, requesting_thread, cpuVars, fieldVars, dest,
                 lock, roused, failed>>

RestartDoesNothing(s) ==
  /\ Goto(s, "restart", "commit")
  /\ LightOrComplete(Home[s], Home[dest[s]])
  /\ UNCHANGED <<queueVars, cpuVars, fieldVars, dest, lock, roused, failed>>

(* restart: the sleeper goes to the head of the pause queue, due at once. *)
Restart(s) ==
  LET t   == dest[s]
      d   == Home[t]
      pos == SelectInSeq(pause_queue[d], LAMBDA x : x.tr = t)
  IN
  /\ Goto(s, "restart", "commit")
  /\ LightOrComplete(Home[s], d)
  /\ Check(pos # 0, "unpausing a non-paused thread")
  /\ pause_queue' =
       IF pos = 0 THEN pause_queue
       ELSE [pause_queue EXCEPT ![d] = <<[@[pos] EXCEPT !.left = 0]>> \o RemoveAt(@, pos)]
  /\ UNCHANGED <<sched_queue, position, requesting_thread, cpuVars, fieldVars, dest,
                 lock, roused>>

(* dequeue *)
DequeueTest(s) ==
  /\ Goto(s, "dequeue", "sub_dequeue")
  /\ Check(cpu[dest[s]] >= 0, "tr->cpu >= 0")
  /\ UNCHANGED <<queueVars, cpuVars, fieldVars, dest, lock, roused>>

SubDequeue(s) ==
  LET t == dest[s] IN
  /\ Goto(s, "sub_dequeue", "dequeued")
  /\ LightOrComplete(Home[s], Home[t])
  /\ Check(Contains(sched_queue[Home[t]], t), "pos != sched_count")
  /\ IF Contains(sched_queue[Home[t]], t)
     THEN CloseGap(Home[t], t)
     ELSE UNCHANGED <<sched_queue, position>>
  /\ UNCHANGED <<pause_queue, requesting_thread, cpuVars, fieldVars, dest, lock, roused>>

DequeueCpu(s) ==
  /\ Goto(s, "dequeued", "s_store")
  /\ cpu' = [cpu EXCEPT ![dest[s]] = -1]
  /\ UNCHANGED <<queueVars, cpuVars, state, duration, dest, lock, roused, failed>>

SetState(s) ==
  /\ Goto(s, "s_store", "queue")
  /\ state' = [state EXCEPT ![dest[s]] = "RUNNING"]
  /\ UNCHANGED <<queueVars, cpuVars, cpu, duration, dest, lock, roused, failed>>

(* queue *)
QueueTest(s) ==
  /\ Goto(s, "queue", "q_cpu")
  /\ Check(cpu[dest[s]] < 0, "tr->cpu < 0")
  /\ UNCHANGED <<queueVars, cpuVars, fieldVars, dest, lock, roused>>

QueueCpu(s) ==
  /\ Goto(s, "q_cpu", "sub_queue")
  /\ cpu' = [cpu EXCEPT ![dest[s]] = Home[dest[s]]]
  /\ UNCHANGED <<queueVars, cpuVars, state, duration, dest, lock, roused, failed>>

SubQueue(s) ==
  /\ Goto(s, "sub_queue", "commit")
  /\ Light(Home[dest[s]])
  /\ Append1(Home[dest[s]], dest[s])
  /\ UNCHANGED <<pause_queue, position, requesting_thread, cpuVars, fieldVars, dest,
                 lock, roused, failed>>

(* commit_process: the message is sent. *)
Commit(s) ==
  /\ Goto(s, "commit", "user")
  /\ lock' = [lock EXCEPT ![dest[s]] = NoThread]
  /\ dest' = [dest EXCEPT ![s] = s]
  /\ UNCHANGED <<queueVars, cpuVars, fieldVars, roused, failed>>

-----------------------------------------------------------------------------
(* What a processor does by itself. *)
Schedule(c) ==
  \/ RemoveLast(c) \/ RemoveLastCpu(c) \/ TimerState(c) \/ TimerDuration(c)
  \/ TimerCpu(c) \/ Pick(c) \/ SwitchOut(c)

(* A system call under way goes on. *)
Proceed(t) ==
  \/ GoDormant(t) \/ GoDormantFull(t) \/ GoDormantReturn(t)
  \/ \E m \in Timeouts : GoDormantFor(t, m)
  \/ SendQuietly(t) \/ SendTest(t) \/ SetTestSame(t) \/ SetTestDormant(t) \/ SetTestDuration(t)
  \/ SetTestRunning(t) \/ Restart(t) \/ DequeueTest(t) \/ SubDequeue(t)
  \/ DequeueCpu(t) \/ SetState(t) \/ QueueTest(t) \/ QueueCpu(t) \/ SubQueue(t)
  \/ Commit(t)

Next ==
  \/ \E c \in CPU : Schedule(c)
  \/ \E t \in Thread : \/ StartThread(t) \/ GoDormantCheckout(t) \/ Proceed(t)
                       \/ \E u \in Thread : Send(t, u)

Spec == Init /\ [][Next]_vars

(* Processors go on, threads are started, and the time slice of a running  *)
(* thread is long enough for it to go on in a system call.  No thread has  *)
(* to send or to sleep.                                                    *)
Fairness ==
  /\ \A c \in CPU : WF_vars(Schedule(c))
  /\ \A t \in Thread : /\ WF_vars(StartThread(t))
                       /\ SF_vars(Proceed(t))

FairSpec == Spec /\ Fairness

-----------------------------------------------------------------------------
Waking == {"sent", "s_same", "s_dormant", "s_duration", "s_running", "s_store", "restart",
           "dequeue", "sub_dequeue", "dequeued", "queue", "q_cpu", "sub_queue"}

Entry == [tr : Thread, state : {"RUNNING", "DORMANT", "SUSPENDED"}, left : Nat,
          slept : {0, 1}]

Assertion == {"state == THREAD_RUNNING", "tr->cpu == CPUID", "tr->cpu >= 0", "tr->cpu < 0",
              "pos != sched_count", "sched_count != sched_size",
              "unpausing a non-paused thread"}

TypeOK ==
  /\ sched_queue \in [CPU -> Seq(Thread)]
  /\ pause_queue \in [CPU -> Seq(Entry)]
  /\ \A c \in CPU : Len(sched_queue[c]) <= SchedSize /\ Len(pause_queue[c]) <= PauseSize
  /\ position \in [CPU -> Nat]
  /\ requesting_thread \in [CPU -> Thread \cup {NoThread}]
  /\ current_thread \in [CPU -> Thread \cup {NoThread}]
  /\ mode \in [CPU -> {"run", "back", "last", "timers", "t_duration", "t_cpu"}]
  /\ state \in [Thread -> {"RUNNING", "DORMANT", "SUSPENDED"}]
  /\ cpu \in [Thread -> CPU \cup {-1}]
  /\ duration \in [Thread -> {0, 1}]
  /\ pc \in [Thread -> {"user", "waiting", "yield", "woken", "commit"} \cup Waking]
  /\ dest \in [Thread -> Thread]
  /\ lock \in [Thread -> Thread \cup {NoThread}]
  /\ roused \in [Thread -> BOOLEAN]
  /\ failed \in Assertion \cup {"none"}

(* Who goes to sleep, whose timer fires and who is taken out of a queue is *)
(* where go_dormant, pause, remove_timers and sub_dequeue assert it to be, *)
(* whatever a waker has read about it before it acts.  The assertions on   *)
(* the waker's side can fail (README): it may restart a thread whose timer *)
(* has fired, and find the processor of one that is just being moved.      *)
OnlyWakersFail ==
  failed \in {"none", "unpausing a non-paused thread", "tr->cpu < 0", "tr->cpu >= 0"}

QueuedOnce ==
  \A c \in CPU :
    /\ IsInjective(sched_queue[c])
    /\ IsInjective([i \in DOMAIN pause_queue[c] |-> pause_queue[c][i].tr])

PositionInside ==
  \A c \in CPU : position[c] = 0 \/ position[c] < Len(sched_queue[c])

(* A thread is at most once in the queue of its processor and at most once *)
(* among the sleepers: a second entry would give it two turns, and would   *)
(* stay behind when one is removed.  position, which the scheduler uses as *)
(* an index without a test, is inside the queue through all the removals.  *)
QueuesSound == TypeOK /\ QueuedOnce /\ PositionInside

(* remove_timers looks at the head only: whoever is due first is there. *)
PauseSorted ==
  \A c \in CPU : \A i, j \in DOMAIN pause_queue[c] :
    i < j => pause_queue[c][i].left <= pause_queue[c][j].left

(* A thread is removed from the queue only while it is not running. *)
RunningIsQueued ==
  \A c \in CPU : mode[c] = "run" /\ current_thread[c] # NoThread =>
    Contains(sched_queue[c], current_thread[c])

InTransit(t) ==
  \/ \E s \in Thread : dest[s] = t /\ s # t /\ pc[s] \in {"dequeued", "s_store", "queue",
                                                  "q_cpu", "sub_queue"}
  \/ mode[Home[t]] \in {"t_duration", "t_cpu"} /\ Head(pause_queue[Home[t]]).tr = t

(* A runnable thread has a place in its queue, so that it is not forgotten,*)
(* unless somebody is about to give it one.                                *)
RunnableIsQueued ==
  failed = "none" =>
  \A t \in Thread : state[t] = "RUNNING" /\ ~ InTransit(t) =>
    Contains(sched_queue[Home[t]], t) /\ cpu[t] = Home[t]

(* A sleeper is in no queue to run, and a timed one has a timer. *)
SleeperHasTimer ==
  \A t \in Thread : state[t] = "DORMANT" =>
    /\ ~ Contains(sched_queue[Home[t]], t)
    /\ duration[t] # 0 => \E i \in DOMAIN pause_queue[Home[t]] :
                            pause_queue[Home[t]][i].tr = t

(* A thread that a sender has found asleep is not left asleep: somebody is *)
(* still waking it, or it is among the sleepers and due.                   *)
NoLostWakeup ==
  failed = "none" =>
  \A t \in Thread : state[t] = "DORMANT" /\ roused[t] =>
    \/ \E s \in Thread : s # t /\ dest[s] = t /\ pc[s] \in Waking \ {"sent"}
    \/ \E i \in DOMAIN pause_queue[Home[t]] :
         pause_queue[Home[t]][i].tr = t /\ pause_queue[Home[t]][i].left = 0


(* What a wake-up can count on: every thread in a queue keeps getting      *)
(* turns, and every sched_lock returns.  The code promises both and keeps  *)
(* neither in all cases: Served, and LockReturns of SchedLock.                *)
Turns ==
  \A t \in Thread :
    /\ []<>(Runs(t) \/ ~ Contains(sched_queue[Home[t]], t))
    /\ []<>(pc[t] \notin {"restart", "sub_dequeue", "sub_queue"})

(* Given that, a thread that a sender has found asleep becomes runnable,   *)
(* whichever of its timer and the sender comes first at every step.        *)
WokenRuns ==
  Turns =>
  \A t \in Thread :
    (state[t] = "DORMANT" /\ roused[t]) ~> (state[t] # "DORMANT" \/ failed # "none")
===========================================================================
