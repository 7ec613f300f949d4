--------------------------------- MODULE Irq ---------------------------------
(***************************************************************************)
(* irq.c and the fast queues of scheduler.c: threads of user processes     *)
(* serve interrupt lines.  An interrupt queues one handler of its line on  *)
(* the fast queue of the handler's processor; a handler that was not meant *)
(* passes the interrupt on to the next one.  irq_handler takes no lock: it *)
(* interrupts a handler in the middle of irq_complete.  The counters of    *)
(* raised, accepted and rejected interrupts are left out, and so is the    *)
(* run queue of a thread that serves no line (Scheduler).                  *)
(***************************************************************************)
EXTENDS Integers, Sequences, SequencesExt, FiniteSets, FiniteSetsExt

CONSTANTS Thread,
          Process,    \* the process of a thread: Thread -> a set
          Affinity,   \* its cpu_affinity: Thread -> Cpu
          Line,       \* interrupt lines other than 0, the timer
          Cpu,
          MAX_FAST,   \* slots of a fast queue, 32 in the code
          MaxHandlers,   \* bound on count
          MaxLast,       \* bound on last, which a release may increase
          MaxIndex       \* bound on index, which a handler of two lines increases for
                         \* the one while interrupts reset that of the other

NONE == "NONE"        \* the -1 of irq and cpu

(* The assert of fast_queue: the affinity of a thread is a processor. *)
ASSUME IrqAssumption ==
  /\ IsFiniteSet(Cpu) /\ NONE \notin Cpu \cup Line \cup Thread
  /\ Affinity \in [Thread -> Cpu]
  /\ MAX_FAST \in Nat \ {0}

VARIABLES stubs, index, last,       \* handlers[ irq ]
          unmasked,                 \* lines open at the controller
          service,                  \* lines that wait for the controller to be acknowledged
          state, irq, cpu, fast_queued,   \* of each thread
          fast,                     \* the fast queue of each processor, oldest first
          current,                  \* the thread that runs on each processor
          position,                 \* what irq_complete found, a position of the line of
                                    \* the thread, which has the lock of that line; or 0
          astray,                   \* history: processes with a thread that gave back a
                                    \* line while it was serving another one
          open,                     \* history: lines with an interrupt that no one took yet
          stopped                   \* an assert failed or memory outside an array was read

threadVars == <<state, irq>>
fastVars == <<cpu, fast_queued, fast>>
hookVars == <<stubs, index, last, unmasked>>
vars == <<stubs, index, last, unmasked, service, state, irq, cpu, fast_queued, fast,
          current, position, astray, open, stopped>>

count(l) == Len(stubs[l])

Init ==
  /\ stubs = [l \in Line |-> <<>>]
  /\ index = [l \in Line |-> 0] /\ last = [l \in Line |-> 0]
  /\ unmasked = {} /\ service = {}
  /\ state \in [Thread -> {"SUSPENDED", "RUNNING"}]
  /\ irq = [t \in Thread |-> NONE] /\ cpu = [t \in Thread |-> NONE]
  /\ fast_queued = [t \in Thread |-> 0]
  /\ fast = [c \in Cpu |-> <<>>] /\ current = [c \in Cpu |-> NONE]
  /\ position = [t \in Thread |-> 0]
  /\ astray = {} /\ open = {} /\ stopped = FALSE

-----------------------------------------------------------------------------
(* The scheduler runs the oldest thread of the fast queue, get_fast, or    *)
(* one of the run queue.                                                   *)
Dispatch(c) ==
  /\ ~ stopped /\ current[c] = NONE
  /\ \/ fast[c] # <<>> /\ current' = [current EXCEPT ![c] = Head(fast[c])]
     \/ \E t \in Thread : /\ state[t] = "RUNNING" /\ Affinity[t] = c
                          /\ current' = [current EXCEPT ![c] = t]
  /\ UNCHANGED <<hookVars, service, threadVars, fastVars, position, astray, open, stopped>>

(* The time slice is over, wherever the thread is. *)
Preempt(c) ==
  /\ ~ stopped /\ current[c] # NONE
  /\ current' = [current EXCEPT ![c] = NONE]
  /\ UNCHANGED <<hookVars, service, threadVars, fastVars, position, astray, open, stopped>>

Runs(t) == current[Affinity[t]] = t

(* irq_locks[ l ] is free: no thread is inside irq_complete. *)
Unlocked(l) == \A t \in Thread : position[t] # 0 => irq[t] # l

(* t runs and makes a call about l that gets the lock of the line. *)
Calls(t, l) == ~ stopped /\ Runs(t) /\ position[t] = 0 /\ Unlocked(l)

-----------------------------------------------------------------------------
(* fast_queue( t ): its assert fails when the ring is full. *)
fast_queue(t) ==
  /\ cpu' = [cpu EXCEPT ![t] = Affinity[t]]
  /\ fast_queued' = [fast_queued EXCEPT ![t] = @ + 1]
  /\ fast' = [fast EXCEPT ![Affinity[t]] = Append(@, t)]
  /\ stopped' = (Len(fast[Affinity[t]]) + 1 = MAX_FAST)

Queues == [cpu |-> cpu, fast_queued |-> fast_queued, fast |-> fast]

QueuesWith(t) ==
  [cpu |-> [cpu EXCEPT ![t] = Affinity[t]],
   fast_queued |-> [fast_queued EXCEPT ![t] = @ + 1],
   fast |-> [fast EXCEPT ![Affinity[t]] = Append(@, t)]]

(* The asserts of fast_dequeue( t ) when the queues are q. *)
Leading(t, q) == q.cpu[t] # NONE /\ Head(q.fast[q.cpu[t]]) = t

(* Fault: the thread counts as being on no processor at once. *)
DequeueAlways(t, q) ==
  /\ fast' = [q.fast EXCEPT ![q.cpu[t]] = Tail(@)]
  /\ fast_queued' = [q.fast_queued EXCEPT ![t] = @ - 1]
  /\ cpu' = [q.cpu EXCEPT ![t] = NONE]

(* fast_dequeue( t ), after the queues have become q. *)
fast_dequeue(t, q) ==
  /\ fast' = [q.fast EXCEPT ![q.cpu[t]] = Tail(@)]
  /\ fast_queued' = [q.fast_queued EXCEPT ![t] = @ - 1]
  /\ cpu' = [q.cpu EXCEPT ![t] = IF q.fast_queued[t] = 1 THEN NONE ELSE @]

-----------------------------------------------------------------------------
(* request_irq, called for t by a thread of its process: all schedulers    *)
(* are locked while the hook is exchanged.                                 *)
request_irq(t, l) ==
  /\ ~ stopped /\ state[t] = "SUSPENDED" /\ Unlocked(l)
  /\ count(l) < MaxHandlers
  /\ stubs' = [stubs EXCEPT ![l] = Append(@, t)]
  /\ unmasked' = IF count(l) = 0 THEN unmasked \cup {l} ELSE unmasked
  /\ irq' = [irq EXCEPT ![t] = l]
  /\ state' = [state EXCEPT ![t] = "IRQ"]
  /\ UNCHANGED <<index, last, service, fastVars, current, position, astray, open, stopped>>

(* release_irq( t, l ), by t itself.  Of the last handler of a line only   *)
(* the process is compared.                                                *)
Stubs(t, l) == {i \in 1 .. count(l) : stubs[l][i] = t}

Found(t, l) ==
  IF count(l) = 1 THEN Process[stubs[l][1]] = Process[t] ELSE Stubs(t, l) # {}

(* The other stubs move up. *)
Without(t, l) ==
  IF count(l) = 1 THEN <<>> ELSE RemoveAt(stubs[l], CHOOSE i \in Stubs(t, l) : TRUE)

(* The assert of release_irq: t was there once. *)
Once(t, l) == count(l) > 1 => \A i, j \in Stubs(t, l) : i = j

(* Fault: the line stays open. *)
MaskedNever(l, left) == unmasked

MaskedIfLast(l, left) == IF left = <<>> THEN unmasked \ {l} ELSE unmasked

(* last -= -1, as the code has it. *)
release_irq(t, l) ==
  LET left == Without(t, l) IN
  /\ Calls(t, l)
  /\ count(l) > 0 /\ Found(t, l) /\ Once(t, l) /\ last[l] <= MaxLast
  /\ stubs' = [stubs EXCEPT ![l] = left]
  /\ index' = [index EXCEPT ![l] = IF @ >= Len(left) /\ @ > 0 THEN @ - 1 ELSE @]
  /\ last' = [last EXCEPT ![l] = IF @ >= Len(left) /\ @ > 0 THEN @ + 1 ELSE @]
  /\ unmasked' = MaskedIfLast(l, left)
  /\ irq' = [irq EXCEPT ![t] = NONE]
  /\ state' = [state EXCEPT ![t] = "SUSPENDED"]
  /\ astray' = IF irq[t] \in {l, NONE} THEN astray ELSE astray \cup {Process[t]}
  /\ open' = IF cpu[t] # NONE THEN open \ {irq[t]} ELSE open
  /\ UNCHANGED <<service, fastVars, current, position, stopped>>

(* The assert fails. *)
ReleaseFails(t, l) ==
  /\ Calls(t, l) /\ ~ Once(t, l)
  /\ stopped' = TRUE
  /\ UNCHANGED <<hookVars, service, threadVars, fastVars, current, position, astray, open>>

-----------------------------------------------------------------------------
(* Nobody is owed an interrupt that came to a process gone astray. *)
Owed(l, t) == IF Process[t] \in astray THEN open \ {l} ELSE open

(* irq_handler: the controller raises a line that is open and not in       *)
(* service.  It reads beyond the stubs when last is outside.               *)
irq_handler(l) ==
  LET t == stubs[l][last[l] + 1] IN
  /\ ~ stopped /\ l \in unmasked /\ l \notin service
  /\ service' = service \cup {l}
  /\ index' = [index EXCEPT ![l] = 0]
  /\ IF last[l] < count(l)
     THEN fast_queue(t) /\ open' = IF Process[t] \in astray THEN open \ {l} ELSE open \cup {l}
     ELSE stopped' = TRUE /\ UNCHANGED <<fastVars, open>>
  /\ UNCHANGED <<stubs, last, unmasked, threadVars, current, position, astray>>

Position(l) == (index[l] + last[l]) % count(l)

(* irq_ack( l ) of a thread that runs: it must be the one that is asked. *)
irq_ack(t, l) ==
  /\ Calls(t, l) /\ count(l) > 0
  /\ stubs[l][Position(l) + 1] = t
  /\ service' = service \ {l}
  /\ UNCHANGED <<hookVars, threadVars, fastVars, current, position, astray, open, stopped>>

(* irq_ack or irq_complete for a line that no one serves any more: the     *)
(* position is a division by 0.                                            *)
DivideByZero(t, l) ==
  /\ Calls(t, l) /\ count(l) = 0
  /\ stopped' = TRUE
  /\ UNCHANGED <<hookVars, service, threadVars, fastVars, current, position, astray, open>>

(* irq_complete: the same check; who fails it is told so ... *)
irq_complete(t) ==
  LET l == irq[t] IN
  /\ l # NONE /\ Calls(t, l) /\ count(l) > 0
  /\ stubs[l][Position(l) + 1] = t
  /\ position' = [position EXCEPT ![t] = Position(l) + 1]
  /\ UNCHANGED <<hookVars, service, threadVars, fastVars, current, astray, open, stopped>>

(* ... and, after interrupts may have come in, the handler took it, and    *)
(* yields, ...                                                             *)
Accept(t) ==
  LET l == irq[t] IN
  /\ ~ stopped /\ Runs(t) /\ position[t] # 0 /\ Leading(t, Queues)
  /\ last' = [last EXCEPT ![l] = position[t] - 1]
  /\ fast_dequeue(t, Queues)
  /\ current' = [current EXCEPT ![Affinity[t]] = NONE]
  /\ position' = [position EXCEPT ![t] = 0]
  /\ open' = open \ {l}
  /\ UNCHANGED <<stubs, index, unmasked, service, threadVars, astray, stopped>>

(* Fault: one handler too few is asked. *)
MoreShort(l) == index[l] + 2 < count(l)

(* Handlers that have not been asked, and the next one. *)
More(l) == index[l] + 1 < count(l)
Following(t) == stubs[irq[t]][(position[t] % count(irq[t])) + 1]

AfterReject(t) == IF More(irq[t]) THEN QueuesWith(Following(t)) ELSE Queues

(* ... or did not, and the next one is asked unless all have been.  The    *)
(* thread goes on, and may call irq_complete again at once, as             *)
(* smk_irq_stub does.                                                      *)
Reject(t) ==
  LET l == irq[t] IN
  /\ ~ stopped /\ Runs(t) /\ position[t] # 0 /\ Leading(t, AfterReject(t))
  /\ index[l] < MaxIndex
  /\ index' = [index EXCEPT ![l] = @ + 1]
  /\ fast_dequeue(t, AfterReject(t))
  /\ stopped' = (More(l) /\ Len(fast[Affinity[Following(t)]]) + 1 = MAX_FAST)
  /\ position' = [position EXCEPT ![t] = 0]
  /\ open' = IF index[l] + 1 < count(l) THEN Owed(l, Following(t)) ELSE open \ {l}
  /\ UNCHANGED <<stubs, last, unmasked, service, threadVars, current, astray>>

(* The asserts of fast_dequeue fail for a thread that is not, or no        *)
(* longer, at the head of its queue.                                       *)
DequeueFails(t) ==
  /\ ~ stopped /\ Runs(t) /\ position[t] # 0
  /\ ~ Leading(t, Queues) \/ ~ Leading(t, AfterReject(t))
  /\ stopped' = TRUE
  /\ UNCHANGED <<hookVars, service, threadVars, fastVars, current, position, astray, open>>

-----------------------------------------------------------------------------
Next ==
  \/ \E c \in Cpu : Dispatch(c) \/ Preempt(c)
  \/ \E l \in Line : irq_handler(l)
  \/ \E t \in Thread, l \in Line :
       \/ request_irq(t, l) \/ release_irq(t, l) \/ ReleaseFails(t, l)
       \/ irq_ack(t, l) \/ DivideByZero(t, l)
  \/ \E t \in Thread : irq_complete(t) \/ Accept(t) \/ Reject(t) \/ DequeueFails(t)

Spec == Init /\ [][Next]_vars

-----------------------------------------------------------------------------
(* The count a thread keeps of its fast queueings is how often it is in    *)
(* the queues, all in that of the processor it is on, and a thread that is *)
(* in none is on none: whatever handlers decline, take and complete too    *)
(* often, fast_dequeue takes out who it counts down or stops at an assert. *)
FastExact ==
  /\ \A t \in Thread :
       /\ fast_queued[t] = Cardinality({x \in Cpu \X (1 .. MAX_FAST) :
                                          x[2] <= Len(fast[x[1]]) /\ fast[x[1]][x[2]] = t})
       /\ cpu[t] = NONE <=> fast_queued[t] = 0
  /\ \A c \in Cpu : \A i \in 1 .. Len(fast[c]) : cpu[fast[c][i]] = c

(* A line is open at the controller exactly while it has a handler.  Each  *)
(* handler of a process none of whose threads gave back another line than  *)
(* its own is in state THREAD_IRQ for that line, once, whatever other      *)
(* processes request and release.  Without that proviso it fails:          *)
(* release_irq looks at the process only, and suspends a thread that is    *)
(* still the handler of another line.                                      *)
Hooked ==
  \A l \in Line :
    /\ l \in unmasked <=> count(l) > 0
    /\ \A i \in 1 .. count(l) : Process[stubs[l][i]] \notin astray =>
         /\ irq[stubs[l][i]] = l /\ state[stubs[l][i]] = "IRQ"
         /\ \A j \in 1 .. count(l) : stubs[l][j] = stubs[l][i] => j = i

(* An interrupt that no handler took and not all declined is not           *)
(* forgotten: a handler of the line is queued, however interrupts and      *)
(* rounds overlap.  Two ways to lose one are left out, and happen: the     *)
(* handler that was queued gives its line back in the middle of the round, *)
(* or is one of a process gone astray.                                     *)
RoundGoesOn ==
  ~ stopped => \A l \in open : \E c \in Cpu : \E i \in 1 .. Len(fast[c]) : irq[fast[c][i]] = l
=============================================================================
