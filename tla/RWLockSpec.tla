---------------------------- MODULE RWLockSpec ----------------------------
(***************************************************************************)
(* What a reader-writer lock promises its callers, independently of how    *)
(* ds/rwlock.c keeps its counters: any number of readers, or one writer,   *)
(* never both.                                                             *)
(***************************************************************************)

CONSTANT Proc          \* the threads of control that use the lock

VARIABLES readers,     \* the callers that hold the lock for reading
          writers      \* the callers that hold the lock for writing

specVars == <<readers, writers>>

SpecInit == readers = {} /\ writers = {}

(* rwlock_get_read_access() has returned to p. *)
GrantRead(p) ==
  /\ writers = {}
  /\ p \notin readers
  /\ readers' = readers \cup {p}
  /\ UNCHANGED writers

(* rwlock_get_write_access() has returned to p. *)
GrantWrite(p) ==
  /\ readers = {} /\ writers = {}
  /\ writers' = {p}
  /\ UNCHANGED readers

(* p has released what it held. *)
Release(p) ==
  /\ p \in readers \cup writers
  /\ readers' = readers \ {p}
  /\ writers' = writers \ {p}

SpecNext == \E p \in Proc : GrantRead(p) \/ GrantWrite(p) \/ Release(p)

AbstractSpec == SpecInit /\ [][SpecNext]_specVars
===========================================================================
