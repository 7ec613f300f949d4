---------------------------- MODULE MCProcesses -----------------------------
EXTENDS Processes

(* The threads of User are of one process, the first behind smk. *)
OneProcess == [u \in User |-> 2]
=============================================================================
