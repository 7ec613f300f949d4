----------------------------- MODULE MCRWLock -----------------------------
EXTENDS RWLock, TLC

(* Callers of one kind are interchangeable (safety runs only). *)
Symmetry == Permutations(Readers) \cup Permutations(Writers)
===========================================================================
