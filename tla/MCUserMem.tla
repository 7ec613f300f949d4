----------------------------- MODULE MCUserMem ------------------------------
(***************************************************************************)
(* User memory: the pages of one process (Ualloc), or shared memory of two *)
(* processes (Shmem).  A behaviour is one of one of them, as in MCMemory.  *)
(* The two have the user's part of the address space in common (TableSize, *)
(* sK_BASE, TOP) and share no variable.                                    *)
(***************************************************************************)
EXTENDS Shmem, TLC

VARIABLES part, space, alloc, freeing, stacks, others, ended

privateVars == <<space, alloc, freeing, stacks, others, ended>>

(* One thread in each of two processes, two regions, two frames: q owns    *)
(* a promiscuous region, and q an immortal one of device memory or p one   *)
(* that needs a grant.                                                     *)
TwoFrames == 1 .. 2
Homes == [t1 |-> "p", t2 |-> "q"]
TwoKinds == 0 :> {<<"q", 1, {"PROMISCUOUS"}, TRUE>>}
              @@ 1 :> {<<"p", 1, {}, TRUE>>, <<"q", 1, {"IMMORTAL"}, FALSE>>}

(* Four pages in two page tables, the last of them beyond sK_CEILING, and  *)
(* six frames: frames or pages run out first, as it comes.                 *)
Private == INSTANCE Ualloc WITH
  sK_CEILING <- 7, Frame <- 1 .. 6,
  Sizes <- {1, 2}, sK_PAGES_THREAD <- 1, Segments <- {<<4, 3>>}, MaxRecords <- 2

MCInit == part \in {"private", "shared"} /\ Private!Init /\ Init

MCNext ==
  \/ part = "private" /\ Private!Next /\ UNCHANGED <<part, vars>>
  \/ part = "shared" /\ Next /\ UNCHANGED <<part, privateVars>>

MCSpec == MCInit /\ [][MCNext]_<<part, privateVars, vars>>

-----------------------------------------------------------------------------
(* Every frame a process causes to be in use has one owner, and every page *)
(* it has asked for shows the frame it was given (Ualloc).                 *)
Accounted == Private!Accounted
=============================================================================
