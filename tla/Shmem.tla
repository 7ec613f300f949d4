------------------------------- MODULE Shmem --------------------------------
(***************************************************************************)
(* shmem.c on top of Paging: shared memory regions, and their pages in the *)
(* processes that use them.  Every call but shmem_delete works under       *)
(* shmem_lock from beginning to end, and waits for nobody while it has it; *)
(* it is one step here.  shmem_delete takes the region out of the table,   *)
(* then works without shmem_lock and waits for the processes that use the  *)
(* region, one after the other.                                            *)
(***************************************************************************)
EXTENDS Paging

CONSTANTS Process, Thread, Home,    \* Home[t]: the process of a thread
          MaxId,                    \* bound on shmem_id, which rolls over at 2^31
          MaxUsage,                 \* bound on the usage of a region by a process
          Careless,                 \* processes that release, once, what they have not
                                    \* requested: a bound, the code lets any do it
          Mortal,                   \* processes that may end, a bound too
          Kinds,                    \* what the regions that are created may be, by their
                                    \* ids: <<owner, pages, flags, internal>>
          Device                    \* a location that was not allocated

Flag == {"RDWR", "IMMORTAL", "PROMISCUOUS", "ORPHAN"}

ASSUME HomeAssumption == Home \in [Thread -> Process]
(* What creators ask for: at least one page, and no flag that only         *)
(* shmem_clean sets.                                                       *)
ASSUME KindsAssumption ==
  /\ MaxId \in Nat
  /\ \A id \in 0 .. MaxId - 1 : \A k \in Kinds[id] :
       k[2] \in Nat \ {0} /\ k[3] \subseteq Flag \ {"ORPHAN"} /\ k[4] \in BOOLEAN
ASSUME DeviceAssumption == Device \in Nat \ {0}

VARIABLES shmem_table,    \* the regions, by id
          shmem_id,
          map,            \* the user pages of each process
          used,           \* frames that are allocated
          alive,          \* processes checkout_process finds
          job,            \* what a thread has yet to do of a shmem_delete or shmem_clean
          pad,            \* the scratch frames a process was given
          excused,        \* processes that released more than they requested,
                          \* or that there was no scratch memory for
          cleaned         \* processes shmem_clean has returned 0 for

vars == <<shmem_table, shmem_id, map, used, alive, job, pad, excused, cleaned>>

Infos(sh) == ToSet(sh.list)
Frames(sh) == Span(sh.physical_location, sh.physical_pages)
Info(p) == [pid |-> p, virtual_location |-> 0, virtual_pages |-> -1, usage |-> 0]
IndexOf(list, p) == SelectInSeq(list, LAMBDA info : info.pid = p)

(* The directory of p; its page tables are there. *)
Space(p) == [table |-> [t \in Tables |-> 1], entry |-> map[p], used |-> used, ok |-> TRUE]

(* Processes a shmem_delete has checked out for writing. *)
Held(p) == \E t \in Thread : p \in job[t].out
NoJob == [at |-> "none", out |-> {}]
Clean(p) == [at |-> "clean", out |-> {}, pid |-> p]
Idle(t) == job[t] = NoJob /\ Home[t] \in alive

Init ==
  /\ shmem_table = <<>> /\ shmem_id = 0
  /\ map = [p \in Process |-> new_page_directory.entry]
  /\ used = {} /\ alive = Process
  /\ job = [t \in Thread |-> NoJob]
  /\ pad = [p \in Process |-> {}]
  /\ excused = {} /\ cleaned = {}

-----------------------------------------------------------------------------
(* shmem_create, and shmem_create_direct when internal is FALSE.  Without  *)
(* a roll over of shmem_id the first id it tries is free.                  *)
shmem_create(t, n, flags, internal) ==
  LET f == IF internal THEN memory_alloc(used, n) ELSE Device
      sh == [pid |-> Home[t], flags |-> flags, internal |-> internal,
             physical_location |-> f, physical_pages |-> n, list |-> <<>>]
  IN
  /\ Idle(t)
  /\ f # 0
  /\ used' = IF internal THEN used \cup Span(f, n) ELSE used
  /\ shmem_table' = [i \in DOMAIN shmem_table \cup {shmem_id} |-> IF i = shmem_id THEN sh ELSE shmem_table[i]]
  /\ shmem_id' = shmem_id + 1
  /\ UNCHANGED <<map, alive, job, pad, excused, cleaned>>

(* Only the owner grants, and only once. *)
shmem_grant(t, id, p) ==
  LET sh == shmem_table[id] IN
  /\ Idle(t)
  /\ id \in DOMAIN shmem_table
  /\ sh.pid = Home[t]
  /\ IndexOf(sh.list, p) = 0
  /\ shmem_table' = [shmem_table EXCEPT ![id].list = <<Info(p)>> \o @]
  /\ UNCHANGED <<shmem_id, map, used, alive, job, pad, excused, cleaned>>

(* Fault: the pages of the region stay mapped. *)
RevokeKeepsPages(t, p, id) ==
  LET sh == shmem_table[id] IN
  /\ Idle(t)
  /\ p \in alive /\ ~ Held(p)
  /\ id \in DOMAIN shmem_table
  /\ sh.pid = Home[t] /\ IndexOf(sh.list, p) # 0
  /\ shmem_table' = [shmem_table EXCEPT ![id].list = RemoveAt(@, IndexOf(sh.list, p))]
  /\ UNCHANGED <<shmem_id, map, used, alive, job, pad, excused, cleaned>>

(* shmem_revoke, with p checked out for writing: p goes on with a copy.    *)
(* Without memory for it nothing changes.                                  *)
shmem_revoke(t, p, id) ==
  LET sh == shmem_table[id]
      i == IndexOf(sh.list, p)
      busy == sh.list[i].usage > 0
      data == memory_alloc(used, sh.physical_pages)
      scratch == Span(data, sh.physical_pages)
  IN
  /\ Idle(t)
  /\ p \in alive /\ ~ Held(p)
  /\ id \in DOMAIN shmem_table
  /\ sh.pid = Home[t]
  /\ i # 0
  /\ busy => data # 0
  /\ used' = IF busy THEN used \cup scratch ELSE used
  /\ pad' = IF busy THEN [pad EXCEPT ![p] = @ \cup scratch] ELSE pad
  /\ map' = IF busy THEN [map EXCEPT ![p] = page_direct_map(Space(p), data, sh.list[i].virtual_location,
                                                            sh.list[i].virtual_pages).entry]
            ELSE map
  /\ shmem_table' = [shmem_table EXCEPT ![id].list = RemoveAt(@, i)]
  /\ UNCHANGED <<shmem_id, alive, job, excused, cleaned>>

(* shmem_request, with the process checked out for writing. *)
shmem_request(t, id) ==
  LET p == Home[t]
      sh == shmem_table[id]
      list == IF IndexOf(sh.list, p) = 0 /\ "PROMISCUOUS" \in sh.flags THEN <<Info(p)>> \o sh.list ELSE sh.list
      i == IndexOf(list, p)
      got == page_provide(Space(p), sh.physical_location, sh.physical_pages)
  IN
  /\ Idle(t) /\ ~ Held(p)
  /\ id \in DOMAIN shmem_table
  /\ i # 0
  /\ list[i].usage < MaxUsage
  /\ \/ /\ list[i].virtual_pages >= 0
        /\ shmem_table' = [shmem_table EXCEPT ![id].list = [list EXCEPT ![i].usage = @ + 1]]
        /\ UNCHANGED map
     \/ /\ list[i].virtual_pages < 0 /\ got.at # 0
        /\ shmem_table' = [shmem_table EXCEPT ![id].list =
             [list EXCEPT ![i] = [list[i] EXCEPT !.usage = @ + 1, !.virtual_location = got.at,
                                                 !.virtual_pages = sh.physical_pages]]]
        /\ map' = [map EXCEPT ![p] = got.space.entry]
     \/ /\ list[i].virtual_pages < 0 /\ got.at = 0
        /\ shmem_table' = [shmem_table EXCEPT ![id].list = list]
        /\ UNCHANGED map
  /\ UNCHANGED <<shmem_id, used, alive, job, pad, excused, cleaned>>

(* shmem_release, with the process checked out for writing. *)
shmem_release(t, id) ==
  LET p == Home[t]
      sh == shmem_table[id]
      i == IndexOf(sh.list, p)
      info == sh.list[i]
      last == info.usage = 1
  IN
  /\ Idle(t) /\ ~ Held(p)
  /\ id \in DOMAIN shmem_table
  /\ i # 0
  /\ info.usage > 0 \/ p \in Careless \ excused
  /\ map' = IF last THEN [map EXCEPT ![p] = page_release(Space(p), info.virtual_location, info.virtual_pages).entry]
            ELSE map
  /\ shmem_table' = [shmem_table EXCEPT ![id].list[i] =
                       IF last THEN Info(p) ELSE [info EXCEPT !.usage = @ - 1]]
  /\ excused' = IF info.usage <= 0 THEN excused \cup {p} ELSE excused
  /\ UNCHANGED <<shmem_id, used, alive, job, pad, cleaned>>

-----------------------------------------------------------------------------
(* shmem_delete, by the owner: the region leaves the table ... *)
Removed(id, then) ==
  [at |-> "checkout", sh |-> shmem_table[id], i |-> 1, out |-> {},
   tmp2 |-> [p \in Process |-> 0], then |-> then]

shmem_delete(t, id) ==
  /\ Idle(t)
  /\ id \in DOMAIN shmem_table
  /\ shmem_table[id].pid = Home[t]
  /\ job' = [job EXCEPT ![t] = Removed(id, "return")]
  /\ shmem_table' = [i \in DOMAIN shmem_table \ {id} |-> shmem_table[i]]
  /\ UNCHANGED <<shmem_id, map, used, alive, pad, excused, cleaned>>

At(t, at) == job[t].at = at

(* ... its users are checked out in the order of the list, as long as they *)
(* exist, and scratch memory is allocated for each ...                     *)
Checkout(t) ==
  LET sh == job[t].sh
      info == sh.list[job[t].i]
      f == memory_alloc(used, sh.physical_pages)
      more == job[t].i <= Len(sh.list)
  IN
  /\ At(t, "checkout")
  /\ \/ ~ more /\ job' = [job EXCEPT ![t].at = "map"] /\ UNCHANGED <<used, pad, excused>>
     \/ /\ more /\ (info.usage <= 0 \/ info.pid \notin alive)
        /\ job' = [job EXCEPT ![t].i = @ + 1]
        /\ UNCHANGED <<used, pad, excused>>
     \/ /\ more /\ info.usage > 0 /\ info.pid \in alive
        /\ ~ Held(info.pid)
        /\ job' = [job EXCEPT ![t] = [job[t] EXCEPT !.i = @ + 1, !.out = @ \cup {info.pid}, !.tmp2[info.pid] = f]]
        /\ IF f = 0 THEN excused' = excused \cup {info.pid} /\ UNCHANGED <<used, pad>>
           ELSE /\ used' = used \cup Span(f, sh.physical_pages)
                /\ pad' = [pad EXCEPT ![info.pid] = @ \cup Span(f, sh.physical_pages)]
                /\ UNCHANGED excused
  /\ UNCHANGED <<shmem_table, shmem_id, map, alive, cleaned>>

(* ... with interrupts off, the scratch memory takes the region's place    *)
(* everywhere ...                                                          *)
MapScratch(t) ==
  LET sh == job[t].sh
      virt(p) == sh.list[IndexOf(sh.list, p)].virtual_location
  IN
  /\ At(t, "map")
  /\ map' = [p \in Process |->
               IF p \in job[t].out /\ job[t].tmp2[p] # 0
               THEN page_direct_map(Space(p), job[t].tmp2[p], virt(p), sh.physical_pages).entry
               ELSE map[p]]
  /\ job' = [job EXCEPT ![t].at = "commit"]
  /\ UNCHANGED <<shmem_table, shmem_id, used, alive, pad, excused, cleaned>>

(* ... the processes are committed ... *)
Commit(t) ==
  /\ At(t, "commit")
  /\ job' = [job EXCEPT ![t] = [@ EXCEPT !.at = "free", !.out = {}]]
  /\ UNCHANGED <<shmem_table, shmem_id, map, used, alive, pad, excused, cleaned>>

(* Fault: the frames are not freed. *)
FreeLeaks(t) ==
  /\ At(t, "free")
  /\ job' = [job EXCEPT ![t] = IF @.then = "return" THEN NoJob ELSE Clean(@.sh.pid)]
  /\ UNCHANGED <<shmem_table, shmem_id, map, used, alive, pad, excused, cleaned>>

(* ... and the frames freed. *)
Free(t) ==
  /\ At(t, "free")
  /\ used' = IF job[t].sh.internal THEN used \ Frames(job[t].sh) ELSE used
  /\ job' = [job EXCEPT ![t] = IF @.then = "return" THEN NoJob ELSE Clean(@.sh.pid)]
  /\ UNCHANGED <<shmem_table, shmem_id, map, alive, pad, excused, cleaned>>

-----------------------------------------------------------------------------
(* A process ends, as in Processes: threads of it are in no call.          *)
exit(p) ==
  /\ p \in alive \cap Mortal /\ ~ Held(p)
  /\ \A t \in Thread : Home[t] = p => job[t] = NoJob
  /\ alive' = alive \ {p}
  /\ map' = [map EXCEPT ![p] = new_page_directory.entry]
  /\ UNCHANGED <<shmem_table, shmem_id, used, job, pad, excused, cleaned>>

(* shmem_clean( p ), by another thread.  Nothing calls it yet; its comment *)
(* has it called when a process is cleaned up.                             *)
shmem_clean(t, p) ==
  /\ Idle(t)
  /\ p \notin alive
  /\ job' = [job EXCEPT ![t] = Clean(p)]
  /\ UNCHANGED <<shmem_table, shmem_id, map, used, alive, pad, excused, cleaned>>

Of(p) == {id \in DOMAIN shmem_table : shmem_table[id].pid = p}
Immortal == {id \in DOMAIN shmem_table : "IMMORTAL" \in shmem_table[id].flags}

(* The scan: immortal regions become orphans, up to the first other one in *)
(* the order of the hash table, which is deleted; then it starts again.    *)
(* That shmem_delete takes the region the scan found is one step with it:  *)
(* in between only another shmem_clean of the same process could take it,  *)
(* and nothing calls shmem_clean.                                          *)
CleanNext(t) ==
  LET p == job[t].pid IN
  /\ At(t, "clean")
  /\ \E id \in Of(p) \ Immortal : \E seen \in SUBSET (Of(p) \cap Immortal) :
       /\ job' = [job EXCEPT ![t] = Removed(id, "clean")]
       /\ shmem_table' = [i \in DOMAIN shmem_table \ {id} |->
                            IF i \in seen THEN [shmem_table[i] EXCEPT !.flags = @ \cup {"ORPHAN"}]
                            ELSE shmem_table[i]]
  /\ UNCHANGED <<shmem_id, map, used, alive, pad, excused, cleaned>>

(* Fault: the scan does not start again after it has deleted a region. *)
CleanStops(t) ==
  /\ At(t, "clean")
  /\ job' = [job EXCEPT ![t] = NoJob]
  /\ cleaned' = cleaned \cup {job[t].pid}
  /\ UNCHANGED <<shmem_table, shmem_id, map, used, alive, pad, excused>>

CleanDone(t) ==
  LET p == job[t].pid IN
  /\ At(t, "clean")
  /\ Of(p) \subseteq Immortal
  /\ shmem_table' = [i \in DOMAIN shmem_table |->
                       IF i \in Of(p) THEN [shmem_table[i] EXCEPT !.flags = @ \cup {"ORPHAN"}]
                       ELSE shmem_table[i]]
  /\ job' = [job EXCEPT ![t] = NoJob]
  /\ cleaned' = cleaned \cup {p}
  /\ UNCHANGED <<shmem_id, map, used, alive, pad, excused>>

Next ==
  \/ \E t \in Thread :
       \/ shmem_id < MaxId /\ \E k \in Kinds[shmem_id] : Home[t] = k[1] /\ shmem_create(t, k[2], k[3], k[4])
       \/ \E id \in 0 .. MaxId - 1 :
            \/ shmem_request(t, id) \/ shmem_release(t, id) \/ shmem_delete(t, id)
            \/ \E p \in Process : shmem_grant(t, id, p) \/ shmem_revoke(t, p, id)
       \/ Checkout(t) \/ MapScratch(t) \/ Commit(t) \/ Free(t)
       \/ \E p \in Process : shmem_clean(t, p)
       \/ CleanNext(t) \/ CleanDone(t)
  \/ \E p \in Process : exit(p)

Spec == Init /\ [][Next]_vars

-----------------------------------------------------------------------------
Deletes == {t \in Thread : job[t].at \in {"checkout", "map", "commit", "free"}}
Regions == {shmem_table[id] : id \in DOMAIN shmem_table} \cup {job[t].sh : t \in Deletes}

(* Whatever the others call and however the calls overlap: a page of a     *)
(* process shows a region that the process has requested and that still    *)
(* has its memory, or scratch memory of its own; only a process that       *)
(* releases more than it requests, or that found no scratch memory, may    *)
(* be left with pages of something else.                                   *)
Isolated ==
  \A p \in alive \ excused, v \in PageSpace : map[p][v] # 0 =>
    \/ map[p][v] \in pad[p]
    \/ \E sh \in Regions : \E info \in Infos(sh) :
         /\ info.pid = p /\ info.usage > 0
         /\ v \in Span(info.virtual_location, info.virtual_pages)
         /\ map[p][v] = sh.physical_location + (v - info.virtual_location)

(* Who frames are allocated for: regions in the table, regions that are    *)
(* being deleted, and the scratch memory of processes.                     *)
Memory(sh) == IF sh.internal THEN Frames(sh) ELSE {}
Owner == {<<"region", id>> : id \in DOMAIN shmem_table} \cup {<<"delete", t>> : t \in Deletes}
           \cup {<<"pad", p>> : p \in Process}
Owned(o) == CASE o[1] = "region" -> Memory(shmem_table[o[2]])
              [] o[1] = "delete" -> Memory(job[o[2]].sh)
              [] o[1] = "pad" -> pad[o[2]]

(* The books: every frame in use belongs to exactly one region or to one   *)
(* process's scratch memory, and all that these have is in use, however    *)
(* deletions overlap: no frame is leaked, freed twice or handed out twice. *)
FramesExact ==
  /\ used = UNION {Owned(o) : o \in Owner}
  /\ \A o1, o2 \in Owner : o1 # o2 => Owned(o1) \cap Owned(o2) = {}

(* After shmem_clean, whatever else was deleted meanwhile, all that is     *)
(* left of a process are immortal regions, marked as orphans.              *)
CleanLeavesOrphans ==
  \A id \in DOMAIN shmem_table : shmem_table[id].pid \in cleaned =>
    {"IMMORTAL", "ORPHAN"} \subseteq shmem_table[id].flags

(* shmem.c: "Now provide scratch areas to this processes which are still   *)
(* using the region."  A page of a process shows no frame that was freed   *)
(* under it, by whatever shmem_delete, unless the process has released     *)
(* more than it requested or there was no scratch memory for it: the code  *)
(* frees the region all the same and leaves its pages mapped.              *)
ShowsUsed ==
  \A p \in alive \ excused, v \in PageSpace : map[p][v] # 0 =>
    map[p][v] \in used \/ \E sh \in Regions : ~ sh.internal /\ map[p][v] \in Frames(sh)
=============================================================================
