--------------------------- MODULE CheckpointState ---------------------------
(***************************************************************************)
(* The two branch checkpoints of                                           *)
(* rtl/profiles/rv32im_ooo_4k/core/ooo_branch_checkpoint_state_2w.sv:      *)
(* allocated when a branch is dispatched, released when it completes as    *)
(* predicted, purged with everything behind a mispredicted one.  The maps  *)
(* and stacks a checkpoint holds are data here; RegRename.tla is about     *)
(* them.  A tag parameter is NoTag when its signal is not valid.           *)
(***************************************************************************)
EXTENDS BranchTags

VARIABLES
  entry,       \* entries_q: the branch of each checkpoint, or NoTag
  oldest_idx,  \* oldest_idx_q
  ckpt_errors  \* the sticky error flags that are set

ckptvars == <<entry, oldest_idx, ckpt_errors>>

CkptInit == entry = [i \in 0 .. 1 |-> NoTag] /\ oldest_idx = 0 /\ ckpt_errors = {}

Holds(t) == t # NoTag /\ \E i \in 0 .. 1 : entry[i] = t

(* The entries as allocation sees them: a release frees its entry for the  *)
(* branch dispatched on the same edge.                                     *)
post_release(release) ==
  [i \in 0 .. 1 |-> IF entry[i] = release THEN NoTag ELSE entry[i]]
alloc_idx(release) == IF post_release(release)[0] = NoTag THEN 0 ELSE 1
alloc_ready(release, purge_valid) ==
  ~purge_valid /\ \E i \in 0 .. 1 : post_release(release)[i] = NoTag

selective_purge_ready(branch, killed, clear) ==
  Holds(branch) /\ ~clear /\ branch \notin killed

(* entries_d with a purge.                                                 *)
PurgedOnlyBranchBug(branch, killed, release) ==
  [i \in 0 .. 1 |-> IF entry[i] \in {branch, release} THEN NoTag ELSE entry[i]]
Purged(branch, killed, release) ==
  [i \in 0 .. 1 |-> IF entry[i] \in {branch, release} \cup killed THEN NoTag
                    ELSE entry[i]]

CheckpointEdge(clear, release, lookup, purge, killed, alloc) ==
  LET purge_fire == purge # NoTag /\ selective_purge_ready(purge, killed, clear)
      taken == alloc # NoTag /\ alloc_ready(release, purge # NoTag) /\ ~Holds(alloc)
  IN /\ entry' = IF clear THEN [i \in 0 .. 1 |-> NoTag]
                 ELSE IF purge_fire THEN Purged(purge, killed, release)
                 ELSE IF taken THEN [post_release(release) EXCEPT ![alloc_idx(release)] = alloc]
                 ELSE post_release(release)
     /\ oldest_idx' = IF entry'[0] = NoTag THEN (IF entry'[1] # NoTag THEN 1 ELSE 0)
                      ELSE IF entry'[1] = NoTag THEN 0
                      ELSE IF taken THEN 1 - alloc_idx(release) ELSE oldest_idx
     /\ ckpt_errors' =
          IF clear THEN {}
          ELSE ckpt_errors
               \cup {"duplicate_alloc" : x \in {y \in {alloc} : Holds(y)}}
               \cup {"invalid_alloc"   : x \in {y \in {alloc} : y # NoTag /\ purge # NoTag}}
               \cup {"stale_release"   : x \in {y \in {release} : y # NoTag /\ ~Holds(y)}}
               \cup {"stale_lookup"    : x \in {y \in {lookup} : y # NoTag /\ ~Holds(y)}}
               \cup {"stale_purge"     : x \in {y \in {purge} : y # NoTag /\
                                                   (~Holds(y) \/ y \in killed)}}
=============================================================================
