------------------------------ MODULE RegRename ------------------------------
(***************************************************************************)
(* Two-wide register renaming with recovery, as in                         *)
(* rtl/profiles/rv32im_ooo_4k/core/ooo_rename_dispatch_recovery_2w.sv: the *)
(* speculative map rat, the retirement map rrat, one ready bit and one     *)
(* free bit per physical register.                                         *)
(*                                                                         *)
(* The rename stage is closed with the in-order window it serves: rob is   *)
(* the sequence of renamed, not yet retired instructions, oldest first     *)
(* (SmallRob.tla models the circular buffer that stores it).  Every entry  *)
(* keeps the names rename gave it, so that the invariants can compare them *)
(* with what program order requires.  One action is one clock edge; an     *)
(* edge may complete, retire and rename instructions at once.              *)
(***************************************************************************)
EXTENDS Integers, Sequences, FiniteSets

CONSTANTS
  NArch,   \* architectural registers, x0 included (32 in the RTL)
  NPhys,   \* physical registers (64)
  NRob,    \* reorder-buffer entries (8)
  NCkpt,   \* unresolved branches that may be in flight (2 checkpoints)
  Uops     \* the decoded instructions the front end may present

Arch  == 0 .. NArch - 1
Phys  == 0 .. NPhys - 1
Kinds == {"alu", "load", "mul", "store", "bru", "sys", "fault"}
Uop   == [kind : Kinds, rd : Arch, rs : Arch, wen : BOOLEAN]

ASSUME SizeAssumption ==
  /\ NArch \in Nat /\ NPhys \in Nat /\ NRob \in Nat /\ NCkpt \in Nat
  /\ 1 < NArch /\ NArch < NPhys
ASSUME UopAssumption == Uops \subseteq Uop

VARIABLES
  rat,             \* rat_q: the youngest name of each architectural register
  rrat,            \* rrat_q: the last retired name
  ready,           \* ready_q, as the set of written physical registers
  free,            \* free_q, as a set
  identity_error,  \* selective_restore_identity_error_q
  rob,             \* instructions in flight, oldest first
  trap             \* a control event retired: the next edge is global recovery

vars == <<rat, rrat, ready, free, identity_error, rob, trap>>

NoSnap == [a \in Arch |-> 0]

(* st: waiting, done (result written) or exc (completed with an exception).*)
(* open: a branch whose checkpoint is still held; snap is that checkpoint. *)
Entry == [kind : Kinds, rd : Arch, wen : BOOLEAN, new : Phys, old : Phys,
          rs : Arch, psrc : Phys, srdy : BOOLEAN,
          st : {"wait", "done", "exc"}, open : BOOLEAN,
          snap : [Arch -> Phys]]

Init ==
  /\ rat  = [a \in Arch |-> a]
  /\ rrat = [a \in Arch |-> a]
  /\ ready = Arch
  /\ free  = Phys \ Arch
  /\ identity_error = FALSE
  /\ rob  = << >>
  /\ trap = FALSE

-----------------------------------------------------------------------------
(* Classification of a decoded instruction.                                *)

(* Operators named ...Bug are mutated forms: no definition uses them; each  *)
(* shows that a property depends on the definition that follows it.        *)
needs_physX0Bug(u) == u.wen /\ u.kind # "fault"
needs_phys(u)    == u.wen /\ u.rd # 0 /\ u.kind # "fault"
is_serial(u)     == u.kind \in {"store", "mul", "bru", "sys", "fault"}
ordinary_load(u) == u.kind = "load"
memory_class(u)  == u.kind \in {"load", "store"}

(* serial_dispatch_block_i is raised while a branch is unresolved; branches*)
(* and stores are exempt (branch_nonblocking_i, speculative stores).       *)
blocked_serial(u, serialBlock) ==
  serialBlock /\ is_serial(u) /\ u.kind \notin {"bru", "store"}

(* The two lowest free registers, 0 when there is none.                    *)
Lowest(S)  == CHOOSE p \in S : \A q \in S : p <= q
free_phys0 == IF free = {} THEN 0 ELSE Lowest(free)
free_phys1 == IF free \ {free_phys0} = {} THEN 0
              ELSE Lowest(free \ {free_phys0})

(* free_count_c >= the number of destinations among the offered slots.     *)
EnoughFree(n0, n1) ==
  /\ (n0 \/ n1) => free # {}
  /\ (n0 /\ n1) => free \ {free_phys0} # {}

(* backend_capacity_count_i: the reorder buffer has room for n more.       *)
Capacity(n) == Len(rob) + n <= NRob

slot0_offer(u0, serialBlock, memBlock) ==
  /\ ~blocked_serial(u0, serialBlock)
  /\ ~(memBlock /\ memory_class(u0) /\ u0.kind # "store")
  /\ Capacity(1)
  /\ EnoughFree(needs_phys(u0), FALSE)

slot1_offer(u0, u1, serialBlock, memBlock) ==
  /\ slot0_offer(u0, serialBlock, memBlock)
  /\ ~is_serial(u0) /\ ~blocked_serial(u1, serialBlock)
  /\ u1.kind # "store"
  /\ ~(memBlock /\ memory_class(u1))
  /\ ~(ordinary_load(u0) /\ ordinary_load(u1))
  /\ Capacity(2)
  /\ EnoughFree(needs_phys(u0), needs_phys(u1))

-----------------------------------------------------------------------------
(* The renamed instructions.  Both slots read the registered maps; slot 1  *)
(* takes slot 0's destination through the bypass.                          *)

source_ready(a, p) == a = 0 \/ p = 0 \/ p \in ready

Renamed(u, new, old, psrc, srdy, snap) ==
  [kind |-> u.kind, rd |-> u.rd, wen |-> needs_phys(u),
   new |-> new, old |-> old, rs |-> u.rs, psrc |-> psrc, srdy |-> srdy,
   st |-> "wait", open |-> u.kind = "bru", snap |-> snap]

MapAfter(m, u, new) == IF needs_phys(u) THEN [m EXCEPT ![u.rd] = new] ELSE m

SnapForBeforeBug(u, m) == IF u.kind = "bru" THEN rat ELSE NoSnap
SnapFor(u, m) == IF u.kind = "bru" THEN m ELSE NoSnap

new0(u0) == IF needs_phys(u0) THEN free_phys0 ELSE 0
new1(u0, u1) == IF ~needs_phys(u1) THEN 0
                ELSE IF needs_phys(u0) THEN free_phys1 ELSE free_phys0

map0(u0)     == MapAfter(rat, u0, new0(u0))
map1LostSlot0Bug(u0, u1) == MapAfter(rat, u1, new1(u0, u1))
map1(u0, u1) == MapAfter(map0(u0), u1, new1(u0, u1))

NoBypassBug(u0, a) == FALSE
Bypass(u0, a) == needs_phys(u0) /\ a = u0.rd /\ a # 0

renamed0RetiredOldBug(u0) ==
  Renamed(u0, new0(u0), IF needs_phys(u0) THEN rrat[u0.rd] ELSE 0,
          rat[u0.rs], source_ready(u0.rs, rat[u0.rs]), SnapFor(u0, map0(u0)))

renamed0(u0) ==
  Renamed(u0, new0(u0), IF needs_phys(u0) THEN rat[u0.rd] ELSE 0,
          rat[u0.rs], source_ready(u0.rs, rat[u0.rs]), SnapFor(u0, map0(u0)))

renamed1EarlyReadyBug(u0, u1) ==
  Renamed(u1, new1(u0, u1),
          IF Bypass(u0, u1.rd) THEN new0(u0)
          ELSE IF needs_phys(u1) THEN rat[u1.rd] ELSE 0,
          IF Bypass(u0, u1.rs) THEN new0(u0) ELSE rat[u1.rs],
          source_ready(u1.rs, rat[u1.rs]),
          SnapFor(u1, map1(u0, u1)))

renamed1(u0, u1) ==
  Renamed(u1, new1(u0, u1),
          IF Bypass(u0, u1.rd) THEN new0(u0)
          ELSE IF needs_phys(u1) THEN rat[u1.rd] ELSE 0,
          IF Bypass(u0, u1.rs) THEN new0(u0) ELSE rat[u1.rs],
          ~Bypass(u0, u1.rs) /\ source_ready(u1.rs, rat[u1.rs]),
          SnapFor(u1, map1(u0, u1)))

-----------------------------------------------------------------------------
(* The window around the rename stage.                                     *)

Dests(q)   == {q[i].new : i \in {j \in DOMAIN q : q[j].wen}}
Olds(q)    == {q[i].old : i \in {j \in DOMAIN q : q[j].wen}}
OpenBranches(q) == {i \in DOMAIN q : q[i].open}

(* A mispredicted branch completes but keeps its checkpoint: dispatch and  *)
(* commit then wait for the selective recovery of the next edges.          *)
Mispredicted(q) == {i \in OpenBranches(q) : q[i].st = "done"}

(* Instructions whose operand has been produced may complete.              *)
Completable == {i \in DOMAIN rob : rob[i].st = "wait"
                                   /\ rob[i].psrc \in ready}

(* W completes, E of them with an exception, M being mispredicted branches.*)
(* The checkpoint of a correctly predicted branch is released at once.     *)
Finished(e, st) == [e EXCEPT !.st = st]
Closed(e)       == [e EXCEPT !.open = FALSE, !.snap = NoSnap]
Completed(W, E, M) ==
  [i \in DOMAIN rob |->
     IF i \notin W THEN rob[i]
     ELSE IF i \in E THEN Finished(rob[i], "exc")
     ELSE IF i \in M THEN Finished(rob[i], "done")
     ELSE Closed(Finished(rob[i], "done"))]

CompletionInputs(W, E, M) ==
  /\ W \subseteq Completable /\ Cardinality(W) <= 2
  /\ E \subseteq W /\ M \subseteq W \ E
  /\ \A i \in W : rob[i].kind = "fault" => i \in E
  /\ \A i \in E : rob[i].kind \notin {"alu", "mul"}
  /\ \A i \in M : rob[i].kind = "bru"
  /\ \A i, j \in W : rob[i].kind = "bru" /\ rob[j].kind = "bru" => i = j

(* ready_q after the final wakeups of the edge.                            *)
WokenByExceptionBug(W, E) ==
  ready \cup {rob[i].new : i \in {j \in W : rob[j].wen}}
Woken(W, E) == ready \cup {rob[i].new : i \in {j \in W \ E : rob[j].wen}}

(* The c oldest instructions of q may retire together.                     *)
Retirable(q, c) ==
  /\ c <= Len(q)
  /\ \A i \in 1 .. c : q[i].st = "done" /\ ~q[i].open /\ q[i].kind # "sys"
  /\ c = 2 => /\ q[1].kind # "store"
              /\ q[2].kind # "store"

(* rrat_q and the released registers after the c oldest entries of q.      *)
Retired(q, c, a) ==
  IF c = 2 /\ q[2].wen /\ q[2].rd = a THEN q[2].new
  ELSE IF c >= 1 /\ q[1].wen /\ q[1].rd = a THEN q[1].new
  ELSE rrat[a]
ReleasedOnceBug(q, c) == IF c = 0 THEN {} ELSE Olds(SubSeq(q, 1, 1)) \ {0}
ReleasedNewBug(q, c)  == Dests(SubSeq(q, 1, c)) \ {0}
Released(q, c) == Olds(SubSeq(q, 1, c)) \ {0}

-----------------------------------------------------------------------------
(* Clock edges.                                                            *)

(* What every ordinary edge does: q is the window after the completions of *)
(* the edge, woken the ready bits after its wakeups; the c oldest entries  *)
(* leave, the renamed instructions news enter, and map is the new rat.     *)
(* Both slots allocate from the registered free bits, so a register        *)
(* released on this edge is not reused on it.                              *)
Advance(q, woken, c, news, map) ==
  /\ Retirable(q, c)
  /\ rat'   = map
  /\ rrat'  = [a \in Arch |-> Retired(q, c, a)]
  /\ ready' = woken \ Dests(news)
  /\ free'  = (free \cup Released(q, c)) \ Dests(news)
  /\ rob'   = SubSeq(q, c + 1, Len(q)) \o news
  /\ UNCHANGED <<identity_error, trap>>

SerialBlock == OpenBranches(rob) # {}

(* A branch is dispatched only when a checkpoint is free after the releases*)
(* of this edge.                                                           *)
BranchRoom(u, q) == u.kind = "bru" => Cardinality(OpenBranches(q)) < NCkpt

DispatchNone(q, woken, c) == Advance(q, woken, c, << >>, rat)

DispatchOne(q, woken, c) ==
  \E u0 \in Uops, memBlock \in BOOLEAN :
    /\ slot0_offer(u0, SerialBlock, memBlock)
    /\ BranchRoom(u0, q)
    /\ Advance(q, woken, c, <<renamed0(u0)>>, map0(u0))

DispatchTwo(q, woken, c) ==
  \E u0, u1 \in Uops, memBlock \in BOOLEAN :
    /\ slot1_offer(u0, u1, SerialBlock, memBlock)
    /\ BranchRoom(u1, q)
    /\ Advance(q, woken, c, <<renamed0(u0), renamed1(u0, u1)>>, map1(u0, u1))

ClockEdge ==
  /\ ~trap /\ Mispredicted(rob) = {}
  /\ \E W \in SUBSET Completable : \E E \in SUBSET W :
     \E M \in SUBSET (W \ E) : \E c \in 0 .. 2 :
       /\ CompletionInputs(W, E, M)
       /\ \/ DispatchNone(Completed(W, E, M), Woken(W, E), c)
          \/ DispatchOne(Completed(W, E, M), Woken(W, E), c)
          \/ DispatchTwo(Completed(W, E, M), Woken(W, E), c)

(* The recovery transaction is pending: nothing is renamed or retired, but *)
(* completions other than branches still arrive.                           *)
RecoveryWait ==
  /\ ~trap /\ Mispredicted(rob) # {}
  /\ \E W \in SUBSET Completable : \E E \in SUBSET W :
       /\ CompletionInputs(W, E, {})
       /\ \A i \in W : rob[i].kind # "bru"
       /\ DispatchNone(Completed(W, E, {}), Woken(W, E), 0)

(* selective_restore_identity_ok_c for branch b, with S the new rat.       *)
identity_ok(S, killed) ==
  LET live == {S[a] : a \in Arch} \cup {0}
  IN /\ 0 \notin killed
     /\ S[0] = 0
     /\ (live \ {0}) \cap free = {}
     /\ killed \cap live = {}
     /\ killed \cap ({rrat[a] : a \in Arch} \cup {0}) = {}
     /\ killed \cap free = {}

(* The selective transaction: the window is cut behind branch b, rat takes *)
(* its snapshot and the destinations of the killed entries become free and *)
(* not ready.  Survivors may complete on the same edge; the reorder buffer *)
(* blocks retirement on it (operation_blocked_c).                          *)
RestoreBehind(b, W, E) ==
  LET q      == Completed(W, E, {})
      killed == Dests(SubSeq(q, b + 1, Len(q)))
      ok     == identity_ok(q[b].snap, killed)
  IN /\ CompletionInputs(W, E, {})
     /\ \A i \in W : i < b /\ rob[i].kind # "bru"
     /\ identity_error' = (identity_error \/ ~ok)
     /\ rat'   = IF ok THEN [q[b].snap EXCEPT ![0] = 0] ELSE rat
     /\ ready' = IF ok THEN Woken(W, E) \ killed ELSE ready
     /\ free'  = IF ok THEN free \cup killed ELSE free
     /\ rob'   = IF ok THEN [SubSeq(q, 1, b) EXCEPT ![b] = Closed(q[b])]
                 ELSE rob
     /\ UNCHANGED <<rrat, trap>>

SelectiveRestore ==
  /\ ~trap
  /\ \E b \in Mispredicted(rob) : \E W \in SUBSET Completable : \E E \in SUBSET W :
       RestoreBehind(b, W, E)

(* The oldest instruction retires as a control event: an exception leaves  *)
(* without a normal_commit bit, a system instruction retires normally.     *)
(* Dispatch is frozen; the next edge is the global recovery, which         *)
(* overwrites every ready bit, so the wakeups of this edge do not matter.  *)
RetireControl ==
  /\ ~trap /\ Mispredicted(rob) = {} /\ rob # << >>
  /\ \/ Head(rob).st = "exc" /\ UNCHANGED <<rrat, free>>
     \/ /\ Head(rob).st = "done" /\ Head(rob).kind = "sys"
        /\ rrat' = [a \in Arch |-> Retired(rob, 1, a)]
        /\ free' = free \cup Released(rob, 1)
  /\ rob' = Tail(rob)
  /\ trap' = TRUE
  /\ UNCHANGED <<rat, ready, identity_error>>

(* global_recover_i.                                                       *)
GlobalRecover ==
  /\ trap
  /\ LET live == {rrat[a] : a \in Arch} \cup {0}
     IN /\ rat'   = [rrat EXCEPT ![0] = 0]
        /\ rrat'  = [rrat EXCEPT ![0] = 0]
        /\ ready' = live
        /\ free'  = Phys \ live
  /\ identity_error' = FALSE
  /\ rob'  = << >>
  /\ trap' = FALSE

Next == ClockEdge \/ RecoveryWait \/ SelectiveRestore \/ RetireControl
        \/ GlobalRecover

Spec == Init /\ [][Next]_vars

-----------------------------------------------------------------------------
(* Correctness.                                                            *)

(* Every variable has its type, the window fits its entries, and x0 is     *)
(* always named by register 0, which is never free and always ready.       *)
TypeOK ==
  /\ rat \in [Arch -> Phys] /\ rrat \in [Arch -> Phys]
  /\ rat[0] = 0 /\ rrat[0] = 0
  /\ ready \in SUBSET Phys /\ 0 \in ready
  /\ free \in SUBSET (Phys \ {0})
  /\ identity_error \in BOOLEAN /\ trap \in BOOLEAN
  /\ rob \in Seq(Entry) /\ Len(rob) <= NRob
  /\ \A i \in DOMAIN rob : rob[i].wen <=> rob[i].new # 0
  /\ \A i \in DOMAIN rob : rob[i].wen => rob[i].rd # 0

Writes(q, i, a) == q[i].wen /\ q[i].rd = a

(* p names a after the retired map r and the first k entries of q: it is   *)
(* the destination of the youngest of them that writes a, or r[a].         *)
Names(r, q, k, a, p) ==
  \/ \E i \in 1 .. k : /\ Writes(q, i, a) /\ p = q[i].new
                       /\ \A j \in i + 1 .. k : ~Writes(q, j, a)
  \/ p = r[a] /\ \A j \in 1 .. k : ~Writes(q, j, a)

(* Every physical register except 0 is exactly one of: free, the retired   *)
(* name of one architectural register, the destination of one in-flight    *)
(* instruction.  A register in two places is handed to two values; one in  *)
(* none is lost until the next global recovery.                            *)
PhysConservation ==
  ~trap =>
    /\ Phys \ {0} \subseteq free \cup {rrat[a] : a \in Arch} \cup Dests(rob)
    /\ \A i, j \in DOMAIN rob : rob[i].wen /\ rob[j].wen /\ i # j
                                => rob[i].new # rob[j].new
    /\ \A a, b \in Arch : a # b => rrat[a] # rrat[b]
    /\ \A i \in DOMAIN rob : rob[i].wen => /\ rob[i].new \notin free
                                           /\ \A a \in Arch : rob[i].new # rrat[a]
    /\ \A a \in Arch : rrat[a] \notin free

(* rat names the youngest in-flight writer of every architectural register,*)
(* through dual rename, dual retirement and selective recovery alike.      *)
RatIsYoungest ==
  ~trap => \A a \in Arch : Names(rrat, rob, Len(rob), a, rat[a])

(* An instruction reads the name its program-order predecessor wrote, also *)
(* when that predecessor is the other slot of its own bundle.              *)
SourceIsProgramOrder ==
  ~trap => \A i \in DOMAIN rob :
             Names(rrat, rob, i - 1, rob[i].rs, rob[i].psrc)

(* What an instruction will release at retirement is the name its          *)
(* destination had just before it.                                         *)
OldIsPrevious ==
  ~trap => \A i \in DOMAIN rob : rob[i].wen =>
             Names(rrat, rob, i - 1, rob[i].rd, rob[i].old)

(* The checkpoint of an unresolved branch is the map right behind it,      *)
(* however many older instructions have retired since it was taken.        *)
SnapshotExact ==
  ~trap => \A i \in OpenBranches(rob) : \A a \in Arch :
             Names(rrat, rob, i, a, rob[i].snap[a])

(* The ready bit of an in-flight destination is set exactly when its       *)
(* instruction has completed normally; retired names are ready.            *)
ReadyIffWritten ==
  ~trap => /\ \A i \in DOMAIN rob : rob[i].wen =>
                (rob[i].new \in ready <=> rob[i].st = "done")
           /\ \A a \in Arch : rrat[a] \in ready

(* src_ready given to the issue queue at rename is never early: no older   *)
(* in-flight producer of that operand is still to complete.                *)
SrcReadyIsWritten ==
  ~trap => \A i \in DOMAIN rob : rob[i].srdy =>
             \A j \in 1 .. i - 1 :
               rob[j].wen /\ rob[j].new = rob[i].psrc => rob[j].st = "done"

(* conservation_error_o stays low: no selective restore is ever refused    *)
(* (selective_restore_identity_error_q) and no free register is mapped     *)
(* (free_conflict_c).                                                      *)
NoConservationError ==
  ~trap => /\ ~identity_error
           /\ \A a \in Arch : rat[a] \notin free /\ rrat[a] \notin free

=============================================================================
