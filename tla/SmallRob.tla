------------------------------- MODULE SmallRob -------------------------------
(***************************************************************************)
(* The reorder buffer of                                                   *)
(* rtl/profiles/rv32im_ooo_4k/core/small_rob.sv: a circular buffer whose   *)
(* entries carry a generation, two writeback lanes, dual retirement with   *)
(* same-cycle bypass, the owner of the committing store, selective squash  *)
(* behind a mispredicted branch, and flush.                                *)
(*                                                                         *)
(* Around it: the dispatch rules that decide what may be allocated, the    *)
(* branch window whose tags come back in a squash, the store side of the   *)
(* LSU, and execution units that may present any result at any time, again *)
(* after it was taken, or after its instruction is gone.                   *)
(***************************************************************************)
EXTENDS Integers, Sequences, FiniteSets

CONSTANTS
  N,          \* BBUS_OOO_ROB_ENTRIES (8)
  G,          \* generations of an entry: 2^BBUS_OOO_ROB_GEN_W (4)
  MaxReuse,   \* how often an entry may be reallocated while a result of one
              \* of its former instructions is still somewhere in a unit
  NBranches,  \* unresolved branches in flight (2 checkpoints)
  Programs    \* what may run: the <<kind, fate>> pairs dispatch may present,
              \* and how many such results are tracked at a time (a bound of
              \* the model)

Idx   == 0 .. N - 1
Gen   == 0 .. G - 1
Kinds == {"alu", "load", "mul", "store", "branch", "jump", "sys", "ebreak"}
Fates == {"ok", "exc", "redir"}

(* A bundle of two must not wrap onto the entry behind it.                 *)
ASSUME RobSizes == N \in Nat /\ N > 2 /\ G \in Nat /\ G > 0 /\ NBranches \in Nat
(* Results of killed instructions outlive fewer reallocations than there   *)
(* are generations.                                                        *)
ASSUME ResultLifetime == MaxReuse \in Nat /\ MaxReuse < G
ASSUME ProgramAssumption == \A p \in Programs : p.insts \subseteq Kinds \X Fates /\ p.stale \in Nat

VARIABLES
  head, tail, count,  \* head_q, tail_q, count_q
  slot,               \* the entries
  owner,              \* store_owner_tag_q, or NoTag
  store_done,         \* store_done_q
  identity_error,     \* selective_squash_identity_error_q
  stale,              \* results of instructions that are gone
  branches,           \* unresolved branches: tag and post-tail tag
  recovering,         \* the branch whose squash is due (REC_TRANSACTION)
  memory,             \* the store request the LSU is working on
  commit,             \* commit_event_o of the last edge
  trap,               \* a control event retired: flush_i on the next edge
  program             \* which of the programs runs

buffer == <<head, tail, count, slot>>
vars == <<buffer, owner, store_done, identity_error, stale, branches,
          recovering, memory, commit, trap, program>>

NoTag   == [idx |-> N, gen |-> 0]
Tag(i)  == [idx |-> i, gen |-> slot[i].gen]
NoStore == [idx |-> N, gen |-> 0, st |-> "idle"]
NoWb    == [idx |-> N, gen |-> 0, fate |-> "ok"]

(* fate, hits and asked are history: the outcome the unit has for the      *)
(* instruction, the results the entry accepted, the store requests it sent;*)
(* performed is the part of store_done_q that outlives the entry.          *)
Empty(g) == [valid |-> FALSE, gen |-> g, kind |-> "alu", fate |-> "ok",
             done |-> FALSE, exc |-> FALSE, redir |-> FALSE, recov |-> FALSE,
             hits |-> 0, asked |-> 0, performed |-> FALSE]

Init ==
  /\ head = 0 /\ tail = 0 /\ count = 0
  /\ slot = [i \in Idx |-> Empty(0)]
  /\ owner = NoTag /\ store_done = FALSE /\ identity_error = FALSE
  /\ stale = {} /\ branches = {} /\ recovering = NoTag
  /\ memory = NoStore /\ commit = << >> /\ trap = FALSE
  /\ program \in Programs

advance(p, n) == (p + n) % N
distance_from_head(i) == (i - head) % N
head1 == advance(head, 1)

-----------------------------------------------------------------------------
(* Writeback.                                                              *)

(* What the units may present: the result of any instruction in flight,    *)
(* taken already or not, and the results of instructions that are gone.    *)
Presentable ==
  {NoWb} \cup {[idx |-> i, gen |-> slot[i].gen, fate |-> slot[i].fate] :
                 i \in {j \in Idx : slot[j].valid}}
         \cup {[idx |-> p.idx, gen |-> p.gen, fate |-> p.fate] : p \in stale}

wb_tag_matches(p) ==
  p.idx \in Idx /\ slot[p.idx].valid /\ slot[p.idx].gen = p.gen

wb_acceptReplayBug(p, killed) == wb_tag_matches(p) /\ p.idx \notin killed
wb_accept(p, killed) ==
  wb_tag_matches(p) /\ p.idx \notin killed /\ ~slot[p.idx].done
wb1_accept(p0, p1, killed) ==
  wb_accept(p1, killed) /\ ~(wb_accept(p0, killed) /\ p0.idx = p1.idx)

(* The results accepted on an edge, by entry.                              *)
Accepted(p0, p1, killed) ==
  {p \in {p0} : wb_accept(p, killed)} \cup {p \in {p1} : wb1_accept(p0, p, killed)}
Hits(p0, p1, i) ==
  (IF wb_accept(p0, {}) /\ p0.idx = i THEN 1 ELSE 0)
  + (IF wb1_accept(p0, p1, {}) /\ p1.idx = i THEN 1 ELSE 0)

record_writeback(p0, p1, killed) ==
  LET in == Accepted(p0, p1, killed)
  IN [i \in Idx |->
        IF \E p \in in : p.idx = i
        THEN LET p == CHOOSE p \in in : p.idx = i
             IN [slot[i] EXCEPT !.done = TRUE,
                                !.exc = @ \/ p.fate = "exc",
                                !.redir = p.fate = "redir",
                                !.hits = @ + Hits(p0, p1, i)]
        ELSE slot[i]]

IsControl(k) == k \in {"branch", "jump"}

(* What the two lanes carry.  A result that is not accepted changes        *)
(* nothing, like an empty lane, and is not enumerated.  At most one branch *)
(* executes at a time, and the completion fabric lets none through while a *)
(* recovery transaction is pending.                                        *)
Lanes(p0, p1, killed) ==
  LET branch(p) == p # NoWb /\ IsControl(slot[p.idx].kind)
  IN /\ p0 = NoWb \/ wb_accept(p0, killed)
     /\ p1 = NoWb \/ wb1_accept(p0, p1, killed)
     /\ branch(p0) => ~branch(p1) /\ recovering = NoTag
     /\ branch(p1) => recovering = NoTag

-----------------------------------------------------------------------------
(* The store at the head.                                                  *)

HeadIsStore == slot[head].valid /\ slot[head].kind = "store"
OwnerAnswered == memory.idx = owner.idx /\ memory.gen = owner.gen

(* commit_store_done_match_o, commit_store_fault_match_o: the answer is for*)
(* the store that owns the request, and that store is the head.            *)
AnswerMatch(st) == /\ memory.st = st /\ HeadIsStore
                   /\ owner # NoTag /\ OwnerAnswered /\ owner = Tag(head)

(* slot0_store: registered, or completing on this edge.                    *)
slot0_store(R) ==
  HeadIsStore /\ R[head].done /\ ~R[head].exc

(* commit_store_valid_o.                                                   *)
commit_store_validRepeatBug(ce, R) ==
  ce /\ slot0_store(R) /\ ~store_done
commit_store_valid(ce, R) ==
  /\ ce /\ slot0_store(R)
  /\ ~(store_done \/ AnswerMatch("done")) /\ owner = NoTag

-----------------------------------------------------------------------------
(* Retirement.  R is the buffer with the results accepted on this edge.    *)

slot_ready_no_exception(i) == slot[i].valid /\ slot[i].done /\ ~slot[i].exc

slot_commit2_complexEbreakBug(e) ==
  \/ e.kind \in {"store", "jump", "sys"}
  \/ e.kind = "branch" /\ e.redir
slot_commit2_complex(e) ==
  \/ e.kind \in {"store", "jump", "sys", "ebreak"}
  \/ e.kind = "branch" /\ e.redir
slot_p64_strict_ordinary(e) == e.kind \in {"alu", "load"}
slot_p64_safe_controlEarlyBug(e) ==
  \/ e.kind = "branch" /\ e.redir
  \/ e.kind = "jump" /\ ~e.redir
slot_p64_safe_control(e) ==
  \/ e.kind = "branch" /\ e.redir /\ e.recov
  \/ e.kind = "jump" /\ ~e.redir

(* A result accepted on this edge may retire its entry on the same edge:   *)
(* at the head without a redirect, behind it in lane 0 or for an ALU       *)
(* instruction or a load.                                                  *)
head_same_cycle_wb(R) ==
  /\ ~slot[head].done /\ R[head].done /\ ~R[head].exc /\ ~R[head].redir
  /\ slot[head].kind \in {"alu", "load", "branch", "jump"}
head1_same_cycle_wb(p0, R) ==
  /\ ~slot[head1].done /\ R[head1].done /\ ~R[head1].exc
  /\ \/ wb_accept(p0, {}) /\ p0.idx = head1
     \/ slot[head1].kind \in {"alu", "load"}

slot0_ready(R) == slot_ready_no_exception(head) \/ head_same_cycle_wb(R)
slot0_complex == slot_ready_no_exception(head) /\ slot_commit2_complex(slot[head])
slot1_ready(p0, R) ==
  slot_ready_no_exception(head1) \/ head1_same_cycle_wb(p0, R)
slot1_complex(R) ==
  /\ slot_commit2_complex(R[head1])
  /\ ~(slot_p64_strict_ordinary(R[head]) /\ slot_p64_safe_control(R[head1]))

(* commit_event_c: the head is an exception, an ebreak, a store, or an     *)
(* ordinary instruction that may take the next one with it.                *)
slot0_exception == slot[head].valid /\ slot[head].done /\ slot[head].exc
slot0_ebreak    == slot_ready_no_exception(head) /\ slot[head].kind = "ebreak"

commit_count(p0, R, stored) ==
  IF slot0_exception \/ slot0_ebreak THEN 1
  ELSE IF slot0_store(R) THEN (IF stored THEN 1 ELSE 0)
  ELSE IF ~slot0_ready(R) THEN 0
  ELSE IF /\ count > 1 /\ ~slot0_complex
          /\ slot1_ready(p0, R) /\ ~slot1_complex(R) THEN 2
  ELSE 1

(* The head is the instruction after which the pipeline restarts; a system *)
(* instruction that redirects retires normally.                            *)
ControlEvent == \/ slot0_exception \/ slot0_ebreak
                \/ slot_ready_no_exception(head) /\ slot[head].kind = "sys"
                                                 /\ slot[head].redir

-----------------------------------------------------------------------------
(* Allocation.                                                             *)

free_slots == IF N - count >= 2 THEN 2 ELSE N - count

(* Dispatch presents at most two instructions: one that serializes comes   *)
(* alone or in the younger slot, a store only in the older; beside an      *)
(* unresolved branch the only serializing ones are branches and stores.    *)
Serial(k) == k \notin {"alu", "load"}
Bundles == {<< >>} \cup {<<u>> : u \in program.insts}
             \cup {<<u, v>> : u \in {w \in program.insts : ~Serial(w[1])},
                             v \in {w \in program.insts : w[1] # "store"}}
Dispatchable(b, open) ==
  /\ Len(b) <= free_slots
  /\ \A k \in DOMAIN b :
       /\ Serial(b[k][1]) /\ branches # {} => b[k][1] \in {"branch", "jump", "store"}
       /\ IsControl(b[k][1]) => Cardinality(open) < NBranches

(* alloc_tag0_o, alloc_tag1_o: the next generation of the entry.           *)
alloc_genSameBug(i) == slot[i].gen
alloc_gen(i) == (slot[i].gen + 1) % G
Allocated(i, u) ==
  [Empty(alloc_gen(i)) EXCEPT !.valid = TRUE, !.kind = u[1], !.fate = u[2]]

(* alloc_post_tail_tag_o: the entry behind the last one allocated, with    *)
(* the generation it will have once it is allocated itself.                *)
post_tailStaleGenBug(b) ==
  LET i == advance(tail, Len(b)) IN [idx |-> i, gen |-> slot[i].gen]
post_tail(b) ==
  LET i == advance(tail, Len(b)) IN [idx |-> i, gen |-> alloc_gen(i)]
Opened(b) ==
  {[tag |-> [idx |-> advance(tail, k - 1), gen |-> alloc_gen(advance(tail, k - 1))],
    post |-> post_tail(b)] : k \in {j \in DOMAIN b : IsControl(b[j][1])}}

-----------------------------------------------------------------------------
(* Results of instructions that left stay presentable for a while: some of  *)
(* them are tracked, and each until its entry was reallocated MaxReuse  *)
(* times.                                                                  *)
Leave(dead, alloc) ==
  LET aged == {[p EXCEPT !.reuse = @ + (IF p.idx \in alloc THEN 1 ELSE 0)] :
                 p \in stale}
      gone == {[idx |-> i, gen |-> slot[i].gen, fate |-> slot[i].fate,
                reuse |-> 0] : i \in dead}
      kept == {p \in aged \cup gone : p.reuse <= MaxReuse}
  IN \E S \in SUBSET kept : /\ \/ Cardinality(S) = program.stale
                              \/ (S = kept /\ Cardinality(S) < program.stale)
                           /\ stale' = S

Span(from, n) == {advance(from, k) : k \in 0 .. n - 1}

-----------------------------------------------------------------------------
(* An edge without recovery.  req is the LSU's answer to a store request:  *)
(* refused, taken and answered later, or performed at once.                *)
Requests(ce, R) ==
  IF commit_store_valid(ce, R) THEN {"refused", "taken", "performed"}
  ELSE {"refused"}

(* The entries with everything this edge records, before the head moves.   *)
Settled(R, req) ==
  [R EXCEPT ![head].asked = @ + (IF req = "refused" THEN 0 ELSE 1),
            ![head].performed = @ \/ AnswerMatch("done") \/ req = "performed",
            ![head].exc = @ \/ AnswerMatch("fault")]

StoreSideStickyBug(c, req) ==
  /\ owner' = IF AnswerMatch("done") \/ AnswerMatch("fault") \/ req = "performed"
              THEN NoTag ELSE IF req = "taken" THEN Tag(head) ELSE owner
  /\ store_done' = IF AnswerMatch("fault") THEN FALSE
                   ELSE store_done \/ AnswerMatch("done")
  /\ memory' = IF req = "taken" THEN [idx |-> head, gen |-> slot[head].gen, st |-> "busy"]
               ELSE IF memory.st \in {"done", "fault"} THEN NoStore ELSE memory
StoreSideHeldBug(c, req) ==
  /\ owner' = IF AnswerMatch("fault") \/ req = "performed"
              THEN NoTag ELSE IF req = "taken" THEN Tag(head) ELSE owner
  /\ store_done' = IF AnswerMatch("fault") \/ (c > 0 /\ HeadIsStore) THEN FALSE
                   ELSE store_done \/ AnswerMatch("done")
  /\ memory' = IF req = "taken" THEN [idx |-> head, gen |-> slot[head].gen, st |-> "busy"]
               ELSE IF memory.st \in {"done", "fault"} THEN NoStore ELSE memory
StoreSide(c, req) ==
  /\ owner' = IF AnswerMatch("done") \/ AnswerMatch("fault") \/ req = "performed"
              THEN NoTag ELSE IF req = "taken" THEN Tag(head) ELSE owner
  /\ store_done' = IF AnswerMatch("fault") \/ (c > 0 /\ HeadIsStore) THEN FALSE
                   ELSE store_done \/ AnswerMatch("done")
  /\ memory' = IF req = "taken" THEN [idx |-> head, gen |-> slot[head].gen, st |-> "busy"]
               ELSE IF memory.st \in {"done", "fault"} THEN NoStore ELSE memory

(* A branch that completed without a redirect needs its checkpoint no more;*)
(* one that completed with a redirect is squashed behind next, and one with*)
(* a misaligned target completes as an exception, not as a branch.         *)
StillOpen(R) ==
  {o \in branches : LET e == R[o.tag.idx] IN ~e.done \/ e.redir \/ e.exc}
Redirecting(R) ==
  {o.tag : o \in {x \in branches : R[x.tag.idx].redir}}

(* The edge itself: R is the buffer with the results it accepts, ce is     *)
(* commit_enable_i, b the bundle that enters.                              *)
Moves(p0, R, ce, req, b) ==
  LET E == Settled(R, req)
      stored == store_done \/ AnswerMatch("done") \/ req = "performed"
      c == IF ce THEN commit_count(p0, R, stored) ELSE 0
      left == Span(head, c)
      entered == Span(tail, Len(b))
  IN /\ Dispatchable(b, StillOpen(R))
     /\ slot' = [i \in Idx |->
                   IF i \in entered
                   THEN Allocated(i, b[((i - tail) % N) + 1])
                   ELSE IF i \in left THEN Empty(slot[i].gen) ELSE E[i]]
     /\ head' = advance(head, c)
     /\ tail' = advance(tail, Len(b))
     /\ count' = count - c + Len(b)
     /\ commit' = [k \in 1 .. c |-> E[advance(head, k - 1)]]
     /\ trap' = (c > 0 /\ ControlEvent)
     /\ branches' = StillOpen(R) \cup Opened(b)
     /\ recovering' = IF Redirecting(R) = {} THEN NoTag
                      ELSE CHOOSE t \in Redirecting(R) : TRUE
     /\ StoreSide(c, req)
     /\ Leave(left, entered)

ClockEdge ==
  /\ ~trap /\ recovering = NoTag
  /\ \E p0, p1 \in Presentable :
       /\ Lanes(p0, p1, {})
       /\ LET R == record_writeback(p0, p1, {})
          IN \E ce \in BOOLEAN : \E req \in Requests(ce, R), b \in Bundles :
               Moves(p0, R, ce, req, b)
  /\ UNCHANGED <<identity_error, program>>

(* The LSU answers the store request it took; the answer is held until an  *)
(* edge without recovery takes it.                                         *)
MemoryAnswers ==
  /\ memory.st = "busy"
  /\ \E st \in {"done", "fault"} : memory' = [memory EXCEPT !.st = st]
  /\ UNCHANGED <<buffer, owner, store_done, identity_error, stale, branches,
                 recovering, commit, trap, program>>

-----------------------------------------------------------------------------
(* Selective squash behind a mispredicted branch, and flush.               *)

survivors(t) == distance_from_head(t.idx) + 1
branch_match(t) ==
  /\ distance_from_head(t.idx) < count
  /\ slot[t.idx].valid /\ slot[t.idx].gen = t.gen /\ IsControl(slot[t.idx].kind)
(* The first entry behind the branch is the one its bundle saw as the next *)
(* to be allocated: by now allocated, or still free.                       *)
boundary_match(t, post) ==
  LET next == advance(t.idx, 1)
  IN /\ post.idx = next
     /\ IF survivors(t) < count THEN slot[next].valid /\ slot[next].gen = post.gen
        ELSE tail = next /\ alloc_gen(next) = post.gen
selective_squash_ready(o) == branch_match(o.tag) /\ boundary_match(o.tag, o.post)

killed_rob_maskAllBug(t) == Span(t.idx, count - distance_from_head(t.idx))
killed_rob_mask(t) == Span(advance(t.idx, 1), count - survivors(t))

Truncate(o) ==
  LET killed == killed_rob_mask(o.tag)
  IN /\ \E p0, p1 \in Presentable :
          /\ Lanes(p0, p1, killed)
          /\ LET R == record_writeback(p0, p1, killed)
             IN slot' = [i \in Idx |->
                           IF i \in killed THEN Empty(slot[i].gen)
                           ELSE IF i = o.tag.idx THEN [R[i] EXCEPT !.recov = TRUE]
                           ELSE R[i]]
     /\ tail' = o.post.idx /\ count' = survivors(o.tag)
     /\ IF owner # NoTag /\ owner.idx \in killed /\ slot[owner.idx].gen = owner.gen
        THEN owner' = NoTag /\ store_done' = FALSE
        ELSE UNCHANGED <<owner, store_done>>
     /\ branches' = {x \in branches \ {o} : x.tag.idx \notin killed}
     /\ recovering' = NoTag
     /\ Leave(killed, {})
     /\ UNCHANGED <<head, identity_error>>

Squash ==
  /\ ~trap /\ recovering # NoTag
  /\ \E o \in branches :
       /\ o.tag = recovering
       /\ \/ selective_squash_ready(o) /\ Truncate(o)
          \/ /\ ~selective_squash_ready(o) /\ ~identity_error
             /\ identity_error' = TRUE
             /\ UNCHANGED <<buffer, owner, store_done, stale, branches, recovering>>
  /\ commit' = << >>
  /\ UNCHANGED <<memory, trap, program>>

Flush ==
  /\ trap
  /\ head' = 0 /\ tail' = 0 /\ count' = 0
  /\ slot' = [i \in Idx |-> Empty(slot[i].gen)]
  /\ owner' = NoTag /\ store_done' = FALSE /\ identity_error' = FALSE
  /\ branches' = {} /\ recovering' = NoTag
  /\ commit' = << >> /\ trap' = FALSE
  /\ Leave({i \in Idx : slot[i].valid}, {})
  /\ UNCHANGED <<memory, program>>

Next == ClockEdge \/ MemoryAnswers \/ Squash \/ Flush
Spec == Init /\ [][Next]_vars

(* Units hold a result until it is taken, the LSU its answer and the trace *)
(* port is ready again after a while: what waits for one of them happens,  *)
(* however often recovery comes between (an edge follows every recovery).  *)
HeadCompletes == ClockEdge /\ ~slot[head].done /\ (slot'[head].done \/ head' # head)
HeadRequests  == ClockEdge /\ owner = NoTag /\ owner' # NoTag
HeadRetires   == ClockEdge /\ commit' # << >>
AnswerTaken   == ClockEdge /\ memory.st \in {"done", "fault"}
FairSpec ==
  /\ Spec
  /\ WF_vars(Squash) /\ WF_vars(Flush) /\ WF_vars(MemoryAnswers)
  /\ SF_vars(HeadCompletes) /\ SF_vars(HeadRequests)
  /\ SF_vars(AnswerTaken) /\ SF_vars(HeadRetires)

-----------------------------------------------------------------------------
(* Properties.                                                             *)

(* The window is the count entries from head to tail, and nothing else is  *)
(* valid: what the circular arithmetic of allocation, retirement and       *)
(* squash must agree on.                                                   *)
WindowShape ==
  /\ head \in Idx /\ tail \in Idx /\ count \in 0 .. N
  /\ tail = advance(head, count)
  /\ {i \in Idx : slot[i].valid} = Span(head, count)

(* No result of an instruction that left is taken for one of the entry's   *)
(* next owner (small_rob.sv:694, the stale writeback gen filter).          *)
StaleRejected == \A p \in stale : ~wb_tag_matches(p)

(* A result replayed by a unit is not recorded twice, so it cannot reach   *)
(* the register file twice (small_rob.sv:698).                             *)
ResultOnce ==
  \A i \in Idx : slot[i].valid => slot[i].hits = IF slot[i].done THEN 1 ELSE 0

(* The boundary a branch captured at allocation identifies, at every later *)
(* moment and after any squash of younger branches, the first entry behind *)
(* it: recovery is never refused (small_rob.sv:643).  A branch that faulted*)
(* keeps its record until the flush that its retirement starts.            *)
BoundaryExact ==
  ~identity_error /\ (~trap => \A o \in branches : selective_squash_ready(o))

(* At most one store request is out, of the store at the head, which is    *)
(* neither cancelled nor flushed before its answer; a done flag without an *)
(* owner is that of the store at the head (small_rob.sv:553).              *)
StoreOwnership ==
  /\ owner # NoTag <=> memory # NoStore
  /\ owner # NoTag => HeadIsStore /\ owner = Tag(head) /\ OwnerAnswered /\ ~trap
  /\ store_done => HeadIsStore /\ slot[head].performed /\ ~slot[head].exc

(* Whatever is killed, replayed or refused on the way, the oldest          *)
(* instruction leaves: the store handshake cannot strand the head.         *)
HeadLeaves == []<>(count = 0 \/ commit # << >>)

(* The buffer with its indices, generations and same-edge bypasses is an   *)
(* in-order window: results once and of their own instruction, retirement  *)
(* in program order of completed instructions, stores once, squash exactly *)
(* behind the branch.                                                      *)
Window == INSTANCE InOrderWindow
            WITH win <- [k \in 1 .. count |-> slot[advance(head, k - 1)]]
Implements == Window!Spec

=============================================================================
