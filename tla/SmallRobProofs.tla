---------------------------- MODULE SmallRobProofs ----------------------------
(***************************************************************************)
(* Proofs about SmallRob for every number of entries and generations and   *)
(* for every instruction mix.                                              *)
(*                                                                         *)
(* Indices are replaced by positions first: Pos(h, i) is how far entry i   *)
(* is from h, and the modular arithmetic of the buffer is stated once, in  *)
(* terms of it.  Then come lemmas on what an edge records, retires and     *)
(* allocates; one lemma per part of the inductive invariant and action;    *)
(* and the refinement of InOrderWindow.                                    *)
(***************************************************************************)
EXTENDS SmallRob, SequenceTheorems, TLAPS

-----------------------------------------------------------------------------
(* The parts of the inductive invariant.                                   *)

FateDone(e) == [e EXCEPT !.done = TRUE, !.exc = (e.fate = "exc"),
                         !.redir = (e.fate = "redir"), !.hits = 1]

Entry == [valid : BOOLEAN, gen : Gen, kind : Kinds, fate : Fates,
          done : BOOLEAN, exc : BOOLEAN, redir : BOOLEAN, recov : BOOLEAN,
          hits : 0 .. 1, asked : 0 .. 1, performed : BOOLEAN]

Result == [idx : Idx, gen : Gen, fate : Fates, reuse : 0 .. MaxReuse]
Branch == [tag : [idx : Idx, gen : Gen], post : [idx : Idx, gen : Gen]]

TypeInv ==
  /\ head \in Idx /\ tail \in Idx /\ count \in 0 .. N
  /\ slot \in [Idx -> Entry]
  /\ store_done \in BOOLEAN /\ trap \in BOOLEAN /\ identity_error \in BOOLEAN
  /\ owner \in [idx : 0 .. N, gen : Gen]
  /\ recovering \in [idx : 0 .. N, gen : Gen]
  /\ memory \in [idx : 0 .. N, gen : Gen, st : {"idle", "busy", "done", "fault"}]
  /\ stale \subseteq Result
  /\ branches \subseteq Branch
  /\ program \in Programs

EntryOK(e) ==
  /\ ~e.valid => e = Empty(e.gen)
  /\ ~e.done => /\ ~e.exc /\ ~e.redir /\ ~e.recov /\ ~e.performed
                /\ e.hits = 0 /\ e.asked = 0
  /\ e.done => /\ e.hits = 1
               /\ e.redir <=> e.fate = "redir"
               /\ e.fate = "exc" => e.exc
               /\ e.exc => e.fate = "exc" \/ e.asked = 1
  /\ e.asked = 1 => e.kind = "store"
  /\ e.performed => e.asked = 1 /\ ~e.exc

EntriesInv == \A i \in Idx : EntryOK(slot[i]) /\ (slot[i].asked = 1 => i = head)

StaleInv ==
  \A p \in stale : /\ slot[p.idx].gen = (p.gen + p.reuse) % G
                   /\ slot[p.idx].valid => p.reuse > 0

StoreInv ==
  /\ owner # NoTag <=> memory # NoStore
  /\ memory # NoStore => memory.st # "idle"
  /\ owner # NoTag => /\ HeadIsStore /\ owner = Tag(head) /\ OwnerAnswered /\ ~trap
                      /\ slot[head].done /\ ~slot[head].exc /\ slot[head].asked = 1
                      /\ ~store_done /\ ~slot[head].performed
  /\ store_done => HeadIsStore /\ slot[head].performed
  /\ slot[head].asked = 1 => owner # NoTag \/ store_done \/ slot[head].exc

Control(i) == slot[i].valid /\ IsControl(slot[i].kind)
BranchInv ==
  /\ ~identity_error
  /\ ~trap =>
       /\ \A o \in branches : /\ selective_squash_ready(o)
                              /\ ~slot[o.tag.idx].recov
                              /\ slot[o.tag.idx].redir <=> recovering = o.tag
       /\ recovering # NoTag => \E o \in branches : o.tag = recovering
       /\ \A i \in Idx : Control(i) =>
            /\ ~slot[i].done => \E o \in branches : o.tag = Tag(i)
            /\ slot[i].redir => slot[i].recov \/ recovering = Tag(i)

IInv == TypeInv /\ WindowShape /\ EntriesInv /\ StaleInv /\ StoreInv /\ BranchInv

-----------------------------------------------------------------------------
(* Positions in the circular buffer.                                       *)

Pos(h, i) == IF i >= h THEN i - h ELSE i - h + N
Adv(p, n) == IF p + n < N THEN p + n ELSE p + n - N

LEMMA Advance ==
  ASSUME NEW p \in Idx, NEW n \in 0 .. N
  PROVE  advance(p, n) = Adv(p, n)
  BY RobSizes, SMT DEF advance, Idx, Adv

LEMMA Distance ==
  ASSUME NEW h \in Idx, NEW i \in Idx
  PROVE  (i - h) % N = Pos(h, i)
  BY RobSizes, SMT DEF Idx, Pos

(* A walk of n entries from p, then of m more.                             *)
LEMMA AdvFacts ==
  ASSUME NEW p \in Idx, NEW n \in 0 .. N
  PROVE  /\ Adv(p, n) \in Idx
         /\ Adv(p, 0) = p
         /\ n < N => Pos(p, Adv(p, n)) = n
         /\ \A m \in 0 .. N : n + m <= N => Adv(Adv(p, n), m) = Adv(p, n + m)
  BY RobSizes DEF Idx, Pos, Adv

LEMMA PosFacts ==
  ASSUME NEW h \in Idx, NEW i \in Idx
  PROVE  /\ Pos(h, i) \in 0 .. N - 1
         /\ Adv(h, Pos(h, i)) = i
         /\ Adv(i, 1) = Adv(h, Pos(h, i) + 1)
         /\ \A n \in 0 .. N :
              Pos(Adv(h, n), i) = IF Pos(h, i) >= n THEN Pos(h, i) - n
                                  ELSE Pos(h, i) - n + N
  BY RobSizes DEF Idx, Pos, Adv

LEMMA NextPosition ==
  ASSUME NEW h \in Idx, NEW i \in Idx
  PROVE  /\ Adv(i, 1) \in Idx
         /\ Pos(h, Adv(i, 1)) = IF Pos(h, i) + 1 < N THEN Pos(h, i) + 1 ELSE 0
  BY RobSizes DEF Idx, Pos, Adv

LEMMA PosInjective ==
  ASSUME NEW h \in Idx, NEW i \in Idx, NEW j \in Idx, Pos(h, i) = Pos(h, j)
  PROVE  i = j
  BY RobSizes DEF Idx, Pos

LEMMA SpanMember ==
  ASSUME NEW h \in Idx, NEW n \in 0 .. N
  PROVE  \A i : i \in Span(h, n) <=> i \in Idx /\ Pos(h, i) < n
<1>1. \A k \in 0 .. n - 1 : advance(h, k) = Adv(h, k)
  BY Advance, RobSizes
<1>2. ASSUME NEW i, i \in Span(h, n)
      PROVE  i \in Idx /\ Pos(h, i) < n
  <2>1. PICK k \in 0 .. n - 1 : i = Adv(h, k)
    BY <1>1, <1>2 DEF Span
  <2> QED BY <2>1, RobSizes DEF Idx, Pos, Adv
<1>3. ASSUME NEW i \in Idx, Pos(h, i) < n
      PROVE  i \in Span(h, n)
  <2>1. Pos(h, i) \in 0 .. n - 1 /\ i = Adv(h, Pos(h, i))
    BY <1>3, RobSizes DEF Idx, Pos, Adv
  <2> QED BY <2>1, <1>1 DEF Span
<1> QED BY <1>2, <1>3

LEMMA HeadFacts ==
  ASSUME NEW h \in Idx
  PROVE  /\ Pos(h, h) = 0
         /\ advance(h, 1) \in Idx /\ advance(h, 1) # h /\ Pos(h, advance(h, 1)) = 1
  BY Advance, RobSizes DEF Idx, Pos, Adv

(* The window, by position.                                                *)
Window1 ==
  /\ head \in Idx /\ tail \in Idx /\ count \in 0 .. N
  /\ tail = Adv(head, count)
  /\ \A i \in Idx : slot[i].valid <=> Pos(head, i) < count

LEMMA ShapeByPosition == WindowShape <=> Window1
<1>1. SUFFICES ASSUME head \in Idx, tail \in Idx, count \in 0 .. N
               PROVE  WindowShape <=> Window1
  BY DEF WindowShape, Window1
<1>2. advance(head, count) = Adv(head, count)
  BY <1>1, Advance
<1>3. \A i : i \in Span(head, count) <=> i \in Idx /\ Pos(head, i) < count
  BY <1>1, SpanMember
<1>4. {i \in Idx : slot[i].valid} = Span(head, count)
      <=> \A i \in Idx : slot[i].valid <=> Pos(head, i) < count
  BY <1>3
<1> QED BY <1>1, <1>2, <1>4 DEF WindowShape, Window1

(* Generations.                                                            *)
LEMMA NextGeneration ==
  ASSUME NEW i \in Idx, slot \in [Idx -> Entry]
  PROVE  /\ alloc_gen(i) \in Gen
         /\ \A a \in Gen, r \in 0 .. MaxReuse :
              slot[i].gen = (a + r) % G => alloc_gen(i) = (a + (r + 1)) % G
<1>1. slot[i].gen \in Gen
  BY DEF Entry
<1>2. \A g \in Gen : (g + 1) % G = IF g = G - 1 THEN 0 ELSE g + 1
  BY RobSizes DEF Gen
<1>3. \A n \in 0 .. 2 * G - 1 : n % G = IF n < G THEN n ELSE n - G
  BY RobSizes
<1>4. ASSUME NEW a \in Gen, NEW r \in 0 .. MaxReuse, slot[i].gen = (a + r) % G
      PROVE  alloc_gen(i) = (a + (r + 1)) % G
  <2>1. a + r \in 0 .. 2 * G - 2 /\ a + (r + 1) \in 0 .. 2 * G - 1
    BY RobSizes, ResultLifetime DEF Gen
  <2>2. CASE a + r < G
    BY <2>1, <2>2, <1>1, <1>2, <1>3, <1>4, RobSizes DEF alloc_gen, Gen
  <2>3. CASE a + r >= G
    BY <2>1, <2>3, <1>1, <1>2, <1>3, <1>4, RobSizes DEF alloc_gen, Gen
  <2> QED BY <2>1, <2>2, <2>3, RobSizes DEF Gen
<1>5. alloc_gen(i) \in Gen
  BY <1>1, <1>2, RobSizes DEF alloc_gen, Gen
<1> QED BY <1>4, <1>5

LEMMA OtherGeneration ==
  ASSUME NEW a \in Gen, NEW r \in 1 .. MaxReuse
  PROVE  (a + r) % G # a
  BY RobSizes, ResultLifetime DEF Gen

-----------------------------------------------------------------------------
(* Writeback.                                                              *)

LEMMA StaleNeverMatches ==
  ASSUME TypeInv, StaleInv, NEW p \in stale
  PROVE  ~wb_tag_matches(p)
<1>1. /\ p.idx \in Idx /\ p.gen \in Gen /\ p.reuse \in 0 .. MaxReuse
      /\ slot[p.idx].gen = (p.gen + p.reuse) % G
      /\ slot[p.idx].valid => p.reuse > 0
  BY DEF TypeInv, StaleInv, Result
<1>2. slot[p.idx].valid => p.reuse \in 1 .. MaxReuse
  BY <1>1, ResultLifetime
<1> QED BY <1>1, <1>2, OtherGeneration DEF wb_tag_matches

(* A result that matches is that of the instruction in the entry.          *)
LEMMA PresentedFate ==
  ASSUME TypeInv, StaleInv, NEW p \in Presentable, wb_tag_matches(p)
  PROVE  p.idx \in Idx /\ slot[p.idx].valid /\ p.fate = slot[p.idx].fate
<1>1. p.idx \in Idx /\ slot[p.idx].valid
  BY DEF wb_tag_matches
<1>2. p # NoWb
  BY <1>1, RobSizes DEF NoWb, Idx
<1>3. CASE p \in {[idx |-> i, gen |-> slot[i].gen, fate |-> slot[i].fate] :
                    i \in {j \in Idx : slot[j].valid}}
  BY <1>1, <1>3
<1>4. CASE p \in {[idx |-> q.idx, gen |-> q.gen, fate |-> q.fate] : q \in stale}
  <2>1. PICK q \in stale : p = [idx |-> q.idx, gen |-> q.gen, fate |-> q.fate]
    BY <1>4
  <2>2. ~wb_tag_matches(q)
    BY StaleNeverMatches
  <2> QED BY <2>1, <2>2 DEF wb_tag_matches
<1> QED BY <1>1, <1>2, <1>3, <1>4 DEF Presentable

LEMMA FateDoneFields ==
  ASSUME NEW e \in Entry
  PROVE  /\ FateDone(e) \in Entry
         /\ FateDone(e).valid = e.valid /\ FateDone(e).gen = e.gen
         /\ FateDone(e).kind = e.kind /\ FateDone(e).fate = e.fate
         /\ FateDone(e).done /\ FateDone(e).hits = 1
         /\ FateDone(e).exc <=> e.fate = "exc"
         /\ FateDone(e).redir <=> e.fate = "redir"
         /\ FateDone(e).recov = e.recov /\ FateDone(e).asked = e.asked
         /\ FateDone(e).performed = e.performed
<1> DEFINE f == FateDone(e)
<1>1. PICK x \in BOOLEAN : x = (e.fate = "exc")
  BY Zenon
<1>2. PICK y \in BOOLEAN : y = (e.fate = "redir")
  BY Zenon
<1>3. f = [e EXCEPT !.done = TRUE, !.exc = x, !.redir = y, !.hits = 1]
  BY <1>1, <1>2, Zenon DEF FateDone
<1> HIDE DEF f
<1>4. f = [valid |-> e.valid, gen |-> e.gen, kind |-> e.kind, fate |-> e.fate,
           done |-> TRUE, exc |-> x, redir |-> y, recov |-> e.recov, hits |-> 1,
           asked |-> e.asked, performed |-> e.performed]
  BY <1>3 DEF Entry
<1>5. f \in Entry
  BY <1>4 DEF Entry
<1>6. /\ f.valid = e.valid /\ f.gen = e.gen /\ f.kind = e.kind /\ f.fate = e.fate
      /\ f.done /\ f.recov = e.recov /\ f.hits = 1 /\ f.asked = e.asked
      /\ f.performed = e.performed
  BY <1>4
<1>7. f.exc = x /\ f.redir = y
  BY <1>4
<1>8. (f.exc <=> e.fate = "exc") /\ (f.redir <=> e.fate = "redir")
  BY <1>1, <1>2, <1>7, Zenon
<1> QED BY <1>5, <1>6, <1>8, Zenon DEF f

(* What one edge records: an entry is left alone or completes with its own *)
(* outcome, and at most one branch completes.                              *)
Completes(R, i, killed) ==
  slot[i].valid /\ ~slot[i].done /\ i \notin killed /\ R[i] = FateDone(slot[i])

RecordedOK(R, killed) ==
  /\ R \in [Idx -> Entry]
  /\ \A i \in Idx : R[i] = slot[i] \/ Completes(R, i, killed)
  /\ \A i \in Idx : slot[i].done => R[i] = slot[i]
  /\ \A i, j \in Idx : /\ IsControl(slot[i].kind) /\ IsControl(slot[j].kind)
                       /\ R[i] # slot[i] /\ R[j] # slot[j]
                       => i = j /\ recovering = NoTag
  /\ \A i \in killed : i \in Idx => R[i] = slot[i]

LEMMA Recorded ==
  ASSUME TypeInv, StaleInv, EntriesInv,
         NEW p0 \in Presentable, NEW p1 \in Presentable, NEW killed,
         Lanes(p0, p1, killed), NEW R, R = record_writeback(p0, p1, killed)
  PROVE  RecordedOK(R, killed)
<1> DEFINE in == Accepted(p0, p1, killed)
           hit(i) == \E p \in in : p.idx = i
<1>1. \A p \in in : /\ p \in Presentable /\ wb_accept(p, killed)
                    /\ p = p0 \/ p = p1
  BY DEF Accepted, wb1_accept
<1>2. \A p \in in : /\ p.idx \in Idx /\ slot[p.idx].valid /\ ~slot[p.idx].done
                    /\ p.idx \notin killed /\ p.fate = slot[p.idx].fate
  <2> SUFFICES ASSUME NEW p \in in
               PROVE  /\ p.idx \in Idx /\ slot[p.idx].valid /\ ~slot[p.idx].done
                      /\ p.idx \notin killed /\ p.fate = slot[p.idx].fate
    OBVIOUS
  <2> QED BY <1>1, PresentedFate DEF wb_accept
<1>3. ASSUME NEW i \in Idx, ~hit(i)
      PROVE  R[i] = slot[i]
  BY <1>3 DEF record_writeback
<1>4. ASSUME NEW i \in Idx, hit(i)
      PROVE  Completes(R, i, killed)
  <2> DEFINE p == CHOOSE q \in in : q.idx = i
  <2>1. p \in in /\ p.idx = i
    BY <1>4
  <2> HIDE DEF p
  <2>2. R[i] = [slot[i] EXCEPT !.done = TRUE,
                               !.exc = @ \/ p.fate = "exc",
                               !.redir = p.fate = "redir",
                               !.hits = @ + Hits(p0, p1, i)]
    BY <1>4 DEF record_writeback, p
  <2>3. /\ slot[i].valid /\ ~slot[i].done /\ i \notin killed
        /\ p.fate = slot[i].fate
    BY <2>1, <1>2
  <2>4. slot[i] \in Entry /\ slot[i].exc = FALSE /\ slot[i].hits = 0
    BY <2>3 DEF TypeInv, EntriesInv, EntryOK, Entry
  <2>5. Hits(p0, p1, i) = 1
    <3>1. CASE wb_accept(p0, {}) /\ p0.idx = i
      BY <3>1 DEF Hits, wb1_accept
    <3>2. CASE ~(wb_accept(p0, {}) /\ p0.idx = i)
      <4>1. ~(wb_accept(p0, killed) /\ p0.idx = i)
        BY <3>2 DEF wb_accept
      <4>2. p = p1 /\ p \in in /\ p1.idx = i /\ wb_accept(p1, {})
        BY <4>1, <2>1, <1>1 DEF wb_accept
      <4> QED BY <4>2, <3>2 DEF Hits, wb1_accept
    <3> QED BY <3>1, <3>2
  <2>6. R[i] = FateDone(slot[i])
    <3>1. (slot[i].exc \/ p.fate = "exc") = (slot[i].fate = "exc")
      BY <2>3, <2>4
    <3>2. (p.fate = "redir") = (slot[i].fate = "redir")
      BY <2>3
    <3>3. slot[i].hits + Hits(p0, p1, i) = 1
      BY <2>4, <2>5
    <3> QED BY <2>2, <3>1, <3>2, <3>3, Zenon DEF FateDone
  <2> QED BY <2>3, <2>6 DEF Completes
<1>5. ASSUME NEW i \in Idx, NEW j \in Idx,
             IsControl(slot[i].kind), IsControl(slot[j].kind),
             R[i] # slot[i], R[j] # slot[j]
      PROVE  i = j /\ recovering = NoTag
  <2>1. hit(i) /\ hit(j)
    BY <1>3, <1>5
  <2>2. \A p \in in : p # NoWb
    BY <1>2, RobSizes DEF NoWb, Idx
  <2>3. PICK p \in in, q \in in : p.idx = i /\ q.idx = j
    BY <2>1
  <2> QED BY <1>1, <1>5, <2>2, <2>3 DEF Lanes
<1>6. \A i \in Idx : slot[i].done => R[i] = slot[i]
  BY <1>3, <1>4 DEF Completes
<1>7. \A i \in killed : i \in Idx => R[i] = slot[i]
  BY <1>3, <1>4 DEF Completes
<1>8. R \in [Idx -> Entry]
  <2>1. \A i \in Idx : slot[i] \in Entry
    BY DEF TypeInv
  <2>2. \A i \in Idx : R[i] \in Entry
    BY <1>3, <1>4, <2>1, FateDoneFields DEF Completes
  <2>3. R = [i \in Idx |-> R[i]]
    BY DEF record_writeback
  <2> QED BY <2>2, <2>3
<1> QED BY <1>3, <1>4, <1>5, <1>6, <1>7, <1>8 DEF RecordedOK

(* Recording keeps the entries in order.                                   *)
LEMMA RecordedEntries ==
  ASSUME NEW i \in Idx, slot[i] \in Entry, EntryOK(slot[i]), NEW R, NEW killed,
         R[i] = slot[i] \/ Completes(R, i, killed)
  PROVE  /\ R[i] \in Entry /\ EntryOK(R[i])
         /\ R[i].valid = slot[i].valid /\ R[i].gen = slot[i].gen
         /\ R[i].kind = slot[i].kind /\ R[i].fate = slot[i].fate
         /\ R[i].recov = slot[i].recov /\ R[i].asked = slot[i].asked
         /\ R[i].performed = slot[i].performed
         /\ slot[i].done => R[i] = slot[i]
         /\ R[i].done /\ ~slot[i].done => /\ slot[i].valid
                                          /\ R[i].exc <=> slot[i].fate = "exc"
                                          /\ R[i].redir <=> slot[i].fate = "redir"
         /\ R[i] # slot[i] => R[i].done /\ ~slot[i].done
<1>1. CASE R[i] = slot[i]
  BY <1>1 DEF EntryOK
<1>2. CASE Completes(R, i, killed)
  <2>1. slot[i].valid /\ ~slot[i].done /\ R[i] = FateDone(slot[i])
    BY <1>2 DEF Completes
  <2>2. EntryOK(R[i])
    BY <2>1, FateDoneFields DEF EntryOK, Entry
  <2> QED BY <2>1, <2>2, FateDoneFields
<1> QED BY <1>1, <1>2

-----------------------------------------------------------------------------
(* What dispatch presents: at most two instructions, and a branch or jump  *)
(* is the last of them.                                                    *)
LEMMA BundleFacts ==
  ASSUME program \in Programs, NEW b \in Bundles
  PROVE  /\ Len(b) \in 0 .. 2 /\ DOMAIN b = 1 .. Len(b)
         /\ \A k \in 1 .. Len(b) : /\ b[k][1] \in Kinds /\ b[k][2] \in Fates
                                   /\ IsControl(b[k][1]) => k = Len(b)
<1>1. \A u \in program.insts : u[1] \in Kinds /\ u[2] \in Fates
  BY ProgramAssumption
<1>2. CASE b = << >>
  BY <1>2
<1>3. CASE b \in {<<u>> : u \in program.insts}
  <2>1. PICK u \in program.insts : b = <<u>>
    BY <1>3
  <2>2. Len(b) = 1 /\ DOMAIN b = 1 .. 1 /\ b[1] = u
    BY <2>1
  <2> QED BY <1>1, <2>2
<1>4. CASE b \in {<<u, v>> : u \in {w \in program.insts : ~Serial(w[1])},
                             v \in {w \in program.insts : w[1] # "store"}}
  <2>1. PICK u \in program.insts, v \in program.insts : b = <<u, v>> /\ ~Serial(u[1])
    BY <1>4
  <2>2. ~IsControl(u[1])
    BY <2>1 DEF Serial, IsControl
  <2>3. Len(b) = 2 /\ DOMAIN b = 1 .. 2 /\ b[1] = u /\ b[2] = v
    BY <2>1
  <2> QED BY <1>1, <2>2, <2>3
<1> QED BY <1>2, <1>3, <1>4 DEF Bundles

LEMMA EmptyFields ==
  ASSUME NEW g \in Gen
  PROVE  /\ Empty(g) \in Entry /\ EntryOK(Empty(g)) /\ Empty(g).gen = g
         /\ ~Empty(g).valid /\ Empty(g).asked = 0
  BY DEF Empty, Entry, EntryOK, Kinds, Fates

LEMMA AllocatedFields ==
  ASSUME NEW i \in Idx, slot \in [Idx -> Entry], NEW u, u[1] \in Kinds, u[2] \in Fates
  PROVE  /\ Allocated(i, u) \in Entry /\ EntryOK(Allocated(i, u))
         /\ Allocated(i, u).valid /\ Allocated(i, u).gen = alloc_gen(i)
         /\ Allocated(i, u).kind = u[1] /\ ~Allocated(i, u).done
         /\ ~Allocated(i, u).redir /\ ~Allocated(i, u).exc
         /\ ~Allocated(i, u).recov /\ Allocated(i, u).asked = 0
         /\ Window!Fresh(Allocated(i, u))
<1>1. alloc_gen(i) \in Gen
  BY NextGeneration
<1> DEFINE e == Empty(alloc_gen(i))
<1>3. e \in Entry /\ e.gen = alloc_gen(i)
  BY <1>1, EmptyFields
<1>4. /\ ~e.done /\ ~e.exc /\ ~e.redir /\ ~e.recov /\ e.hits = 0 /\ e.asked = 0
      /\ ~e.performed
  BY DEF Empty
<1>5. Allocated(i, u) = [e EXCEPT !.valid = TRUE, !.kind = u[1], !.fate = u[2]]
  BY DEF Allocated
<1> HIDE DEF e
<1>2. Allocated(i, u) =
        [valid |-> TRUE, gen |-> alloc_gen(i), kind |-> u[1], fate |-> u[2],
         done |-> FALSE, exc |-> FALSE, redir |-> FALSE, recov |-> FALSE,
         hits |-> 0, asked |-> 0, performed |-> FALSE]
  BY <1>3, <1>4, <1>5 DEF Entry
<1> QED BY <1>1, <1>2 DEF Entry, EntryOK, Window!Fresh

-----------------------------------------------------------------------------
(* The head store.                                                         *)

LEMMA AnswerFacts ==
  ASSUME TypeInv, StoreInv
  PROVE  /\ ~(AnswerMatch("done") /\ AnswerMatch("fault"))
         /\ \A st \in {"done", "fault"} : AnswerMatch(st) <=> memory.st = st
         /\ \A st \in {"done", "fault"} :
              AnswerMatch(st) => /\ HeadIsStore /\ slot[head].done
                                 /\ ~slot[head].exc /\ slot[head].asked = 1
                                 /\ ~store_done /\ owner # NoTag
                                 /\ ~slot[head].performed
<1>1. \A st \in {"done", "fault"} : memory.st = st => memory # NoStore
  BY DEF NoStore
<1> QED BY <1>1 DEF StoreInv, AnswerMatch, HeadIsStore

(* What the edge leaves in the entries before the head moves.              *)
SettledOK(R, E, req, ce) ==
  /\ E \in [Idx -> Entry]
  /\ \A i \in Idx : EntryOK(E[i]) /\ (E[i].asked = 1 => i = head)
  /\ \A i \in Idx : i # head => E[i] = R[i]
  /\ \A i \in Idx : /\ E[i].valid = slot[i].valid /\ E[i].gen = slot[i].gen
                    /\ E[i].kind = slot[i].kind /\ E[i].fate = slot[i].fate
                    /\ E[i].done = R[i].done /\ E[i].redir = R[i].redir
                    /\ E[i].recov = slot[i].recov
                    /\ E[i].hits = R[i].hits
  /\ E[head].exc <=> R[head].exc \/ AnswerMatch("fault")
  /\ E[head].performed <=> \/ R[head].performed \/ AnswerMatch("done")
                           \/ req = "performed"
  /\ E[head].asked = R[head].asked + (IF req = "refused" THEN 0 ELSE 1)
  /\ req \in {"refused", "taken", "performed"}
  /\ req # "refused" =>
       /\ ce /\ HeadIsStore /\ R[head].done /\ ~R[head].exc
       /\ ~store_done /\ ~AnswerMatch("done") /\ ~AnswerMatch("fault")
       /\ owner = NoTag /\ slot[head].asked = 0 /\ ~slot[head].performed

LEMMA SettledFacts ==
  ASSUME TypeInv, EntriesInv, StoreInv, WindowShape, NEW R, NEW ce, NEW killed,
         RecordedOK(R, killed),
         NEW req \in Requests(ce, R), NEW E, E = Settled(R, req)
  PROVE  SettledOK(R, E, req, ce)
<1>1. head \in Idx /\ slot \in [Idx -> Entry] /\ store_done \in BOOLEAN
  BY DEF TypeInv
<1>2. \A i \in Idx : /\ slot[i] \in Entry /\ EntryOK(slot[i])
                     /\ slot[i].asked = 1 => i = head
  BY <1>1 DEF EntriesInv
<1>0. R \in [Idx -> Entry] /\ \A i \in Idx : R[i] = slot[i] \/ Completes(R, i, killed)
  BY DEF RecordedOK
<1>3. \A i \in Idx :
         /\ R[i] \in Entry /\ EntryOK(R[i])
         /\ R[i].valid = slot[i].valid /\ R[i].gen = slot[i].gen
         /\ R[i].kind = slot[i].kind /\ R[i].fate = slot[i].fate
         /\ R[i].recov = slot[i].recov /\ R[i].asked = slot[i].asked
         /\ R[i].performed = slot[i].performed
         /\ slot[i].done => R[i] = slot[i]
  BY <1>0, <1>2, RecordedEntries
<1>4. req \in {"refused", "taken", "performed"}
  BY DEF Requests
<1>5. ASSUME req # "refused"
      PROVE  /\ ce /\ HeadIsStore /\ R[head].done /\ ~R[head].exc
             /\ ~store_done /\ ~AnswerMatch("done") /\ ~AnswerMatch("fault")
             /\ owner = NoTag /\ slot[head].asked = 0 /\ ~slot[head].performed
  <2>1. commit_store_valid(ce, R)
    BY <1>5 DEF Requests
  <2>2. /\ ce /\ HeadIsStore /\ R[head].done /\ ~R[head].exc
        /\ ~store_done /\ ~AnswerMatch("done") /\ owner = NoTag
    BY <2>1 DEF commit_store_valid, slot0_store
  <2>3. ~AnswerMatch("fault")
    BY <2>2 DEF AnswerMatch
  <2>4. slot[head].asked # 1
    <3>1. slot[head].asked = 1 => slot[head].exc
      BY <2>2 DEF StoreInv
    <3>2. slot[head].exc => slot[head].done
      BY <1>1, <1>2 DEF EntryOK
    <3>3. slot[head].done => R[head] = slot[head]
      BY <1>1, <1>3, Zenon
    <3> QED BY <2>2, <3>1, <3>2, <3>3
  <2>5. slot[head].asked = 0 /\ ~slot[head].performed
    BY <2>4, <1>1, <1>2 DEF EntryOK, Entry
  <2> QED BY <2>2, <2>3, <2>5
<1> DEFINE r == R[head]
<1>6. PICK x \in BOOLEAN : x = (r.performed \/ AnswerMatch("done") \/ req = "performed")
  BY Zenon
<1>7. PICK y \in BOOLEAN : y = (r.exc \/ AnswerMatch("fault"))
  BY Zenon
<1> DEFINE n == r.asked + (IF req = "refused" THEN 0 ELSE 1)
<1>8. E = [R EXCEPT ![head].asked = n, ![head].performed = x, ![head].exc = y]
  BY <1>6, <1>7, Zenon DEF Settled
<1>9. r \in Entry /\ EntryOK(r) /\ n \in 0 .. 1 /\ (n = 1 => r.kind = "store" /\ r.done)
  <2>1. r \in Entry /\ EntryOK(r) /\ r.asked = slot[head].asked /\ r.kind = slot[head].kind
    BY <1>1, <1>3, Zenon
  <2>2. r.asked \in 0 .. 1
    BY <2>1 DEF Entry
  <2> QED BY <2>1, <2>2, <1>5 DEF EntryOK, HeadIsStore
<1> HIDE DEF n
<1>10. E[head] = [valid |-> r.valid, gen |-> r.gen, kind |-> r.kind, fate |-> r.fate,
                  done |-> r.done, exc |-> y, redir |-> r.redir, recov |-> r.recov,
                  hits |-> r.hits, asked |-> n, performed |-> x]
  BY <1>0, <1>1, <1>8, <1>9 DEF Entry
<1>11. \A i \in Idx : i # head => E[i] = R[i]
  BY <1>0, <1>1, <1>8
<1>12. E[head] \in Entry
  BY <1>9, <1>10 DEF Entry
<1>13. E = [i \in Idx |-> E[i]]
  BY <1>0, <1>1, <1>8
<1>14. /\ E[head].valid = r.valid /\ E[head].gen = r.gen /\ E[head].kind = r.kind
       /\ E[head].fate = r.fate /\ E[head].done = r.done /\ E[head].exc = y
       /\ E[head].redir = r.redir /\ E[head].recov = r.recov
       /\ E[head].hits = r.hits /\ E[head].asked = n /\ E[head].performed = x
  BY <1>10
<1>15. (y <=> r.exc \/ AnswerMatch("fault"))
       /\ (x <=> r.performed \/ AnswerMatch("done") \/ req = "performed")
  BY <1>6, <1>7, Zenon
<1>16. EntryOK(E[head])
  <2>0. /\ slot[head].done => r = slot[head]
        /\ r.valid = slot[head].valid /\ r.asked = slot[head].asked
    BY <1>1, <1>3, Zenon
  <2>1. AnswerMatch("fault") => r.done /\ r.asked = 1 /\ ~r.performed
                                /\ r.valid /\ ~AnswerMatch("done")
    BY AnswerFacts, <2>0 DEF HeadIsStore
  <2>2. AnswerMatch("done") => r.done /\ r.asked = 1 /\ ~r.exc /\ r.valid
    BY AnswerFacts, <2>0 DEF HeadIsStore
  <2>3. req # "refused" => r.done /\ r.valid /\ ~r.exc /\ r.asked = 0
    BY <1>5, <2>0 DEF HeadIsStore
  <2>4. r.asked = 1 => n = 1
    BY <2>3, <1>9 DEF n
  <2>5. req # "refused" => n = 1
    BY <2>3 DEF n
  <2>6. ~r.valid => E[head] = Empty(E[head].gen)
    <3> SUFFICES ASSUME ~r.valid
                 PROVE  E[head] = Empty(E[head].gen)
      OBVIOUS
    <3>1. r = Empty(r.gen)
      BY <1>9 DEF EntryOK
    <3>2. /\ r.kind = "alu" /\ r.fate = "ok" /\ r.done = FALSE /\ r.exc = FALSE
          /\ r.redir = FALSE /\ r.recov = FALSE /\ r.hits = 0 /\ r.asked = 0
          /\ r.performed = FALSE /\ r.valid = FALSE
      BY <3>1 DEF Empty
    <3>3. req = "refused" /\ ~AnswerMatch("done") /\ ~AnswerMatch("fault")
      BY <2>1, <2>2, <2>3, <3>2
    <3>4. x = FALSE /\ y = FALSE /\ n = 0
      BY <1>15, <3>2, <3>3 DEF n
    <3>5. E[head] = Empty(r.gen)
      BY <1>10, <3>2, <3>4, Zenon DEF Empty
    <3> QED BY <3>5, <1>14, Zenon
  <2> QED BY <1>9, <1>14, <1>15, <2>1, <2>2, <2>3, <2>4, <2>5, <2>6, <1>5 DEF EntryOK
<1>17. E \in [Idx -> Entry]
  BY <1>3, <1>11, <1>12, <1>13
<1>18. \A i \in Idx : EntryOK(E[i]) /\ (E[i].asked = 1 => i = head)
  BY <1>2, <1>3, <1>11, <1>16
<1>19. \A i \in Idx : /\ E[i].valid = slot[i].valid /\ E[i].gen = slot[i].gen
                       /\ E[i].kind = slot[i].kind /\ E[i].fate = slot[i].fate
                       /\ E[i].done = R[i].done /\ E[i].redir = R[i].redir
                       /\ E[i].recov = slot[i].recov
                       /\ E[i].hits = R[i].hits
  BY <1>3, <1>11, <1>14
<1>20. E[head].asked = R[head].asked + (IF req = "refused" THEN 0 ELSE 1)
  BY <1>14 DEF n
<1> QED BY <1>4, <1>5, <1>11, <1>14, <1>15, <1>17, <1>18, <1>19, <1>20 DEF SettledOK

-----------------------------------------------------------------------------
(* An edge without recovery, its choices and intermediate results named.   *)

Stored(req) == store_done \/ AnswerMatch("done") \/ req = "performed"

EdgeParts(p0, p1, R, ce, req, b, E, c) ==
  /\ ~trap /\ recovering = NoTag
  /\ p0 \in Presentable /\ p1 \in Presentable /\ Lanes(p0, p1, {})
  /\ R = record_writeback(p0, p1, {})
  /\ ce \in BOOLEAN /\ req \in Requests(ce, R) /\ b \in Bundles
  /\ E = Settled(R, req)
  /\ c = IF ce THEN commit_count(p0, R, Stored(req)) ELSE 0
  /\ Dispatchable(b, StillOpen(R))
  /\ slot' = [i \in Idx |->
                IF i \in Span(tail, Len(b))
                THEN Allocated(i, b[((i - tail) % N) + 1])
                ELSE IF i \in Span(head, c) THEN Empty(slot[i].gen) ELSE E[i]]
  /\ head' = advance(head, c)
  /\ tail' = advance(tail, Len(b))
  /\ count' = count - c + Len(b)
  /\ commit' = [k \in 1 .. c |-> E[advance(head, k - 1)]]
  /\ trap' = (c > 0 /\ ControlEvent)
  /\ branches' = StillOpen(R) \cup Opened(b)
  /\ recovering' = (IF Redirecting(R) = {} THEN NoTag
                    ELSE CHOOSE t \in Redirecting(R) : TRUE)
  /\ StoreSide(c, req)
  /\ Leave(Span(head, c), Span(tail, Len(b)))
  /\ UNCHANGED <<identity_error, program>>

LEMMA EdgeHasParts ==
  ASSUME ClockEdge
  PROVE  \E p0, p1, R, ce, req, b, E, c : EdgeParts(p0, p1, R, ce, req, b, E, c)
<1>1. PICK p0 \in Presentable, p1 \in Presentable :
        /\ Lanes(p0, p1, {})
        /\ LET R == record_writeback(p0, p1, {})
           IN \E ce \in BOOLEAN : \E req \in Requests(ce, R), b \in Bundles :
                Moves(p0, R, ce, req, b)
  BY Zenon DEF ClockEdge
<1> DEFINE R == record_writeback(p0, p1, {})
<1>2. PICK ce \in BOOLEAN :
        \E req \in Requests(ce, R), b \in Bundles : Moves(p0, R, ce, req, b)
  BY <1>1, Zenon
<1>3. PICK req \in Requests(ce, R), b \in Bundles : Moves(p0, R, ce, req, b)
  BY <1>2, Zenon
<1> DEFINE E == Settled(R, req)
           c == IF ce THEN commit_count(p0, R, Stored(req)) ELSE 0
<1>4. EdgeParts(p0, p1, R, ce, req, b, E, c)
  BY <1>1, <1>3, Zenon DEF EdgeParts, Moves, ClockEdge, Stored
<1> QED BY <1>4, Zenon

(* What retires: nothing; a control event; or one or two instructions that *)
(* the window lets go, of which two have no class that retires alone.      *)
LEMMA RetiredFacts ==
  ASSUME TypeInv, WindowShape, EntriesInv, StaleInv, StoreInv, BranchInv,
         NEW p0, NEW p1, NEW R, NEW ce, NEW req, NEW b, NEW E, NEW c,
         EdgeParts(p0, p1, R, ce, req, b, E, c)
  PROVE  /\ c \in 0 .. 2 /\ c <= count
         /\ c > 0 => slot[head].valid /\ R[head].done
         /\ c > 0 /\ ControlEvent => c = 1 /\ Window!ControlEvent(E[head])
         /\ c > 0 /\ ~ControlEvent => Window!Retires(E[head])
         /\ c = 2 => /\ slot[head1].valid /\ Window!Retires(E[head1])
                     /\ E[head].kind \notin Window!Alone
                     /\ E[head1].kind \notin Window!Alone
                     /\ IsControl(E[head1].kind) /\ E[head1].redir => E[head1].recov
         /\ c > 0 /\ HeadIsStore => ControlEvent \/ Stored(req)
         /\ req = "performed" => c = 1
<1>1. /\ head \in Idx /\ head1 \in Idx /\ head1 # head /\ Pos(head, head) = 0
      /\ Pos(head, head1) = 1 /\ count \in 0 .. N /\ slot \in [Idx -> Entry]
      /\ \A i \in Idx : slot[i].valid <=> Pos(head, i) < count
  BY HeadFacts, ShapeByPosition DEF TypeInv, Window1, head1
<1>a. RecordedOK(R, {})
  BY Recorded DEF EdgeParts
<1>b. SettledOK(R, E, req, ce)
  BY <1>a, SettledFacts DEF EdgeParts
<1>2. /\ R \in [Idx -> Entry]
      /\ \A i \in Idx : R[i] = slot[i] \/ Completes(R, i, {})
      /\ \A i \in Idx : slot[i].done => R[i] = slot[i]
  BY <1>a DEF RecordedOK
<1>3. /\ E \in [Idx -> Entry]
      /\ \A i \in Idx : EntryOK(E[i]) /\ (E[i].asked = 1 => i = head)
      /\ \A i \in Idx : i # head => E[i] = R[i]
      /\ \A i \in Idx : /\ E[i].valid = slot[i].valid /\ E[i].gen = slot[i].gen
                        /\ E[i].kind = slot[i].kind /\ E[i].fate = slot[i].fate
                        /\ E[i].done = R[i].done /\ E[i].redir = R[i].redir
                        /\ E[i].recov = slot[i].recov
      /\ E[head].exc <=> R[head].exc \/ AnswerMatch("fault")
      /\ E[head].performed <=> \/ R[head].performed \/ AnswerMatch("done")
                               \/ req = "performed"
      /\ req # "refused" => /\ ~AnswerMatch("done") /\ ~AnswerMatch("fault")
  BY <1>b DEF SettledOK
<1>4. \A i \in Idx : /\ slot[i] \in Entry /\ EntryOK(slot[i])
                     /\ R[i].kind = slot[i].kind
                     /\ R[i].recov = slot[i].recov
                     /\ R[i].performed = slot[i].performed
                     /\ R[i].done /\ ~slot[i].done => slot[i].valid
                     /\ slot[i].exc => slot[i].done
  <2> SUFFICES ASSUME NEW i \in Idx
               PROVE  /\ slot[i] \in Entry /\ EntryOK(slot[i])
                      /\ R[i].kind = slot[i].kind
                      /\ R[i].recov = slot[i].recov
                      /\ R[i].performed = slot[i].performed
                      /\ R[i].done /\ ~slot[i].done => slot[i].valid
                      /\ slot[i].exc => slot[i].done
    OBVIOUS
  <2>1. slot[i] \in Entry /\ EntryOK(slot[i])
    BY <1>1 DEF EntriesInv
  <2> QED BY <2>1, <1>2, RecordedEntries DEF EntryOK
(* In a state without a recovery due, a redirecting branch that completed  *)
(* earlier has been squashed behind.                                       *)
<1>5. \A i \in Idx : slot[i].valid /\ IsControl(slot[i].kind) /\ slot[i].redir
                     => slot[i].recov
  <2> SUFFICES ASSUME NEW i \in Idx, Control(i), slot[i].redir
               PROVE  slot[i].recov
    BY DEF Control
  <2>1. recovering = NoTag /\ ~trap
    BY DEF EdgeParts
  <2>2. Tag(i) # NoTag
    BY RobSizes DEF Tag, NoTag, Idx
  <2> QED BY <2>1, <2>2 DEF BranchInv
<1> DEFINE stored == Stored(req)
<1>7. ASSUME c # 0
      PROVE  /\ c = commit_count(p0, R, stored)
             /\ c \in 1 .. 2
             /\ slot0_exception \/ slot0_ebreak => c = 1
             /\ ~(slot0_exception \/ slot0_ebreak) =>
                  IF slot0_store(R) THEN stored /\ c = 1
                  ELSE /\ slot0_ready(R)
                       /\ c = 2 => /\ count > 1 /\ ~slot0_complex
                                   /\ slot1_ready(p0, R) /\ ~slot1_complex(R)
  BY <1>7 DEF EdgeParts, commit_count
<1>8. ASSUME c # 0
      PROVE  slot[head].valid /\ R[head].done
  BY <1>1, <1>2, <1>4, <1>7, <1>8
     DEF slot0_exception, slot0_ebreak, slot0_store, slot0_ready, HeadIsStore,
         slot_ready_no_exception, head_same_cycle_wb
<1>9. ASSUME c # 0, ControlEvent
      PROVE  c = 1 /\ Window!ControlEvent(E[head])
  <2>1. slot[head].done /\ R[head] = slot[head]
    BY <1>1, <1>2, <1>9 DEF ControlEvent, slot0_exception, slot0_ebreak, slot_ready_no_exception
  <2>2. E[head].done /\ E[head].kind = slot[head].kind
        /\ E[head].redir = slot[head].redir /\ E[head].recov = slot[head].recov
    BY <1>1, <1>3, <2>1
  <2>3. CASE slot0_exception
    BY <1>7, <1>9, <1>3, <2>1, <2>2, <2>3 DEF slot0_exception, Window!ControlEvent
  <2>4. CASE slot0_ebreak
    BY <1>7, <1>9, <2>2, <2>4 DEF slot0_ebreak, Window!ControlEvent
  <2>5. CASE slot_ready_no_exception(head) /\ slot[head].kind = "sys" /\ slot[head].redir
            /\ ~slot0_exception /\ ~slot0_ebreak
    <3>1. slot0_complex
      BY <2>5 DEF slot0_complex, slot_commit2_complex
    <3>2. ~HeadIsStore
      BY <2>5 DEF HeadIsStore
    <3>3. ~slot0_store(R) /\ c = 1
      BY <3>1, <3>2, <1>7, <1>9 DEF slot0_store
    <3>4. ~E[head].exc
      BY <2>1, <2>5, <3>2, <1>3 DEF AnswerMatch, slot_ready_no_exception
    <3> QED BY <3>3, <3>4, <2>2, <2>5 DEF Window!ControlEvent, Window!Retires
  <2> QED BY <1>9, <2>3, <2>4, <2>5 DEF ControlEvent
<1>10. ASSUME c # 0, ~ControlEvent
       PROVE  Window!Retires(E[head]) /\ (HeadIsStore => stored)
  <2>1. ~slot0_exception /\ ~slot0_ebreak
    BY <1>10 DEF ControlEvent
  <2>2. CASE slot0_store(R)
    <3>1. stored /\ R[head].done /\ ~R[head].exc /\ HeadIsStore
      BY <1>7, <1>10, <2>1, <2>2 DEF slot0_store
    <3>2. ~AnswerMatch("fault") /\ E[head].performed
      <4>1. CASE store_done
        BY <4>1, <1>1, <1>3, <1>4, AnswerFacts DEF StoreInv
      <4>2. CASE AnswerMatch("done")
        BY <4>2, <1>3, AnswerFacts
      <4>3. CASE req = "performed"
        BY <4>3, <1>3
      <4> QED BY <3>1, <4>1, <4>2, <4>3 DEF Stored
    <3>3. E[head].kind = "store" /\ E[head].done /\ ~E[head].exc
      BY <1>1, <1>3, <3>1, <3>2 DEF HeadIsStore
    <3> QED BY <3>1, <3>2, <3>3 DEF Window!Retires
  <2>3. CASE ~slot0_store(R)
    <3>1. slot0_ready(R)
      BY <1>7, <1>10, <2>1, <2>3
    <3>2. R[head].done /\ ~R[head].exc /\ slot[head].kind # "ebreak"
      BY <3>1, <1>1, <1>2, <2>1 DEF slot0_ready, slot_ready_no_exception, head_same_cycle_wb,
                         slot0_ebreak
    <3>3. ~HeadIsStore
      BY <2>3, <3>2 DEF slot0_store
    <3>4. ~AnswerMatch("fault")
      BY <3>3 DEF AnswerMatch
    <3>5. slot[head].valid
      BY <1>8, <1>10
    <3>6. IsControl(slot[head].kind) /\ R[head].redir => slot[head].recov
      BY <3>1, <3>5, <1>1, <1>2, <1>5 DEF slot0_ready, slot_ready_no_exception, head_same_cycle_wb
    <3> QED BY <3>2, <3>3, <3>4, <3>5, <3>6, <1>1, <1>3
            DEF Window!Retires, HeadIsStore, IsControl
  <2> QED BY <2>2, <2>3
<1>11. ASSUME c = 2
       PROVE  /\ slot[head1].valid /\ Window!Retires(E[head1])
              /\ E[head].kind \notin Window!Alone
              /\ E[head1].kind \notin Window!Alone
              /\ IsControl(E[head1].kind) /\ E[head1].redir => E[head1].recov
  <2>1. /\ ~slot0_exception /\ ~slot0_ebreak /\ ~slot0_store(R) /\ slot0_ready(R)
        /\ count > 1 /\ ~slot0_complex /\ slot1_ready(p0, R) /\ ~slot1_complex(R)
    BY <1>7, <1>11
  <2>2. slot[head1].valid /\ E[head1] = R[head1]
    BY <1>1, <1>3, <2>1
  <2>3. R[head1].done /\ ~R[head1].exc
    BY <1>1, <1>2, <2>1 DEF slot1_ready, slot_ready_no_exception, head1_same_cycle_wb
  <2>4. slot[head].kind \notin {"store", "sys", "ebreak"}
    <3>1. CASE slot_ready_no_exception(head)
      BY <3>1, <2>1 DEF slot0_complex, slot_commit2_complex
    <3>2. CASE head_same_cycle_wb(R)
      BY <3>2 DEF head_same_cycle_wb
    <3> QED BY <2>1, <3>1, <3>2 DEF slot0_ready
  <2>5. R[head1].kind \notin {"store", "sys", "ebreak"}
    BY <2>1 DEF slot1_complex, slot_commit2_complex, slot_p64_safe_control
  <2>6. IsControl(R[head1].kind) /\ R[head1].redir => R[head1].recov
    BY <2>1 DEF slot1_complex, slot_commit2_complex, slot_p64_safe_control, IsControl
  <2> QED BY <1>1, <1>3, <2>2, <2>3, <2>4, <2>5, <2>6
          DEF Window!Retires, Window!Alone, IsControl
<1>12. c \in 0 .. 2 /\ c <= count
  <2>1. c = 1 => count > 0
    BY <1>1, <1>8
  <2>2. c = 2 => count > 1
    BY <1>1, <1>11
  <2> QED BY <1>1, <1>7, <2>1, <2>2
<1>13. ASSUME req = "performed"
       PROVE  c = 1
  <2>1. ce /\ HeadIsStore /\ R[head].done /\ ~R[head].exc
    BY <1>13, <1>b DEF SettledOK
  <2>2. slot0_store(R) /\ Stored(req)
    BY <1>13, <2>1 DEF slot0_store, Stored
  <2>3. ~slot0_exception /\ ~slot0_ebreak
    BY <1>1, <1>2, <2>1 DEF slot0_exception, slot0_ebreak, HeadIsStore
  <2> QED BY <2>1, <2>2, <2>3 DEF EdgeParts, commit_count
<1> QED BY <1>8, <1>9, <1>10, <1>11, <1>12, <1>13

LEMMA ShapeByPositionPrime == WindowShape' <=> Window1'
  BY ShapeByPosition, PTL

(* The entries after an edge, by their distance from the old head.         *)
LEMMA EdgeSlots ==
  ASSUME TypeInv, WindowShape, EntriesInv, StaleInv, StoreInv, BranchInv,
         NEW p0, NEW p1, NEW R, NEW ce, NEW req, NEW b, NEW E, NEW c,
         EdgeParts(p0, p1, R, ce, req, b, E, c)
  PROVE  /\ Len(b) \in 0 .. 2 /\ count + Len(b) <= N
         /\ head' = Adv(head, c) /\ tail' = Adv(tail, Len(b))
         /\ count' = count - c + Len(b)
         /\ \A i : i \in Span(tail, Len(b)) <=>
              i \in Idx /\ count <= Pos(head, i) /\ Pos(head, i) < count + Len(b)
         /\ \A i : i \in Span(head, c) <=> i \in Idx /\ Pos(head, i) < c
         /\ slot' = [i \in Idx |-> slot'[i]]
         /\ \A i \in Idx :
              /\ count <= Pos(head, i) /\ Pos(head, i) < count + Len(b) =>
                   /\ Pos(head, i) - count + 1 \in 1 .. Len(b)
                   /\ slot'[i] = Allocated(i, b[Pos(head, i) - count + 1])
              /\ Pos(head, i) < c => slot'[i] = Empty(slot[i].gen)
              /\ Pos(head, i) >= c
                 /\ ~(count <= Pos(head, i) /\ Pos(head, i) < count + Len(b))
                 => slot'[i] = E[i]
<1> DEFINE l == Len(b)
<1>1. /\ head \in Idx /\ tail \in Idx /\ count \in 0 .. N /\ tail = Adv(head, count)
  BY ShapeByPosition DEF Window1
<1>2. c \in 0 .. 2 /\ c <= count
  BY RetiredFacts
<1>3. l \in 0 .. 2
  BY BundleFacts DEF EdgeParts, TypeInv
<1>4. count + l <= N
  <2>1. l <= free_slots
    BY DEF EdgeParts, Dispatchable
  <2> QED BY <2>1, <1>1, <1>3, RobSizes DEF free_slots
<1>5. head' = Adv(head, c) /\ tail' = Adv(tail, l) /\ count' = count - c + l
  <2>1. c \in 0 .. N
    BY <1>2, RobSizes
  <2>2. l \in 0 .. N
    BY <1>3, RobSizes
  <2> QED BY <2>1, <2>2, <1>1, Advance DEF EdgeParts
<1>6. \A i \in Idx : /\ Pos(head, i) \in 0 .. N - 1
                     /\ Pos(tail, i) = IF Pos(head, i) >= count THEN Pos(head, i) - count
                                       ELSE Pos(head, i) - count + N
  BY <1>1, PosFacts
<1>7. \A i : i \in Span(tail, l) <=>
        i \in Idx /\ count <= Pos(head, i) /\ Pos(head, i) < count + l
  <2>1. l \in 0 .. N
    BY <1>3, RobSizes
  <2>2. \A i : i \in Span(tail, l) <=> i \in Idx /\ Pos(tail, i) < l
    BY <2>1, <1>1, SpanMember
  <2>3. \A i \in Idx : Pos(tail, i) < l <=>
          count <= Pos(head, i) /\ Pos(head, i) < count + l
    BY <1>1, <1>3, <1>4, <1>6, RobSizes
  <2> QED BY <2>2, <2>3
<1>8. \A i : i \in Span(head, c) <=> i \in Idx /\ Pos(head, i) < c
  <2>1. c \in 0 .. N
    BY <1>2, RobSizes
  <2> QED BY <2>1, <1>1, SpanMember
<1>9. slot' = [i \in Idx |->
                IF i \in Span(tail, l)
                THEN Allocated(i, b[((i - tail) % N) + 1])
                ELSE IF i \in Span(head, c) THEN Empty(slot[i].gen) ELSE E[i]]
  BY DEF EdgeParts
<1>10. ASSUME NEW i \in Idx, count <= Pos(head, i), Pos(head, i) < count + l
       PROVE  /\ Pos(head, i) - count + 1 \in 1 .. l
              /\ slot'[i] = Allocated(i, b[Pos(head, i) - count + 1])
  <2>1. (i - tail) % N = Pos(tail, i)
    BY <1>1, Distance
  <2>2. ((i - tail) % N) + 1 = Pos(head, i) - count + 1
    BY <2>1, <1>6, <1>10
  <2>3. slot'[i] = Allocated(i, b[((i - tail) % N) + 1])
    BY <1>7, <1>9, <1>10
  <2>4. Pos(head, i) - count + 1 \in 1 .. l
    BY <1>1, <1>3, <1>6, <1>10
  <2> QED BY <2>2, <2>3, <2>4, Zenon
<1>11. ASSUME NEW i \in Idx, Pos(head, i) < c
       PROVE  slot'[i] = Empty(slot[i].gen)
  <2>1. i \notin Span(tail, l)
    BY <1>1, <1>2, <1>6, <1>7, <1>11, RobSizes
  <2> QED BY <2>1, <1>8, <1>9, <1>11
<1>12. ASSUME NEW i \in Idx, Pos(head, i) >= c,
              ~(count <= Pos(head, i) /\ Pos(head, i) < count + l)
       PROVE  slot'[i] = E[i]
  <2>1. i \notin Span(head, c)
    BY <1>2, <1>6, <1>8, <1>12
  <2> QED BY <2>1, <1>7, <1>9, <1>12
<1>13. slot' = [i \in Idx |-> slot'[i]]
  BY <1>9
<1> QED BY <1>3, <1>4, <1>5, <1>7, <1>8, <1>10, <1>11, <1>12, <1>13

LEMMA EdgeShape ==
  ASSUME IInv,
         NEW p0, NEW p1, NEW R, NEW ce, NEW req, NEW b, NEW E, NEW c,
         EdgeParts(p0, p1, R, ce, req, b, E, c)
  PROVE  WindowShape' /\ slot' \in [Idx -> Entry]
         /\ head' \in Idx /\ tail' \in Idx /\ count' \in 0 .. N
<1> DEFINE l == Len(b)
<1>1. /\ head \in Idx /\ tail \in Idx /\ count \in 0 .. N /\ tail = Adv(head, count)
      /\ \A i \in Idx : slot[i].valid <=> Pos(head, i) < count
  BY ShapeByPosition DEF Window1, IInv
<1>2. c \in 0 .. 2 /\ c <= count
  BY RetiredFacts DEF IInv
<1>3. /\ l \in 0 .. 2 /\ count + l <= N
      /\ head' = Adv(head, c) /\ tail' = Adv(tail, l) /\ count' = count - c + l
      /\ slot' = [i \in Idx |-> slot'[i]]
      /\ \A i \in Idx :
           /\ count <= Pos(head, i) /\ Pos(head, i) < count + l =>
                /\ Pos(head, i) - count + 1 \in 1 .. l
                /\ slot'[i] = Allocated(i, b[Pos(head, i) - count + 1])
           /\ Pos(head, i) < c => slot'[i] = Empty(slot[i].gen)
           /\ Pos(head, i) >= c
              /\ ~(count <= Pos(head, i) /\ Pos(head, i) < count + l)
              => slot'[i] = E[i]
  BY EdgeSlots DEF IInv
<1> HIDE DEF l
<1>4. slot \in [Idx -> Entry] /\ \A i \in Idx : slot[i].gen \in Gen
  BY DEF IInv, TypeInv, Entry
<1>5. \A i \in Idx : E[i] \in Entry /\ E[i].valid = slot[i].valid
  <2>1. SettledOK(R, E, req, ce)
    BY Recorded, SettledFacts DEF IInv, EdgeParts
  <2> QED BY <2>1 DEF SettledOK
<1>6. \A k \in 1 .. l : b[k][1] \in Kinds /\ b[k][2] \in Fates
  BY BundleFacts DEF EdgeParts, IInv, TypeInv, l
<1>7. \A i \in Idx : Pos(head, i) \in 0 .. N - 1
  BY <1>1, PosFacts
<1>8. ASSUME NEW i \in Idx
      PROVE  /\ slot'[i] \in Entry
             /\ slot'[i].valid <=> c <= Pos(head, i) /\ Pos(head, i) < count + l
  <2>1. CASE count <= Pos(head, i) /\ Pos(head, i) < count + l
    BY <2>1, <1>1, <1>2, <1>3, <1>4, <1>6, <1>7, AllocatedFields
  <2>2. CASE Pos(head, i) < c
    BY <2>2, <1>1, <1>2, <1>3, <1>4, <1>7, EmptyFields
  <2>3. CASE Pos(head, i) >= c /\ ~(count <= Pos(head, i) /\ Pos(head, i) < count + l)
    BY <2>3, <1>1, <1>2, <1>3, <1>5, <1>7
  <2>4. c \in Int /\ Pos(head, i) \in Int
    BY <1>2, <1>7
  <2> QED BY <2>1, <2>2, <2>3, <2>4
<1>9. head' \in Idx /\ tail' \in Idx /\ count' \in 0 .. N /\ tail' = Adv(head', count')
  <2>1. c \in 0 .. N
    BY <1>2, RobSizes
  <2>2. l \in 0 .. N
    BY <1>3, RobSizes
  <2>3. count' \in 0 .. N /\ c + count' = count + l
    BY <1>1, <1>2, <1>3, RobSizes
  <2>4. Adv(tail, l) = Adv(head, count + l)
    BY <2>2, <1>1, <1>3, AdvFacts
  <2>5. Adv(Adv(head, c), count') = Adv(head, c + count')
    BY <2>1, <2>3, <1>1, <1>3, AdvFacts
  <2> QED BY <2>1, <2>2, <2>3, <2>4, <2>5, <1>1, <1>3, AdvFacts
<1>10. \A i \in Idx : slot'[i].valid <=> Pos(head', i) < count'
  <2> SUFFICES ASSUME NEW i \in Idx
               PROVE  slot'[i].valid <=> Pos(head', i) < count'
    OBVIOUS
  <2>1. c \in 0 .. N
    BY <1>2, RobSizes
  <2>2. Pos(head', i) = IF Pos(head, i) >= c THEN Pos(head, i) - c
                        ELSE Pos(head, i) - c + N
    BY <2>1, <1>1, <1>3, PosFacts
  <2> QED BY <2>2, <1>1, <1>2, <1>3, <1>7, <1>8, RobSizes
<1>11. Window1'
  BY <1>9, <1>10 DEF Window1
<1> QED BY <1>3, <1>8, <1>9, <1>11, ShapeByPositionPrime

-----------------------------------------------------------------------------
(* Results that outlive their instruction.                                 *)

LEMMA StaleStep ==
  ASSUME TypeInv, StaleInv, NEW dead, NEW alloc, dead \subseteq Idx, alloc \subseteq Idx,
         Leave(dead, alloc), slot' \in [Idx -> Entry],
         \A i \in alloc : slot'[i].gen = alloc_gen(i) /\ i \notin dead,
         \A i \in Idx : i \notin alloc => /\ slot'[i].gen = slot[i].gen
                                          /\ slot'[i].valid => slot[i].valid,
         \A i \in dead : ~slot'[i].valid
  PROVE  /\ StaleInv'
         /\ stale' \subseteq Result
<1> DEFINE aged == {[p EXCEPT !.reuse = @ + (IF p.idx \in alloc THEN 1 ELSE 0)] : p \in stale}
           gone == {[idx |-> i, gen |-> slot[i].gen, fate |-> slot[i].fate, reuse |-> 0] :
                      i \in dead}
<1>1. \A p \in stale' : p \in aged \cup gone /\ p.reuse <= MaxReuse
  BY DEF Leave
<1>2. \A i \in Idx : slot[i].gen \in Gen /\ slot[i].fate \in Fates
  BY DEF TypeInv, Entry
<1> USE DEF Result
<1>3. stale \subseteq Result
  BY DEF TypeInv
<1>4. SUFFICES ASSUME NEW p \in stale'
               PROVE  /\ p \in Result
                      /\ slot'[p.idx].gen = (p.gen + p.reuse) % G
                      /\ slot'[p.idx].valid => p.reuse > 0
  BY DEF StaleInv
<1>5. CASE p \in aged
  <2>1. PICK q \in stale : p = [q EXCEPT !.reuse = @ + (IF q.idx \in alloc THEN 1 ELSE 0)]
    BY <1>5
  <2>2. /\ q.idx \in Idx /\ q.gen \in Gen /\ q.fate \in Fates /\ q.reuse \in 0 .. MaxReuse
        /\ slot[q.idx].gen = (q.gen + q.reuse) % G
        /\ slot[q.idx].valid => q.reuse > 0
    BY <1>3 DEF StaleInv
  <2>3. p = [idx |-> q.idx, gen |-> q.gen, fate |-> q.fate,
             reuse |-> q.reuse + (IF q.idx \in alloc THEN 1 ELSE 0)]
    BY <2>1, <1>3
  <2>4. /\ p.idx = q.idx /\ p.gen = q.gen
        /\ p.reuse = q.reuse + (IF q.idx \in alloc THEN 1 ELSE 0)
    BY <2>3
  <2>5. p \in Result
    <3>1. q.reuse + (IF q.idx \in alloc THEN 1 ELSE 0) \in 0 .. MaxReuse
      BY <2>2, <2>4, <1>1, ResultLifetime
    <3> QED BY <2>2, <2>3, <3>1
  <2>6. CASE q.idx \in alloc
    <3>1. alloc_gen(q.idx) = (q.gen + (q.reuse + 1)) % G
      BY <2>2, NextGeneration DEF TypeInv
    <3> QED BY <2>2, <2>4, <2>5, <2>6, <3>1
  <2>7. CASE q.idx \notin alloc
    BY <2>2, <2>4, <2>5, <2>7
  <2> QED BY <2>6, <2>7
<1>6. CASE p \in gone
  <2>1. PICK i \in dead : p = [idx |-> i, gen |-> slot[i].gen, fate |-> slot[i].fate,
                               reuse |-> 0]
    BY <1>6
  <2>2. i \in Idx /\ slot'[i].gen = slot[i].gen /\ ~slot'[i].valid /\ i \notin alloc
    BY <2>1
  <2>3. (slot[i].gen + 0) % G = slot[i].gen
    BY <2>2, <1>2, RobSizes DEF Gen
  <2>4. p \in Result
    BY <2>1, <2>2, <1>2, ResultLifetime
  <2> QED BY <2>1, <2>2, <2>3, <2>4
<1> QED BY <1>1, <1>5, <1>6

-----------------------------------------------------------------------------
(* Each part of the invariant across an edge without recovery.             *)

LEMMA EdgeSettled ==
  ASSUME IInv,
         NEW p0, NEW p1, NEW R, NEW ce, NEW req, NEW b, NEW E, NEW c,
         EdgeParts(p0, p1, R, ce, req, b, E, c)
  PROVE  RecordedOK(R, {}) /\ SettledOK(R, E, req, ce)
<1>1. RecordedOK(R, {})
  BY Recorded DEF IInv, EdgeParts
<1> QED BY <1>1, SettledFacts DEF IInv, EdgeParts

LEMMA EdgeEntries ==
  ASSUME IInv,
         NEW p0, NEW p1, NEW R, NEW ce, NEW req, NEW b, NEW E, NEW c,
         EdgeParts(p0, p1, R, ce, req, b, E, c)
  PROVE  /\ EntriesInv'
         /\ \A i \in Idx : slot'[i].asked = 1 => c = 0 /\ i = head /\ slot'[i] = E[i]
         /\ c = 0 => head' = head
         /\ c = 0 /\ slot[head].valid => slot'[head] = E[head]
<1> DEFINE l == Len(b)
<1>1. /\ head \in Idx /\ count \in 0 .. N /\ slot \in [Idx -> Entry]
      /\ \A i \in Idx : slot[i].valid <=> Pos(head, i) < count
      /\ Pos(head, head) = 0 /\ Adv(head, 0) = head
  BY ShapeByPosition, HeadFacts, AdvFacts, RobSizes DEF Window1, IInv, TypeInv
<1>2. c \in 0 .. 2 /\ c <= count
  BY RetiredFacts DEF IInv
<1>3. /\ l \in 0 .. 2 /\ count + l <= N /\ head' = Adv(head, c)
      /\ \A i \in Idx :
           /\ count <= Pos(head, i) /\ Pos(head, i) < count + l =>
                /\ Pos(head, i) - count + 1 \in 1 .. l
                /\ slot'[i] = Allocated(i, b[Pos(head, i) - count + 1])
           /\ Pos(head, i) < c => slot'[i] = Empty(slot[i].gen)
           /\ Pos(head, i) >= c
              /\ ~(count <= Pos(head, i) /\ Pos(head, i) < count + l)
              => slot'[i] = E[i]
  BY EdgeSlots DEF IInv
<1> HIDE DEF l
<1>4. \A i \in Idx : EntryOK(E[i]) /\ (E[i].asked = 1 => i = head)
  BY EdgeSettled DEF SettledOK
<1>5. \A k \in 1 .. l : b[k][1] \in Kinds /\ b[k][2] \in Fates
  BY BundleFacts DEF EdgeParts, IInv, TypeInv, l
<1>6. \A i \in Idx : Pos(head, i) \in 0 .. N - 1 /\ slot[i].gen \in Gen
  BY <1>1, PosFacts DEF Entry
<1>7. ASSUME NEW i \in Idx
      PROVE  /\ EntryOK(slot'[i])
             /\ slot'[i].asked = 1 => c = 0 /\ i = head /\ slot'[i] = E[i]
  <2>1. CASE count <= Pos(head, i) /\ Pos(head, i) < count + l
    BY <2>1, <1>1, <1>3, <1>5, AllocatedFields
  <2>2. CASE Pos(head, i) < c
    BY <2>2, <1>3, <1>6, EmptyFields
  <2>3. CASE Pos(head, i) >= c /\ ~(count <= Pos(head, i) /\ Pos(head, i) < count + l)
    BY <2>3, <1>1, <1>2, <1>3, <1>4, <1>6
  <2>4. c \in Int /\ Pos(head, i) \in Int
    BY <1>2, <1>6
  <2> QED BY <2>1, <2>2, <2>3, <2>4
<1>8. c = 0 => head' = head
  BY <1>1, <1>3
<1>9. c = 0 /\ slot[head].valid => slot'[head] = E[head]
  BY <1>1, <1>3, <1>6
<1> QED BY <1>7, <1>8, <1>9 DEF EntriesInv

LEMMA EdgeStale ==
  ASSUME IInv,
         NEW p0, NEW p1, NEW R, NEW ce, NEW req, NEW b, NEW E, NEW c,
         EdgeParts(p0, p1, R, ce, req, b, E, c)
  PROVE  /\ StaleInv'
         /\ stale' \subseteq Result
         /\ \A i \in Idx \ Span(tail, Len(b)) : slot'[i].gen = slot[i].gen
<1> DEFINE l == Len(b)
           left == Span(head, c)
           entered == Span(tail, l)
<1>1. /\ head \in Idx /\ count \in 0 .. N /\ slot \in [Idx -> Entry]
      /\ \A i \in Idx : slot[i].valid <=> Pos(head, i) < count
      /\ \A i \in Idx : Pos(head, i) \in 0 .. N - 1 /\ slot[i].gen \in Gen
  BY ShapeByPosition, PosFacts DEF Window1, IInv, TypeInv, Entry
<1>2. c \in 0 .. 2 /\ c <= count
  BY RetiredFacts DEF IInv
<1>3. /\ l \in 0 .. 2 /\ count + l <= N
      /\ \A i : i \in entered <=>
           i \in Idx /\ count <= Pos(head, i) /\ Pos(head, i) < count + l
      /\ \A i : i \in left <=> i \in Idx /\ Pos(head, i) < c
      /\ \A i \in Idx :
           /\ count <= Pos(head, i) /\ Pos(head, i) < count + l =>
                /\ Pos(head, i) - count + 1 \in 1 .. l
                /\ slot'[i] = Allocated(i, b[Pos(head, i) - count + 1])
           /\ Pos(head, i) < c => slot'[i] = Empty(slot[i].gen)
           /\ Pos(head, i) >= c
              /\ ~(count <= Pos(head, i) /\ Pos(head, i) < count + l)
              => slot'[i] = E[i]
  BY EdgeSlots DEF IInv
<1>4. \A i \in Idx : E[i].valid = slot[i].valid /\ E[i].gen = slot[i].gen
  BY EdgeSettled DEF SettledOK
<1>5. \A k \in 1 .. l : b[k][1] \in Kinds /\ b[k][2] \in Fates
  BY BundleFacts DEF EdgeParts, IInv, TypeInv, l
<1> HIDE DEF l, left, entered
<1>6. \A i \in entered : slot'[i].gen = alloc_gen(i) /\ i \notin left
  <2> SUFFICES ASSUME NEW i \in entered
               PROVE  slot'[i].gen = alloc_gen(i) /\ i \notin left
    OBVIOUS
  <2>1. i \in Idx /\ count <= Pos(head, i) /\ Pos(head, i) < count + l
    BY <1>3
  <2>2. slot'[i].gen = alloc_gen(i)
    BY <2>1, <1>1, <1>3, <1>5, AllocatedFields
  <2>3. i \notin left
    BY <2>1, <1>1, <1>2, <1>3
  <2> QED BY <2>2, <2>3
<1>7. \A i \in left : slot'[i].gen = slot[i].gen /\ ~slot'[i].valid
  BY <1>1, <1>3, EmptyFields
<1>8. \A i \in Idx : i \notin entered /\ i \notin left => slot'[i] = E[i]
  <2> SUFFICES ASSUME NEW i \in Idx, i \notin entered, i \notin left
               PROVE  slot'[i] = E[i]
    OBVIOUS
  <2>1. Pos(head, i) >= c
    BY <1>1, <1>2, <1>3
  <2> QED BY <2>1, <1>3
<1>9. \A i \in Idx : i \notin entered => /\ slot'[i].gen = slot[i].gen
                                         /\ slot'[i].valid => slot[i].valid
  BY <1>4, <1>7, <1>8
<1>10. left \subseteq Idx /\ entered \subseteq Idx /\ slot' \in [Idx -> Entry]
  BY <1>3, EdgeShape
<1>11. Leave(left, entered) /\ TypeInv /\ StaleInv
  BY DEF EdgeParts, IInv, left, entered, l
<1>12. /\ StaleInv'
       /\ stale' \subseteq Result
  BY <1>6, <1>7, <1>9, <1>10, <1>11, StaleStep
<1> QED BY <1>9, <1>12 DEF left, entered, l

LEMMA EdgeStore ==
  ASSUME IInv,
         NEW p0, NEW p1, NEW R, NEW ce, NEW req, NEW b, NEW E, NEW c,
         EdgeParts(p0, p1, R, ce, req, b, E, c)
  PROVE  StoreInv'
<1>1. /\ head \in Idx /\ \A i \in Idx : slot[i] \in Entry /\ EntryOK(slot[i])
      /\ store_done \in BOOLEAN /\ slot' \in [Idx -> Entry]
  BY EdgeShape DEF IInv, TypeInv, EntriesInv
<1>2. /\ c \in 0 .. 2
      /\ c > 0 /\ ControlEvent => Window!ControlEvent(E[head])
      /\ c > 0 /\ HeadIsStore => ControlEvent \/ Stored(req)
      /\ req = "performed" => c = 1
  BY RetiredFacts DEF IInv
<1>3. /\ E[head].valid = slot[head].valid /\ E[head].gen = slot[head].gen
      /\ E[head].kind = slot[head].kind /\ E[head].done = R[head].done
      /\ E[head].exc <=> R[head].exc \/ AnswerMatch("fault")
      /\ E[head].performed <=> \/ R[head].performed \/ AnswerMatch("done")
                               \/ req = "performed"
      /\ E[head].asked = R[head].asked + (IF req = "refused" THEN 0 ELSE 1)
      /\ req \in {"refused", "taken", "performed"}
      /\ req # "refused" =>
           /\ HeadIsStore /\ R[head].done /\ ~R[head].exc
           /\ ~store_done /\ ~AnswerMatch("done") /\ ~AnswerMatch("fault")
           /\ owner = NoTag /\ slot[head].asked = 0 /\ ~slot[head].performed
  BY <1>1, EdgeSettled DEF SettledOK
<1>4. /\ R[head].asked = slot[head].asked /\ R[head].performed = slot[head].performed
      /\ slot[head].done => R[head] = slot[head]
      /\ slot[head].exc => slot[head].done
  <2>1. R[head] = slot[head] \/ Completes(R, head, {})
    BY <1>1, EdgeSettled DEF RecordedOK
  <2> QED BY <2>1, <1>1, RecordedEntries DEF EntryOK
<1>5. /\ \A i \in Idx : slot'[i].asked = 1 => c = 0 /\ i = head /\ slot'[i] = E[i]
      /\ c = 0 => head' = head
      /\ c = 0 /\ slot[head].valid => slot'[head] = E[head]
      /\ head' \in Idx
  BY EdgeEntries, EdgeShape
<1>6. /\ StoreSide(c, req)
      /\ trap' => c > 0
  BY Zenon DEF EdgeParts
<1>7. StoreInv /\ TypeInv
  BY DEF IInv
<1>8. c > 0 /\ HeadIsStore => slot[head].exc \/ Stored(req)
  BY <1>2, <1>3, <1>4 DEF HeadIsStore, ControlEvent, slot0_exception, slot0_ebreak
<1>9. NoStore.st = "idle" /\ NoStore.idx = N /\ NoTag.idx = N /\ N \notin Idx
  BY RobSizes DEF NoStore, NoTag, Idx
<1>10. CASE req = "taken"
  <2>1. c = 0
    BY <1>2, <1>3, <1>4, <1>8, <1>10, <1>1 DEF Stored
  <2>2. /\ head' = head /\ slot'[head] = E[head] /\ slot[head].valid /\ slot[head].kind = "store"
    BY <2>1, <1>3, <1>5, <1>10 DEF HeadIsStore
  <2>3. /\ owner' = [idx |-> head, gen |-> slot[head].gen]
        /\ memory' = [idx |-> head, gen |-> slot[head].gen, st |-> "busy"]
        /\ ~store_done'
    BY <2>1, <1>3, <1>6, <1>10 DEF StoreSide, Tag
  <2>4. memory' # NoStore /\ owner' # NoTag /\ memory'.st # "idle" /\ ~trap'
    BY <2>1, <2>3, <1>1, <1>6, <1>9
  <2>5. /\ slot'[head].valid /\ slot'[head].kind = "store" /\ slot'[head].done
        /\ ~slot'[head].exc /\ slot'[head].asked = 1 /\ ~slot'[head].performed
        /\ slot'[head].gen = slot[head].gen
    BY <2>2, <1>3, <1>4, <1>10
  <2> QED BY <2>2, <2>3, <2>4, <2>5 DEF StoreInv, HeadIsStore, Tag, OwnerAnswered
<1>11. CASE req = "performed"
  <2>1. owner' = NoTag /\ memory' = NoStore /\ ~store_done' /\ c = 1
    <3>1. owner = NoTag /\ memory = NoStore /\ c = 1 /\ HeadIsStore
      BY <1>2, <1>3, <1>7, <1>11 DEF StoreInv
    <3> QED BY <3>1, <1>6, <1>9, <1>11 DEF StoreSide
  <2>2. slot'[head'].asked # 1
    BY <2>1, <1>5
  <2> QED BY <2>1, <2>2 DEF StoreInv
<1>12. CASE req = "refused" /\ AnswerMatch("done")
  <2>1. ~AnswerMatch("fault") /\ HeadIsStore /\ memory.st = "done"
    BY <1>7, <1>12, AnswerFacts
  <2>2. owner' = NoTag /\ memory' = NoStore
    BY <2>1, <1>6, <1>12 DEF StoreSide
  <2>3. CASE c = 0
    <3>1. head' = head /\ slot'[head] = E[head]
      BY <2>1, <2>3, <1>5 DEF HeadIsStore
    <3>2. HeadIsStore' /\ slot'[head'].performed
      BY <3>1, <2>1, <1>3, <1>12 DEF HeadIsStore
    <3>3. store_done'
      <4>1. ~(AnswerMatch("fault") \/ (c > 0 /\ HeadIsStore))
        BY <2>1, <2>3
      <4>2. store_done' = (store_done \/ AnswerMatch("done"))
        BY <4>1, <1>6, Zenon DEF StoreSide
      <4> QED BY <4>2, <1>12, Zenon
    <3> QED BY <2>2, <3>2, <3>3 DEF StoreInv
  <2>4. CASE c > 0
    <3>1. ~store_done' /\ slot'[head'].asked # 1
      BY <2>1, <2>4, <1>5, <1>6 DEF StoreSide
    <3> QED BY <2>2, <3>1 DEF StoreInv
  <2> QED BY <2>3, <2>4, <1>2
<1>13. CASE req = "refused" /\ AnswerMatch("fault")
  <2>1. ~AnswerMatch("done") /\ HeadIsStore /\ memory.st = "fault"
    BY <1>7, <1>13, AnswerFacts
  <2>2. owner' = NoTag /\ memory' = NoStore /\ ~store_done'
    BY <2>1, <1>6, <1>13 DEF StoreSide
  <2>3. slot'[head'].asked = 1 => slot'[head'].exc
    BY <1>3, <1>5, <1>13
  <2> QED BY <2>2, <2>3 DEF StoreInv
<1>14. CASE req = "refused" /\ ~AnswerMatch("done") /\ ~AnswerMatch("fault")
  <2>1. memory.st \notin {"done", "fault"}
    BY <1>7, <1>14, AnswerFacts
  <2>2. /\ owner' = owner /\ memory' = memory
        /\ store_done' = IF c > 0 /\ HeadIsStore THEN FALSE ELSE store_done
    BY <2>1, <1>1, <1>6, <1>14 DEF StoreSide
  <2>3. CASE c = 0
    <3>1. head' = head /\ ~trap' /\ store_done' = store_done
      BY <2>2, <2>3, <1>5, <1>6
    <3>2. slot[head].valid => slot'[head] = E[head]
      BY <2>3, <1>5
    <3>3. slot'[head].asked = 1 => slot'[head] = E[head]
      BY <1>1, <1>5
    <3>4. E[head].asked = slot[head].asked /\ (slot[head].exc => E[head].exc)
      BY <1>1, <1>3, <1>4, <1>14 DEF Entry
    <3>5. owner' # NoTag => /\ HeadIsStore' /\ owner' = Tag(head)' /\ OwnerAnswered'
                            /\ slot'[head'].done /\ ~slot'[head'].exc
                            /\ slot'[head'].asked = 1
                            /\ ~store_done' /\ ~slot'[head'].performed
      BY <3>1, <3>2, <3>4, <2>2, <1>3, <1>4, <1>7, <1>14
         DEF StoreInv, HeadIsStore, Tag, OwnerAnswered
    <3>6. store_done' => HeadIsStore' /\ slot'[head'].performed
      BY <3>1, <3>2, <1>3, <1>4, <1>7 DEF StoreInv, HeadIsStore
    <3>7. slot'[head'].asked = 1 => owner' # NoTag \/ store_done' \/ slot'[head'].exc
      BY <3>1, <3>3, <3>4, <2>2, <1>7 DEF StoreInv
    <3> QED BY <3>1, <3>5, <3>6, <3>7, <2>2, <1>7 DEF StoreInv
  <2>4. CASE c > 0
    <3>1. owner = NoTag
      BY <2>4, <1>7, <1>8, <1>14 DEF StoreInv, Stored
    <3>2. ~store_done'
      BY <2>2, <2>4, <1>7 DEF StoreInv
    <3>3. slot'[head'].asked # 1
      BY <2>4, <1>5
    <3> QED BY <3>1, <3>2, <3>3, <2>2, <1>7 DEF StoreInv
  <2> QED BY <2>3, <2>4, <1>2
<1> QED BY <1>3, <1>10, <1>11, <1>12, <1>13, <1>14

-----------------------------------------------------------------------------
(* Branches and their boundaries.                                          *)

(* The boundary of a branch is exact: selective_squash_ready, by position. *)
ReadyAt(o) ==
  LET i == o.tag.idx
      next == Adv(i, 1)
  IN /\ Pos(head, i) < count /\ slot[i].valid /\ slot[i].gen = o.tag.gen
     /\ IsControl(slot[i].kind) /\ o.post.idx = next
     /\ Pos(head, i) + 1 < count => slot[next].valid /\ slot[next].gen = o.post.gen
     /\ ~(Pos(head, i) + 1 < count) => tail = next /\ alloc_gen(next) = o.post.gen

ReadyForm ==
  head \in Idx => \A o \in Branch : selective_squash_ready(o) <=> ReadyAt(o)

LEMMA ReadyByPosition == ReadyForm
<1> SUFFICES ASSUME head \in Idx, NEW o \in Branch
             PROVE  selective_squash_ready(o) <=> ReadyAt(o)
  BY DEF ReadyForm
<1>1. o.tag.idx \in Idx
  BY DEF Branch
<1>2. distance_from_head(o.tag.idx) = Pos(head, o.tag.idx)
  BY <1>1, Distance DEF distance_from_head
<1>3. advance(o.tag.idx, 1) = Adv(o.tag.idx, 1)
  BY <1>1, Advance, RobSizes
<1> QED BY <1>2, <1>3
        DEF selective_squash_ready, branch_match, boundary_match, survivors, ReadyAt

LEMMA ReadyByPositionPrime == ReadyForm'
  BY ReadyByPosition, PTL

LEMMA TagsDiffer ==
  ASSUME NEW t \in [idx : Idx, gen : Gen]
  PROVE  t # NoTag
  BY RobSizes DEF NoTag, Idx

(* An open branch that retires is a control event.                         *)
LEMMA OpenStays ==
  ASSUME IInv,
         NEW p0, NEW p1, NEW R, NEW ce, NEW req, NEW b, NEW E, NEW c,
         EdgeParts(p0, p1, R, ce, req, b, E, c), ~(c > 0 /\ ControlEvent),
         NEW o \in StillOpen(R)
  PROVE  o \in branches /\ Pos(head, o.tag.idx) >= c
<1> DEFINE i == o.tag.idx
<1>1. o \in branches /\ (~R[i].done \/ R[i].redir \/ R[i].exc)
  BY DEF StillOpen
<1>2. o \in Branch /\ i \in Idx /\ head \in Idx
  BY <1>1 DEF IInv, TypeInv, Branch
<1>3. ReadyAt(o) /\ ~slot[i].recov
  BY <1>1, <1>2, ReadyByPosition DEF IInv, BranchInv, EdgeParts, ReadyForm
<1>4. SUFFICES ASSUME Pos(head, i) < c
               PROVE  FALSE
  <2>1. Pos(head, i) \in Int /\ c \in Int
    BY <1>2, PosFacts, RetiredFacts DEF IInv
  <2> QED BY <2>1, <1>1, <1>4
<1>5. /\ c \in 0 .. 2
      /\ c > 0 /\ ~ControlEvent => Window!Retires(E[head])
      /\ c = 2 => Window!Retires(E[head1])
  BY RetiredFacts DEF IInv
<1>6. Pos(head, head) = 0 /\ head1 \in Idx /\ Pos(head, head1) = 1 /\ Pos(head, i) \in 0 .. N - 1
  BY <1>2, HeadFacts, PosFacts DEF head1
<1>7. i = head \/ (i = head1 /\ c = 2)
  BY <1>2, <1>4, <1>5, <1>6, PosInjective
<1>8. Window!Retires(E[i])
  BY <1>4, <1>5, <1>6, <1>7
<1>9. /\ E[i].kind = slot[i].kind /\ E[i].done = R[i].done /\ E[i].redir = R[i].redir
      /\ E[i].recov = slot[i].recov /\ (R[i].exc => E[i].exc)
  BY <1>2, EdgeSettled DEF SettledOK
<1> QED BY <1>1, <1>3, <1>8, <1>9 DEF Window!Retires, ReadyAt, IsControl

(* The branch whose recovery an edge starts is the one that completed with *)
(* a redirect on it.                                                       *)
LEMMA RedirectFacts ==
  ASSUME IInv,
         NEW p0, NEW p1, NEW R, NEW ce, NEW req, NEW b, NEW E, NEW c,
         EdgeParts(p0, p1, R, ce, req, b, E, c)
  PROVE  /\ \A o \in branches : R[o.tag.idx].redir <=> recovering' = o.tag
         /\ recovering' # NoTag => \E o \in StillOpen(R) : o.tag = recovering'
<1>1. ~trap /\ recovering = NoTag
  BY DEF EdgeParts
<1>2. \A o \in branches : /\ o \in Branch /\ o.tag \in [idx : Idx, gen : Gen]
                          /\ o.tag.idx \in Idx /\ o.tag # NoTag
  BY TagsDiffer DEF IInv, TypeInv, Branch
<1>3. head \in Idx
  BY DEF IInv, TypeInv
<1>4. \A o \in branches : ReadyAt(o) /\ ~slot[o.tag.idx].redir
  BY <1>1, <1>2, <1>3, ReadyByPosition DEF IInv, BranchInv, ReadyForm
<1>5. \A x, y \in Redirecting(R) : x = y
  <2> SUFFICES ASSUME NEW x \in branches, NEW y \in branches,
                      R[x.tag.idx].redir, R[y.tag.idx].redir
               PROVE  x.tag = y.tag
    BY DEF Redirecting
  <2>1. R[x.tag.idx] # slot[x.tag.idx] /\ R[y.tag.idx] # slot[y.tag.idx]
    BY <1>4
  <2>2. IsControl(slot[x.tag.idx].kind) /\ IsControl(slot[y.tag.idx].kind)
    BY <1>4 DEF ReadyAt
  <2>3. x.tag.idx = y.tag.idx
    BY <2>1, <2>2, <1>2, EdgeSettled DEF RecordedOK
  <2>4. x.tag.gen = y.tag.gen
    BY <2>3, <1>4 DEF ReadyAt
  <2> QED BY <2>3, <2>4, <1>2
<1>6. recovering' = IF Redirecting(R) = {} THEN NoTag
                    ELSE CHOOSE t \in Redirecting(R) : TRUE
  BY DEF EdgeParts
<1>7. Redirecting(R) # {} => recovering' \in Redirecting(R)
  BY <1>6
<1>8. ASSUME NEW o \in branches
      PROVE  R[o.tag.idx].redir <=> recovering' = o.tag
  <2>1. R[o.tag.idx].redir => o.tag \in Redirecting(R)
    BY DEF Redirecting
  <2>2. recovering' = o.tag => recovering' \in Redirecting(R)
    BY <1>2, <1>6, <1>7
  <2>3. o.tag \in Redirecting(R) => R[o.tag.idx].redir
    BY DEF Redirecting
  <2> QED BY <2>1, <2>2, <2>3, <1>5, <1>7
<1>9. recovering' # NoTag => \E o \in StillOpen(R) : o.tag = recovering'
  BY <1>6, <1>7 DEF Redirecting, StillOpen
<1> QED BY <1>8, <1>9

LEMMA EdgeBranch ==
  ASSUME IInv,
         NEW p0, NEW p1, NEW R, NEW ce, NEW req, NEW b, NEW E, NEW c,
         EdgeParts(p0, p1, R, ce, req, b, E, c)
  PROVE  BranchInv' /\ branches' \subseteq Branch
<1> DEFINE l == Len(b)
           entered(i) == count <= Pos(head, i) /\ Pos(head, i) < count + l
<1>1. /\ head \in Idx /\ tail \in Idx /\ count \in 0 .. N /\ tail = Adv(head, count)
      /\ slot \in [Idx -> Entry]
      /\ \A i \in Idx : slot[i].valid <=> Pos(head, i) < count
      /\ \A i \in Idx : Pos(head, i) \in 0 .. N - 1 /\ slot[i].gen \in Gen
  BY ShapeByPosition, PosFacts DEF Window1, IInv, TypeInv, Entry
<1>2. c \in 0 .. 2 /\ c <= count /\ c \in 0 .. N
  <2>1. c \in 0 .. 2 /\ c <= count
    BY RetiredFacts DEF IInv
  <2> QED BY <2>1, RobSizes
<1>3. /\ l \in 0 .. 2 /\ count + l <= N
      /\ head' = Adv(head, c) /\ tail' = Adv(tail, l) /\ count' = count - c + l
      /\ \A i : i \in Span(tail, l) <=> i \in Idx /\ entered(i)
      /\ \A i \in Idx :
           /\ entered(i) => /\ Pos(head, i) - count + 1 \in 1 .. l
                            /\ slot'[i] = Allocated(i, b[Pos(head, i) - count + 1])
           /\ Pos(head, i) < c => slot'[i] = Empty(slot[i].gen)
           /\ Pos(head, i) >= c /\ ~entered(i) => slot'[i] = E[i]
  BY EdgeSlots DEF IInv
<1>4. \A k \in 1 .. l : /\ b[k][1] \in Kinds /\ b[k][2] \in Fates
                        /\ IsControl(b[k][1]) => k = l
  BY BundleFacts DEF EdgeParts, IInv, TypeInv
<1>5. DOMAIN b = 1 .. l
  BY BundleFacts DEF EdgeParts, IInv, TypeInv
<1> HIDE DEF l
<1>6. l \in 0 .. N
  BY <1>3, RobSizes
<1>a. count \in 0 .. N /\ l \in 0 .. 2 /\ count + l <= N /\ count \in Int /\ l \in Int
  BY <1>1, <1>3, RobSizes
<1>b. \A i \in Idx : Pos(head, i) \in 0 .. N - 1 /\ Pos(head, i) \in Int
  BY <1>1, RobSizes
<1>7. /\ \A i \in Idx : /\ E[i].valid = slot[i].valid /\ E[i].gen = slot[i].gen
                        /\ E[i].kind = slot[i].kind /\ E[i].done = R[i].done
                        /\ E[i].redir = R[i].redir /\ E[i].recov = slot[i].recov
      /\ \A i \in Idx : slot[i].done => R[i] = slot[i]
      /\ \A i \in Idx : slot[i].redir => slot[i].done
  BY EdgeSettled DEF SettledOK, RecordedOK, IInv, EntriesInv, EntryOK
<1>8. \A i \in Idx : Pos(head', i) = IF Pos(head, i) >= c THEN Pos(head, i) - c
                                     ELSE Pos(head, i) - c + N
  BY <1>1, <1>2, <1>3, PosFacts
<1>9. \A i \in Idx : ~entered(i) => slot'[i].gen = slot[i].gen
  BY <1>1, <1>3, EdgeStale DEF l
<1>10. /\ ~trap /\ recovering = NoTag /\ ~identity_error /\ ~identity_error'
       /\ branches' = StillOpen(R) \cup Opened(b)
       /\ trap' <=> c > 0 /\ ControlEvent
  <2>1. trap' = (c > 0 /\ ControlEvent)
    BY DEF EdgeParts
  <2>2. trap' <=> c > 0 /\ ControlEvent
    BY <2>1, Zenon
  <2> QED BY <2>2 DEF EdgeParts, IInv, BranchInv
<1>11. head' \in Idx
  BY <1>1, <1>2, <1>3, AdvFacts
(* Where a branch of the bundle is.                                        *)
<1>12. ASSUME NEW o \in Opened(b)
       PROVE  /\ l \in 1 .. 2 /\ IsControl(b[l][1])
              /\ o.tag.idx = Adv(tail, l - 1) /\ o.tag.idx \in Idx
              /\ Pos(head, o.tag.idx) = count + l - 1 /\ count + l - 1 < N
              /\ o.tag.gen = alloc_gen(o.tag.idx)
              /\ o.post.idx = Adv(tail, l) /\ o.post.gen = alloc_gen(o.post.idx)
              /\ o.post.idx \in Idx /\ o \in Branch
  <2>1. PICK k \in 1 .. l :
          /\ IsControl(b[k][1])
          /\ o = [tag |-> [idx |-> advance(tail, k - 1), gen |-> alloc_gen(advance(tail, k - 1))],
                  post |-> post_tail(b)]
    BY <1>5 DEF Opened
  <2>2. k = l /\ l \in 1 .. 2
    BY <2>1, <1>3, <1>4
  <2>3. l - 1 \in 0 .. N /\ l - 1 < N
    BY <2>2, <1>6, RobSizes
  <2>4. advance(tail, l - 1) = Adv(tail, l - 1) /\ advance(tail, l) = Adv(tail, l)
    BY <2>3, <1>1, <1>6, Advance
  <2>5. Adv(tail, l - 1) \in Idx /\ Adv(tail, l) \in Idx
    BY <2>3, <1>1, <1>6, AdvFacts
  <2>6. Adv(tail, l - 1) = Adv(head, count + (l - 1))
    <3>1. count + (l - 1) <= N
      BY <1>a, RobSizes
    <3> QED BY <3>1, <2>3, <1>1, AdvFacts
  <2>7. Pos(head, Adv(tail, l - 1)) = count + l - 1 /\ count + l - 1 < N
    <3>1. count + (l - 1) \in 0 .. N /\ count + (l - 1) < N /\ count + (l - 1) = count + l - 1
      BY <1>1, <1>3, <2>2, RobSizes
    <3> QED BY <3>1, <2>6, <1>1, AdvFacts
  <2>8. post_tail(b) = [idx |-> Adv(tail, l), gen |-> alloc_gen(Adv(tail, l))]
    BY <2>4 DEF post_tail, l
  <2>9. o = [tag |-> [idx |-> Adv(tail, l - 1), gen |-> alloc_gen(Adv(tail, l - 1))],
             post |-> [idx |-> Adv(tail, l), gen |-> alloc_gen(Adv(tail, l))]]
    BY <2>1, <2>2, <2>4, <2>8
  <2>10. alloc_gen(Adv(tail, l - 1)) \in Gen /\ alloc_gen(Adv(tail, l)) \in Gen
    BY <2>5, <1>1, NextGeneration
  <2>11. o \in Branch
    BY <2>5, <2>9, <2>10 DEF Branch
  <2> QED BY <2>1, <2>2, <2>5, <2>7, <2>9, <2>11
<1>13. branches' \subseteq Branch
  BY <1>10, <1>12 DEF IInv, TypeInv, StillOpen
<1> SUFFICES ASSUME ~trap'
             PROVE  BranchInv'
  BY <1>10, <1>13 DEF BranchInv
(* A branch that is still open keeps its entry, and its boundary holds.    *)
<1>14. ASSUME NEW o \in StillOpen(R)
       PROVE  /\ o \in branches /\ o.tag.idx \in Idx
              /\ slot'[o.tag.idx] = E[o.tag.idx]
              /\ ReadyAt(o)' /\ ~slot'[o.tag.idx].recov
  <2> DEFINE i == o.tag.idx
             next == Adv(i, 1)
  <2>1. o \in branches /\ Pos(head, i) >= c
    BY <1>10, OpenStays
  <2>2. o \in Branch /\ i \in Idx /\ next \in Idx
    <3>1. o \in Branch /\ i \in Idx
      BY <2>1 DEF IInv, TypeInv, Branch
    <3> QED BY <3>1, AdvFacts, RobSizes
  <2>3. ReadyAt(o) /\ ~slot[i].recov
    BY <2>1, <2>2, <1>1, <1>10, ReadyByPosition DEF IInv, BranchInv, ReadyForm
  <2>4. /\ Pos(head, i) < count /\ slot[i].valid /\ slot[i].gen = o.tag.gen
        /\ IsControl(slot[i].kind) /\ o.post.idx = next
    BY <2>3 DEF ReadyAt
  <2>5. slot'[i] = E[i] /\ Pos(head', i) = Pos(head, i) - c
    <3>1. ~entered(i)
      BY <2>2, <2>4, <1>1
    <3> QED BY <3>1, <2>1, <2>2, <1>3, <1>8
  <2>6. Pos(head, next) = IF Pos(head, i) + 1 < N THEN Pos(head, i) + 1 ELSE 0
    BY <2>2, <1>1, NextPosition
  <2>a. Pos(head, i) \in Int /\ Pos(head, i) + 1 <= count
    BY <2>2, <2>4, <1>a, <1>b
  <2>7. CASE Pos(head, i) + 1 < count
    <3>1. slot[next].valid /\ slot[next].gen = o.post.gen
      BY <2>3, <2>7 DEF ReadyAt
    <3>2. Pos(head, next) = Pos(head, i) + 1
      BY <2>6, <2>7, <2>a, <1>a, RobSizes
    <3>3. slot'[next] = E[next]
      <4>1. ~entered(next) /\ Pos(head, next) >= c
        BY <3>2, <2>1, <2>2, <2>7, <1>1, <1>2
      <4> QED BY <4>1, <2>2, <1>3
    <3>4. Pos(head', i) + 1 < count'
      BY <2>2, <2>5, <2>7, <1>1, <1>2, <1>3
    <3>5. slot'[next].valid /\ slot'[next].gen = o.post.gen
      BY <3>1, <3>3, <2>2, <1>7
    <3>6. slot'[i].valid /\ slot'[i].gen = o.tag.gen /\ IsControl(slot'[i].kind)
      BY <2>2, <2>4, <2>5, <1>7
    <3>7. Pos(head', i) < count'
      BY <3>4, <2>2, <2>5, <1>1, <1>2, <1>3
    <3> QED BY <3>4, <3>5, <3>6, <3>7, <2>1, <2>2, <2>3, <2>4, <2>5, <1>7 DEF ReadyAt
  <2>8. CASE ~(Pos(head, i) + 1 < count)
    <3>1. tail = next /\ alloc_gen(next) = o.post.gen /\ Pos(head, i) + 1 = count
      BY <2>2, <2>3, <2>4, <2>8, <1>1 DEF ReadyAt
    <3>2. slot'[i].valid /\ slot'[i].gen = o.tag.gen /\ IsControl(slot'[i].kind)
          /\ ~slot'[i].recov
      BY <2>2, <2>3, <2>4, <2>5, <1>7
    <3>3. Pos(head', i) + 1 = count - c /\ Pos(head', i) < count'
      BY <3>1, <2>2, <2>5, <1>1, <1>2, <1>3
    <3>4. CASE l = 0
      <4>1. tail' = next
        BY <3>1, <3>4, <1>1, <1>3, AdvFacts, RobSizes
      <4>2. slot'[next].gen = slot[next].gen
        BY <3>4, <2>2, <1>1, <1>9
      <4>3. (alloc_gen(next))' = o.post.gen
        BY <4>2, <3>1 DEF alloc_gen
      <4>4. ~(Pos(head', i) + 1 < count')
        BY <3>3, <3>4, <1>1, <1>2, <1>3
      <4> QED BY <4>1, <4>3, <4>4, <3>2, <3>3, <2>1, <2>2, <2>4, <2>5 DEF ReadyAt
    <3>5. CASE l > 0
      <4>1. Pos(head, next) = count /\ entered(next)
        <5>1. Pos(head, next) = count
          BY <3>1, <3>5, <2>6, <1>a, RobSizes
        <5> QED BY <5>1, <3>5, <1>a
      <4>2. slot'[next] = Allocated(next, b[1])
        <5>1. Pos(head, next) - count + 1 = 1 /\ 1 \in 1 .. l
          BY <4>1, <3>5, <1>1, <1>3
        <5>2. slot'[next] = Allocated(next, b[Pos(head, next) - count + 1])
          BY <4>1, <2>2, <1>3
        <5> QED BY <5>1, <5>2
      <4>3. slot'[next].valid /\ slot'[next].gen = o.post.gen
        <5>1. 1 \in 1 .. l
          BY <3>5, <1>3
        <5> QED BY <5>1, <4>2, <3>1, <2>2, <1>1, <1>4, AllocatedFields
      <4>4. Pos(head', i) + 1 < count'
        BY <3>3, <3>5, <1>1, <1>2, <1>3
      <4> QED BY <4>3, <4>4, <3>2, <3>3, <2>1, <2>2, <2>4, <2>5 DEF ReadyAt
    <3> QED BY <3>4, <3>5, <1>3
  <2> QED BY <2>7, <2>8
(* A new branch is the youngest entry, and its boundary the new tail.      *)
<1>15. ASSUME NEW o \in Opened(b)
       PROVE  /\ ReadyAt(o)' /\ ~slot'[o.tag.idx].recov
              /\ ~slot'[o.tag.idx].redir /\ recovering' # o.tag
  <2> DEFINE i == o.tag.idx
             next == Adv(i, 1)
  <2>1. /\ l \in 1 .. 2 /\ IsControl(b[l][1]) /\ i = Adv(tail, l - 1) /\ i \in Idx
        /\ Pos(head, i) = count + l - 1 /\ o.tag.gen = alloc_gen(i)
        /\ o.post.idx = Adv(tail, l) /\ o.post.gen = alloc_gen(o.post.idx)
        /\ o.post.idx \in Idx /\ o \in Branch
    BY <1>12
  <2>2. next = Adv(tail, l)
    BY <2>1, <1>1, RobSizes DEF Idx, Adv
  <2>3. entered(i) /\ Pos(head, i) - count + 1 = l
    BY <2>1, <1>1
  <2>4. slot'[i] = Allocated(i, b[l])
    <3>1. slot'[i] = Allocated(i, b[Pos(head, i) - count + 1])
      BY <2>1, <2>3, <1>3
    <3> QED BY <3>1, <2>3
  <2>5. /\ slot'[i].valid /\ slot'[i].gen = o.tag.gen /\ IsControl(slot'[i].kind)
        /\ ~slot'[i].redir /\ ~slot'[i].recov
    <3>1. l \in 1 .. l
      BY <2>1
    <3> QED BY <3>1, <2>1, <2>4, <1>1, <1>4, AllocatedFields
  <2>6. ~entered(next)
    <3>1. Pos(tail, next) = l
      BY <2>1, <2>2, <1>1, RobSizes DEF Idx, Pos, Adv
    <3>2. Pos(tail, next) = IF Pos(head, next) >= count THEN Pos(head, next) - count
                            ELSE Pos(head, next) - count + N
      BY <2>1, <2>2, <1>1, PosFacts
    <3>3. Pos(head, next) \in 0 .. N - 1
      BY <2>1, <2>2, <1>1
    <3> QED BY <3>1, <3>2, <3>3, <2>1, <1>1
  <2>7. (alloc_gen(next))' = o.post.gen
    BY <2>1, <2>2, <2>6, <1>9 DEF alloc_gen
  <2>8. Pos(head', i) = count - c + l - 1
    BY <2>1, <1>1, <1>2, <1>8
  <2>9. Pos(head', i) < count' /\ ~(Pos(head', i) + 1 < count')
    BY <2>1, <2>8, <1>1, <1>2, <1>3
  <2>10. recovering' # o.tag
    <3> SUFFICES ASSUME recovering' = o.tag
                 PROVE  FALSE
      OBVIOUS
    <3>1. recovering' # NoTag
      BY <2>1, TagsDiffer DEF Branch
    <3>2. PICK x \in StillOpen(R) : x.tag = recovering'
      BY <3>1, RedirectFacts
    <3>3. x \in branches /\ x \in Branch
      BY <1>14, <3>2 DEF IInv, TypeInv
    <3>4. ReadyAt(x)
      BY <3>3, <1>1, <1>10, ReadyByPosition DEF IInv, BranchInv, ReadyForm
    <3>5. Pos(head, i) < count
      BY <3>2, <3>4 DEF ReadyAt
    <3> QED BY <3>5, <2>1, <1>1
  <2> QED BY <2>1, <2>2, <2>5, <2>7, <2>9, <2>10, <1>3 DEF ReadyAt
<1>16. \A o \in branches' : /\ selective_squash_ready(o)'
                            /\ ~slot'[o.tag.idx].recov
                            /\ slot'[o.tag.idx].redir <=> recovering' = o.tag
  <2>1. \A o \in branches' : ReadyAt(o)' <=> selective_squash_ready(o)'
    BY <1>11, <1>13, ReadyByPositionPrime DEF ReadyForm
  <2>2. \A o \in StillOpen(R) : slot'[o.tag.idx].redir <=> recovering' = o.tag
    BY <1>7, <1>14, RedirectFacts
  <2> QED BY <2>1, <2>2, <1>10, <1>14, <1>15
<1>17. recovering' # NoTag => \E o \in branches' : o.tag = recovering'
  BY <1>10, RedirectFacts
<1>18. ASSUME NEW i \in Idx, Control(i)'
       PROVE  /\ ~slot'[i].done => \E o \in branches' : o.tag = Tag(i)'
              /\ slot'[i].redir => slot'[i].recov \/ recovering' = Tag(i)'
  <2>1. slot'[i].valid /\ IsControl(slot'[i].kind)
    BY <1>18 DEF Control
  <2>2. CASE entered(i)
    <3> DEFINE k == Pos(head, i) - count + 1
    <3>1. k \in 1 .. l /\ slot'[i] = Allocated(i, b[k])
      BY <2>2, <1>3
    <3>2. /\ slot'[i].gen = alloc_gen(i) /\ slot'[i].kind = b[k][1] /\ ~slot'[i].redir
      BY <3>1, <1>1, <1>4, AllocatedFields
    <3>3. IsControl(b[k][1]) /\ k = l
      BY <3>1, <3>2, <2>1, <1>4
    <3>4. advance(tail, k - 1) = i
      <4>1. k - 1 \in 0 .. N /\ k - 1 = Pos(head, i) - count
        BY <3>1, <1>a, <1>b, RobSizes
      <4>2. advance(tail, k - 1) = Adv(tail, k - 1)
        BY <4>1, <1>1, Advance
      <4>4. count + (k - 1) = Pos(head, i) /\ count + (k - 1) <= N
        BY <4>1, <1>a, <1>b, RobSizes
      <4>3. Adv(tail, k - 1) = Adv(head, count + (k - 1))
        BY <4>1, <4>4, <1>1, AdvFacts
      <4> QED BY <4>2, <4>3, <4>4, <1>1, PosFacts
    <3>5. [tag |-> [idx |-> advance(tail, k - 1), gen |-> alloc_gen(advance(tail, k - 1))],
           post |-> post_tail(b)] \in Opened(b)
      BY <3>1, <3>3, <1>5 DEF Opened
    <3>6. Tag(i)' = [idx |-> i, gen |-> alloc_gen(i)]
      BY <3>2 DEF Tag
    <3> QED BY <3>2, <3>4, <3>5, <3>6, <1>10
  <2>3. CASE ~entered(i)
    <3>1. Pos(head, i) >= c
      <4>1. Pos(head, i) < c => ~slot'[i].valid
        BY <1>1, <1>3, EmptyFields
      <4> QED BY <4>1, <2>1, <1>1, <1>2
    <3>2. slot'[i] = E[i]
      BY <3>1, <2>3, <1>3
    <3>3. /\ slot[i].valid /\ IsControl(slot[i].kind) /\ Tag(i)' = Tag(i)
          /\ slot'[i].done = R[i].done /\ slot'[i].redir = R[i].redir
          /\ slot'[i].recov = slot[i].recov
      BY <3>2, <2>1, <1>7 DEF Tag
    <3>4. Control(i) /\ Tag(i).idx = i
      BY <3>3 DEF Control, Tag
    <3>5. CASE ~slot[i].done
      <4>1. PICK o \in branches : o.tag = Tag(i)
        BY <3>4, <3>5, <1>10 DEF IInv, BranchInv
      <4>2. o.tag.idx = i
        BY <4>1, <3>4
      <4>3. ~R[i].done \/ R[i].redir => o \in StillOpen(R)
        BY <4>2 DEF StillOpen
      <4>4. R[i].redir => recovering' = o.tag
        BY <4>2, RedirectFacts
      <4> QED BY <4>1, <4>3, <4>4, <3>3, <1>10
    <3>6. CASE slot[i].done
      <4>1. slot'[i].done /\ slot'[i].redir = slot[i].redir
        BY <3>3, <3>6, <1>7
      <4>2. slot[i].redir => slot[i].recov
        <5>1. Tag(i) # NoTag
          BY RobSizes DEF Tag, NoTag, Idx
        <5> QED BY <5>1, <3>4, <1>10 DEF IInv, BranchInv
      <4> QED BY <4>1, <4>2, <3>3
    <3> QED BY <3>5, <3>6
  <2> QED BY <2>2, <2>3
<1> QED BY <1>10, <1>16, <1>17, <1>18 DEF BranchInv


LEMMA EdgeInv ==
  ASSUME IInv, ClockEdge
  PROVE  IInv'
<1>1. PICK p0, p1, R, ce, req, b, E, c : EdgeParts(p0, p1, R, ce, req, b, E, c)
  BY EdgeHasParts, Zenon
<1>2. /\ WindowShape' /\ slot' \in [Idx -> Entry]
      /\ head' \in Idx /\ tail' \in Idx /\ count' \in 0 .. N
  BY <1>1, EdgeShape, Zenon
<1>3. EntriesInv'
  BY <1>1, EdgeEntries, Zenon
<1>4. StaleInv' /\ stale' \subseteq Result
  BY <1>1, EdgeStale, Zenon
<1>5. StoreInv'
  BY <1>1, EdgeStore, Zenon
<1>6. BranchInv' /\ branches' \subseteq Branch
  BY <1>1, EdgeBranch, Zenon
<1>7. recovering' \in [idx : 0 .. N, gen : Gen]
  <2>1. recovering' = NoTag \/ \E o \in branches : o.tag = recovering'
    BY <1>1, RedirectFacts DEF StillOpen
  <2>2. NoTag \in [idx : 0 .. N, gen : Gen]
    BY RobSizes DEF NoTag, Gen
  <2>3. \A o \in branches : o.tag \in [idx : 0 .. N, gen : Gen]
    BY RobSizes DEF IInv, TypeInv, Branch, Idx
  <2> QED BY <2>1, <2>2, <2>3
<1>8. /\ identity_error' = identity_error /\ program' = program
      /\ trap' \in BOOLEAN /\ StoreSide(c, req)
  <2>1. trap' = (c > 0 /\ ControlEvent)
    BY <1>1, Zenon DEF EdgeParts
  <2>2. trap' \in BOOLEAN
    BY <2>1, Zenon
  <2>3. identity_error' = identity_error /\ program' = program /\ StoreSide(c, req)
    BY <1>1, Zenon DEF EdgeParts
  <2> QED BY <2>2, <2>3
<1>9. /\ owner' \in [idx : 0 .. N, gen : Gen] /\ store_done' \in BOOLEAN
      /\ memory' \in [idx : 0 .. N, gen : Gen, st : {"idle", "busy", "done", "fault"}]
  <2>1. TypeInv /\ head \in 0 .. N /\ slot[head].gen \in Gen /\ 0 \in Gen /\ N \in 0 .. N
    BY RobSizes DEF IInv, TypeInv, Idx, Gen, Entry
  <2>2. owner' \in {NoTag, Tag(head), owner}
    BY <1>8 DEF StoreSide
  <2>3. memory' \in {[idx |-> head, gen |-> slot[head].gen, st |-> "busy"], NoStore, memory}
    BY <1>8 DEF StoreSide
  <2>4. store_done' \in BOOLEAN
    <3>1. PICK x \in BOOLEAN : x = (store_done \/ AnswerMatch("done"))
      BY Zenon
    <3>2. store_done' = FALSE \/ store_done' = x
      BY <1>8, <3>1, Zenon DEF StoreSide
    <3> QED BY <3>2
  <2> QED BY <2>1, <2>2, <2>3, <2>4 DEF TypeInv, NoTag, Tag, NoStore
<1> QED BY <1>2, <1>3, <1>4, <1>5, <1>6, <1>7, <1>8, <1>9 DEF IInv, TypeInv

-----------------------------------------------------------------------------
(* Selective squash.                                                       *)

(* The recovery of branch o, with the results the edge records.            *)
SquashParts(o, R, killed) ==
  /\ ~trap /\ recovering # NoTag /\ o \in branches /\ o.tag = recovering
  /\ killed = killed_rob_mask(o.tag)
  /\ RecordedOK(R, killed)
  /\ slot' = [i \in Idx |->
                IF i \in killed THEN Empty(slot[i].gen)
                ELSE IF i = o.tag.idx THEN [R[i] EXCEPT !.recov = TRUE]
                ELSE R[i]]
  /\ head' = head /\ tail' = o.post.idx /\ count' = survivors(o.tag)
  /\ IF owner # NoTag /\ owner.idx \in killed /\ slot[owner.idx].gen = owner.gen
     THEN owner' = NoTag /\ store_done' = FALSE
     ELSE UNCHANGED <<owner, store_done>>
  /\ branches' = {x \in branches \ {o} : x.tag.idx \notin killed}
  /\ recovering' = NoTag /\ commit' = << >>
  /\ Leave(killed, {})
  /\ UNCHANGED <<identity_error, memory, trap, program>>

(* The boundary is exact, so a squash that is due is never refused.        *)
LEMMA SquashHasParts ==
  ASSUME IInv, Squash
  PROVE  \E o, R, killed : SquashParts(o, R, killed)
<1>1. /\ ~trap /\ recovering # NoTag /\ commit' = << >>
      /\ UNCHANGED <<memory, trap, program>>
  BY DEF Squash
<1>2. PICK o \in branches : /\ o.tag = recovering
                            /\ \/ selective_squash_ready(o) /\ Truncate(o)
                               \/ ~selective_squash_ready(o)
  BY DEF Squash
<1>3. Truncate(o)
  BY <1>1, <1>2 DEF IInv, BranchInv
<1> DEFINE killed == killed_rob_mask(o.tag)
<1>4. PICK p0 \in Presentable, p1 \in Presentable :
        /\ Lanes(p0, p1, killed)
        /\ LET R == record_writeback(p0, p1, killed)
           IN slot' = [i \in Idx |->
                         IF i \in killed THEN Empty(slot[i].gen)
                         ELSE IF i = o.tag.idx THEN [R[i] EXCEPT !.recov = TRUE]
                         ELSE R[i]]
  BY <1>3, Zenon DEF Truncate
<1> DEFINE R == record_writeback(p0, p1, killed)
<1>5. RecordedOK(R, killed)
  BY <1>4, Recorded DEF IInv
<1>6. SquashParts(o, R, killed)
  BY <1>1, <1>2, <1>3, <1>4, <1>5, Zenon DEF SquashParts, Truncate
<1> QED BY <1>6, Zenon

(* By position: what is behind the branch leaves, the branch has recovered,*)
(* and nobody else moves.                                                  *)
SquashedOK(o, R, killed) ==
  LET n == Pos(head, o.tag.idx) + 1
  IN /\ o.tag.idx \in Idx /\ n \in 1 .. count
     /\ \A j : j \in killed <=> j \in Idx /\ n <= Pos(head, j) /\ Pos(head, j) < count
     /\ head \notin killed /\ o.tag.idx \notin killed
     /\ tail' = Adv(head, n) /\ count' = n
     /\ slot' \in [Idx -> Entry]
     /\ \A j \in killed : slot'[j] = Empty(slot[j].gen)
     /\ \A j \in Idx : j \notin killed =>
          /\ j # o.tag.idx => slot'[j] = R[j]
          /\ slot'[j].valid = slot[j].valid /\ slot'[j].gen = slot[j].gen
          /\ slot'[j].kind = slot[j].kind /\ slot'[j].fate = slot[j].fate
          /\ slot'[j].asked = slot[j].asked /\ slot'[j].performed = slot[j].performed
          /\ EntryOK(slot'[j])
          /\ slot'[j].done = R[j].done /\ slot'[j].redir = R[j].redir
          /\ slot'[j].exc = R[j].exc
          /\ slot'[j].hits = R[j].hits
          /\ slot'[j].recov <=> slot[j].recov \/ j = o.tag.idx
          /\ slot[j].done \/ IsControl(slot[j].kind) => R[j] = slot[j]
     /\ slot[o.tag.idx].redir /\ slot[o.tag.idx].done /\ ~slot[o.tag.idx].recov

LEMMA SquashFacts ==
  ASSUME IInv, NEW o, NEW R, NEW killed, SquashParts(o, R, killed)
  PROVE  SquashedOK(o, R, killed)
<1> DEFINE i == o.tag.idx
           n == Pos(head, i) + 1
<1>1. /\ head \in Idx /\ count \in 0 .. N /\ slot \in [Idx -> Entry]
      /\ \A j \in Idx : slot[j].valid <=> Pos(head, j) < count
  BY ShapeByPosition DEF Window1, IInv, TypeInv
<1>2. o \in Branch /\ i \in Idx
  BY DEF IInv, TypeInv, Branch, SquashParts
<1>3. ReadyAt(o) /\ slot[i].redir /\ ~slot[i].recov
  BY <1>1, <1>2, ReadyByPosition DEF IInv, BranchInv, ReadyForm, SquashParts
<1>4. Pos(head, i) < count /\ slot[i].valid /\ IsControl(slot[i].kind) /\ o.post.idx = Adv(i, 1)
  BY <1>3 DEF ReadyAt
<1>5. \A j \in Idx : Pos(head, j) \in 0 .. N - 1
  BY <1>1, PosFacts
<1>6. n \in 1 .. count /\ n \in 0 .. N /\ count - n \in 0 .. N
  <2>1. Pos(head, i) \in 0 .. N - 1 /\ Pos(head, i) < count /\ count \in 0 .. N
    BY <1>1, <1>2, <1>4, <1>5
  <2>2. n \in 1 .. count
    BY <2>1, RobSizes
  <2> HIDE DEF n
  <2> QED BY <2>1, <2>2, RobSizes
<1>7. /\ survivors(o.tag) = n /\ advance(i, 1) = Adv(head, n) /\ Adv(i, 1) = Adv(head, n)
      /\ Adv(head, n) \in Idx
  <2>1. distance_from_head(i) = Pos(head, i)
    BY <1>1, <1>2, Distance DEF distance_from_head
  <2>2. advance(i, 1) = Adv(i, 1)
    BY <1>2, Advance, RobSizes
  <2>3. Adv(i, 1) = Adv(head, n)
    BY <1>1, <1>2, PosFacts
  <2> QED BY <1>1, <1>6, <2>1, <2>2, <2>3, AdvFacts DEF survivors
<1>8. \A j : j \in killed <=> j \in Idx /\ n <= Pos(head, j) /\ Pos(head, j) < count
  <2>1. killed = Span(Adv(head, n), count - n)
    BY <1>7 DEF SquashParts, killed_rob_mask
  <2>2. \A j : j \in killed <=> j \in Idx /\ Pos(Adv(head, n), j) < count - n
    BY <2>1, <1>6, <1>7, SpanMember
  <2>3. \A j \in Idx : Pos(Adv(head, n), j) = IF Pos(head, j) >= n THEN Pos(head, j) - n
                                              ELSE Pos(head, j) - n + N
    BY <1>1, <1>6, PosFacts
  <2> HIDE DEF n
  <2>4. \A j \in Idx : Pos(Adv(head, n), j) < count - n <=>
                         n <= Pos(head, j) /\ Pos(head, j) < count
    BY <2>3, <1>1, <1>5, <1>6, RobSizes
  <2> QED BY <2>2, <2>4
<1>9. head \notin killed /\ i \notin killed
  <2>1. Pos(head, head) = 0
    BY <1>1, HeadFacts
  <2> QED BY <2>1, <1>2, <1>5, <1>6, <1>8
<1>10. tail' = Adv(head, n) /\ count' = n
  BY <1>4, <1>7 DEF SquashParts
<1>11. /\ R \in [Idx -> Entry]
       /\ \A j \in Idx : R[j] = slot[j] \/ Completes(R, j, killed)
       /\ \A j \in Idx : slot[j].done \/ IsControl(slot[j].kind) => R[j] = slot[j]
  BY DEF SquashParts, RecordedOK
<1>12. \A j \in Idx : EntryOK(slot[j])
  BY DEF IInv, EntriesInv
<1>13. slot[i].done
  BY <1>2, <1>3, <1>12 DEF EntryOK
<1>14. slot' = [j \in Idx |->
                  IF j \in killed THEN Empty(slot[j].gen)
                  ELSE IF j = i THEN [R[j] EXCEPT !.recov = TRUE]
                  ELSE R[j]]
  BY DEF SquashParts
<1>15. \A j \in killed : slot'[j] = Empty(slot[j].gen) /\ slot'[j] \in Entry
  <2>1. \A j \in killed : slot[j].gen \in Gen
    BY <1>1, <1>8 DEF Entry
  <2> QED BY <2>1, <1>8, <1>14, EmptyFields
<1>16. /\ slot'[i] \in Entry /\ EntryOK(slot'[i])
       /\ slot'[i].valid = slot[i].valid /\ slot'[i].gen = slot[i].gen
       /\ slot'[i].kind = slot[i].kind /\ slot'[i].fate = slot[i].fate
       /\ slot'[i].asked = slot[i].asked /\ slot'[i].performed = slot[i].performed
       /\ slot'[i].done = R[i].done /\ slot'[i].redir = R[i].redir
       /\ slot'[i].exc = R[i].exc /\ slot'[i].hits = R[i].hits /\ slot'[i].recov
  <2> DEFINE e == slot[i]
             f == slot'[i]
  <2>1. e \in Entry /\ EntryOK(e) /\ e.valid /\ e.done
    BY <1>1, <1>2, <1>4, <1>12, <1>13
  <2>2. R[i] = e
    BY <1>2, <1>11, <1>13
  <2>3. f = [e EXCEPT !.recov = TRUE]
    BY <1>2, <1>9, <1>14, <2>2
  <2> HIDE DEF e, f
  <2>4. f = [valid |-> e.valid, gen |-> e.gen, kind |-> e.kind, fate |-> e.fate,
             done |-> e.done, exc |-> e.exc, redir |-> e.redir, recov |-> TRUE,
             hits |-> e.hits, asked |-> e.asked, performed |-> e.performed]
    BY <2>1, <2>3 DEF Entry
  <2>5. f \in Entry
    BY <2>1, <2>4 DEF Entry
  <2>6. /\ f.valid = e.valid /\ f.gen = e.gen /\ f.kind = e.kind /\ f.fate = e.fate
        /\ f.asked = e.asked /\ f.performed = e.performed /\ f.done = e.done
        /\ f.redir = e.redir /\ f.exc = e.exc /\ f.hits = e.hits /\ f.recov
    BY <2>4
  <2>7. EntryOK(f)
    BY <2>1, <2>6 DEF EntryOK
  <2> QED BY <2>2, <2>5, <2>6, <2>7 DEF e, f
<1>17. \A j \in Idx : j \notin killed /\ j # i =>
         /\ slot'[j] = R[j]
         /\ slot'[j] \in Entry /\ EntryOK(slot'[j])
         /\ slot'[j].valid = slot[j].valid /\ slot'[j].gen = slot[j].gen
         /\ slot'[j].kind = slot[j].kind /\ slot'[j].fate = slot[j].fate
         /\ slot'[j].asked = slot[j].asked /\ slot'[j].performed = slot[j].performed
         /\ slot'[j].recov = slot[j].recov
  <2> SUFFICES ASSUME NEW j \in Idx, j \notin killed, j # i
               PROVE  /\ slot'[j] = R[j]
                      /\ slot'[j] \in Entry /\ EntryOK(slot'[j])
                      /\ slot'[j].valid = slot[j].valid /\ slot'[j].gen = slot[j].gen
                      /\ slot'[j].kind = slot[j].kind /\ slot'[j].fate = slot[j].fate
                      /\ slot'[j].asked = slot[j].asked
                      /\ slot'[j].performed = slot[j].performed
                      /\ slot'[j].recov = slot[j].recov
    OBVIOUS
  <2>1. slot'[j] = R[j]
    BY <1>14
  <2>2. slot[j] \in Entry /\ EntryOK(slot[j])
    BY <1>1, <1>12
  <2>3. R[j] = slot[j] \/ Completes(R, j, killed)
    BY <1>11
  <2> QED BY <2>1, <2>2, <2>3, RecordedEntries
<1>18. slot' \in [Idx -> Entry]
  <2>1. \A j \in Idx : slot'[j] \in Entry
    BY <1>15, <1>16, <1>17
  <2>2. slot' = [j \in Idx |-> slot'[j]]
    BY <1>14
  <2> QED BY <2>1, <2>2
<1> HIDE DEF i, n
<1>19. \A j \in Idx : j \notin killed =>
         /\ j # i => slot'[j] = R[j]
         /\ slot'[j].valid = slot[j].valid /\ slot'[j].gen = slot[j].gen
         /\ slot'[j].kind = slot[j].kind /\ slot'[j].fate = slot[j].fate
         /\ slot'[j].asked = slot[j].asked /\ slot'[j].performed = slot[j].performed
         /\ EntryOK(slot'[j])
         /\ slot'[j].done = R[j].done /\ slot'[j].redir = R[j].redir
         /\ slot'[j].exc = R[j].exc /\ slot'[j].hits = R[j].hits
         /\ slot'[j].recov <=> slot[j].recov \/ j = i
         /\ slot[j].done \/ IsControl(slot[j].kind) => R[j] = slot[j]
  <2> SUFFICES ASSUME NEW j \in Idx, j \notin killed
               PROVE  /\ j # i => slot'[j] = R[j]
                      /\ slot'[j].valid = slot[j].valid /\ slot'[j].gen = slot[j].gen
                      /\ slot'[j].kind = slot[j].kind /\ slot'[j].fate = slot[j].fate
                      /\ slot'[j].asked = slot[j].asked
                      /\ slot'[j].performed = slot[j].performed
                      /\ EntryOK(slot'[j])
                      /\ slot'[j].done = R[j].done /\ slot'[j].redir = R[j].redir
                      /\ slot'[j].exc = R[j].exc /\ slot'[j].hits = R[j].hits
                      /\ slot'[j].recov <=> slot[j].recov \/ j = i
                      /\ slot[j].done \/ IsControl(slot[j].kind) => R[j] = slot[j]
    OBVIOUS
  <2>1. CASE j = i
    BY <2>1, <1>11, <1>16
  <2>2. CASE j # i
    BY <2>2, <1>11, <1>17
  <2> QED BY <2>1, <2>2
<1> QED BY <1>2, <1>3, <1>6, <1>8, <1>9, <1>10, <1>13, <1>15, <1>18, <1>19, Zenon
        DEF SquashedOK, i, n

LEMMA SquashShape ==
  ASSUME IInv, NEW o, NEW R, NEW killed, SquashParts(o, R, killed)
  PROVE  WindowShape' /\ EntriesInv' /\ head' \in Idx /\ tail' \in Idx /\ count' \in 0 .. N
<1> DEFINE n == Pos(head, o.tag.idx) + 1
<1>1. /\ n \in 1 .. count
      /\ \A j : j \in killed <=> j \in Idx /\ n <= Pos(head, j) /\ Pos(head, j) < count
      /\ tail' = Adv(head, n) /\ count' = n
      /\ \A j \in killed : slot'[j] = Empty(slot[j].gen)
      /\ \A j \in Idx : j \notin killed => /\ slot'[j].valid = slot[j].valid
                                           /\ slot'[j].asked = slot[j].asked
                                           /\ EntryOK(slot'[j])
  BY SquashFacts DEF SquashedOK
<1>2. /\ head \in Idx /\ count \in 0 .. N /\ slot \in [Idx -> Entry] /\ head' = head
      /\ \A j \in Idx : slot[j].valid <=> Pos(head, j) < count
      /\ \A j \in Idx : Pos(head, j) \in 0 .. N - 1
      /\ \A j \in Idx : slot[j].gen \in Gen
  BY ShapeByPosition, PosFacts DEF Window1, IInv, TypeInv, Entry, SquashParts
<1> HIDE DEF n
<1>3. n \in 0 .. N /\ n <= count
  <2>1. n \in 1 .. count /\ count \in 0 .. N
    BY <1>1, <1>2
  <2> QED BY <2>1, RobSizes
<1>4. \A j \in Idx : slot'[j].valid <=> Pos(head', j) < count'
  <2> SUFFICES ASSUME NEW j \in Idx
               PROVE  slot'[j].valid <=> Pos(head, j) < n
    BY <1>1, <1>2
  <2>1. CASE j \in killed
    <3>1. ~slot'[j].valid
      BY <2>1, <1>1, <1>2, EmptyFields
    <3> QED BY <3>1, <2>1, <1>1, <1>2, <1>3
  <2>2. CASE j \notin killed
    BY <2>2, <1>1, <1>2, <1>3
  <2> QED BY <2>1, <2>2
<1>5. tail' \in Idx /\ tail' = Adv(head', count') /\ count' \in 0 .. N /\ head' \in Idx
  BY <1>1, <1>2, <1>3, AdvFacts
<1>6. WindowShape'
  <2>1. Window1'
    BY <1>4, <1>5 DEF Window1
  <2> QED BY <2>1, ShapeByPositionPrime
<1>7. \A j \in Idx : EntryOK(slot'[j]) /\ (slot'[j].asked = 1 => j = head')
  <2> SUFFICES ASSUME NEW j \in Idx
               PROVE  EntryOK(slot'[j]) /\ (slot'[j].asked = 1 => j = head')
    OBVIOUS
  <2>1. CASE j \in killed
    BY <2>1, <1>1, <1>2, EmptyFields
  <2>2. CASE j \notin killed
    BY <2>2, <1>1, <1>2 DEF IInv, EntriesInv
  <2> QED BY <2>1, <2>2
<1> QED BY <1>5, <1>6, <1>7 DEF EntriesInv

LEMMA SquashStale ==
  ASSUME IInv, NEW o, NEW R, NEW killed, SquashParts(o, R, killed)
  PROVE  /\ StaleInv'
         /\ stale' \subseteq Result
<1>1. /\ killed \subseteq Idx /\ slot' \in [Idx -> Entry]
      /\ \A j \in killed : slot'[j] = Empty(slot[j].gen)
      /\ \A j \in Idx : j \notin killed => /\ slot'[j].valid = slot[j].valid
                                           /\ slot'[j].gen = slot[j].gen
  BY SquashFacts DEF SquashedOK
<1>2. \A j \in Idx : slot[j].gen \in Gen
  BY DEF IInv, TypeInv, Entry
<1>3. \A j \in killed : ~slot'[j].valid /\ slot'[j].gen = slot[j].gen
  BY <1>1, <1>2, EmptyFields
<1>4. \A j \in Idx : slot'[j].gen = slot[j].gen /\ (slot'[j].valid => slot[j].valid)
  BY <1>1, <1>3
<1>5. TypeInv /\ StaleInv /\ Leave(killed, {})
  BY DEF IInv, SquashParts
<1> QED BY <1>1, <1>3, <1>4, <1>5, StaleStep

(* The head is never squashed, so the store that owns a request stays.     *)
LEMMA SquashStore ==
  ASSUME IInv, NEW o, NEW R, NEW killed, SquashParts(o, R, killed)
  PROVE  StoreInv' /\ UNCHANGED <<owner, store_done>>
<1>1. head \in Idx /\ head' = head /\ memory' = memory /\ trap' = trap /\ StoreInv
  BY DEF IInv, TypeInv, SquashParts
<1>2. /\ head \notin killed
      /\ slot'[head].valid = slot[head].valid /\ slot'[head].gen = slot[head].gen
      /\ slot'[head].kind = slot[head].kind
      /\ slot'[head].asked = slot[head].asked
      /\ slot'[head].performed = slot[head].performed
      /\ slot'[head].done = R[head].done /\ slot'[head].exc = R[head].exc
      /\ slot[head].done => R[head] = slot[head]
  BY <1>1, SquashFacts DEF SquashedOK
<1>3. owner' = owner /\ store_done' = store_done
  <2>1. owner # NoTag => owner.idx = head
    BY <1>1 DEF StoreInv, Tag
  <2> QED BY <2>1, <1>2 DEF SquashParts
<1>4. EntryOK(slot[head])
  BY <1>1 DEF IInv, EntriesInv
<1>5. slot[head].exc => slot'[head].exc
  BY <1>2, <1>4 DEF EntryOK
<1> QED BY <1>1, <1>2, <1>3, <1>5 DEF StoreInv, HeadIsStore, Tag, OwnerAnswered

(* Two branches with the same entry are the same branch.                   *)
LEMMA SameBranch ==
  ASSUME TypeInv, NEW x \in Branch, NEW y \in Branch, ReadyAt(x), ReadyAt(y),
         x.tag.idx = y.tag.idx
  PROVE  x = y
<1>1. x.tag.gen = y.tag.gen /\ x.post.idx = y.post.idx
  BY DEF ReadyAt
<1>2. x.post.gen = y.post.gen
  BY DEF ReadyAt
<1> QED BY <1>1, <1>2 DEF Branch

LEMMA SquashBranch ==
  ASSUME IInv, NEW o, NEW R, NEW killed, SquashParts(o, R, killed)
  PROVE  BranchInv'
<1> DEFINE i == o.tag.idx
           n == Pos(head, i) + 1
<1>1. /\ ~trap /\ recovering # NoTag /\ o \in branches /\ o.tag = recovering
      /\ branches' = {x \in branches \ {o} : x.tag.idx \notin killed}
      /\ head' = head /\ recovering' = NoTag /\ ~identity_error'
  BY DEF SquashParts, IInv, BranchInv
<1>2. /\ head \in Idx /\ count \in 0 .. N
      /\ \A j \in Idx : slot[j].valid <=> Pos(head, j) < count
      /\ \A j \in Idx : Pos(head, j) \in 0 .. N - 1
  BY ShapeByPosition, PosFacts DEF Window1, IInv
<1>3. /\ i \in Idx /\ n \in 1 .. count /\ count' = n
      /\ \A j : j \in killed <=> j \in Idx /\ n <= Pos(head, j) /\ Pos(head, j) < count
      /\ \A j \in killed : slot'[j] = Empty(slot[j].gen)
      /\ \A j \in Idx : j \notin killed =>
           /\ slot'[j].valid = slot[j].valid /\ slot'[j].gen = slot[j].gen
           /\ slot'[j].kind = slot[j].kind
           /\ slot'[j].done = R[j].done /\ slot'[j].redir = R[j].redir
           /\ slot'[j].recov <=> slot[j].recov \/ j = i
           /\ slot[j].done \/ IsControl(slot[j].kind) => R[j] = slot[j]
      /\ slot[i].redir /\ slot[i].done
  BY SquashFacts DEF SquashedOK
<1>4. \A x \in branches : /\ x \in Branch /\ x.tag.idx \in Idx /\ ReadyAt(x)
                          /\ ~slot[x.tag.idx].recov
                          /\ slot[x.tag.idx].redir <=> recovering = x.tag
  BY <1>1, <1>2, ReadyByPosition DEF IInv, TypeInv, Branch, BranchInv, ReadyForm
<1>5. ASSUME NEW x \in branches'
      PROVE  /\ ReadyAt(x)' /\ ~slot'[x.tag.idx].recov /\ ~slot'[x.tag.idx].redir
             /\ x \in Branch /\ x.tag \in [idx : Idx, gen : Gen]
  <2> DEFINE j == x.tag.idx
             next == Adv(j, 1)
  <2>1. x \in branches /\ x # o /\ j \notin killed /\ x \in Branch /\ j \in Idx
    BY <1>1, <1>4
  <2>2. j # i
    <3>1. ReadyAt(x) /\ ReadyAt(o) /\ o \in Branch /\ TypeInv
      BY <2>1, <1>1, <1>4 DEF IInv
    <3> QED BY <3>1, <2>1, SameBranch
  <2>3. /\ Pos(head, j) < count /\ slot[j].valid /\ slot[j].gen = x.tag.gen
        /\ IsControl(slot[j].kind) /\ x.post.idx = next
        /\ Pos(head, j) + 1 < count => slot[next].valid /\ slot[next].gen = x.post.gen
    BY <2>1, <1>4 DEF ReadyAt
  <2>4. Pos(head, j) # Pos(head, i)
    BY <2>1, <2>2, <1>2, <1>3, PosInjective
  <2>5. Pos(head, j) + 1 < n /\ Pos(head, j) + 1 < count /\ Pos(head, j) + 1 < N
    <3>1. Pos(head, j) \in 0 .. N - 1 /\ Pos(head, i) \in 0 .. N - 1 /\ n <= count /\ count <= N
      BY <2>1, <1>2, <1>3
    <3>2. ~(n <= Pos(head, j))
      BY <2>1, <2>3, <1>3
    <3> QED BY <3>1, <3>2, <2>4, <1>2, RobSizes
  <2>6. next \in Idx /\ Pos(head, next) = Pos(head, j) + 1
    BY <2>1, <2>5, <1>2, NextPosition
  <2>7. next \notin killed
    <3>1. Pos(head, next) < n
      BY <2>5, <2>6
    <3>2. Pos(head, next) \in Int /\ n \in Int
      BY <2>6, <1>2, <1>3
    <3> QED BY <3>1, <3>2, <1>3
  <2>8. slot'[next].valid /\ slot'[next].gen = x.post.gen
    BY <2>3, <2>5, <2>6, <2>7, <1>3
  <2>9. /\ slot'[j].valid /\ slot'[j].gen = x.tag.gen /\ IsControl(slot'[j].kind)
        /\ ~slot'[j].recov /\ slot'[j].redir = slot[j].redir
    BY <2>1, <2>2, <2>3, <1>3, <1>4
  <2>10. ~slot[j].redir
    BY <2>1, <2>2, <1>1, <1>4
  <2>11. Pos(head', j) < count' /\ Pos(head', j) + 1 < count'
    <3>1. Pos(head, j) \in Int
      BY <2>1, <1>2
    <3> QED BY <3>1, <2>5, <1>1, <1>3
  <2> QED BY <2>1, <2>3, <2>8, <2>9, <2>10, <2>11 DEF ReadyAt, Branch
<1>6. \A x \in branches' : /\ selective_squash_ready(x)'
                           /\ ~slot'[x.tag.idx].recov
                           /\ slot'[x.tag.idx].redir <=> recovering' = x.tag
  <2>1. head' \in Idx
    BY <1>1, <1>2
  <2>2. \A x \in branches' : selective_squash_ready(x)' <=> ReadyAt(x)'
    BY <2>1, <1>5, ReadyByPositionPrime DEF ReadyForm
  <2> QED BY <2>2, <1>1, <1>5, TagsDiffer
<1>7. ASSUME NEW j \in Idx, Control(j)'
      PROVE  /\ ~slot'[j].done => \E x \in branches' : x.tag = Tag(j)'
             /\ slot'[j].redir => slot'[j].recov \/ recovering' = Tag(j)'
  <2>1. slot'[j].valid /\ IsControl(slot'[j].kind)
    BY <1>7 DEF Control
  <2>2. j \notin killed
    <3>1. slot[j].gen \in Gen
      BY DEF IInv, TypeInv, Entry
    <3> QED BY <3>1, <2>1, <1>3, EmptyFields
  <2>3. /\ Control(j) /\ Tag(j)' = Tag(j) /\ Tag(j).idx = j
        /\ slot'[j].done = slot[j].done /\ slot'[j].redir = slot[j].redir
    BY <2>1, <2>2, <1>3 DEF Control, Tag
  <2>4. ASSUME ~slot'[j].done
        PROVE  \E x \in branches' : x.tag = Tag(j)'
    <3>1. PICK x \in branches : x.tag = Tag(j)
      BY <2>3, <2>4, <1>1 DEF IInv, BranchInv
    <3>2. x.tag.idx = j /\ x # o
      BY <3>1, <2>3, <2>4, <1>3
    <3> QED BY <3>1, <3>2, <2>2, <2>3, <1>1
  <2>5. ASSUME slot'[j].redir
        PROVE  slot'[j].recov
    <3>1. slot[j].recov \/ recovering = Tag(j)
      BY <2>3, <2>5, <1>1 DEF IInv, BranchInv
    <3>2. recovering = Tag(j) => j = i
      BY <2>3, <1>1
    <3> QED BY <3>1, <3>2, <2>2, <1>3
  <2> QED BY <2>4, <2>5
<1> QED BY <1>1, <1>6, <1>7 DEF BranchInv

LEMMA SquashInv ==
  ASSUME IInv, Squash
  PROVE  IInv'
<1>1. PICK o, R, killed : SquashParts(o, R, killed)
  BY SquashHasParts, Zenon
<1>2. WindowShape' /\ EntriesInv' /\ head' \in Idx /\ tail' \in Idx /\ count' \in 0 .. N
  BY <1>1, SquashShape, Zenon
<1>3. StaleInv' /\ stale' \subseteq Result
  BY <1>1, SquashStale, Zenon
<1>4. StoreInv' /\ UNCHANGED <<owner, store_done>>
  BY <1>1, SquashStore, Zenon
<1>5. BranchInv'
  BY <1>1, SquashBranch, Zenon
<1>6. slot' \in [Idx -> Entry]
  BY <1>1, SquashFacts DEF SquashedOK
<1>7. /\ branches' \subseteq branches /\ recovering' = NoTag
      /\ UNCHANGED <<identity_error, memory, trap, program>>
  BY <1>1 DEF SquashParts
<1>8. NoTag \in [idx : 0 .. N, gen : Gen]
  BY RobSizes DEF NoTag, Gen
<1> QED BY <1>2, <1>3, <1>4, <1>5, <1>6, <1>7, <1>8 DEF IInv, TypeInv

-----------------------------------------------------------------------------
(* The other actions, and the invariant.                                   *)

LEMMA FlushInv ==
  ASSUME IInv, Flush
  PROVE  IInv'
<1>1. /\ trap /\ head' = 0 /\ tail' = 0 /\ count' = 0
      /\ slot' = [i \in Idx |-> Empty(slot[i].gen)]
      /\ owner' = NoTag /\ store_done' = FALSE /\ identity_error' = FALSE
      /\ branches' = {} /\ recovering' = NoTag /\ trap' = FALSE
      /\ Leave({i \in Idx : slot[i].valid}, {})
      /\ memory' = memory /\ program' = program
  BY DEF Flush
<1>2. 0 \in Idx /\ 0 \in 0 .. N /\ NoTag \in [idx : 0 .. N, gen : Gen]
  BY RobSizes DEF Idx, Gen, NoTag
<1>3. \A i \in Idx : slot[i].gen \in Gen
  BY DEF IInv, TypeInv, Entry
<1>4. \A i \in Idx : /\ slot'[i] \in Entry /\ EntryOK(slot'[i]) /\ slot'[i].gen = slot[i].gen
                     /\ ~slot'[i].valid /\ slot'[i].asked = 0
  BY <1>1, <1>3, EmptyFields
<1>5. slot' \in [Idx -> Entry]
  BY <1>1, <1>4
<1>6. WindowShape'
  <2>1. \A i \in Idx : Pos(0, i) \in 0 .. N - 1
    BY <1>2, PosFacts
  <2>2. Adv(0, 0) = 0
    BY RobSizes DEF Adv
  <2>3. \A i \in Idx : slot'[i].valid <=> Pos(head', i) < count'
    BY <2>1, <1>1, <1>4
  <2>4. Window1'
    BY <2>2, <2>3, <1>1, <1>2 DEF Window1
  <2> QED BY <2>4, ShapeByPositionPrime
<1>7. EntriesInv'
  BY <1>4 DEF EntriesInv
<1>8. StaleInv' /\ stale' \subseteq Result
  <2> DEFINE dead == {i \in Idx : slot[i].valid}
  <2>1. TypeInv /\ StaleInv /\ dead \subseteq Idx /\ Leave(dead, {})
    BY <1>1 DEF IInv
  <2>2. \A i \in dead : ~slot'[i].valid
    BY <1>4
  <2>3. \A i \in Idx : slot'[i].gen = slot[i].gen /\ (slot'[i].valid => slot[i].valid)
    BY <1>4
  <2> HIDE DEF dead
  <2> QED BY <2>1, <2>2, <2>3, <1>5, StaleStep
<1>9. StoreInv'
  <2>1. memory = NoStore
    BY <1>1 DEF IInv, StoreInv
  <2> QED BY <2>1, <1>1, <1>2, <1>4 DEF StoreInv
<1>10. BranchInv'
  BY <1>1, <1>4 DEF BranchInv, Control
<1>11. TypeInv'
  BY <1>1, <1>2, <1>5, <1>8 DEF TypeInv, IInv
<1> QED BY <1>6, <1>7, <1>8, <1>9, <1>10, <1>11 DEF IInv

LEMMA MemoryInv ==
  ASSUME IInv, MemoryAnswers
  PROVE  IInv'
<1>1. PICK st \in {"done", "fault"} : memory' = [memory EXCEPT !.st = st]
  BY DEF MemoryAnswers
<1>2. UNCHANGED <<buffer, owner, store_done, identity_error, stale, branches,
                  recovering, commit, trap, program>>
  BY DEF MemoryAnswers
<1>3. UNCHANGED <<head, tail, count, slot>>
  BY <1>2 DEF buffer
<1>4. memory.st = "busy" /\ memory \in [idx : 0 .. N, gen : Gen, st : {"idle", "busy", "done", "fault"}]
  BY DEF MemoryAnswers, IInv, TypeInv
<1>5. /\ memory' = [idx |-> memory.idx, gen |-> memory.gen, st |-> st]
  BY <1>1, <1>4
<1>6. /\ memory'.idx = memory.idx /\ memory'.gen = memory.gen /\ memory'.st = st
      /\ memory' \in [idx : 0 .. N, gen : Gen, st : {"idle", "busy", "done", "fault"}]
      /\ memory # NoStore /\ memory' # NoStore /\ memory'.st # "idle"
  BY <1>1, <1>4, <1>5 DEF NoStore
<1>7. TypeInv' /\ EntriesInv' /\ StaleInv'
  BY <1>2, <1>3, <1>6 DEF IInv, TypeInv, EntriesInv, StaleInv
<1>8. WindowShape'
  BY <1>3 DEF IInv, WindowShape, Span, advance
<1>9. StoreInv'
  BY <1>2, <1>3, <1>6 DEF IInv, StoreInv, HeadIsStore, Tag, OwnerAnswered
<1>10. BranchInv'
  BY <1>2, <1>3 DEF IInv, BranchInv, Control, Tag, selective_squash_ready, branch_match,
                    boundary_match, survivors, distance_from_head, advance, alloc_gen
<1> QED BY <1>7, <1>8, <1>9, <1>10 DEF IInv

LEMMA StutterInv ==
  ASSUME IInv, UNCHANGED vars
  PROVE  IInv'
<1>1. UNCHANGED <<head, tail, count, slot, owner, store_done, identity_error, stale,
                  branches, recovering, memory, commit, trap, program>>
  BY DEF vars, buffer
<1>2. TypeInv' /\ EntriesInv' /\ StaleInv'
  BY <1>1 DEF IInv, TypeInv, EntriesInv, StaleInv
<1>3. WindowShape'
  BY <1>1 DEF IInv, WindowShape, Span, advance
<1>4. StoreInv'
  BY <1>1 DEF IInv, StoreInv, HeadIsStore, Tag, OwnerAnswered
<1>5. BranchInv'
  BY <1>1 DEF IInv, BranchInv, Control, Tag, selective_squash_ready, branch_match,
              boundary_match, survivors, distance_from_head, advance, alloc_gen
<1> QED BY <1>2, <1>3, <1>4, <1>5 DEF IInv

LEMMA InitInv ==
  ASSUME Init
  PROVE  IInv
<1>1. /\ head = 0 /\ tail = 0 /\ count = 0 /\ slot = [i \in Idx |-> Empty(0)]
      /\ owner = NoTag /\ store_done = FALSE /\ identity_error = FALSE
      /\ stale = {} /\ branches = {} /\ recovering = NoTag
      /\ memory = NoStore /\ trap = FALSE /\ program \in Programs
  BY DEF Init
<1>2. 0 \in Idx /\ 0 \in Gen /\ 0 \in 0 .. N /\ N \in 0 .. N
  BY RobSizes DEF Idx, Gen
<1>3. \A i \in Idx : /\ slot[i] \in Entry /\ EntryOK(slot[i]) /\ ~slot[i].valid
                     /\ slot[i].asked = 0
  BY <1>1, <1>2, EmptyFields
<1>4. slot \in [Idx -> Entry]
  BY <1>1, <1>3
<1>5. NoTag \in [idx : 0 .. N, gen : Gen]
      /\ NoStore \in [idx : 0 .. N, gen : Gen, st : {"idle", "busy", "done", "fault"}]
  BY <1>2 DEF NoTag, NoStore
<1>6. TypeInv
  BY <1>1, <1>2, <1>4, <1>5 DEF TypeInv
<1>7. WindowShape
  <2>1. \A i \in Idx : Pos(0, i) \in 0 .. N - 1
    BY <1>2, PosFacts
  <2>2. Adv(0, 0) = 0
    BY RobSizes DEF Adv
  <2> QED BY <2>1, <2>2, <1>1, <1>2, <1>3, ShapeByPosition DEF Window1
<1>8. EntriesInv /\ StaleInv
  BY <1>1, <1>3 DEF EntriesInv, StaleInv
<1>9. StoreInv
  BY <1>1, <1>2, <1>3 DEF StoreInv
<1>10. BranchInv
  BY <1>1, <1>3 DEF BranchInv, Control
<1> QED BY <1>6, <1>7, <1>8, <1>9, <1>10 DEF IInv

LEMMA Step ==
  ASSUME IInv, [Next]_vars
  PROVE  IInv'
<1>1. CASE ClockEdge
  BY <1>1, EdgeInv
<1>2. CASE MemoryAnswers
  BY <1>2, MemoryInv
<1>3. CASE Squash
  BY <1>3, SquashInv
<1>4. CASE Flush
  BY <1>4, FlushInv
<1>5. CASE UNCHANGED vars
  BY <1>5, StutterInv
<1> QED BY <1>1, <1>2, <1>3, <1>4, <1>5 DEF Next

LEMMA Inductive == Spec => []IInv
<1>1. Init => IInv
  BY InitInv
<1>2. IInv /\ [Next]_vars => IInv'
  BY Step
<1> QED BY <1>1, <1>2, PTL DEF Spec

(* The window is exactly the count entries from head to tail, whatever was *)
(* allocated, retired, squashed or flushed and however often the indices   *)
(* wrapped.                                                                *)
THEOREM WindowHolds == Spec => []WindowShape
<1>1. IInv => WindowShape
  BY DEF IInv
<1> QED BY <1>1, Inductive, PTL

(* No result of an instruction that left, retired, squashed or flushed, is *)
(* accepted by the entry's next owner, as long as results outlive fewer    *)
(* reallocations than there are generations (small_rob.sv:694).            *)
THEOREM StaleResultsRejected == Spec => []StaleRejected
<1>1. IInv => StaleRejected
  BY StaleNeverMatches DEF IInv, StaleRejected
<1> QED BY <1>1, Inductive, PTL

(* An entry in flight took one result if it is done and none before, on    *)
(* whichever lane and however often it is replayed (small_rob.sv:698).     *)
THEOREM ResultsOnce == Spec => []ResultOnce
<1>1. IInv => ResultOnce
  BY DEF IInv, EntriesInv, EntryOK, ResultOnce
<1> QED BY <1>1, Inductive, PTL

(* A squash that is due is never refused: the boundary captured with a     *)
(* branch stays the first entry behind it (small_rob.sv:643).              *)
THEOREM BoundariesExact == Spec => []BoundaryExact
<1>1. IInv => BoundaryExact
  BY DEF IInv, BranchInv, BoundaryExact
<1> QED BY <1>1, Inductive, PTL

(* One store request at a time, of the store at the head, which neither a  *)
(* squash nor a flush takes away before the answer (small_rob.sv:553).     *)
THEOREM StoreOwned == Spec => []StoreOwnership
<1>1. IInv => StoreOwnership
  <2> SUFFICES ASSUME IInv
               PROVE  StoreOwnership
    OBVIOUS
  <2>1. slot[head].performed => ~slot[head].exc
    BY DEF IInv, TypeInv, EntriesInv, EntryOK
  <2> QED BY <2>1 DEF IInv, StoreInv, StoreOwnership
<1> QED BY <1>1, Inductive, PTL

-----------------------------------------------------------------------------
(* The buffer implements InOrderWindow.                                    *)

Win == [k \in 1 .. count |-> slot[advance(head, k - 1)]]

LEMMA FunctionIsSeq ==
  ASSUME NEW S, NEW n \in Nat, NEW f \in [1 .. n -> S]
  PROVE  f \in Seq(S) /\ Len(f) = n
  OBVIOUS

(* The window lists the entries by position.                               *)
WinForm ==
  Window1 /\ slot \in [Idx -> Entry] =>
    /\ Win \in Seq(Entry) /\ Len(Win) = count /\ DOMAIN Win = 1 .. count
    /\ \A k \in 1 .. count : /\ Adv(head, k - 1) \in Idx
                             /\ Pos(head, Adv(head, k - 1)) = k - 1
                             /\ Win[k] = slot[Adv(head, k - 1)]

LEMMA WinFacts == WinForm
<1> SUFFICES ASSUME Window1, slot \in [Idx -> Entry]
             PROVE  /\ Win \in Seq(Entry) /\ Len(Win) = count /\ DOMAIN Win = 1 .. count
                    /\ \A k \in 1 .. count : /\ Adv(head, k - 1) \in Idx
                                             /\ Pos(head, Adv(head, k - 1)) = k - 1
                                             /\ Win[k] = slot[Adv(head, k - 1)]
  BY DEF WinForm
<1>1. head \in Idx /\ count \in 0 .. N /\ count \in Nat
  BY RobSizes DEF Window1
<1>2. ASSUME NEW k \in 1 .. count
      PROVE  /\ Adv(head, k - 1) \in Idx /\ advance(head, k - 1) = Adv(head, k - 1)
             /\ Pos(head, Adv(head, k - 1)) = k - 1
  <2>1. k - 1 \in 0 .. N /\ k - 1 < N
    BY <1>1, RobSizes
  <2> QED BY <2>1, <1>1, Advance, AdvFacts
<1>3. Win \in [1 .. count -> Entry] /\ \A k \in 1 .. count : Win[k] = slot[Adv(head, k - 1)]
  BY <1>2 DEF Win
<1>4. Win \in Seq(Entry) /\ Len(Win) = count
  BY <1>1, <1>3, FunctionIsSeq
<1> QED BY <1>2, <1>3, <1>4

LEMMA WinFactsPrime == WinForm'
  BY WinFacts, PTL

(* One edge of the life of an instruction, as the window sees it.          *)
LEMMA EvolvesByFields ==
  ASSUME NEW e \in Entry, NEW f \in Entry, EntryOK(e), EntryOK(f),
         f.kind = e.kind, f.fate = e.fate,
         e.done => f.done /\ f.redir = e.redir /\ (e.exc => f.exc),
         f.done /\ ~e.done /\ f.exc => f.fate = "exc",
         f.exc /\ ~e.exc /\ e.done => e.kind = "store" /\ e.asked = 1,
         f.asked \in {e.asked, e.asked + 1}, e.performed => f.performed
  PROVE  Window!Evolves(e, f)
<1>1. /\ f.exc \in BOOLEAN /\ f.redir \in BOOLEAN /\ f.done \in BOOLEAN
      /\ f.hits \in 0 .. 1 /\ f.asked \in 0 .. 1
  BY DEF Entry
<1>2. ASSUME f.done, ~e.done
      PROVE  f.exc = (f.fate = "exc") /\ f.redir = (f.fate = "redir")
  <2>1. (f.exc <=> f.fate = "exc") /\ (f.redir <=> f.fate = "redir")
    BY <1>2 DEF EntryOK
  <2>2. PICK x \in BOOLEAN, y \in BOOLEAN : x = (f.fate = "exc") /\ y = (f.fate = "redir")
    BY Zenon
  <2>3. f.exc = x /\ f.redir = y
    BY <2>1, <2>2, <1>1
  <2> QED BY <2>2, <2>3, Zenon
<1>3. f.hits = IF f.done THEN 1 ELSE 0
  BY <1>1 DEF EntryOK
<1>4. /\ f.asked <= 1 /\ (f.asked = 1 => f.kind = "store" /\ f.done)
      /\ (f.performed => f.asked = 1 /\ ~f.exc)
  BY <1>1 DEF EntryOK
<1> QED BY <1>2, <1>3, <1>4, Zenon DEF Window!Evolves

LEMMA EdgeEvolves ==
  ASSUME IInv,
         NEW p0, NEW p1, NEW R, NEW ce, NEW req, NEW b, NEW E, NEW c,
         EdgeParts(p0, p1, R, ce, req, b, E, c), NEW i \in Idx
  PROVE  /\ Window!Evolves(slot[i], E[i]) /\ E[i].recov = slot[i].recov
         /\ i # head => E[i].asked = slot[i].asked
<1>1. /\ slot[i] \in Entry /\ EntryOK(slot[i])
      /\ (R[i] = slot[i] \/ Completes(R, i, {})) /\ head \in Idx
  BY EdgeSettled DEF IInv, TypeInv, EntriesInv, RecordedOK
<1>2. /\ R[i].asked = slot[i].asked /\ R[i].performed = slot[i].performed
      /\ slot[i].done => R[i] = slot[i]
      /\ R[i].done /\ ~slot[i].done => (R[i].exc <=> slot[i].fate = "exc")
  BY <1>1, RecordedEntries
<1>3. /\ E[i] \in Entry /\ EntryOK(E[i]) /\ (i # head => E[i] = R[i])
      /\ E[i].kind = slot[i].kind /\ E[i].fate = slot[i].fate
      /\ E[i].done = R[i].done /\ E[i].redir = R[i].redir /\ E[i].recov = slot[i].recov
      /\ E[head].exc <=> R[head].exc \/ AnswerMatch("fault")
      /\ E[head].performed <=> \/ R[head].performed \/ AnswerMatch("done")
                               \/ req = "performed"
      /\ E[head].asked = R[head].asked + (IF req = "refused" THEN 0 ELSE 1)
  BY EdgeSettled DEF SettledOK
<1>4. AnswerMatch("fault") => /\ slot[head].kind = "store" /\ slot[head].done
                              /\ slot[head].asked = 1
  BY AnswerFacts DEF IInv, HeadIsStore
<1>5. slot[i].asked \in 0 .. 1
  BY <1>1 DEF Entry
<1>6. E[i].asked \in {slot[i].asked, slot[i].asked + 1}
  BY <1>2, <1>3, <1>5
<1>7. slot[i].done => E[i].done /\ E[i].redir = slot[i].redir /\ (slot[i].exc => E[i].exc)
  BY <1>2, <1>3
<1>8. E[i].done /\ ~slot[i].done /\ E[i].exc => E[i].fate = "exc"
  BY <1>2, <1>3, <1>4
<1>9. E[i].exc /\ ~slot[i].exc /\ slot[i].done => slot[i].kind = "store" /\ slot[i].asked = 1
  BY <1>2, <1>3, <1>4
<1>10. slot[i].performed => E[i].performed
  BY <1>2, <1>3
<1>11. Window!Evolves(slot[i], E[i])
  BY <1>1, <1>3, <1>6, <1>7, <1>8, <1>9, <1>10, EvolvesByFields
<1> QED BY <1>2, <1>3, <1>11

(* An edge is an edge of the window: what leaves and what stays is, in     *)
(* order, what was there, evolved, and the bundle behind it.               *)
LEMMA EdgeWindow ==
  ASSUME IInv,
         NEW p0, NEW p1, NEW R, NEW ce, NEW req, NEW b, NEW E, NEW c,
         EdgeParts(p0, p1, R, ce, req, b, E, c)
  PROVE  Window!Edge
<1> DEFINE l == Len(b)
           all == commit' \o Win'
<1>1. Window1 /\ Window1' /\ slot \in [Idx -> Entry] /\ slot' \in [Idx -> Entry]
  BY ShapeByPosition, EdgeShape, ShapeByPositionPrime DEF IInv, TypeInv
<1>2. /\ head \in Idx /\ count \in 0 .. N /\ count' \in 0 .. N /\ count \in Int
  BY <1>1, RobSizes DEF Window1
<1>3. /\ c \in 0 .. 2 /\ c <= count /\ c \in Nat
      /\ c > 0 /\ ControlEvent => c = 1 /\ Window!ControlEvent(E[head])
      /\ c > 0 /\ ~ControlEvent => Window!Retires(E[head])
      /\ c = 2 => /\ Window!Retires(E[head1])
                  /\ E[head].kind \notin Window!Alone
                  /\ E[head1].kind \notin Window!Alone
  BY RetiredFacts DEF IInv
<1>4. /\ l \in 0 .. 2 /\ count + l <= N /\ head' = Adv(head, c) /\ count' = count - c + l
      /\ \A i \in Idx :
           /\ count <= Pos(head, i) /\ Pos(head, i) < count + l =>
                /\ Pos(head, i) - count + 1 \in 1 .. l
                /\ slot'[i] = Allocated(i, b[Pos(head, i) - count + 1])
           /\ Pos(head, i) >= c
              /\ ~(count <= Pos(head, i) /\ Pos(head, i) < count + l)
              => slot'[i] = E[i]
  BY EdgeSlots DEF IInv
<1>5. \A k \in 1 .. l : b[k][1] \in Kinds /\ b[k][2] \in Fates
  BY BundleFacts DEF EdgeParts, IInv, TypeInv
<1> HIDE DEF l
<1>6. E \in [Idx -> Entry]
  BY EdgeSettled DEF SettledOK
<1>7. ~trap /\ (trap' <=> c > 0 /\ ControlEvent)
      /\ commit' = [k \in 1 .. c |-> E[advance(head, k - 1)]]
  <2>1. ~trap /\ trap' = (c > 0 /\ ControlEvent)
        /\ commit' = [k \in 1 .. c |-> E[advance(head, k - 1)]]
    BY Zenon DEF EdgeParts
  <2> QED BY <2>1, Zenon
<1>8. \A k \in 1 .. N : /\ Adv(head, k - 1) \in Idx /\ advance(head, k - 1) = Adv(head, k - 1)
                        /\ Pos(head, Adv(head, k - 1)) = k - 1
  <2> SUFFICES ASSUME NEW k \in 1 .. N
               PROVE  /\ Adv(head, k - 1) \in Idx
                      /\ advance(head, k - 1) = Adv(head, k - 1)
                      /\ Pos(head, Adv(head, k - 1)) = k - 1
    OBVIOUS
  <2>1. k - 1 \in 0 .. N /\ k - 1 < N
    BY RobSizes
  <2> QED BY <2>1, <1>2, Advance, AdvFacts
<1>9. /\ commit' \in Seq(Entry) /\ Len(commit') = c /\ DOMAIN commit' = 1 .. c
      /\ \A k \in 1 .. c : commit'[k] = E[Adv(head, k - 1)]
  <2>1. \A k \in 1 .. c : k \in 1 .. N
    BY <1>2, <1>3, RobSizes
  <2>2. /\ commit' \in [1 .. c -> Entry]
        /\ \A k \in 1 .. c : commit'[k] = E[Adv(head, k - 1)]
    BY <2>1, <1>6, <1>7, <1>8
  <2> QED BY <2>2, <1>3, FunctionIsSeq
<1>10. /\ Win \in Seq(Entry) /\ Len(Win) = count /\ DOMAIN Win = 1 .. count
       /\ \A k \in 1 .. count : Win[k] = slot[Adv(head, k - 1)]
  BY <1>1, WinFacts DEF WinForm
<1>11. /\ Win' \in Seq(Entry) /\ Len(Win') = count' /\ DOMAIN Win' = 1 .. count'
       /\ \A k \in 1 .. count' : Win'[k] = slot'[Adv(head', k - 1)]
  BY <1>1, WinFactsPrime DEF WinForm
<1>12. /\ Len(all) = count + l
       /\ \A k \in 1 .. c : all[k] = commit'[k]
       /\ \A k \in c + 1 .. count + l : all[k] = Win'[k - c]
  <2>1. /\ Len(all) = c + count'
        /\ \A k \in 1 .. c + count' : all[k] = IF k <= c THEN commit'[k] ELSE Win'[k - c]
    BY <1>9, <1>11, ConcatProperties
  <2>2. c + count' = count + l /\ c <= count + l
    BY <1>2, <1>3, <1>4
  <2> HIDE DEF all
  <2> QED BY <2>1, <2>2, <1>2, <1>3, <1>4
<1> HIDE DEF all
<1>13. ASSUME NEW k \in 1 .. count + l
       PROVE  /\ k > c => all[k] = slot'[Adv(head, k - 1)]
              /\ k \in 1 .. N
  <2>1. k \in 1 .. N
    <3>1. count + l <= N /\ count + l \in Int /\ k \in Int /\ k >= 1 /\ k <= count + l
      BY <1>2, <1>4
    <3> QED BY <3>1, RobSizes
  <2>2. ASSUME k > c
        PROVE  all[k] = slot'[Adv(head, k - 1)]
    <3>1. k \in c + 1 .. count + l /\ k - c \in 1 .. count'
      BY <2>2, <1>2, <1>3, <1>4
    <3>2. all[k] = slot'[Adv(head', (k - c) - 1)]
      BY <3>1, <1>11, <1>12
    <3>3. (k - c) - 1 \in 0 .. N /\ c + ((k - c) - 1) = k - 1 /\ k - 1 <= N /\ c \in 0 .. N
      BY <2>1, <2>2, <1>3, RobSizes
    <3>4. Adv(Adv(head, c), (k - c) - 1) = Adv(head, k - 1)
      BY <3>3, <1>2, AdvFacts
    <3> QED BY <3>2, <3>4, <1>4
  <2> QED BY <2>1, <2>2
<1>14. ASSUME NEW k \in 1 .. count
       PROVE  all[k] = E[Adv(head, k - 1)]
  <2>1. k \in 1 .. count + l
    BY <1>2, <1>4
  <2>2. CASE k <= c
    <3>1. k \in 1 .. c
      BY <2>2, <1>3
    <3> QED BY <3>1, <1>9, <1>12
  <2>3. CASE k > c
    <3>1. Pos(head, Adv(head, k - 1)) = k - 1 /\ Adv(head, k - 1) \in Idx
      BY <2>1, <1>8, <1>13
    <3>2. k - 1 >= c /\ ~(count <= k - 1)
      BY <2>3, <1>2, <1>3
    <3>3. slot'[Adv(head, k - 1)] = E[Adv(head, k - 1)]
      BY <3>1, <3>2, <1>4
    <3> QED BY <3>3, <2>1, <2>3, <1>13
  <2> QED BY <2>2, <2>3, <1>2, <1>3
<1>15. ASSUME NEW k \in count + 1 .. count + l
       PROVE  Window!Fresh(all[k])
  <2>1. k \in 1 .. count + l /\ k > c
    BY <1>2, <1>3, <1>4
  <2>2. all[k] = slot'[Adv(head, k - 1)] /\ Adv(head, k - 1) \in Idx
        /\ Pos(head, Adv(head, k - 1)) = k - 1
    BY <2>1, <1>8, <1>13
  <2>3. count <= k - 1 /\ k - 1 < count + l
    BY <1>2, <1>4
  <2>4. /\ (k - 1) - count + 1 \in 1 .. l
        /\ all[k] = Allocated(Adv(head, k - 1), b[(k - 1) - count + 1])
    BY <2>2, <2>3, <1>4
  <2> QED BY <2>2, <2>4, <1>1, <1>5, AllocatedFields
<1>16. ASSUME NEW k \in 1 .. count
       PROVE  /\ Window!Evolves(Win[k], all[k]) /\ all[k].recov = Win[k].recov
              /\ k > 1 => all[k].asked = Win[k].asked
  <2>1. k \in 1 .. N
    BY <1>2, RobSizes
  <2>2. Adv(head, k - 1) \in Idx /\ Pos(head, Adv(head, k - 1)) = k - 1 /\ Pos(head, head) = 0
    BY <2>1, <1>2, <1>8, HeadFacts
  <2>3. k > 1 => Adv(head, k - 1) # head
    BY <2>2
  <2> QED BY <2>2, <2>3, <1>10, <1>14, EdgeEvolves
<1>17. /\ c > 0 => commit'[1] = E[head]
       /\ c = 2 => commit'[2] = E[head1]
  <2>1. Adv(head, 0) = head /\ advance(head, 1) = Adv(head, 1)
    BY <1>2, Advance, AdvFacts, RobSizes
  <2> QED BY <2>1, <1>3, <1>9 DEF head1
<1>18. IF trap' THEN Len(commit') = 1 /\ Window!ControlEvent(commit'[1])
       ELSE /\ Len(commit') <= 2
            /\ \A k \in DOMAIN commit' : Window!Retires(commit'[k])
            /\ Len(commit') = 2 => \A k \in 1 .. 2 : commit'[k].kind \notin Window!Alone
  <2>1. CASE trap'
    BY <2>1, <1>3, <1>7, <1>9, <1>17
  <2>2. CASE ~trap'
    <3>1. \A k \in 1 .. c : Window!Retires(commit'[k])
      <4> SUFFICES ASSUME NEW k \in 1 .. c
                   PROVE  Window!Retires(commit'[k])
        OBVIOUS
      <4>1. c > 0 /\ (k = 1 \/ (k = 2 /\ c = 2))
        BY <1>3
      <4> QED BY <4>1, <2>2, <1>3, <1>7, <1>17
    <3>2. c = 2 => \A k \in 1 .. 2 : commit'[k].kind \notin Window!Alone
      <4> SUFFICES ASSUME c = 2, NEW k \in 1 .. 2
                   PROVE  commit'[k].kind \notin Window!Alone
        OBVIOUS
      <4>1. k = 1 \/ k = 2
        OBVIOUS
      <4> QED BY <4>1, <1>3, <1>17
    <3> QED BY <3>1, <3>2, <2>2, <1>3, <1>9
  <2> QED BY <2>1, <2>2
<1>19. Len(all) \in Len(Win) .. Len(Win) + 2 /\ Len(commit') <= Len(Win)
  BY <1>2, <1>3, <1>4, <1>9, <1>10, <1>12
<1>20. /\ \A k \in DOMAIN Win : /\ Window!Evolves(Win[k], all[k])
                                /\ all[k].recov = Win[k].recov
                                /\ k > 1 => all[k].asked = Win[k].asked
       /\ \A k \in Len(Win) + 1 .. Len(all) : Window!Fresh(all[k])
  BY <1>10, <1>12, <1>15, <1>16
<1> QED BY <1>7, <1>18, <1>19, <1>20, Zenon DEF Window!Edge, Win, all

(* A squash is a cut of the window behind the branch.                      *)
LEMMA SquashWindow ==
  ASSUME IInv, NEW o, NEW R, NEW killed, SquashParts(o, R, killed)
  PROVE  Window!Cut
<1> DEFINE i == o.tag.idx
           n == Pos(head, i) + 1
<1>1. Window1 /\ Window1' /\ slot \in [Idx -> Entry] /\ slot' \in [Idx -> Entry]
  BY ShapeByPosition, SquashShape, SquashFacts, ShapeByPositionPrime
     DEF IInv, TypeInv, SquashedOK
<1>2. head \in Idx /\ count \in 0 .. N /\ head' = head /\ ~trap /\ ~trap' /\ commit' = << >>
  BY <1>1 DEF Window1, SquashParts
<1>3. /\ i \in Idx /\ n \in 1 .. count /\ count' = n /\ i \notin killed
      /\ \A j : j \in killed <=> j \in Idx /\ n <= Pos(head, j) /\ Pos(head, j) < count
      /\ \A j \in Idx : j \notin killed =>
           /\ slot'[j].kind = slot[j].kind /\ slot'[j].fate = slot[j].fate
           /\ slot'[j].asked = slot[j].asked /\ slot'[j].performed = slot[j].performed
           /\ EntryOK(slot'[j])
           /\ slot'[j].done = R[j].done /\ slot'[j].redir = R[j].redir
           /\ slot'[j].exc = R[j].exc
           /\ slot'[j].recov <=> slot[j].recov \/ j = i
           /\ slot[j].done \/ IsControl(slot[j].kind) => R[j] = slot[j]
      /\ slot[i].redir /\ slot[i].done /\ ~slot[i].recov
  BY SquashFacts DEF SquashedOK
<1>4. \A j \in Idx : R[j] = slot[j] \/ Completes(R, j, killed)
  BY DEF SquashParts, RecordedOK
<1>5. ASSUME NEW j \in Idx, j \notin killed
      PROVE  Window!Evolves(slot[j], slot'[j])
  <2>1. slot[j] \in Entry /\ EntryOK(slot[j]) /\ slot'[j] \in Entry
    BY <1>1 DEF IInv, EntriesInv
  <2>2. R[j].done /\ ~slot[j].done => (R[j].exc <=> slot[j].fate = "exc")
    BY <2>1, <1>4, RecordedEntries
  <2>3. slot'[j].asked \in {slot[j].asked, slot[j].asked + 1}
    BY <1>3, <1>5
  <2>4. slot[j].done => /\ slot'[j].done /\ slot'[j].redir = slot[j].redir
                        /\ slot'[j].exc = slot[j].exc
    BY <1>3, <1>5
  <2>5. slot'[j].done /\ ~slot[j].done /\ slot'[j].exc => slot'[j].fate = "exc"
    BY <2>2, <1>3, <1>5
  <2> QED BY <2>1, <2>3, <2>4, <2>5, <1>3, <1>5, EvolvesByFields
<1>6. /\ Win \in Seq(Entry) /\ Len(Win) = count /\ DOMAIN Win = 1 .. count
      /\ \A k \in 1 .. count : /\ Adv(head, k - 1) \in Idx
                               /\ Pos(head, Adv(head, k - 1)) = k - 1
                               /\ Win[k] = slot[Adv(head, k - 1)]
  BY <1>1, WinFacts DEF WinForm
<1>7. /\ Win' \in Seq(Entry) /\ Len(Win') = n
      /\ \A k \in 1 .. n : Win'[k] = slot'[Adv(head, k - 1)]
  <2>1. /\ Win' \in Seq(Entry) /\ Len(Win') = count'
        /\ \A k \in 1 .. count' : Win'[k] = slot'[Adv(head', k - 1)]
    BY <1>1, WinFactsPrime DEF WinForm
  <2> QED BY <2>1, <1>2, <1>3
<1>8. Adv(head, n - 1) = i
  <2>1. n - 1 = Pos(head, i) /\ Adv(head, Pos(head, i)) = i
    BY <1>2, <1>3, PosFacts, RobSizes
  <2> QED BY <2>1
<1> HIDE DEF i, n
<1>9. ASSUME NEW k \in 1 .. n
      PROVE  /\ k \in 1 .. count /\ Adv(head, k - 1) \in Idx /\ Adv(head, k - 1) \notin killed
             /\ k < n => Adv(head, k - 1) # i
  <2>1. k \in 1 .. count /\ n \in Int
    <3>1. n \in 1 .. count /\ count \in 0 .. N
      BY <1>2, <1>3
    <3> QED BY <3>1, RobSizes
  <2>2. Adv(head, k - 1) \in Idx /\ Pos(head, Adv(head, k - 1)) = k - 1
    BY <2>1, <1>6
  <2>3. ~(n <= k - 1)
    BY <2>1
  <2>4. Adv(head, k - 1) \notin killed
    BY <2>2, <2>3, <1>3
  <2>5. k < n => Adv(head, k - 1) # i
    <3>1. n \in 1 .. count
      BY <1>3
    <3>2. Pos(head, i) = n - 1
      BY <3>1, <2>1, <1>6, <1>8, <1>3
    <3> QED BY <3>2, <2>1, <2>2
  <2> QED BY <2>1, <2>2, <2>4, <2>5
<1>10. \A k \in 1 .. n : Window!Evolves(Win[k], Win'[k])
  BY <1>5, <1>6, <1>7, <1>9
<1>11. \A k \in 1 .. n - 1 : Win'[k].recov = Win[k].recov
  <2> SUFFICES ASSUME NEW k \in 1 .. n - 1
               PROVE  Win'[k].recov = Win[k].recov
    OBVIOUS
  <2>1. k \in 1 .. n /\ k < n
    BY <1>2, <1>3
  <2>2. /\ Win'[k] = slot'[Adv(head, k - 1)] /\ Win[k] = slot[Adv(head, k - 1)]
        /\ Adv(head, k - 1) \in Idx /\ Adv(head, k - 1) \notin killed
        /\ Adv(head, k - 1) # i
    BY <2>1, <1>6, <1>7, <1>9
  <2>3. slot'[Adv(head, k - 1)].recov <=> slot[Adv(head, k - 1)].recov
    BY <2>2, <1>3
  <2>4. slot'[Adv(head, k - 1)].recov \in BOOLEAN /\ slot[Adv(head, k - 1)].recov \in BOOLEAN
    BY <2>2, <1>1 DEF Entry
  <2> QED BY <2>2, <2>3, <2>4
<1>12. /\ n \in DOMAIN Win /\ Win[n] = slot[i] /\ Win'[n] = slot'[i]
       /\ Win[n].done /\ Win[n].redir /\ ~Win[n].recov /\ Win'[n].recov
  <2>1. n \in 1 .. count /\ n \in 1 .. n
    BY <1>2, <1>3
  <2>2. Win[n] = slot[i] /\ Win'[n] = slot'[i]
    BY <2>1, <1>6, <1>7, <1>8
  <2> QED BY <2>1, <2>2, <1>3, <1>6
<1> DEFINE w == Len(Win')
<1>13. /\ w \in DOMAIN Win
       /\ Win[w].done /\ Win[w].redir /\ ~Win[w].recov /\ Win'[w].recov
       /\ \A k \in 1 .. w : Window!Evolves(Win[k], Win'[k])
       /\ \A k \in 1 .. w - 1 : Win'[k].recov = Win[k].recov
  BY <1>7, <1>10, <1>11, <1>12
<1> QED BY <1>2, <1>13, Zenon DEF Window!Cut, Win

LEMMA WindowStep ==
  ASSUME IInv, [Next]_vars
  PROVE  [Window!Next]_Window!wvars
<1>1. CASE ClockEdge
  <2>1. PICK p0, p1, R, ce, req, b, E, c : EdgeParts(p0, p1, R, ce, req, b, E, c)
    BY <1>1, EdgeHasParts, Zenon
  <2>2. Window!Edge
    BY <2>1, EdgeWindow, Zenon
  <2> QED BY <2>2 DEF Window!Next
<1>2. CASE Squash
  <2>1. PICK o, R, killed : SquashParts(o, R, killed)
    BY <1>2, SquashHasParts, Zenon
  <2>2. Window!Cut
    BY <2>1, SquashWindow, Zenon
  <2> QED BY <2>2 DEF Window!Next
<1>3. CASE Flush
  <2>1. trap /\ count' = 0 /\ commit' = << >> /\ ~trap'
    BY <1>3 DEF Flush
  <2>2. Window1' /\ slot' \in [Idx -> Entry]
    BY <1>3, FlushInv, ShapeByPositionPrime DEF IInv, TypeInv
  <2>3. Win' \in Seq(Entry) /\ Len(Win') = 0
    BY <2>1, <2>2, WinFactsPrime DEF WinForm
  <2>4. Win' = << >>
    BY <2>3
  <2>5. Window!Flush
    BY <2>1, <2>4, Zenon DEF Window!Flush, Win
  <2> QED BY <2>5 DEF Window!Next
<1>4. CASE MemoryAnswers \/ UNCHANGED vars
  <2>1. UNCHANGED <<head, count, slot, commit, trap>>
    BY <1>4 DEF MemoryAnswers, vars, buffer
  <2>2. UNCHANGED Window!wvars
    BY <2>1 DEF Window!wvars, advance
  <2> QED BY <2>2
<1> QED BY <1>1, <1>2, <1>3, <1>4 DEF Next

(* With its indices, generations, two lanes and bypasses the buffer is the *)
(* in-order window the rest of the core relies on: every instruction       *)
(* completes once with its own outcome, leaves in program order when it    *)
(* may, and a squash cuts exactly behind the branch.                       *)
THEOREM Refinement == Spec => Implements
<1>1. Init => Window!Init
  <2> SUFFICES ASSUME Init
               PROVE  Window!Init
    OBVIOUS
  <2>1. count = 0 /\ commit = << >> /\ trap = FALSE
    BY DEF Init
  <2>2. Window1 /\ slot \in [Idx -> Entry]
    BY InitInv, ShapeByPosition DEF IInv, TypeInv
  <2>3. Win \in Seq(Entry) /\ Len(Win) = 0
    BY <2>1, <2>2, WinFacts DEF WinForm
  <2>4. Win = << >>
    BY <2>3
  <2> QED BY <2>1, <2>4, Zenon DEF Window!Init, Win
<1>2. IInv /\ [Next]_vars => [Window!Next]_Window!wvars
  BY WindowStep
<1> QED BY <1>1, <1>2, Inductive, PTL DEF Spec, Implements, Window!Spec
=============================================================================
