------------------------- MODULE BranchRecoveryProofs -------------------------
(***************************************************************************)
(* Proofs about BranchRecovery for every depth, every set of tags and      *)
(* every program whose faults are reported in order.                       *)
(*                                                                         *)
(* An edge does one of three things to the window: it flushes it, it       *)
(* truncates it behind a mispredicted branch, or it advances.  Each        *)
(* register is described first by what it holds after such an edge         *)
(* (Flushes, Squashes, Advances and the lemmas after them); the parts of   *)
(* the invariant only use these facts.                                     *)
(***************************************************************************)
EXTENDS BranchRecovery, FiniteSetTheorems, TLAPS

-----------------------------------------------------------------------------
(***************************************************************************)
(* The inductive invariant.                                                *)
(***************************************************************************)

(* Nothing reports that it needs control recovery out of order, as in the  *)
(* programs of in_order, or because nothing faults at all.                 *)
FaultsInOrder == program.in_order \/ \A u \in program.insts : u[2] # "exc"

NoneOrTag == Tags \cup {NoTag}
EntryType == [tag : Tags, kind : Kinds, fate : Fates, done : BOOLEAN, recov : BOOLEAN, on : BOOLEAN]

TypeInv ==
  /\ program \in Programs
  /\ win \in Seq(EntryType) /\ window \in Seq(Tags) /\ Len(window) <= 2
  /\ entry \in [0 .. 1 -> NoneOrTag] /\ oldest_idx \in 0 .. 1
  /\ rec_state \in {"active", "transaction"} /\ pending_tag \in NoneOrTag
  /\ ctl_state \in {"idle", "pending", "recover", "redirect"} /\ ctl_tag \in NoneOrTag
  /\ last \in [tag : NoneOrTag, on : BOOLEAN]

(* The instructions in flight are of the program, under tags of their own; *)
(* only a mispredicted branch is marked recovered.                         *)
Distinct == \A j, k \in DOMAIN win : win[j].tag = win[k].tag => j = k
OfProgram ==
  \A k \in DOMAIN win :
    /\ <<win[k].kind, win[k].fate>> \in program.insts
    /\ win[k].recov => win[k].kind = "branch" /\ win[k].fate = "redir" /\ win[k].done

(* A system instruction is the youngest, behind no unresolved branch.      *)
Serialized ==
  \A k \in DOMAIN win : win[k].kind = "sys" =>
    k = Len(win) /\ \A j \in DOMAIN win : ~Unresolved(win[j])

(* The three records of the unresolved branches.                           *)
Tracked ==
  /\ \A k \in DOMAIN win : Unresolved(win[k]) => \E i \in DOMAIN window : window[i] = win[k].tag
  /\ \A i \in DOMAIN window : \E k \in DOMAIN win : window[i] = win[k].tag /\ Unresolved(win[k])
  /\ Len(window) = 2 =>
       \E j, k \in DOMAIN win : j < k /\ window[1] = win[j].tag /\ window[2] = win[k].tag
Checkpointed ==
  /\ \A i \in DOMAIN window : \E n \in 0 .. 1 : entry[n] = window[i]
  /\ \A n \in 0 .. 1 : entry[n] # NoTag => \E i \in DOMAIN window : entry[n] = window[i]
  /\ entry[0] = entry[1] => entry[0] = NoTag
  /\ window # << >> => entry[oldest_idx] = window[1]

(* What has completed and is still to be recovered from has its recovery.  *)
Owns(k) ==
  /\ win[k].tag = ctl_tag /\ win[k].done /\ IsControlWb(win[k])
  /\ ctl_kind = IF win[k].fate = "exc" THEN "exception" ELSE "system"
  /\ \A j \in 1 .. k - 1 : ~Unresolved(win[j]) /\ (program.in_order => Settled(win[j]))
Controlled ==
  /\ ctl_state = "pending" => \E k \in DOMAIN win : Owns(k)
  /\ \A k \in DOMAIN win : win[k].done /\ IsControlWb(win[k]) =>
       ctl_state = "pending" /\ ctl_tag = win[k].tag
Recovered ==
  \A k \in DOMAIN win : win[k].done /\ win[k].fate = "redir" /\ win[k].kind = "branch" =>
    win[k].recov \/ (rec_state = "transaction" /\ pending_tag = win[k].tag)
InTransaction ==
  rec_state = "transaction" =>
    /\ pending_checkpoint /\ Holds(pending_tag)
    /\ \E k \in DOMAIN win : /\ win[k].tag = pending_tag /\ win[k].done /\ ~win[k].recov
                             /\ win[k].kind = "branch" /\ win[k].fate = "redir"

(* The instructions in flight are the right ones as far as nothing wrong   *)
(* has been fetched behind them, and so is what comes next.                *)
Passes(e) == e.fate = "ok" \/ e.recov
OnPath ==
  /\ win # << >> => win[1].on
  /\ \A k \in DOMAIN win : win[k].on /\ Passes(win[k]) =>
       IF k = Len(win) THEN right ELSE win[k + 1].on
  /\ win = << >> /\ ctl_state # "redirect" => right
Restart == ctl_state \in {"recover", "redirect"} => last.tag = ctl_tag /\ last.on
Flushed == ctl_state = "redirect" => win = << >> /\ rec_state = "active"

Quiet == NoProtocolError /\ ~strayed

IInv ==
  /\ FaultsInOrder
  /\ TypeInv /\ Distinct /\ OfProgram /\ Serialized
  /\ InTransaction /\ Restart /\ Flushed /\ Quiet
  /\ ctl_state # "recover" => Tracked /\ Checkpointed /\ Controlled /\ Recovered /\ OnPath

-----------------------------------------------------------------------------
(* The edges.                                                              *)
Chosen(D, final, c, b, t, ready) ==
  /\ D \in Completions /\ final \in control_finals(D) /\ c \in Retirements(D)
  /\ b \in Bundles /\ ready \in redirect_ready /\ t \in Fresh(Len(b))

LEMMA EdgeStep ==
  ASSUME Edge
  PROVE  \E D, final, c, b, t, ready :
           Chosen(D, final, c, b, t, ready) /\ Step(D, final, c, b, t, ready)
  BY DEF Edge, Chosen

(* A tag in flight names one place.                                        *)
LEMMA AtIsPlace ==
  ASSUME Distinct, NEW k \in DOMAIN win
  PROVE  At(win[k].tag) = k
  BY DEF Distinct, At

LEMMA WinFacts ==
  ASSUME TypeInv
  PROVE  /\ Len(win) \in Nat /\ DOMAIN win = 1 .. Len(win)
         /\ (win = << >>) <=> (Len(win) = 0)
         /\ \A k \in DOMAIN win :
              /\ win[k] \in EntryType
              /\ win[k].tag \in Tags /\ win[k].tag # NoTag /\ win[k].tag \in InFlight
              /\ win[k].kind \in Kinds /\ win[k].fate \in Fates
              /\ win[k].done \in BOOLEAN /\ win[k].recov \in BOOLEAN /\ win[k].on \in BOOLEAN
<1>1. win \in Seq(EntryType)
  BY DEF TypeInv
<1>2. Len(win) \in Nat /\ DOMAIN win = 1 .. Len(win) /\ ((win = << >>) <=> (Len(win) = 0))
  BY <1>1
<1>3. ASSUME NEW k \in DOMAIN win
      PROVE  win[k] \in EntryType /\ win[k].tag \in InFlight
  BY <1>1, <1>3 DEF InFlight
<1>4. ASSUME NEW e \in EntryType
      PROVE  /\ e.tag \in Tags /\ e.tag # NoTag /\ e.kind \in Kinds /\ e.fate \in Fates
             /\ e.done \in BOOLEAN /\ e.recov \in BOOLEAN /\ e.on \in BOOLEAN
  BY TagAssumption DEF EntryType
<1> QED BY <1>2, <1>3, <1>4

LEMMA WindowFacts ==
  ASSUME TypeInv
  PROVE  /\ Len(window) \in 0 .. 2 /\ DOMAIN window = 1 .. Len(window)
         /\ (window = << >>) <=> (Len(window) = 0)
         /\ \A i \in DOMAIN window : window[i] \in Tags /\ window[i] # NoTag
  BY TagAssumption DEF TypeInv

LEMMA AtMostOne ==
  ASSUME NEW S, IsFiniteSet(S), Cardinality(S) <= 1, NEW x \in S, NEW y \in S
  PROVE  x = y
<1> SUFFICES ASSUME x # y PROVE FALSE
  OBVIOUS
<1>1. IsFiniteSet({x}) /\ Cardinality({x}) = 1
  BY FS_Singleton
<1>2. {x} \subseteq S /\ {x} # S
  OBVIOUS
<1>3. Cardinality(S) \in Nat /\ Cardinality({x}) <= Cardinality(S)
      /\ (Cardinality({x}) = Cardinality(S) => {x} = S)
  BY <1>2, FS_Subset, FS_CardinalityType
<1> QED BY <1>1, <1>2, <1>3

(* What may complete on an edge.                                           *)
LEMMA CompletionFacts ==
  ASSUME TypeInv, NEW D \in Completions
  PROVE  /\ D \subseteq {k \in DOMAIN win : ~win[k].done}
         /\ recovery_pulse \/ selective_transaction_fire => D = {}
         /\ \A j, k \in D : win[j].kind = "branch" /\ win[k].kind = "branch" => j = k
         /\ program.in_order =>
              \A k \in D : IsControlWb(win[k]) => \A j \in 1 .. k - 1 : Settled(win[j])
<1>1. CASE recovery_pulse \/ selective_transaction_fire
  <2>1. D = {}
    BY <1>1 DEF Completions
  <2> QED BY <2>1
<1>2. CASE ~(recovery_pulse \/ selective_transaction_fire)
  <2>1. D \subseteq {k \in DOMAIN win : ~win[k].done}
    BY <1>2 DEF Completions
  <2>2. /\ Cardinality({k \in D : win[k].kind = "branch"}) <= 1
        /\ program.in_order =>
              \A k \in D : IsControlWb(win[k]) => \A j \in 1 .. k - 1 : Settled(win[j])
    BY <1>2 DEF Completions
  <2>3. IsFiniteSet({k \in D : win[k].kind = "branch"})
    <3>1. IsFiniteSet(DOMAIN win)
      BY WinFacts, FS_Interval
    <3> QED BY <2>1, <3>1, FS_Subset
  <2>4. ASSUME NEW j \in D, NEW k \in D, win[j].kind = "branch", win[k].kind = "branch"
        PROVE  j = k
    BY <2>2, <2>3, <2>4, AtMostOne
  <2> QED BY <1>2, <2>1, <2>2, <2>4
<1> QED BY <1>1, <1>2

-----------------------------------------------------------------------------
(* A flush: everything is cleared and the redirect comes next.             *)
LEMMA NothingCompletes ==
  ASSUME NEW final \in control_finals({})
  PROVE  final.tag = NoTag /\ branch_final({}) = NoFinal
  BY DEF control_finals, branch_final

LEMMA NoFinalFacts ==
  /\ correct_release(NoFinal) = FALSE /\ select_mispredict(NoFinal) = FALSE
  /\ checkpoint_release(NoFinal) = NoTag /\ checkpoint_select(NoFinal) = NoTag
  /\ Holds(NoTag) = FALSE
<1>1. correct_release(NoFinal) = FALSE /\ select_mispredict(NoFinal) = FALSE
  BY DEF correct_release, select_mispredict, NoFinal
<1>2. checkpoint_release(NoFinal) = NoTag /\ checkpoint_select(NoFinal) = NoTag
  BY <1>1 DEF checkpoint_release, checkpoint_select
<1>3. Holds(NoTag) = FALSE
  BY DEF Holds
<1> QED BY <1>1, <1>2, <1>3

LEMMA Frozen0 ==
  ASSUME NEW b, NEW bf, NEW final, NEW event, Dispatchable(b, bf, final, event),
         rec_dispatch_freeze(recovery_pulse) \/ ctl_state # "idle"
  PROVE  b = << >>
  BY DEF Dispatchable, dispatch_freeze, ctl_dispatch_freeze

LEMMA NoBundle ==
  ASSUME NEW t
  PROVE  branch_dispatch_tag(<< >>, t) = NoTag /\ Entries(<< >>, t) = << >>
<1>1. branch_dispatch_tag(<< >>, t) = NoTag
  BY DEF branch_dispatch_tag
<1>2. Entries(<< >>, t) = << >>
  BY DEF Entries
<1> QED BY <1>1, <1>2

LEMMA Flushes ==
  ASSUME IInv, ctl_state = "recover", NEW D, NEW final, NEW c, NEW b, NEW t, NEW ready,
         Chosen(D, final, c, b, t, ready), Step(D, final, c, b, t, ready)
  PROVE  /\ win' = << >> /\ window' = << >> /\ entry' = [i \in 0 .. 1 |-> NoTag]
         /\ oldest_idx' = 0 /\ rec_state' = "active" /\ pending_tag' = NoTag
         /\ ctl_state' = "redirect" /\ ctl_tag' = ctl_tag /\ last' = last
         /\ ckpt_errors' = {} /\ rec_errors' = {} /\ dup_error' = FALSE /\ strayed' = FALSE
         /\ program' = program
<1>1. D = {} /\ final.tag = NoTag /\ branch_final(D) = NoFinal
  <2>1. D = {}
    BY CompletionFacts DEF IInv, Chosen, recovery_pulse
  <2> QED BY <2>1, NothingCompletes DEF Chosen
<1>2. c = 0
  BY DEF Chosen, Retirements, commit_enable, recovery_pulse
<1>3. b = << >>
  BY Frozen0 DEF Step
<1>4. win' = << >>
  BY DEF Step, WindowEdge, recovery_pulse
<1>5. /\ entry' = [i \in 0 .. 1 |-> NoTag] /\ oldest_idx' = 0 /\ ckpt_errors' = {}
  <2>1. /\ entry' = [i \in 0 .. 1 |-> NoTag] /\ ckpt_errors' = {}
        /\ entry'[0] = NoTag => oldest_idx' = IF entry'[1] # NoTag THEN 1 ELSE 0
    BY DEF Step, CheckpointEdge, recovery_pulse
  <2>2. entry'[0] = NoTag /\ entry'[1] = NoTag
    BY <2>1
  <2> QED BY <2>1, <2>2
<1>6. window' = << >> /\ rec_state' = "active" /\ pending_tag' = NoTag /\ rec_errors' = {}
  BY DEF Step, RecoveryEdge, recovery_pulse
<1>7. ctl_state' = "redirect" /\ ctl_tag' = ctl_tag
  BY DEF Step, ControlEdge
<1>8. dup_error' = FALSE
  BY <1>1 DEF Step, ControlEdge, IInv, Quiet, NoProtocolError
<1>9. last' = last /\ strayed' = FALSE /\ program' = program
  BY <1>2 DEF Step, FrontEnd
<1> QED BY <1>4, <1>5, <1>6, <1>7, <1>8, <1>9

LEMMA FlushKeeps ==
  ASSUME IInv, ctl_state = "recover", NEW D, NEW final, NEW c, NEW b, NEW t, NEW ready,
         Chosen(D, final, c, b, t, ready), Step(D, final, c, b, t, ready)
  PROVE  IInv'
<1>0. /\ win' = << >> /\ window' = << >> /\ entry' = [i \in 0 .. 1 |-> NoTag]
      /\ oldest_idx' = 0 /\ rec_state' = "active" /\ pending_tag' = NoTag
      /\ ctl_state' = "redirect" /\ ctl_tag' = ctl_tag /\ last' = last
      /\ ckpt_errors' = {} /\ rec_errors' = {} /\ dup_error' = FALSE /\ strayed' = FALSE
      /\ program' = program
  BY Flushes
<1>1. /\ DOMAIN win' = {} /\ DOMAIN window' = {} /\ Len(window') = 0
      /\ entry'[0] = NoTag /\ entry'[1] = NoTag
  BY <1>0
<1>2. TypeInv'
  <2>1. /\ win' \in Seq(EntryType) /\ window' \in Seq(Tags) /\ Len(window') <= 2
        /\ entry' \in [0 .. 1 -> NoneOrTag] /\ oldest_idx' \in 0 .. 1
    BY <1>0 DEF NoneOrTag
  <2>2. /\ program' \in Programs /\ ctl_tag' \in NoneOrTag
        /\ last' \in [tag : NoneOrTag, on : BOOLEAN] /\ pending_tag' \in NoneOrTag
    BY <1>0 DEF IInv, TypeInv, NoneOrTag
  <2>3. rec_state' \in {"active", "transaction"}
        /\ ctl_state' \in {"idle", "pending", "recover", "redirect"}
    BY <1>0
  <2> QED BY <2>1, <2>2, <2>3 DEF TypeInv, EntryType, NoneOrTag
<1>3. FaultsInOrder'
  BY <1>0 DEF IInv, FaultsInOrder
<1>4. Distinct' /\ OfProgram' /\ Serialized'
  BY <1>1 DEF Distinct, OfProgram, Serialized
<1>5. InTransaction' /\ Restart' /\ Flushed' /\ Quiet'
  BY <1>0 DEF IInv, InTransaction, Restart, Flushed, Quiet, NoProtocolError
<1>6. Tracked' /\ Checkpointed'
  <2>2. Tracked'
    BY <1>1 DEF Tracked
  <2>3. Checkpointed'
    BY <1>0, <1>1 DEF Checkpointed
  <2> QED BY <2>2, <2>3
<1>7. Controlled' /\ Recovered' /\ OnPath'
  BY <1>0, <1>1 DEF Controlled, Recovered, OnPath
<1> QED BY <1>2, <1>3, <1>4, <1>5, <1>6, <1>7 DEF IInv

-----------------------------------------------------------------------------
(* A squash: the window ends at the mispredicted branch.                   *)
LEMMA WithoutFacts ==
  ASSUME TypeInv, Len(window) = 2 => window[1] # window[2], NEW gone
  PROVE  LET W == Without(gone)
         IN /\ W \in Seq(Tags) /\ Len(W) <= Len(window) /\ DOMAIN W = 1 .. Len(W)
            /\ \A i \in DOMAIN W : \E j \in DOMAIN window : W[i] = window[j] /\ window[j] \notin gone
            /\ \A j \in DOMAIN window : window[j] \notin gone => \E i \in DOMAIN W : W[i] = window[j]
            /\ Len(W) = 2 => W = window
            /\ (\E j \in DOMAIN window : window[j] \in gone) => Len(W) < Len(window)
<1> DEFINE left == {k \in DOMAIN window : window[k] \notin gone}
           W == Without(gone)
<1>0. W = IF left = DOMAIN window THEN window
          ELSE IF left = {} THEN << >> ELSE <<window[CHOOSE k \in left : TRUE]>>
  BY DEF Without
<1>00. Len(window) \in 0 .. 2 /\ DOMAIN window = 1 .. Len(window) /\ window \in Seq(Tags)
  BY WindowFacts DEF TypeInv
<1>1. CASE left = DOMAIN window
  <2>1. W = window
    BY <1>0, <1>1
  <2>2. \A j \in DOMAIN window : window[j] \notin gone
    BY <1>1
  <2> HIDE DEF W
  <2> QED BY <2>1, <2>2, <1>00 DEF W
<1>2. CASE left = {}
  <2>1. \A j \in DOMAIN window : window[j] \in gone
    BY <1>2
  <2>2. CASE DOMAIN window = {}
    BY <1>1, <1>2, <2>2
  <2>3. CASE DOMAIN window # {}
    <3>1. W = << >>
      BY <1>0, <1>2, <2>3
    <3>2. Len(W) = 0 /\ DOMAIN W = {} /\ W \in Seq(Tags)
      BY <3>1
    <3>3. Len(window) > 0
      BY <1>00, <2>3
    <3> HIDE DEF W
    <3> QED BY <3>2, <3>3, <2>1, <1>00 DEF W
  <2> QED BY <2>2, <2>3
<1>3. CASE left # DOMAIN window /\ left # {}
  <2> DEFINE m == CHOOSE k \in left : TRUE
  <2>1. m \in left /\ W = <<window[m]>>
    BY <1>0, <1>3
  <2>2. PICK o \in DOMAIN window : o \notin left
    BY <1>3
  <2>3. window[o] \in gone
    BY <2>2
  <2>4. o # m /\ m \in DOMAIN window /\ window[m] \notin gone
    BY <2>1, <2>2
  <2> HIDE DEF m, W
  <2>5. Len(window) = 2 /\ o \in 1 .. 2 /\ m \in 1 .. 2 /\ o # m
    BY <2>2, <2>4, <1>00
  <2>6. \A j \in DOMAIN window : j = o \/ j = m
    BY <2>5, <1>00
  <2>7. W \in Seq(Tags) /\ Len(W) = 1 /\ DOMAIN W = 1 .. 1 /\ W[1] = window[m]
    BY <2>1, <2>4, <1>00
  <2>8. \A j \in DOMAIN window : window[j] \notin gone => window[j] = W[1]
    BY <2>3, <2>6, <2>7
  <2> QED BY <2>3, <2>4, <2>5, <2>7, <2>8, <2>2 DEF W
<1> QED BY <1>1, <1>2, <1>3

LEMMA WindowDistinct ==
  ASSUME TypeInv, Distinct, Tracked
  PROVE  Len(window) = 2 => window[1] # window[2]
<1> SUFFICES ASSUME Len(window) = 2 PROVE window[1] # window[2]
  OBVIOUS
<1>1. PICK j \in DOMAIN win, k \in DOMAIN win :
        j < k /\ window[1] = win[j].tag /\ window[2] = win[k].tag
  BY DEF Tracked
<1>2. j # k
  BY <1>1, WinFacts
<1> QED BY <1>1, <1>2 DEF Distinct

(* The squash is due on the edge after the branch completed.               *)
LEMMA FireFacts ==
  ASSUME IInv
  PROVE  selective_transaction_fire <=> rec_state = "transaction" /\ ctl_state # "recover"
<1>1. selective_transaction_fire => rec_state = "transaction" /\ ctl_state # "recover"
  BY DEF selective_transaction_fire, selective_request_valid, recovery_pulse
<1>2. ASSUME rec_state = "transaction", ctl_state # "recover"
      PROVE  selective_transaction_fire
  <2>1. PICK p \in DOMAIN win : win[p].tag = pending_tag
    BY <1>2 DEF IInv, InTransaction
  <2>2. At(pending_tag) = p
    BY <2>1, AtIsPlace DEF IInv
  <2>3. pending_tag \notin selective_killed
    <3>1. SUFFICES ASSUME NEW k \in DOMAIN win, k > p, win[k].tag = pending_tag PROVE FALSE
      BY <2>2 DEF selective_killed
    <3>2. k = p
      BY <2>1, <3>1 DEF IInv, Distinct
    <3> QED BY <3>1, <3>2, WinFacts DEF IInv
  <2>4. pending_tag \in InFlight /\ pending_checkpoint /\ Holds(pending_tag)
    BY <1>2, <2>1 DEF InFlight, IInv, InTransaction
  <2> QED BY <1>2, <2>3, <2>4 DEF selective_transaction_fire, selective_request_valid,
            recovery_pulse, selective_purge_ready
<1> QED BY <1>1, <1>2

LEMMA SurvivorsFacts ==
  ASSUME TypeInv, Distinct, NEW p \in DOMAIN win, win[p].tag = pending_tag
  PROVE  /\ Survivors \in Seq(EntryType) /\ Len(Survivors) = p /\ DOMAIN Survivors = 1 .. p
         /\ \A k \in 1 .. p - 1 : Survivors[k] = win[k]
         /\ Survivors[p] = [win[p] EXCEPT !.recov = TRUE]
         /\ \A k \in DOMAIN win : win[k].tag \in {pending_tag} \cup selective_killed <=> k >= p
<1>1. At(pending_tag) = p
  BY AtIsPlace
<1>2. p \in 1 .. Len(win) /\ Len(win) \in Nat /\ win \in Seq(EntryType)
  BY WinFacts DEF TypeInv
<1> DEFINE S == SubSeq(win, 1, p)
<1>3. /\ S \in Seq(EntryType) /\ Len(S) = p /\ DOMAIN S = 1 .. p
      /\ \A k \in 1 .. p : S[k] = win[k]
  BY <1>2
<1>4. Survivors = [S EXCEPT ![p] = [win[p] EXCEPT !.recov = TRUE]]
  BY <1>1, <1>2, <1>3 DEF Survivors
<1>5. [win[p] EXCEPT !.recov = TRUE] \in EntryType
  BY WinFacts DEF EntryType
<1> HIDE DEF S
<1>6. /\ Survivors \in Seq(EntryType) /\ Len(Survivors) = p /\ DOMAIN Survivors = 1 .. p
  BY <1>2, <1>3, <1>4, <1>5
<1>7. /\ \A k \in 1 .. p - 1 : Survivors[k] = win[k]
      /\ Survivors[p] = [win[p] EXCEPT !.recov = TRUE]
  BY <1>2, <1>3, <1>4
<1>8. ASSUME NEW k \in DOMAIN win
      PROVE  win[k].tag \in {pending_tag} \cup selective_killed <=> k >= p
  <2>1. win[k].tag = pending_tag <=> k = p
    BY DEF Distinct
  <2>2. win[k].tag \in selective_killed <=> k > p
    BY <1>1 DEF selective_killed, Distinct
  <2> QED BY <2>1, <2>2, WinFacts
<1> QED BY <1>6, <1>7, <1>8

LEMMA OldestNames ==
  ASSUME NEW E \in [0 .. 1 -> NoneOrTag], NEW W \in Seq(Tags), Len(W) <= 2, NEW o,
         \A i \in DOMAIN W : \E n \in 0 .. 1 : E[n] = W[i],
         \A n \in 0 .. 1 : E[n] # NoTag => \E i \in DOMAIN W : E[n] = W[i],
         E[0] = E[1] => E[0] = NoTag,
         E[0] # NoTag /\ E[1] # NoTag /\ Len(W) = 2 => o \in 0 .. 1 /\ E[o] = W[1],
         E[0] = NoTag => o = IF E[1] # NoTag THEN 1 ELSE 0,
         E[0] # NoTag /\ E[1] = NoTag => o = 0,
         W # << >>
  PROVE  E[o] = W[1]
<1>1. Len(W) \in 1 .. 2 /\ DOMAIN W = 1 .. Len(W) /\ W[1] \in Tags /\ W[1] # NoTag
  <2>1. Len(W) \in Nat /\ Len(W) # 0 /\ DOMAIN W = 1 .. Len(W)
    OBVIOUS
  <2>2. Len(W) \in 1 .. 2
    BY <2>1
  <2>3. W[1] \in Tags
    BY <2>2
  <2> QED BY <2>1, <2>2, <2>3, TagAssumption
<1>2. PICK n \in 0 .. 1 : E[n] = W[1]
  BY <1>1
<1>3. CASE E[0] = NoTag
  BY <1>1, <1>2, <1>3
<1>4. CASE E[0] # NoTag /\ E[1] = NoTag
  BY <1>1, <1>2, <1>4
<1>5. CASE E[0] # NoTag /\ E[1] # NoTag
  <2>1. PICK i \in DOMAIN W : E[0] = W[i]
    BY <1>5
  <2>2. PICK j \in DOMAIN W : E[1] = W[j]
    BY <1>5
  <2>3. i # j
    BY <1>5, <2>1, <2>2
  <2>4. Len(W) = 2
    BY <1>1, <2>3
  <2> QED BY <1>5, <2>4
<1> QED BY <1>3, <1>4, <1>5

LEMMA Squashes ==
  ASSUME IInv, ctl_state # "recover", rec_state = "transaction",
         NEW D, NEW final, NEW c, NEW b, NEW t, NEW ready,
         Chosen(D, final, c, b, t, ready), Step(D, final, c, b, t, ready)
  PROVE  /\ win' = Survivors /\ window' = Surviving(selective_killed)
         /\ entry' = Purged(pending_tag, selective_killed, NoTag)
         /\ entry'[0] = NoTag => oldest_idx' = IF entry'[1] # NoTag THEN 1 ELSE 0
         /\ entry'[0] # NoTag => oldest_idx' = IF entry'[1] = NoTag THEN 0 ELSE oldest_idx
         /\ rec_state' = "active" /\ pending_tag' = NoTag
         /\ ctl_state' = ctl_state /\ ctl_tag' = ctl_tag /\ ctl_kind' = ctl_kind
         /\ ckpt_errors' = {} /\ rec_errors' = {} /\ dup_error' = FALSE /\ strayed' = FALSE
         /\ last' = last /\ program' = program
         /\ Len(win') > 0 =>
              right' = (win'[Len(win')].tag = pending_tag /\ win'[Len(win')].on)
<1>0. selective_transaction_fire /\ ~recovery_pulse /\ ctl_state # "redirect"
  BY FireFacts DEF recovery_pulse, IInv, Flushed
<1>1. D = {} /\ final.tag = NoTag /\ branch_final(D) = NoFinal
  <2>1. D = {}
    BY <1>0, CompletionFacts DEF IInv, Chosen
  <2> QED BY <2>1, NothingCompletes DEF Chosen
<1>2. c = 0
  BY <1>0 DEF Chosen, Retirements, commit_enable, selective_request_valid
<1>3. b = << >> /\ branch_dispatch_tag(b, t) = NoTag
  <2>1. b = << >>
    BY Frozen0 DEF Step, rec_dispatch_freeze
  <2> QED BY <2>1, NoBundle
<1>4. pending_tag # NoTag /\ Holds(pending_tag) /\ pending_tag \notin selective_killed
  BY <1>0 DEF Holds, selective_transaction_fire, selective_purge_ready
<1>5. win' = Survivors
  BY <1>0 DEF Step, WindowEdge
<1>6. RetireEvent(c) = [tag |-> NoTag, exc |-> FALSE] /\ ready = TRUE
  BY <1>2 DEF RetireEvent, Chosen, redirect_ready
<1>7. /\ entry' = Purged(pending_tag, selective_killed, NoTag) /\ ckpt_errors' = {}
      /\ entry'[0] = NoTag => oldest_idx' = IF entry'[1] # NoTag THEN 1 ELSE 0
      /\ entry'[0] # NoTag => oldest_idx' = IF entry'[1] = NoTag THEN 0 ELSE oldest_idx
  <2>1. CheckpointEdge(recovery_pulse, NoTag, NoTag, pending_tag, selective_killed, NoTag)
    <3>1. (IF selective_transaction_fire THEN pending_tag ELSE NoTag) = pending_tag
      BY <1>0
    <3>2. CheckpointEdge(recovery_pulse, checkpoint_release(branch_final(D)),
              checkpoint_select(branch_final(D)),
              IF selective_transaction_fire THEN pending_tag ELSE NoTag,
              selective_killed, branch_dispatch_tag(b, t))
      BY DEF Step
    <3> QED BY <3>1, <3>2, <1>1, <1>3, NoFinalFacts
  <2>2. selective_purge_ready(pending_tag, selective_killed, recovery_pulse)
    BY <1>0, <1>4 DEF selective_purge_ready
  <2>3. entry' = Purged(pending_tag, selective_killed, NoTag)
    BY <1>0, <1>4, <2>1, <2>2 DEF CheckpointEdge
  <2>4. oldest_idx' = IF entry'[0] = NoTag THEN (IF entry'[1] # NoTag THEN 1 ELSE 0)
                      ELSE IF entry'[1] = NoTag THEN 0 ELSE oldest_idx
    BY <1>0, <2>1 DEF CheckpointEdge
  <2>5. ckpt_errors' = {}
    <3>1. ckpt_errors = {}
      BY DEF IInv, Quiet, NoProtocolError
    <3> QED BY <1>0, <1>4, <2>1, <3>1, NoFinalFacts DEF CheckpointEdge
  <2> QED BY <2>3, <2>4, <2>5
<1>8. /\ window' = Surviving(selective_killed) /\ rec_state' = "active"
      /\ pending_tag' = NoTag /\ rec_errors' = {}
  <2>1. RecoveryEdge(recovery_pulse, NoFinal, Holds(NoTag), NoTag,
          selective_transaction_fire, selective_killed, ready /\ ~ctl_redirect_valid)
    <3>1. RecoveryEdge(recovery_pulse, branch_final(D), Holds(checkpoint_select(branch_final(D))),
            branch_dispatch_tag(b, t), selective_transaction_fire, selective_killed,
            ready /\ ~ctl_redirect_valid)
      BY DEF Step
    <3>2. checkpoint_select(branch_final(D)) = NoTag
      BY <1>1, NoFinalFacts
    <3> QED BY <3>1, <3>2, <1>1, <1>3
  <2>0. ready /\ ~ctl_redirect_valid
    BY <1>0, <1>6 DEF ctl_redirect_valid
  <2>2. window' = Surviving(selective_killed) /\ rec_state' = "active"
    BY <1>0, <2>0, <2>1, NoFinalFacts DEF RecoveryEdge
  <2>3. pending_tag' = NoTag
    BY <1>0, <2>1, <2>2, NoFinalFacts DEF RecoveryEdge
  <2>4. rec_errors' = {}
    <3>1. rec_errors = {}
      BY DEF IInv, Quiet, NoProtocolError
    <3> QED BY <1>0, <2>1, <3>1, NoFinalFacts DEF RecoveryEdge, NoFinal
  <2> QED BY <2>2, <2>3, <2>4
<1>9. ctl_state' = ctl_state /\ ctl_tag' = ctl_tag /\ ctl_kind' = ctl_kind
  <2>1. ControlEdge(final, RetireEvent(c), ready)
    BY DEF Step
  <2>2. ~direct_exception_commit(RetireEvent(c)) /\ ~control_commit(RetireEvent(c))
    BY <1>6 DEF direct_exception_commit, control_commit
  <2> QED BY <1>0, <1>1, <2>1, <2>2 DEF ControlEdge
<1>10. dup_error' = FALSE
  BY <1>1 DEF Step, ControlEdge, IInv, Quiet, NoProtocolError
<1>11. last' = last /\ strayed' = FALSE /\ program' = program
  BY <1>2 DEF Step, FrontEnd
<1>12. Len(win') > 0 => right' = (win'[Len(win')].tag = pending_tag /\ win'[Len(win')].on)
  <2>1. redirect_accepted(ready) /\ redirect_tag = pending_tag
    BY <1>0, <1>6 DEF redirect_accepted, branch_redirect_valid, rec_redirect_valid,
       redirect_tag, ctl_redirect_valid
  <2>2. SUFFICES ASSUME Len(win') > 0
                 PROVE  right' = (win'[Len(win')].tag = pending_tag /\ win'[Len(win')].on)
    OBVIOUS
  <2>3. win' # << >>
    BY <2>2
  <2> QED BY <2>1, <2>3 DEF Step, FrontEnd
<1> QED BY <1>5, <1>7, <1>8, <1>9, <1>10, <1>11, <1>12

LEMMA SquashKeeps ==
  ASSUME IInv, ctl_state # "recover", rec_state = "transaction",
         NEW D, NEW final, NEW c, NEW b, NEW t, NEW ready,
         Chosen(D, final, c, b, t, ready), Step(D, final, c, b, t, ready)
  PROVE  IInv'
<1>0. /\ win' = Survivors /\ window' = Surviving(selective_killed)
      /\ entry' = Purged(pending_tag, selective_killed, NoTag)
      /\ entry'[0] = NoTag => oldest_idx' = IF entry'[1] # NoTag THEN 1 ELSE 0
      /\ entry'[0] # NoTag => oldest_idx' = IF entry'[1] = NoTag THEN 0 ELSE oldest_idx
      /\ rec_state' = "active" /\ pending_tag' = NoTag
      /\ ctl_state' = ctl_state /\ ctl_tag' = ctl_tag /\ ctl_kind' = ctl_kind
      /\ ckpt_errors' = {} /\ rec_errors' = {} /\ dup_error' = FALSE /\ strayed' = FALSE
      /\ last' = last /\ program' = program
      /\ Len(win') > 0 =>
              right' = (win'[Len(win')].tag = pending_tag /\ win'[Len(win')].on)
  BY Squashes
<1>00. /\ TypeInv /\ Distinct /\ OfProgram /\ Serialized /\ Tracked /\ Checkpointed
       /\ Controlled /\ Recovered /\ OnPath /\ Flushed
  BY DEF IInv
<1>1. PICK p \in DOMAIN win :
        /\ win[p].tag = pending_tag /\ win[p].done /\ ~win[p].recov
        /\ win[p].kind = "branch" /\ win[p].fate = "redir"
  BY DEF IInv, InTransaction
<1>2. p \in 1 .. Len(win) /\ Len(win) \in Nat /\ DOMAIN win = 1 .. Len(win)
      /\ \A k \in DOMAIN win : win[k] \in EntryType
  BY <1>00, WinFacts
<1>3. /\ win' \in Seq(EntryType) /\ Len(win') = p /\ DOMAIN win' = 1 .. p
      /\ \A k \in 1 .. p - 1 : win'[k] = win[k]
      /\ win'[p] = [win[p] EXCEPT !.recov = TRUE]
      /\ \A k \in DOMAIN win : win[k].tag \in {pending_tag} \cup selective_killed <=> k >= p
  BY <1>0, <1>00, <1>1, SurvivorsFacts
<1>4. ASSUME NEW k \in 1 .. p
      PROVE  /\ k \in DOMAIN win
             /\ win'[k].tag = win[k].tag /\ win'[k].kind = win[k].kind
             /\ win'[k].fate = win[k].fate /\ win'[k].done = win[k].done
             /\ win'[k].on = win[k].on
             /\ k # p => win'[k].recov = win[k].recov
             /\ k = p => win'[k].recov = TRUE
  <2>1. CASE k = p
    BY <1>2, <1>3, <2>1 DEF EntryType
  <2>2. CASE k # p
    <3>1. k \in 1 .. p - 1
      BY <1>2, <2>2
    <3> QED BY <1>2, <1>3, <2>2, <3>1
  <2> QED BY <2>1, <2>2
<1>5. ASSUME NEW k \in 1 .. p
      PROVE  /\ Settled(win'[k]) <=> Settled(win[k]) \/ k = p
             /\ Unresolved(win'[k]) <=> Unresolved(win[k]) /\ k # p
  <2>1. Settled(win'[p])
    <3>1. p \in 1 .. p
      BY <1>2
    <3>2. win'[p].done /\ win'[p].recov
      BY <1>1, <1>4, <3>1
    <3> QED BY <3>2 DEF Settled
  <2>2. CASE k = p
    BY <2>1, <2>2 DEF Unresolved
  <2>3. CASE k # p
    <3>1. win'[k] = win[k]
      BY <1>2, <1>3, <2>3
    <3> QED BY <2>3, <3>1
  <2> QED BY <2>2, <2>3
<1>6. Unresolved(win[p])
  BY <1>1 DEF Unresolved, Settled
<1>7. /\ window' \in Seq(Tags) /\ Len(window') <= Len(window) /\ DOMAIN window' = 1 .. Len(window')
      /\ \A i \in DOMAIN window' : \E j \in DOMAIN window :
           window'[i] = window[j] /\ window[j] \notin {pending_tag} \cup selective_killed
      /\ \A j \in DOMAIN window : window[j] \notin {pending_tag} \cup selective_killed =>
           \E i \in DOMAIN window' : window'[i] = window[j]
      /\ Len(window') = 2 => window' = window
  <2> DEFINE gone == {pending_tag} \cup selective_killed
             W == Without(gone)
  <2>1. Len(window) = 2 => window[1] # window[2]
    BY <1>00, WindowDistinct
  <2>2. /\ W \in Seq(Tags) /\ Len(W) <= Len(window) /\ DOMAIN W = 1 .. Len(W)
        /\ \A i \in DOMAIN W : \E j \in DOMAIN window : W[i] = window[j] /\ window[j] \notin gone
        /\ \A j \in DOMAIN window : window[j] \notin gone => \E i \in DOMAIN W : W[i] = window[j]
        /\ Len(W) = 2 => W = window
    <3> HIDE DEF gone
    <3> QED BY <1>00, <2>1, WithoutFacts
  <2>3. window' = W
    BY <1>0 DEF Surviving
  <2> HIDE DEF W
  <2> QED BY <2>2, <2>3
<1>8. Len(window') <= 2
  <2>1. Len(window) \in Nat /\ Len(window) <= 2
    BY <1>00, WindowFacts
  <2>2. Len(window') \in Nat
    <3>1. window' \in Seq(Tags)
      BY <1>7
    <3> QED BY <3>1
  <2>3. Len(window') <= Len(window)
    BY <1>7
  <2> DEFINE m == Len(window')
             n == Len(window)
  <2>4. m \in Nat /\ n \in Nat /\ n <= 2 /\ m <= n
    BY <2>1, <2>2, <2>3
  <2> HIDE DEF m, n
  <2>5. m <= 2
    BY <2>4
  <2> QED BY <2>5 DEF m
<1>9. TypeInv'
  <2>1. entry' \in [0 .. 1 -> NoneOrTag] /\ oldest_idx' \in 0 .. 1
    BY <1>0, <1>00 DEF Purged, TypeInv, NoneOrTag
  <2>2. win' \in Seq(EntryType) /\ window' \in Seq(Tags) /\ Len(window') <= 2
    <3>1. win' \in Seq(EntryType)
      BY <1>3
    <3>2. window' \in Seq(Tags)
      BY <1>7
    <3> QED BY <1>8, <3>1, <3>2
  <2>3. /\ program' \in Programs /\ ctl_tag' \in NoneOrTag /\ pending_tag' \in NoneOrTag
        /\ last' \in [tag : NoneOrTag, on : BOOLEAN]
        /\ rec_state' \in {"active", "transaction"}
        /\ ctl_state' \in {"idle", "pending", "recover", "redirect"}
    BY <1>0, <1>00 DEF TypeInv, NoneOrTag
  <2> QED BY <2>1, <2>2, <2>3 DEF TypeInv, EntryType, NoneOrTag
<1>10. FaultsInOrder'
  BY <1>0 DEF IInv, FaultsInOrder
<1>11. Distinct'
  <2>1. SUFFICES ASSUME NEW j \in 1 .. p, NEW k \in 1 .. p, win'[j].tag = win'[k].tag
                 PROVE  j = k
    BY <1>3 DEF Distinct
  <2>2. win[j].tag = win[k].tag /\ j \in DOMAIN win /\ k \in DOMAIN win
    BY <1>4, <2>1
  <2> QED BY <1>00, <2>2 DEF Distinct
<1>12. OfProgram'
  <2>1. SUFFICES ASSUME NEW k \in 1 .. p
                 PROVE  /\ <<win'[k].kind, win'[k].fate>> \in program.insts
                        /\ win'[k].recov => win'[k].kind = "branch" /\ win'[k].fate = "redir"
                                              /\ win'[k].done
    BY <1>0, <1>3 DEF OfProgram
  <2> QED BY <1>00, <1>1, <1>4 DEF OfProgram
<1>13. Serialized'
  <2>1. SUFFICES ASSUME NEW k \in 1 .. p, win'[k].kind = "sys" PROVE FALSE
    BY <1>3 DEF Serialized
  <2>2. win[k].kind = "sys"
    BY <1>4, <2>1
  <2> QED BY <1>00, <1>4, <1>6, <2>2 DEF Serialized
<1>14. ASSUME NEW k \in DOMAIN win, Unresolved(win[k])
       PROVE  \E i \in DOMAIN window : window[i] = win[k].tag
  BY <1>00, <1>14 DEF Tracked
<1>15. Tracked'
  <2>1. ASSUME NEW k \in DOMAIN win', Unresolved(win'[k])
        PROVE  \E i \in DOMAIN window' : window'[i] = win'[k].tag
    <3>1. k \in 1 .. p /\ k # p /\ Unresolved(win[k]) /\ k \in DOMAIN win
      BY <1>3, <1>4, <1>5, <2>1
    <3>2. PICK j \in DOMAIN window : window[j] = win[k].tag
      BY <1>14, <3>1
    <3>3. window[j] \notin {pending_tag} \cup selective_killed
      BY <1>2, <1>3, <3>1, <3>2
    <3>4. win'[k].tag = win[k].tag
      BY <1>4, <3>1
    <3> QED BY <1>7, <3>2, <3>3, <3>4
  <2>2. ASSUME NEW i \in DOMAIN window'
        PROVE  \E k \in DOMAIN win' : window'[i] = win'[k].tag /\ Unresolved(win'[k])
    <3>1. PICK j \in DOMAIN window :
            window'[i] = window[j] /\ window[j] \notin {pending_tag} \cup selective_killed
      BY <1>7
    <3>2. PICK k \in DOMAIN win : window[j] = win[k].tag /\ Unresolved(win[k])
      BY <1>00 DEF Tracked
    <3>3. ~(k >= p)
      BY <1>3, <3>1, <3>2
    <3>4. k \in 1 .. p /\ k # p
      BY <1>2, <3>3
    <3> QED BY <1>3, <1>4, <1>5, <3>1, <3>2, <3>4
  <2>3. ASSUME Len(window') = 2
        PROVE  \E j, k \in DOMAIN win' :
                 j < k /\ window'[1] = win'[j].tag /\ window'[2] = win'[k].tag
    <3>1. window' = window /\ Len(window) = 2
      BY <1>7, <2>3
    <3>2. PICK j \in DOMAIN win, k \in DOMAIN win :
            j < k /\ window[1] = win[j].tag /\ window[2] = win[k].tag
      BY <1>00, <3>1 DEF Tracked
    <3>3. PICK m \in DOMAIN window :
            window'[2] = window[m] /\ window[m] \notin {pending_tag} \cup selective_killed
      BY <1>7, <2>3
    <3>4. win[k].tag \notin {pending_tag} \cup selective_killed
      BY <3>1, <3>2, <3>3
    <3>5. ~(k >= p)
      BY <1>3, <3>4
    <3>6. k \in 1 .. p /\ j \in 1 .. p
      BY <1>2, <3>2, <3>5
    <3>7. window'[1] = win'[j].tag /\ window'[2] = win'[k].tag
      BY <1>4, <3>1, <3>2, <3>6
    <3> QED BY <1>3, <3>2, <3>6, <3>7
  <2> QED BY <2>1, <2>2, <2>3 DEF Tracked
<1>16. Checkpointed'
  <2>0. entry \in [0 .. 1 -> NoneOrTag] /\ entry' \in [0 .. 1 -> NoneOrTag]
    BY <1>00, <1>9 DEF TypeInv
  <2>1. ASSUME NEW n \in 0 .. 1
        PROVE  entry'[n] = IF entry[n] \in {pending_tag, NoTag} \cup selective_killed
                           THEN NoTag ELSE entry[n]
    BY <1>0 DEF Purged
  <2>2. ASSUME NEW i \in DOMAIN window'
        PROVE  \E n \in 0 .. 1 : entry'[n] = window'[i]
    <3>1. PICK j \in DOMAIN window :
            window'[i] = window[j] /\ window[j] \notin {pending_tag} \cup selective_killed
      BY <1>7
    <3>2. PICK n \in 0 .. 1 : entry[n] = window[j]
      BY <1>00 DEF Checkpointed
    <3>3. window[j] # NoTag
      BY <1>00, WindowFacts
    <3> QED BY <2>1, <3>1, <3>2, <3>3
  <2>3. ASSUME NEW n \in 0 .. 1, entry'[n] # NoTag
        PROVE  \E i \in DOMAIN window' : entry'[n] = window'[i]
    <3>1. entry'[n] = entry[n] /\ entry[n] \notin {pending_tag} \cup selective_killed
          /\ entry[n] # NoTag
      BY <2>1, <2>3
    <3>2. PICK j \in DOMAIN window : entry[n] = window[j]
      BY <1>00, <3>1 DEF Checkpointed
    <3> QED BY <1>7, <3>1, <3>2
  <2>4. entry'[0] = entry'[1] => entry'[0] = NoTag
    BY <1>00, <2>1 DEF Checkpointed
  <2>5. ASSUME window' # << >>
        PROVE  entry'[oldest_idx'] = window'[1]
    <3>1. ASSUME entry'[0] # NoTag /\ entry'[1] # NoTag /\ Len(window') = 2
          PROVE  oldest_idx' \in 0 .. 1 /\ entry'[oldest_idx'] = window'[1]
      <4>1. oldest_idx' = oldest_idx /\ oldest_idx \in 0 .. 1
        BY <1>0, <1>00, <3>1 DEF TypeInv
      <4>2. entry'[0] = entry[0] /\ entry'[1] = entry[1]
        BY <2>1, <3>1
      <4>3. window' = window /\ window # << >>
        BY <1>7, <2>5, <3>1
      <4>4. entry[oldest_idx] = window[1]
        BY <1>00, <4>3 DEF Checkpointed
      <4> QED BY <4>1, <4>2, <4>3, <4>4
    <3> DEFINE E == entry'
               W == window'
               o == oldest_idx'
    <3>2. /\ E \in [0 .. 1 -> NoneOrTag] /\ W \in Seq(Tags) /\ Len(W) <= 2
          /\ \A i \in DOMAIN W : \E n \in 0 .. 1 : E[n] = W[i]
          /\ \A n \in 0 .. 1 : E[n] # NoTag => \E i \in DOMAIN W : E[n] = W[i]
          /\ E[0] = E[1] => E[0] = NoTag
          /\ E[0] # NoTag /\ E[1] # NoTag /\ Len(W) = 2 => o \in 0 .. 1 /\ E[o] = W[1]
          /\ E[0] = NoTag => o = IF E[1] # NoTag THEN 1 ELSE 0
          /\ E[0] # NoTag /\ E[1] = NoTag => o = 0
          /\ W # << >>
      <4>1. W \in Seq(Tags)
        BY <1>7
      <4>2. Len(W) <= 2
        BY <1>8
      <4>3. /\ E[0] = NoTag => o = IF E[1] # NoTag THEN 1 ELSE 0
            /\ E[0] # NoTag /\ E[1] = NoTag => o = 0
        BY <1>0
      <4>4. E \in [0 .. 1 -> NoneOrTag]
        BY <2>0
      <4>5. /\ \A i \in DOMAIN W : \E n \in 0 .. 1 : E[n] = W[i]
            /\ \A n \in 0 .. 1 : E[n] # NoTag => \E i \in DOMAIN W : E[n] = W[i]
        BY <2>2, <2>3
      <4>6. E[0] # NoTag /\ E[1] # NoTag /\ Len(W) = 2 => o \in 0 .. 1 /\ E[o] = W[1]
        BY <3>1
      <4> QED BY <2>4, <2>5, <4>1, <4>2, <4>3, <4>4, <4>5, <4>6
    <3> HIDE DEF E, W, o
    <3>3. E[o] = W[1]
      BY <3>2, OldestNames
    <3> QED BY <3>3 DEF E, W, o
  <2> QED BY <2>2, <2>3, <2>4, <2>5 DEF Checkpointed
<1>17. Controlled'
  <2>1. ASSUME ctl_state' = "pending"
        PROVE  \E k \in DOMAIN win' : Owns(k)'
    <3>1. PICK k \in DOMAIN win : Owns(k)
      BY <1>0, <1>00, <2>1 DEF Controlled
    <3>2. k < p
      <4>1. k # p
        BY <1>1, <3>1 DEF Owns, IsControlWb
      <4>2. ~(p \in 1 .. k - 1)
        BY <1>6, <3>1 DEF Owns
      <4> QED BY <1>2, <4>1, <4>2
    <3>3. k \in 1 .. p /\ win'[k] = win[k]
      BY <1>2, <1>3, <3>2
    <3>4. \A j \in 1 .. k - 1 : win'[j] = win[j]
      BY <1>2, <1>3, <3>2
    <3>5. Owns(k)'
      BY <1>0, <3>1, <3>3, <3>4 DEF Owns
    <3> QED BY <1>3, <3>3, <3>5
  <2>2. ASSUME NEW k \in DOMAIN win', win'[k].done /\ IsControlWb(win'[k])
        PROVE  ctl_state' = "pending" /\ ctl_tag' = win'[k].tag
    <3>1. k \in 1 .. p
      BY <1>3
    <3>2. k # p
      BY <1>1, <1>4, <2>2, <3>1 DEF IsControlWb
    <3>3. win'[k] = win[k] /\ k \in DOMAIN win
      BY <1>2, <1>3, <1>4, <3>1, <3>2
    <3> QED BY <1>0, <1>00, <2>2, <3>3 DEF Controlled
  <2> QED BY <2>1, <2>2 DEF Controlled
<1>18. Recovered'
  <2>1. SUFFICES ASSUME NEW k \in 1 .. p, win'[k].done /\ win'[k].fate = "redir" /\ win'[k].kind = "branch"
                 PROVE  win'[k].recov
    BY <1>3 DEF Recovered
  <2>2. CASE k = p
    BY <1>4, <2>2
  <2>3. CASE k # p
    <3>1. win[k].recov \/ pending_tag = win[k].tag
      BY <1>00, <1>4, <2>1 DEF Recovered
    <3>2. pending_tag # win[k].tag
      BY <1>00, <1>1, <1>4, <2>3 DEF Distinct
    <3> QED BY <1>4, <2>3, <3>1, <3>2
  <2> QED BY <2>2, <2>3
<1>19. OnPath'
  <2>1. win' # << >> /\ Len(win') > 0
    BY <1>2, <1>3
  <2>2. win'[1].on
    <3>1. win[1].on /\ 1 \in 1 .. p
      BY <1>00, <1>2 DEF OnPath
    <3> QED BY <1>4, <3>1
  <2>3. ASSUME NEW k \in DOMAIN win', win'[k].on, Passes(win'[k])
        PROVE  IF k = Len(win') THEN right' ELSE win'[k + 1].on
    <3>1. k \in 1 .. p
      BY <1>3
    <3>2. CASE k = p
      BY <1>0, <1>1, <1>3, <1>4, <2>1, <2>3, <3>1, <3>2
    <3>3. CASE k # p
      <4>1. win'[k] = win[k] /\ k # Len(win) /\ k \in DOMAIN win /\ k + 1 \in 1 .. p
        BY <1>2, <1>3, <3>1, <3>3
      <4>2. win[k + 1].on
        BY <1>00, <2>3, <4>1 DEF OnPath
      <4> QED BY <1>3, <1>4, <3>3, <4>1, <4>2
    <3> QED BY <3>2, <3>3
  <2> QED BY <2>1, <2>2, <2>3 DEF OnPath
<1>20. InTransaction' /\ Quiet' /\ Flushed' /\ Restart'
  <2>1. ctl_state # "redirect"
    BY <1>00 DEF Flushed
  <2> QED BY <1>0, <2>1 DEF InTransaction, Quiet, NoProtocolError, Flushed, Restart
<1> QED BY <1>9, <1>10, <1>11, <1>12, <1>13, <1>15, <1>16, <1>17, <1>18, <1>19, <1>20
        DEF IInv

-----------------------------------------------------------------------------
(* An ordinary edge: what completes is marked, what retires leaves at the  *)
(* front and what is dispatched comes in behind.                           *)
Advanced(D, c, b, t) ==
  /\ c \in 0 .. 2 /\ c <= Len(win) /\ Len(b) \in 0 .. 2
  /\ win' \in Seq(EntryType) /\ Len(win') = (Len(win) - c) + Len(b)
  /\ DOMAIN win' = 1 .. (Len(win) - c) + Len(b)
  /\ \A k \in 1 .. Len(win) - c :
       /\ k + c \in DOMAIN win
       /\ win'[k].tag = win[k + c].tag /\ win'[k].kind = win[k + c].kind
       /\ win'[k].fate = win[k + c].fate /\ win'[k].recov = win[k + c].recov
       /\ win'[k].on = win[k + c].on
       /\ win'[k].done <=> win[k + c].done \/ k + c \in D
  /\ \A m \in 1 .. Len(b) :
       LET e == win'[(Len(win) - c) + m]
       IN /\ e.tag = t[m] /\ e.kind = b[m][1] /\ e.fate = b[m][2]
          /\ ~e.done /\ ~e.recov
          /\ e.on <=> right /\ (m = 2 => b[1][2] = "ok")

LEMMA OneTuple ==
  ASSUME NEW S, NEW u \in S, NEW s, s = <<u>>
  PROVE  s \in Seq(S) /\ Len(s) = 1 /\ DOMAIN s = 1 .. 1 /\ s[1] = u /\ s # << >>
<1>1. <<u>> \in Seq(S) /\ Len(<<u>>) = 1 /\ DOMAIN <<u>> = 1 .. 1 /\ <<u>>[1] = u
  OBVIOUS
<1>2. <<u>> # << >>
  OBVIOUS
<1> QED BY <1>1, <1>2, Zenon

LEMMA TwoTuple ==
  ASSUME NEW S, NEW u \in S, NEW v \in S, NEW s, s = <<u, v>>
  PROVE  s \in Seq(S) /\ Len(s) = 2 /\ DOMAIN s = 1 .. 2 /\ s[1] = u /\ s[2] = v /\ s # << >>
<1>1. <<u, v>> \in Seq(S) /\ Len(<<u, v>>) = 2 /\ DOMAIN <<u, v>> = 1 .. 2
      /\ <<u, v>>[1] = u /\ <<u, v>>[2] = v
  OBVIOUS
<1>2. <<u, v>> # << >>
  OBVIOUS
<1> QED BY <1>1, <1>2, Zenon

LEMMA BundleFacts ==
  ASSUME TypeInv, NEW b \in Bundles
  PROVE  /\ b \in Seq(program.insts) /\ Len(b) \in 0 .. 2 /\ DOMAIN b = 1 .. Len(b)
         /\ (b = << >>) <=> (Len(b) = 0)
         /\ \A k \in DOMAIN b :
              /\ b[k] \in program.insts /\ b[k] = <<b[k][1], b[k][2]>>
              /\ b[k][1] \in Kinds /\ b[k][2] \in Fates
         /\ Len(b) = 2 => b[1][1] = "op"
<1>1. program.insts \subseteq Kinds \X Fates
  BY WindowAssumption DEF TypeInv, Instructions
<1>2. ASSUME NEW u \in program.insts
      PROVE  u = <<u[1], u[2]>> /\ u[1] \in Kinds /\ u[2] \in Fates
  BY <1>1
<1>3. CASE b = << >>
  BY <1>3
<1>6. \/ b = << >>
      \/ \E u \in program.insts : b = <<u>>
      \/ \E u, v \in program.insts : u[1] = "op" /\ b = <<u, v>>
  BY DEF Bundles
<1>7. CASE \E u \in program.insts : b = <<u>>
  <2>1. PICK u \in program.insts : b = <<u>>
    BY <1>7
  <2>2. Len(b) = 1 /\ DOMAIN b = 1 .. 1 /\ b[1] = u /\ b \in Seq(program.insts) /\ b # << >>
    BY <2>1, OneTuple
  <2> QED BY <1>2, <2>2
<1>8. CASE \E u, v \in program.insts : u[1] = "op" /\ b = <<u, v>>
  <2>1. PICK u \in program.insts, v \in program.insts : u[1] = "op" /\ b = <<u, v>>
    BY <1>8
  <2>2. /\ b \in Seq(program.insts) /\ Len(b) = 2 /\ DOMAIN b = 1 .. 2 /\ b[1] = u /\ b[2] = v
        /\ b # << >>
    BY <2>1, TwoTuple
  <2> QED BY <1>2, <2>1, <2>2
<1> QED BY <1>3, <1>6, <1>7, <1>8

LEMMA FreshFacts ==
  ASSUME NEW n \in 0 .. 2, NEW t \in Fresh(n)
  PROVE  /\ \A k \in 1 .. n : t[k] \in Tags /\ t[k] # NoTag /\ t[k] \notin InFlight
         /\ n = 2 => t[1] # t[2]
  BY TagAssumption DEF Fresh

LEMMA CompletedFacts ==
  ASSUME TypeInv, NEW D
  PROVE  /\ Completed(D) \in Seq(EntryType) /\ Len(Completed(D)) = Len(win)
         /\ \A k \in DOMAIN win :
              LET e == Completed(D)[k]
              IN /\ e.tag = win[k].tag /\ e.kind = win[k].kind /\ e.fate = win[k].fate
                 /\ e.recov = win[k].recov /\ e.on = win[k].on
                 /\ e.done <=> win[k].done \/ k \in D
<1>1. Len(win) \in Nat /\ DOMAIN win = 1 .. Len(win) /\ \A k \in DOMAIN win : win[k] \in EntryType
  BY WinFacts
<1>2. ASSUME NEW e \in EntryType, NEW x \in BOOLEAN
      PROVE  LET f == [e EXCEPT !.done = @ \/ x]
             IN /\ f \in EntryType
                /\ f.tag = e.tag /\ f.kind = e.kind /\ f.fate = e.fate
                /\ f.recov = e.recov /\ f.on = e.on /\ (f.done <=> e.done \/ x)
  BY DEF EntryType
<1>3. ASSUME NEW k \in DOMAIN win
      PROVE  LET e == Completed(D)[k]
             IN /\ e \in EntryType
                /\ e.tag = win[k].tag /\ e.kind = win[k].kind /\ e.fate = win[k].fate
                /\ e.recov = win[k].recov /\ e.on = win[k].on
                /\ e.done <=> win[k].done \/ k \in D
  <2> DEFINE x == k \in D
             f == [win[k] EXCEPT !.done = @ \/ x]
  <2>1. Completed(D)[k] = f
    BY DEF Completed
  <2>2. x \in BOOLEAN /\ win[k] \in EntryType
    BY <1>1
  <2> HIDE DEF x
  <2>3. /\ f \in EntryType
        /\ f.tag = win[k].tag /\ f.kind = win[k].kind /\ f.fate = win[k].fate
        /\ f.recov = win[k].recov /\ f.on = win[k].on /\ (f.done <=> win[k].done \/ x)
    BY <1>2, <2>2
  <2> HIDE DEF f
  <2>4. x <=> k \in D
    BY DEF x
  <2> QED BY <2>1, <2>3, <2>4
<1>4. DOMAIN Completed(D) = 1 .. Len(win) /\ Completed(D) = [k \in DOMAIN win |-> Completed(D)[k]]
  BY <1>1 DEF Completed
<1>5. Completed(D) \in [1 .. Len(win) -> EntryType]
  BY <1>1, <1>3, <1>4
<1>6. Completed(D) \in Seq(EntryType) /\ Len(Completed(D)) = Len(win)
  BY <1>1, <1>4, <1>5
<1> QED BY <1>3, <1>6

LEMMA AdvanceFacts ==
  ASSUME TypeInv, ctl_state # "recover", ~selective_transaction_fire,
         NEW D, NEW final, NEW c, NEW b, NEW t, NEW ready,
         Chosen(D, final, c, b, t, ready), Step(D, final, c, b, t, ready)
  PROVE  Advanced(D, c, b, t)
<1>1. win' = SubSeq(Completed(D), c + 1, Len(win)) \o Entries(b, t)
  BY DEF Step, WindowEdge, recovery_pulse
<1>2. c \in 0 .. 2 /\ c <= Len(win) /\ Len(win) \in Nat /\ DOMAIN win = 1 .. Len(win)
  BY WinFacts DEF Chosen, Retirements
<1> DEFINE C == Completed(D)
           S == SubSeq(C, c + 1, Len(win))
           N == Entries(b, t)
           n == Len(win) - c
<1>3. /\ C \in Seq(EntryType) /\ Len(C) = Len(win)
      /\ \A k \in DOMAIN win :
           /\ C[k].tag = win[k].tag /\ C[k].kind = win[k].kind /\ C[k].fate = win[k].fate
           /\ C[k].recov = win[k].recov /\ C[k].on = win[k].on
           /\ C[k].done <=> win[k].done \/ k \in D
  BY CompletedFacts
<1> HIDE DEF C
<1>4. S \in Seq(EntryType) /\ Len(S) = n /\ \A k \in 1 .. n : S[k] = C[k + c]
  <2>1. c + 1 \in Nat /\ Len(C) \in Nat /\ c + 1 \in 1 .. Len(C) + 1 /\ (Len(C) - (c + 1)) + 1 = n
        /\ n \in Nat
    BY <1>2, <1>3
  <2>2. S \in Seq(EntryType)
    BY <1>3, <2>1
  <2>3. Len(S) = n
    <3> DEFINE a == c + 1
               z == Len(win)
    <3>1. a \in Nat /\ z \in Nat /\ z = Len(C) /\ C \in Seq(EntryType) /\ a >= 1 /\ a <= z + 1
      BY <1>2, <1>3
    <3>2. (z - a) + 1 = n
      BY <1>2
    <3> HIDE DEF a, z
    <3>3. Len(SubSeq(C, a, z)) = IF a <= z THEN (z - a) + 1 ELSE 0
      BY <3>1
    <3>4. IF a <= z THEN (z - a) + 1 = (z - a) + 1 ELSE (z - a) + 1 = 0
      BY <3>1
    <3> QED BY <3>2, <3>3, <3>4 DEF a, z
  <2>4. ASSUME NEW k \in 1 .. n PROVE S[k] = C[k + c]
    BY <1>2, <1>3
  <2> QED BY <2>2, <2>3, <2>4
<1>5. /\ Len(b) \in 0 .. 2 /\ DOMAIN b = 1 .. Len(b)
      /\ \A k \in DOMAIN b : b[k][1] \in Kinds /\ b[k][2] \in Fates
  BY BundleFacts DEF Chosen
<1>6. \A k \in 1 .. Len(b) : t[k] \in Tags
  BY <1>5, FreshFacts DEF Chosen
<1>7. ASSUME NEW m \in 1 .. Len(b)
      PROVE  /\ N[m] \in EntryType
             /\ N[m].tag = t[m] /\ N[m].kind = b[m][1] /\ N[m].fate = b[m][2]
             /\ ~N[m].done /\ ~N[m].recov
             /\ N[m].on <=> right /\ (m = 2 => b[1][2] = "ok")
  <2>1. N[m] = [tag |-> t[m], kind |-> b[m][1], fate |-> b[m][2], done |-> FALSE,
                recov |-> FALSE, on |-> right /\ (m = 2 => b[1][2] = "ok")]
    BY <1>5 DEF Entries, Entry
  <2> DEFINE on == right /\ (m = 2 => b[1][2] = "ok")
  <2>2. on \in BOOLEAN
    OBVIOUS
  <2> HIDE DEF N
  <2>3. N[m] \in EntryType
    BY <1>5, <1>6, <2>1, <2>2 DEF EntryType
  <2>4. /\ N[m].tag = t[m] /\ N[m].kind = b[m][1] /\ N[m].fate = b[m][2]
        /\ ~N[m].done /\ ~N[m].recov
    BY <2>1
  <2>5. N[m].on <=> on
    <3>1. N[m] = [tag |-> t[m], kind |-> b[m][1], fate |-> b[m][2], done |-> FALSE,
                  recov |-> FALSE, on |-> on]
      BY <2>1
    <3> HIDE DEF on
    <3>2. N[m].on = on
      BY <3>1
    <3> QED BY <2>2, <3>2
  <2> QED BY <2>3, <2>4, <2>5
<1>8. N \in Seq(EntryType) /\ Len(N) = Len(b)
  <2>1. DOMAIN N = 1 .. Len(b)
    BY <1>5 DEF Entries
  <2>2. N = [k \in 1 .. Len(b) |-> N[k]]
    BY <1>5 DEF Entries
  <2> HIDE DEF N
  <2>3. N \in [1 .. Len(b) -> EntryType]
    BY <1>7, <2>2
  <2> QED BY <1>5, <2>1, <2>3
<1> HIDE DEF S, N
<1>9. /\ win' \in Seq(EntryType) /\ Len(win') = n + Len(b)
      /\ \A k \in 1 .. n : win'[k] = S[k]
      /\ \A m \in 1 .. Len(b) : win'[n + m] = N[m]
  <2>1. win' = S \o N
    BY <1>1 DEF S, N, C
  <2>2. n \in Nat
    BY <1>2
  <2> HIDE DEF n
  <2>3. S \in Seq(EntryType) /\ Len(S) = n /\ N \in Seq(EntryType) /\ Len(N) = Len(b)
    BY <1>4, <1>8
  <2>4. S \o N \in Seq(EntryType) /\ Len(S \o N) = n + Len(b)
    BY <2>3
  <2>5. ASSUME NEW k \in 1 .. n PROVE win'[k] = S[k]
    BY <2>1, <2>2, <2>3
  <2>6. ASSUME NEW m \in 1 .. Len(b) PROVE win'[n + m] = N[m]
    BY <1>5, <2>1, <2>2, <2>3
  <2> QED BY <2>1, <2>4, <2>5, <2>6
<1>10. DOMAIN win' = 1 .. n + Len(b)
  BY <1>9
<1>11. ASSUME NEW k \in 1 .. n
       PROVE  /\ k + c \in DOMAIN win /\ win'[k] = C[k + c]
  BY <1>2, <1>4, <1>9
<1>12. \A k \in 1 .. n :
       /\ k + c \in DOMAIN win
       /\ win'[k].tag = win[k + c].tag /\ win'[k].kind = win[k + c].kind
       /\ win'[k].fate = win[k + c].fate /\ win'[k].recov = win[k + c].recov
       /\ win'[k].on = win[k + c].on
       /\ win'[k].done <=> win[k + c].done \/ k + c \in D
  BY <1>3, <1>11
<1>13. \A m \in 1 .. Len(b) :
       LET e == win'[n + m]
       IN /\ e.tag = t[m] /\ e.kind = b[m][1] /\ e.fate = b[m][2]
          /\ ~e.done /\ ~e.recov
          /\ e.on <=> right /\ (m = 2 => b[1][2] = "ok")
  BY <1>7, <1>9
<1> QED BY <1>2, <1>5, <1>9, <1>10, <1>12, <1>13 DEF Advanced

(* The place of what is dispatched m-th.                                   *)
Behind(c, m) == (Len(win) - c) + m

LEMMA Places ==
  ASSUME TypeInv, NEW D, NEW c, NEW b, NEW t, Advanced(D, c, b, t)
  PROVE  /\ \A k \in DOMAIN win' :
              \/ k \in 1 .. Len(win) - c
              \/ \E m \in 1 .. Len(b) : k = Behind(c, m)
         /\ \A j \in DOMAIN win : j > c =>
              /\ j - c \in 1 .. Len(win) - c /\ j - c \in DOMAIN win' /\ (j - c) + c = j
         /\ \A k \in 1 .. Len(win) - c : k \in DOMAIN win' /\ k + c > c
         /\ \A m \in 1 .. Len(b) : Behind(c, m) \in DOMAIN win'
<1>1. /\ c \in 0 .. 2 /\ c <= Len(win) /\ Len(b) \in 0 .. 2
      /\ DOMAIN win' = 1 .. (Len(win) - c) + Len(b)
  BY DEF Advanced
<1>2. Len(win) \in Nat /\ DOMAIN win = 1 .. Len(win)
  BY WinFacts
<1>3. ASSUME NEW k \in DOMAIN win'
      PROVE  \/ k \in 1 .. Len(win) - c
             \/ \E m \in 1 .. Len(b) : k = Behind(c, m)
  <2>1. CASE k <= Len(win) - c
    BY <1>1, <1>2, <2>1
  <2>2. CASE k > Len(win) - c
    <3>1. k - (Len(win) - c) \in 1 .. Len(b) /\ k = Behind(c, k - (Len(win) - c))
      BY <1>1, <1>2, <2>2 DEF Behind
    <3> QED BY <3>1
  <2> QED BY <1>1, <1>2, <2>1, <2>2
<1> QED BY <1>1, <1>2, <1>3 DEF Behind

(* What such an edge starts from.                                          *)
Advancing(D, final, c, b, t, ready) ==
  /\ IInv /\ ctl_state # "recover" /\ rec_state = "active"
  /\ Chosen(D, final, c, b, t, ready) /\ Step(D, final, c, b, t, ready)

LEMMA AdvancingFacts ==
  ASSUME NEW D, NEW final, NEW c, NEW b, NEW t, NEW ready, Advancing(D, final, c, b, t, ready)
  PROVE  /\ TypeInv /\ Distinct /\ OfProgram /\ Serialized /\ Tracked /\ Checkpointed
         /\ Controlled /\ Recovered /\ OnPath /\ Flushed /\ Quiet /\ FaultsInOrder /\ Restart
         /\ ~recovery_pulse /\ ~selective_transaction_fire
         /\ Advanced(D, c, b, t)
         /\ D \subseteq {k \in DOMAIN win : ~win[k].done}
<1>1. IInv /\ ctl_state # "recover" /\ rec_state = "active"
      /\ Chosen(D, final, c, b, t, ready) /\ Step(D, final, c, b, t, ready)
  BY DEF Advancing
<1>2. /\ TypeInv /\ Distinct /\ OfProgram /\ Serialized /\ Tracked /\ Checkpointed
      /\ Controlled /\ Recovered /\ OnPath /\ Flushed /\ Quiet /\ FaultsInOrder /\ Restart
  BY <1>1 DEF IInv
<1>3. ~recovery_pulse /\ ~selective_transaction_fire
  BY <1>1, FireFacts DEF recovery_pulse
<1>4. Advanced(D, c, b, t)
  BY <1>1, <1>2, <1>3, AdvanceFacts
<1>5. D \subseteq {k \in DOMAIN win : ~win[k].done}
  BY <1>1, <1>2, CompletionFacts DEF Chosen
<1> QED BY <1>2, <1>3, <1>4, <1>5

(* Control completions are never settled.                                  *)
LEMMA ControlUnsettled ==
  ASSUME OfProgram, NEW k \in DOMAIN win, IsControlWb(win[k])
  PROVE  ~Settled(win[k])
  BY DEF OfProgram, IsControlWb, Settled

(* Without faults the system instruction, the youngest one, is the only    *)
(* one that can report.                                                    *)
LEMMA NoFaultSystem ==
  ASSUME TypeInv, FaultsInOrder, OfProgram, Serialized, ~program.in_order,
         NEW k \in DOMAIN win, IsControlWb(win[k])
  PROVE  k = Len(win) /\ \A j \in DOMAIN win : ~Unresolved(win[j])
<1>1. <<win[k].kind, win[k].fate>> \in program.insts
  BY DEF OfProgram
<1>2. win[k].fate # "exc"
  BY <1>1 DEF FaultsInOrder
<1>3. win[k].kind = "sys"
  BY <1>2 DEF IsControlWb
<1> QED BY <1>3 DEF Serialized

(* A report finds no other one, and nothing to recover from before it.     *)
LEMMA ReportFacts ==
  ASSUME NEW D, NEW final, NEW c, NEW b, NEW t, NEW ready, Advancing(D, final, c, b, t, ready),
         NEW k \in D, IsControlWb(win[k])
  PROVE  /\ k \in DOMAIN win /\ ctl_state = "idle"
         /\ \A m \in D : IsControlWb(win[m]) => m = k
         /\ \A j \in 1 .. k - 1 : ~Unresolved(win[j]) /\ (program.in_order => Settled(win[j]))
         /\ final.tag = win[k].tag
         /\ final.kind = IF win[k].fate = "exc" THEN "exception" ELSE "system"
<1>0. /\ TypeInv /\ Distinct /\ OfProgram /\ Serialized /\ FaultsInOrder /\ Controlled /\ Flushed
      /\ D \subseteq {i \in DOMAIN win : ~win[i].done}
      /\ ctl_state # "recover" /\ D \in Completions /\ final \in control_finals(D)
  BY AdvancingFacts DEF Advancing, Chosen
<1>1. /\ k \in DOMAIN win /\ ~win[k].done /\ Len(win) \in Nat /\ DOMAIN win = 1 .. Len(win)
      /\ win # << >>
  BY <1>0, WinFacts
<1>2. program.in_order => \A i \in D : IsControlWb(win[i]) => \A j \in 1 .. i - 1 : Settled(win[j])
  BY <1>0, CompletionFacts
<1>3. \A j \in 1 .. k - 1 : ~Unresolved(win[j]) /\ (program.in_order => Settled(win[j]))
  <2>1. CASE program.in_order
    BY <1>2, <2>1 DEF Unresolved
  <2>2. CASE ~program.in_order
    <3>1. \A j \in 1 .. k - 1 : j \in DOMAIN win
      BY <1>1
    <3> QED BY <1>0, <1>1, <2>2, <3>1, NoFaultSystem
  <2> QED BY <2>1, <2>2
<1>4. ASSUME NEW m \in DOMAIN win, IsControlWb(win[m]), m # k,
             program.in_order => m < k \/ \A j \in 1 .. m - 1 : Settled(win[j])
      PROVE  FALSE
  <2>1. CASE program.in_order
    <3>1. CASE m < k
      <4>1. Settled(win[m])
        BY <1>1, <1>2, <2>1, <3>1
      <4> QED BY <1>0, <1>4, <4>1, ControlUnsettled
    <3>2. CASE ~(m < k)
      <4>1. k \in 1 .. m - 1
        BY <1>1, <1>4, <3>2
      <4>2. Settled(win[k])
        BY <1>4, <2>1, <3>2, <4>1
      <4> QED BY <1>0, <1>1, <4>2, ControlUnsettled
    <3> QED BY <3>1, <3>2
  <2>2. CASE ~program.in_order
    <3>1. k = Len(win) /\ m = Len(win)
      BY <1>0, <1>1, <1>4, <2>2, NoFaultSystem
    <3> QED BY <1>4, <3>1
  <2> QED BY <2>1, <2>2
<1>5. \A m \in D : IsControlWb(win[m]) => m = k
  <2>1. SUFFICES ASSUME NEW m \in D, IsControlWb(win[m]), m # k PROVE FALSE
    OBVIOUS
  <2>2. m \in DOMAIN win
    BY <1>0
  <2>3. program.in_order => \A j \in 1 .. m - 1 : Settled(win[j])
    BY <1>2, <2>1
  <2> QED BY <1>4, <2>1, <2>2, <2>3
<1>6. ctl_state = "idle"
  <2>1. ctl_state # "redirect"
    BY <1>0, <1>1 DEF Flushed
  <2>2. ASSUME ctl_state = "pending" PROVE FALSE
    <3>1. PICK m \in DOMAIN win : Owns(m)
      BY <1>0, <2>2 DEF Controlled
    <3>2. m # k /\ IsControlWb(win[m])
      BY <1>1, <3>1 DEF Owns
    <3>3. program.in_order => \A j \in 1 .. m - 1 : Settled(win[j])
      BY <3>1 DEF Owns
    <3> QED BY <1>4, <3>2, <3>3
  <2> QED BY <1>0, <2>1, <2>2 DEF TypeInv
<1>7. /\ final.tag = win[k].tag
      /\ final.kind = IF win[k].fate = "exc" THEN "exception" ELSE "system"
  <2>1. {i \in D : IsControlWb(win[i])} = {k}
    BY <1>5
  <2>2. final \in {[tag |-> win[i].tag,
            kind |-> IF win[i].fate = "exc" THEN "exception" ELSE "system"] : i \in {k}}
    BY <1>0, <2>1 DEF control_finals
  <2>3. final = [tag |-> win[k].tag,
                 kind |-> IF win[k].fate = "exc" THEN "exception" ELSE "system"]
    BY <2>2
  <2> QED BY <2>3
<1> QED BY <1>1, <1>3, <1>5, <1>6, <1>7

LEMMA NoReportFacts ==
  ASSUME NEW D, NEW final \in control_finals(D), \A k \in D : ~IsControlWb(win[k])
  PROVE  final.tag = NoTag
<1>1. {k \in D : IsControlWb(win[k])} = {}
  OBVIOUS
<1> QED BY <1>1 DEF control_finals

(* What retires: everything it leaves behind it is right, or it is the one *)
(* that is recovered from.                                                 *)
LEMMA RetireFacts ==
  ASSUME NEW D, NEW final, NEW c, NEW b, NEW t, NEW ready, Advancing(D, final, c, b, t, ready),
         NEW k \in 1 .. c
  PROVE  /\ k \in DOMAIN win
         /\ IsControlWb(win[k]) => k = 1 /\ c = 1 /\ win[k].done
                                    /\ ctl_state = "pending" /\ ctl_tag = win[k].tag
         /\ ~IsControlWb(win[k]) => /\ Passes(win[k]) /\ win[k].fate # "exc"
                                    /\ win[k].done \/ (k \in D /\ win[k].fate = "ok")
<1>0. /\ TypeInv /\ OfProgram /\ Controlled /\ Recovered
      /\ ctl_state # "recover" /\ rec_state = "active" /\ c \in Retirements(D)
  BY AdvancingFacts DEF Advancing, Chosen
<1>1. c \in 0 .. 2 /\ c <= Len(win) /\ Len(win) \in Nat /\ DOMAIN win = 1 .. Len(win)
  BY <1>0, WinFacts DEF Retirements
<1>2. k \in DOMAIN win
  BY <1>1
<1>3. win[k].done \/ (k \in D /\ win[k].fate = "ok")
  BY <1>0 DEF Retirements, Retirable, SameEdge
<1>4. c = 2 => Ordinary(win[k])
  BY <1>0, <1>1 DEF Retirements
<1>5. ASSUME IsControlWb(win[k])
      PROVE  /\ k = 1 /\ c = 1 /\ win[k].done
             /\ ctl_state = "pending" /\ ctl_tag = win[k].tag
  <2>1. win[k].done
    BY <1>3, <1>5 DEF IsControlWb
  <2>2. c # 2
    BY <1>4, <1>5 DEF IsControlWb, Ordinary
  <2> QED BY <1>0, <1>1, <1>2, <1>5, <2>1, <2>2 DEF Controlled
<1>6. ASSUME ~IsControlWb(win[k])
      PROVE  Passes(win[k]) /\ win[k].fate # "exc"
  <2>1. win[k].fate # "exc"
    BY <1>6 DEF IsControlWb
  <2>2. CASE win[k].fate = "ok"
    BY <2>2 DEF Passes
  <2>3. CASE win[k].fate = "redir"
    <3>1. <<win[k].kind, win[k].fate>> \in program.insts /\ program \in Programs
      BY <1>0, <1>2 DEF OfProgram, TypeInv
    <3>2. <<win[k].kind, win[k].fate>> \in Instructions
      BY <3>1, WindowAssumption
    <3>3. win[k].kind # "op"
      BY <2>3, <3>2 DEF Instructions
    <3>4. win[k].kind # "sys"
      BY <1>6, <2>3 DEF IsControlWb
    <3>5. win[k].kind = "branch"
      BY <1>0, <1>2, <3>3, <3>4, WinFacts DEF Kinds
    <3>6. win[k].done
      BY <1>3, <2>3
    <3>7. win[k].recov
      BY <1>0, <1>2, <2>3, <3>5, <3>6 DEF Recovered
    <3> QED BY <2>1, <3>7 DEF Passes
  <2>4. win[k].fate \in {"ok", "redir", "exc"}
    BY <1>0, <1>2, WinFacts DEF Fates
  <2> QED BY <2>1, <2>2, <2>3, <2>4
<1> QED BY <1>2, <1>3, <1>5, <1>6

(* What the control recovery does.                                         *)
LEMMA ControlAdvance ==
  ASSUME NEW D, NEW final, NEW c, NEW b, NEW t, NEW ready, Advancing(D, final, c, b, t, ready)
  PROVE  /\ dup_error' = FALSE /\ ctl_state' # "redirect"
         /\ ctl_state' \in {"idle", "pending", "recover"} /\ ctl_tag' \in NoneOrTag
         /\ ctl_state' = "recover" => c = 1 /\ IsControlWb(win[1]) /\ ctl_tag' = win[1].tag
         /\ (\E k \in 1 .. c : IsControlWb(win[k])) => ctl_state' = "recover"
         /\ \A k \in D : IsControlWb(win[k]) => /\ ctl_state' = "pending"
              /\ ctl_tag' = win[k].tag
              /\ ctl_kind' = IF win[k].fate = "exc" THEN "exception" ELSE "system"
         /\ ctl_state' = "pending" /\ (\A k \in D : ~IsControlWb(win[k])) =>
              ctl_state = "pending"
         /\ ctl_state = "pending" /\ ctl_state' # "recover" =>
              ctl_state' = "pending" /\ ctl_tag' = ctl_tag /\ ctl_kind' = ctl_kind
<1>0. /\ TypeInv /\ Distinct /\ Controlled /\ Flushed /\ Quiet
      /\ ctl_state # "recover" /\ final \in control_finals(D) /\ ready = TRUE
      /\ ControlEdge(final, RetireEvent(c), ready)
      /\ c \in 0 .. 2 /\ c <= Len(win)
  BY AdvancingFacts DEF Advancing, Chosen, Step, redirect_ready, Retirements
<1>1. Len(win) \in Nat /\ DOMAIN win = 1 .. Len(win)
  BY <1>0, WinFacts
<1>2. CASE \E k \in D : IsControlWb(win[k])
  <2>1. PICK k \in D : IsControlWb(win[k])
    BY <1>2
  <2>2. /\ k \in DOMAIN win /\ ctl_state = "idle"
        /\ \A m \in D : IsControlWb(win[m]) => m = k
        /\ final.tag = win[k].tag
        /\ final.kind = IF win[k].fate = "exc" THEN "exception" ELSE "system"
    BY <2>1, ReportFacts
  <2>3. win[k].tag \in Tags /\ win[k].tag # NoTag
    BY <1>0, <2>2, WinFacts
  <2>4. \A m \in 1 .. c : ~IsControlWb(win[m]) /\ m \in DOMAIN win /\ win[m].fate # "exc"
    BY <2>2, RetireFacts
  <2>5. ~direct_exception_commit(RetireEvent(c))
    <3>1. CASE c = 0
      BY <3>1 DEF RetireEvent, direct_exception_commit
    <3>2. CASE c # 0
      <4>1. 1 \in 1 .. c
        BY <1>0, <3>2
      <4> QED BY <2>4, <3>2, <4>1 DEF RetireEvent, direct_exception_commit
    <3> QED BY <3>1, <3>2
  <2>6. /\ ctl_state' = "pending" /\ ctl_kind' = final.kind /\ ctl_tag' = final.tag
    BY <1>0, <2>2, <2>3, <2>5 DEF ControlEdge
  <2>7. ~\E m \in 1 .. c : IsControlWb(win[m])
    BY <2>4
  <2>8. dup_error' = FALSE
    BY <1>0, <2>2 DEF ControlEdge, Quiet, NoProtocolError
  <2>9. \A m \in D : IsControlWb(win[m]) => /\ ctl_state' = "pending"
              /\ ctl_tag' = win[m].tag
              /\ ctl_kind' = IF win[m].fate = "exc" THEN "exception" ELSE "system"
    BY <2>2, <2>6
  <2>10. ctl_state' \in {"idle", "pending", "recover"} /\ ctl_tag' \in NoneOrTag
    BY <2>2, <2>3, <2>6 DEF NoneOrTag
  <2> QED BY <1>2, <2>2, <2>6, <2>7, <2>8, <2>9, <2>10
<1>3. CASE ~\E k \in D : IsControlWb(win[k])
  <2>1. final.tag = NoTag
    BY <1>0, <1>3, NoReportFacts
  <2>2. dup_error' = FALSE
    BY <1>0, <2>1 DEF ControlEdge, Quiet, NoProtocolError
  <2>3. CASE \E k \in 1 .. c : IsControlWb(win[k])
    <3>1. PICK k \in 1 .. c : IsControlWb(win[k])
      BY <2>3
    <3>2. /\ k \in DOMAIN win /\ k = 1 /\ c = 1 /\ win[k].done
          /\ ctl_state = "pending" /\ ctl_tag = win[k].tag
      BY <3>1, RetireFacts
    <3>3. PICK m \in DOMAIN win : Owns(m)
      BY <1>0, <3>2 DEF Controlled
    <3>4. m = 1
      BY <1>0, <3>2, <3>3 DEF Owns, Distinct
    <3>5. ctl_kind = IF win[1].fate = "exc" THEN "exception" ELSE "system"
      BY <3>3, <3>4 DEF Owns
    <3>6. RetireEvent(c) = [tag |-> win[1].tag, exc |-> win[1].fate = "exc"]
      BY <3>2 DEF RetireEvent
    <3>7. win[1].tag \in Tags /\ win[1].tag # NoTag
      BY <1>0, <3>2, WinFacts
    <3>8. control_commit(RetireEvent(c))
      <4> DEFINE x == win[1].fate = "exc"
      <4>1. RetireEvent(c).tag = win[1].tag
        BY <3>6
      <4>2. RetireEvent(c).exc <=> x
        <5>1. RetireEvent(c) = [tag |-> win[1].tag, exc |-> x] /\ x \in BOOLEAN
          BY <3>6
        <5> HIDE DEF x
        <5>2. RetireEvent(c).exc = x
          BY <5>1
        <5> QED BY <5>1, <5>2
      <4> QED BY <3>2, <3>5, <3>7, <4>1, <4>2 DEF control_commit
    <3>9. ctl_state' = "recover" /\ ctl_tag' = ctl_tag
      BY <1>0, <3>2, <3>8 DEF ControlEdge
    <3> QED BY <1>3, <2>2, <2>3, <3>1, <3>2, <3>7, <3>9 DEF NoneOrTag
  <2>4. CASE ~\E k \in 1 .. c : IsControlWb(win[k])
    <3>1. ~direct_exception_commit(RetireEvent(c))
      <4>1. CASE c = 0
        BY <4>1 DEF RetireEvent, direct_exception_commit
      <4>2. CASE c # 0
        <5>1. 1 \in 1 .. c
          BY <1>0, <4>2
        <5>2. win[1].fate # "exc"
          BY <2>4, <5>1 DEF IsControlWb
        <5> QED BY <4>2, <5>2 DEF RetireEvent, direct_exception_commit
      <4> QED BY <4>1, <4>2
    <3>2. ctl_state = "pending" => ~control_commit(RetireEvent(c))
      <4>1. SUFFICES ASSUME ctl_state = "pending", control_commit(RetireEvent(c)) PROVE FALSE
        OBVIOUS
      <4>2. c # 0
        BY <4>1 DEF control_commit, RetireEvent
      <4>3. 1 \in 1 .. c /\ 1 \in DOMAIN win
        BY <1>0, <1>1, <4>2
      <4>4. win[1].tag = ctl_tag
        BY <4>1, <4>2 DEF control_commit, RetireEvent
      <4>5. PICK m \in DOMAIN win : Owns(m)
        BY <1>0, <4>1 DEF Controlled
      <4>6. m = 1
        BY <1>0, <4>3, <4>4, <4>5 DEF Owns, Distinct
      <4> QED BY <2>4, <4>3, <4>5, <4>6 DEF Owns
    <3>3. /\ ctl_state = "pending" => UNCHANGED <<ctl_state, ctl_kind, ctl_tag>>
          /\ ctl_state = "idle" => UNCHANGED <<ctl_state, ctl_kind, ctl_tag>>
          /\ ctl_state = "redirect" => ctl_state' = "idle" /\ ctl_tag' = NoTag
      <4>1. ctl_state = "pending" => UNCHANGED <<ctl_state, ctl_kind, ctl_tag>>
        BY <1>0, <2>1, <3>1, <3>2 DEF ControlEdge
      <4>2. ctl_state = "idle" => UNCHANGED <<ctl_state, ctl_kind, ctl_tag>>
        BY <1>0, <2>1, <3>1, <3>2 DEF ControlEdge
      <4>3. ctl_state = "redirect" => ctl_state' = "idle" /\ ctl_tag' = NoTag
        BY <1>0, <2>1, <3>1, <3>2 DEF ControlEdge
      <4> QED BY <4>1, <4>2, <4>3
    <3>4. ctl_state \in {"idle", "pending", "redirect"} /\ ctl_tag \in NoneOrTag
      BY <1>0 DEF TypeInv
    <3> QED BY <1>3, <2>2, <2>4, <3>3, <3>4 DEF NoneOrTag
  <2> QED BY <2>3, <2>4
<1> QED BY <1>2, <1>3

(* The branch that completes, if one does.                                 *)
LEMMA BranchFacts ==
  ASSUME NEW D, NEW final, NEW c, NEW b, NEW t, NEW ready, Advancing(D, final, c, b, t, ready)
  PROVE  LET bf  == branch_final(D)
             rel == checkpoint_release(bf)
             sel == checkpoint_select(bf)
         IN /\ rel \in NoneOrTag /\ sel \in NoneOrTag
            /\ correct_release(bf) <=> rel # NoTag
            /\ select_mispredict(bf) <=> sel # NoTag
            /\ bf.tag # NoTag => InWindow(bf.tag)
            /\ bf.tag = IF rel # NoTag THEN rel ELSE sel
            /\ rel # NoTag => /\ Holds(rel) /\ sel = NoTag
                 /\ \E d \in D : win[d].tag = rel /\ win[d].kind = "branch" /\ win[d].fate = "ok"
            /\ sel # NoTag => /\ Holds(sel)
                 /\ \E d \in D : win[d].tag = sel /\ win[d].kind = "branch" /\ win[d].fate = "redir"
            /\ \A d \in D : win[d].kind = "branch" /\ win[d].fate = "ok" => rel = win[d].tag
            /\ \A d \in D : win[d].kind = "branch" /\ win[d].fate = "redir" => sel = win[d].tag
<1>0. /\ TypeInv /\ Tracked /\ Checkpointed /\ rec_state = "active"
      /\ D \subseteq {i \in DOMAIN win : ~win[i].done} /\ D \in Completions
  BY AdvancingFacts DEF Advancing, Chosen
<1> DEFINE bf  == branch_final(D)
           rel == checkpoint_release(bf)
           sel == checkpoint_select(bf)
<1>1. CASE \E d \in D : IsBranchWb(win[d])
  <2> DEFINE d == CHOOSE k \in D : IsBranchWb(win[k])
  <2>1. d \in D /\ IsBranchWb(win[d])
    BY <1>1
  <2>2. bf = [tag |-> win[d].tag, redir |-> win[d].fate = "redir"]
    BY <1>1 DEF branch_final
  <2> HIDE DEF d, bf
  <2>3. d \in DOMAIN win /\ ~win[d].done /\ win[d].kind = "branch" /\ win[d].fate # "exc"
    BY <1>0, <2>1 DEF IsBranchWb
  <2>4. /\ win[d].tag \in Tags /\ win[d].tag # NoTag /\ win[d].fate \in {"ok", "redir", "exc"}
    BY <1>0, <2>3, WinFacts DEF Fates
  <2>5. PICK i \in DOMAIN window : window[i] = win[d].tag
    BY <1>0, <2>3 DEF Tracked, Unresolved, Settled
  <2>6. InWindow(win[d].tag) /\ Holds(win[d].tag)
    <3>1. PICK n \in 0 .. 1 : entry[n] = window[i]
      BY <1>0 DEF Checkpointed
    <3> QED BY <2>4, <2>5, <3>1 DEF InWindow, Holds
  <2>7. bf.tag = win[d].tag /\ (bf.redir <=> win[d].fate = "redir")
    <3> DEFINE x == win[d].fate = "redir"
    <3>1. bf = [tag |-> win[d].tag, redir |-> x] /\ x \in BOOLEAN
      BY <2>2
    <3> HIDE DEF x
    <3>2. bf.tag = win[d].tag /\ bf.redir = x
      BY <3>1
    <3> QED BY <3>1, <3>2 DEF x
  <2>8. \A k \in D : win[k].kind = "branch" => k = d
    BY <1>0, <2>1, <2>3, CompletionFacts
  <2>9. CASE win[d].fate = "ok"
    <3>1. correct_release(bf) /\ ~select_mispredict(bf)
      BY <1>0, <2>4, <2>6, <2>7, <2>9 DEF correct_release, select_mispredict
    <3>2. rel = win[d].tag /\ sel = NoTag
      BY <2>7, <3>1 DEF checkpoint_release, checkpoint_select
    <3> HIDE DEF rel, sel
    <3>3. rel \in NoneOrTag /\ sel \in NoneOrTag /\ rel # NoTag
      BY <2>4, <3>2 DEF NoneOrTag
    <3>4. bf.tag = IF rel # NoTag THEN rel ELSE sel
      BY <2>7, <3>2, <3>3
    <3>5. \E k \in D : win[k].tag = rel /\ win[k].kind = "branch" /\ win[k].fate = "ok"
      BY <2>1, <2>3, <2>9, <3>2
    <3>6. /\ \A k \in D : win[k].kind = "branch" /\ win[k].fate = "ok" => rel = win[k].tag
          /\ \A k \in D : win[k].kind = "branch" /\ win[k].fate = "redir" => sel = win[k].tag
      BY <2>8, <2>9, <3>2
    <3> QED BY <2>6, <2>7, <3>1, <3>2, <3>3, <3>4, <3>5, <3>6 DEF rel, sel, bf
  <2>10. CASE win[d].fate = "redir"
    <3>1. ~correct_release(bf) /\ select_mispredict(bf)
      BY <1>0, <2>4, <2>6, <2>7, <2>10 DEF correct_release, select_mispredict
    <3>2. sel = win[d].tag /\ rel = NoTag
      BY <2>7, <3>1 DEF checkpoint_release, checkpoint_select
    <3> HIDE DEF rel, sel
    <3>3. rel \in NoneOrTag /\ sel \in NoneOrTag /\ sel # NoTag
      BY <2>4, <3>2 DEF NoneOrTag
    <3>4. bf.tag = IF rel # NoTag THEN rel ELSE sel
      BY <2>7, <3>2
    <3>5. \E k \in D : win[k].tag = sel /\ win[k].kind = "branch" /\ win[k].fate = "redir"
      BY <2>1, <2>3, <2>10, <3>2
    <3>6. /\ \A k \in D : win[k].kind = "branch" /\ win[k].fate = "ok" => rel = win[k].tag
          /\ \A k \in D : win[k].kind = "branch" /\ win[k].fate = "redir" => sel = win[k].tag
      BY <2>8, <2>10, <3>2
    <3> QED BY <2>6, <2>7, <3>1, <3>2, <3>3, <3>4, <3>5, <3>6 DEF rel, sel, bf
  <2> QED BY <2>3, <2>4, <2>9, <2>10
<1>2. CASE ~\E d \in D : IsBranchWb(win[d])
  <2>1. bf = NoFinal
    BY <1>2 DEF branch_final
  <2>2. rel = NoTag /\ sel = NoTag /\ ~correct_release(bf) /\ ~select_mispredict(bf)
        /\ bf.tag = NoTag
    BY <2>1, NoFinalFacts DEF NoFinal
  <2>3. \A d \in D : win[d].kind = "branch" => win[d].fate = "exc"
    BY <1>2 DEF IsBranchWb
  <2> HIDE DEF rel, sel, bf
  <2>4. rel \in NoneOrTag /\ sel \in NoneOrTag
    BY <2>2 DEF NoneOrTag
  <2>5. /\ \A d \in D : win[d].kind = "branch" /\ win[d].fate = "ok" => rel = win[d].tag
        /\ \A d \in D : win[d].kind = "branch" /\ win[d].fate = "redir" => sel = win[d].tag
    BY <2>3
  <2> QED BY <2>2, <2>4, <2>5 DEF rel, sel, bf
<1> QED BY <1>1, <1>2

(* A checkpoint belongs to an instruction in flight.                       *)
LEMMA HeldInFlight ==
  ASSUME TypeInv, Tracked, Checkpointed, NEW n \in 0 .. 1, entry[n] # NoTag
  PROVE  entry[n] \in InFlight
<1>1. PICK i \in DOMAIN window : entry[n] = window[i]
  BY DEF Checkpointed
<1>2. PICK k \in DOMAIN win : window[i] = win[k].tag
  BY DEF Tracked
<1> QED BY <1>1, <1>2 DEF InFlight

(* The branch that is dispatched, if one is.                               *)
LEMMA AllocPlace ==
  ASSUME NEW D, NEW final, NEW c, NEW b, NEW t, NEW ready, Advancing(D, final, c, b, t, ready)
  PROVE  LET alloc == branch_dispatch_tag(b, t)
         IN /\ alloc \in NoneOrTag
            /\ \A m \in 1 .. Len(b) : b[m][1] = "branch" => alloc = t[m] /\ alloc # NoTag
            /\ alloc # NoTag =>
                 /\ alloc \notin InFlight /\ b # << >>
                 /\ \E m \in DOMAIN b : m \in 1 .. Len(b) /\ b[m][1] = "branch" /\ alloc = t[m]
<1>0. TypeInv /\ b \in Bundles /\ t \in Fresh(Len(b))
  BY AdvancingFacts DEF Advancing, Chosen
<1> DEFINE alloc == branch_dispatch_tag(b, t)
<1>1. /\ Len(b) \in 0 .. 2 /\ DOMAIN b = 1 .. Len(b)
      /\ (b = << >>) <=> (Len(b) = 0)
      /\ Len(b) = 2 => b[1][1] = "op"
  BY <1>0, BundleFacts
<1>2. \A m \in 1 .. Len(b) : t[m] \in Tags /\ t[m] # NoTag /\ t[m] \notin InFlight
  <2> DEFINE n == Len(b)
  <2>1. n \in 0 .. 2 /\ t \in Fresh(n)
    BY <1>0, <1>1
  <2> HIDE DEF n
  <2>2. \A m \in 1 .. n : t[m] \in Tags /\ t[m] # NoTag /\ t[m] \notin InFlight
    BY <2>1, FreshFacts
  <2> QED BY <2>2 DEF n
<1>3. ASSUME NEW m \in 1 .. Len(b), NEW o \in 1 .. Len(b),
             b[m][1] = "branch", b[o][1] = "branch"
      PROVE  m = o
  <2>1. CASE Len(b) = 2
    <3>1. m # 1 /\ o # 1
      BY <1>1, <1>3, <2>1
    <3> QED BY <2>1, <3>1
  <2>2. CASE Len(b) # 2
    BY <1>1, <2>2
  <2> QED BY <2>1, <2>2
<1>4. CASE \E m \in 1 .. Len(b) : b[m][1] = "branch"
  <2>1. PICK m \in 1 .. Len(b) : b[m][1] = "branch"
    BY <1>4
  <2>2. alloc = t[m]
    <3>1. (CHOOSE k \in DOMAIN b : b[k][1] = "branch") = m
      BY <1>1, <1>3, <2>1
    <3>2. m \in DOMAIN b
      BY <1>1
    <3>3. \E k \in DOMAIN b : b[k][1] = "branch"
      BY <2>1, <3>2
    <3> QED BY <3>1, <3>3 DEF branch_dispatch_tag
  <2> HIDE DEF alloc
  <2>3. alloc \in Tags /\ alloc # NoTag /\ alloc \notin InFlight
    BY <1>2, <2>1, <2>2
  <2>4. \A o \in 1 .. Len(b) : b[o][1] = "branch" => alloc = t[o]
    BY <1>3, <2>1, <2>2
  <2>5. m \in DOMAIN b /\ b # << >>
    BY <1>1, <2>1
  <2> QED BY <2>1, <2>2, <2>3, <2>4, <2>5 DEF alloc, NoneOrTag
<1>5. CASE ~\E m \in 1 .. Len(b) : b[m][1] = "branch"
  <2>1. alloc = NoTag
    BY <1>1, <1>5 DEF branch_dispatch_tag
  <2> QED BY <1>5, <2>1 DEF NoneOrTag
<1> QED BY <1>4, <1>5

LEMMA AllocFacts ==
  ASSUME NEW D, NEW final, NEW c, NEW b, NEW t, NEW ready, Advancing(D, final, c, b, t, ready)
  PROVE  LET bf    == branch_final(D)
             alloc == branch_dispatch_tag(b, t)
         IN /\ alloc \in NoneOrTag /\ ~Holds(alloc)
            /\ alloc # NoTag =>
                 /\ branch_dispatch_allow(recovery_pulse, bf)
                 /\ alloc_ready(checkpoint_release(bf), FALSE)
<1> DEFINE alloc == branch_dispatch_tag(b, t)
<1>0. /\ TypeInv /\ Tracked /\ Checkpointed /\ ~selective_transaction_fire
      /\ Dispatchable(b, branch_final(D), final, RetireEvent(c))
  BY AdvancingFacts DEF Advancing, Step
<1>1. /\ alloc \in NoneOrTag
      /\ alloc # NoTag =>
           /\ alloc \notin InFlight /\ b # << >>
           /\ \E m \in DOMAIN b : m \in 1 .. Len(b) /\ b[m][1] = "branch" /\ alloc = t[m]
  BY AllocPlace
<1> HIDE DEF alloc
<1>2. CASE alloc # NoTag
  <2>1. PICK m \in DOMAIN b : b[m][1] = "branch"
    BY <1>1, <1>2
  <2>2. ~Holds(alloc)
    BY <1>0, <1>1, <1>2, HeldInFlight DEF Holds
  <2>3. /\ branch_dispatch_allow(recovery_pulse, branch_final(D))
        /\ alloc_ready(checkpoint_release(branch_final(D)), selective_transaction_fire)
    BY <1>0, <1>1, <1>2, <2>1 DEF Dispatchable
  <2>4. alloc_ready(checkpoint_release(branch_final(D)), FALSE)
    BY <1>0, <2>3 DEF alloc_ready
  <2> QED BY <1>1, <2>2, <2>3, <2>4 DEF alloc
<1>3. CASE alloc = NoTag
  BY <1>1, <1>3, NoFinalFacts DEF alloc
<1> QED BY <1>2, <1>3

LEMMA RecoveryAdvance ==
  ASSUME NEW D, NEW final, NEW c, NEW b, NEW t, NEW ready, Advancing(D, final, c, b, t, ready)
  PROVE  LET rel   == checkpoint_release(branch_final(D))
             sel   == checkpoint_select(branch_final(D))
             alloc == branch_dispatch_tag(b, t)
             W     == Without({rel})
         IN /\ window' = IF alloc # NoTag THEN Append(W, alloc) ELSE W
            /\ alloc # NoTag => Len(W) < 2
            /\ rec_errors' = {}
            /\ sel = NoTag => rec_state' = "active" /\ pending_tag' = NoTag
            /\ sel # NoTag => /\ rec_state' = "transaction" /\ pending_tag' = sel
                              /\ pending_checkpoint' = TRUE
<1> DEFINE bf    == branch_final(D)
           rel   == checkpoint_release(bf)
           sel   == checkpoint_select(bf)
           alloc == branch_dispatch_tag(b, t)
           W     == Without({rel})
<1>0. /\ TypeInv /\ Distinct /\ Tracked /\ rec_state = "active" /\ rec_errors = {}
      /\ ~recovery_pulse /\ ~selective_transaction_fire
  BY AdvancingFacts DEF Advancing, Quiet, NoProtocolError
<1>1. /\ RecoveryEdge(recovery_pulse, bf, Holds(sel), alloc, selective_transaction_fire,
                      selective_killed, ready /\ ~ctl_redirect_valid)
      /\ pending_checkpoint' = (/\ ~recovery_pulse /\ ~selective_transaction_fire
                                /\ pending_checkpoint \/ Holds(sel))
  BY DEF Advancing, Step
<1>2. /\ rel \in NoneOrTag /\ sel \in NoneOrTag
      /\ correct_release(bf) <=> rel # NoTag
      /\ select_mispredict(bf) <=> sel # NoTag
      /\ bf.tag # NoTag => InWindow(bf.tag)
      /\ bf.tag = IF rel # NoTag THEN rel ELSE sel
      /\ rel # NoTag => Holds(rel) /\ sel = NoTag
      /\ sel # NoTag => Holds(sel)
  BY BranchFacts
<1>3. /\ alloc # NoTag => branch_dispatch_allow(recovery_pulse, bf)
  BY AllocFacts
<1> HIDE DEF bf, sel, alloc
<1>4. W = IF correct_release(bf) THEN Without({bf.tag}) ELSE window
  <2>1. CASE correct_release(bf)
    <3>1. rel = bf.tag
      BY <1>2, <2>1
    <3> QED BY <2>1, <3>1
  <2>2. CASE ~correct_release(bf)
    <3>1. rel = NoTag
      BY <1>2, <2>2
    <3>2. {k \in DOMAIN window : window[k] \notin {NoTag}} = DOMAIN window
      BY <1>0, WindowFacts
    <3>3. Without({NoTag}) = window
      BY <3>2 DEF Without
    <3> QED BY <2>2, <3>1, <3>3
  <2> QED BY <2>1, <2>2
<1>5. rel # NoTag => Len(W) < Len(window)
  <2>1. SUFFICES ASSUME rel # NoTag PROVE Len(W) < Len(window)
    OBVIOUS
  <2>2. InWindow(rel)
    BY <1>2, <2>1
  <2>3. PICK j \in DOMAIN window : window[j] = rel
    BY <2>2 DEF InWindow
  <2>4. Len(window) = 2 => window[1] # window[2]
    BY <1>0, WindowDistinct
  <2>5. \E k \in DOMAIN window : window[k] \in {rel}
    BY <2>3
  <2> DEFINE gone == {rel}
  <2>6. \E k \in DOMAIN window : window[k] \in gone
    BY <2>5
  <2> HIDE DEF gone, rel, W
  <2>7. Len(Without(gone)) < Len(window)
    BY <1>0, <2>4, <2>6, WithoutFacts
  <2> QED BY <2>7 DEF gone, W, rel
<1>6. Len(window) \in 0 .. 2
  BY <1>0, WindowFacts
<1>7. alloc # NoTag => Len(W) < 2
  <2>1. SUFFICES ASSUME alloc # NoTag PROVE Len(W) < 2
    OBVIOUS
  <2>2. Len(window) < 2 \/ correct_release(bf)
    BY <1>3, <2>1 DEF branch_dispatch_allow
  <2>3. CASE correct_release(bf)
    <3>1. Len(W) < Len(window)
      BY <1>2, <1>5, <2>3
    <3>2. Len(W) \in Nat
      <4> DEFINE gone == {rel}
      <4>1. Len(window) = 2 => window[1] # window[2]
        BY <1>0, WindowDistinct
      <4> HIDE DEF gone, rel, W
      <4>2. Without(gone) \in Seq(Tags)
        BY <1>0, <4>1, WithoutFacts
      <4>3. W \in Seq(Tags)
        BY <4>2 DEF gone, W, rel
      <4> QED BY <4>3
    <3> DEFINE m == Len(W)
               n == Len(window)
    <3>3. m \in Nat /\ n \in 0 .. 2 /\ m < n
      BY <1>6, <3>1, <3>2
    <3> HIDE DEF m, n
    <3>4. m < 2
      BY <3>3
    <3> QED BY <3>4 DEF m
  <2>4. CASE ~correct_release(bf)
    BY <1>4, <1>6, <2>2, <2>4
  <2> QED BY <2>3, <2>4
<1> HIDE DEF W, rel
<1>8. alloc # NoTag /\ branch_dispatch_allow(recovery_pulse, bf) /\ Len(W) < 2 <=> alloc # NoTag
  BY <1>3, <1>7
<1>9. window' = IF alloc # NoTag THEN Append(W, alloc) ELSE W
  BY <1>0, <1>1, <1>4, <1>8 DEF RecoveryEdge
<1>10. rec_errors' = {}
  <2>1. ~(alloc # NoTag /\ ~(alloc # NoTag /\ branch_dispatch_allow(recovery_pulse, bf) /\ Len(W) < 2))
    BY <1>8
  <2>2. ~(bf.tag # NoTag /\ ~InWindow(bf.tag))
    BY <1>2
  <2>3. ~(select_mispredict(bf) /\ ~Holds(sel))
    BY <1>2
  <2> QED BY <1>0, <1>1, <1>4, <2>1, <2>2, <2>3 DEF RecoveryEdge
<1>11. CASE sel = NoTag
  <2>1. ~select_mispredict(bf)
    BY <1>2, <1>11
  <2>2. rec_state' = "active"
    BY <1>0, <1>1, <2>1 DEF RecoveryEdge
  <2>3. pending_tag' = NoTag
    BY <1>0, <1>1, <2>1, <2>2 DEF RecoveryEdge
  <2> QED BY <1>7, <1>9, <1>10, <1>11, <2>2, <2>3 DEF W, rel, sel, alloc, bf
<1>12. CASE sel # NoTag
  <2>1. select_mispredict(bf) /\ Holds(sel) /\ rel = NoTag
    BY <1>2, <1>12
  <2>2. rec_state' = "transaction"
    BY <1>0, <1>1, <2>1 DEF RecoveryEdge
  <2>3. pending_tag' = sel
    <3>1. pending_tag' = bf.tag
      BY <1>0, <1>1, <2>1 DEF RecoveryEdge
    <3> QED BY <1>2, <2>1, <3>1
  <2>4. pending_checkpoint' = TRUE
    BY <1>0, <1>1, <2>1
  <2> QED BY <1>7, <1>9, <1>10, <1>12, <2>2, <2>3, <2>4 DEF W, rel, sel, alloc, bf
<1> QED BY <1>11, <1>12

LEMMA CheckpointAdvance ==
  ASSUME NEW D, NEW final, NEW c, NEW b, NEW t, NEW ready, Advancing(D, final, c, b, t, ready)
  PROVE  LET rel   == checkpoint_release(branch_final(D))
             alloc == branch_dispatch_tag(b, t)
             P     == post_release(rel)
             idx   == alloc_idx(rel)
         IN /\ entry' = IF alloc # NoTag THEN [P EXCEPT ![idx] = alloc] ELSE P
            /\ idx \in 0 .. 1
            /\ alloc # NoTag => P[idx] = NoTag
            /\ entry'[0] = NoTag => oldest_idx' = IF entry'[1] # NoTag THEN 1 ELSE 0
            /\ entry'[0] # NoTag => oldest_idx' = IF entry'[1] = NoTag THEN 0
                                                  ELSE IF alloc # NoTag THEN 1 - idx
                                                  ELSE oldest_idx
            /\ ckpt_errors' = {}
<1> DEFINE bf    == branch_final(D)
           rel   == checkpoint_release(bf)
           sel   == checkpoint_select(bf)
           alloc == branch_dispatch_tag(b, t)
           P     == post_release(rel)
           idx   == alloc_idx(rel)
<1>0. /\ ckpt_errors = {} /\ ~recovery_pulse /\ ~selective_transaction_fire
  BY AdvancingFacts DEF Quiet, NoProtocolError
<1>1. CheckpointEdge(recovery_pulse, rel, sel, NoTag, selective_killed, alloc)
  <2>1. CheckpointEdge(recovery_pulse, rel, sel,
          IF selective_transaction_fire THEN pending_tag ELSE NoTag, selective_killed, alloc)
    BY DEF Advancing, Step
  <2>2. (IF selective_transaction_fire THEN pending_tag ELSE NoTag) = NoTag
    BY <1>0
  <2> QED BY <2>1, <2>2
<1>2. /\ rel # NoTag => Holds(rel)
      /\ sel # NoTag => Holds(sel)
  BY BranchFacts
<1>3. /\ ~Holds(alloc)
      /\ alloc # NoTag => alloc_ready(rel, FALSE)
  BY AllocFacts
<1> HIDE DEF bf, rel, sel, alloc
<1>4. alloc # NoTag => P[idx] = NoTag
  <2>1. SUFFICES ASSUME alloc # NoTag PROVE P[idx] = NoTag
    OBVIOUS
  <2>2. \E i \in 0 .. 1 : P[i] = NoTag
    BY <1>3, <2>1 DEF alloc_ready
  <2>3. P[0] = NoTag \/ P[1] = NoTag
    BY <2>2
  <2> QED BY <2>3 DEF alloc_idx
<1>5. idx \in 0 .. 1
  BY DEF alloc_idx
<1>6. alloc # NoTag /\ alloc_ready(rel, NoTag # NoTag) /\ ~Holds(alloc) <=> alloc # NoTag
  BY <1>3 DEF alloc_ready
<1>7. entry' = IF alloc # NoTag THEN [P EXCEPT ![idx] = alloc] ELSE P
  BY <1>0, <1>1, <1>6 DEF CheckpointEdge
<1>8. oldest_idx' = IF entry'[0] = NoTag THEN (IF entry'[1] # NoTag THEN 1 ELSE 0)
                    ELSE IF entry'[1] = NoTag THEN 0
                    ELSE IF alloc # NoTag THEN 1 - idx ELSE oldest_idx
  BY <1>0, <1>1, <1>6 DEF CheckpointEdge
<1>9. ckpt_errors' = {}
  BY <1>0, <1>1, <1>2, <1>3 DEF CheckpointEdge
<1> HIDE DEF P, idx
<1>10. /\ entry'[0] = NoTag => oldest_idx' = IF entry'[1] # NoTag THEN 1 ELSE 0
       /\ entry'[0] # NoTag => oldest_idx' = IF entry'[1] = NoTag THEN 0
                                                  ELSE IF alloc # NoTag THEN 1 - idx
                                                  ELSE oldest_idx
  BY <1>8
<1> QED BY <1>4, <1>5, <1>7, <1>9, <1>10 DEF P, idx, rel, alloc, bf

-----------------------------------------------------------------------------
(* Such an edge keeps the invariant.                                       *)
LEMMA KeptFacts ==
  ASSUME NEW D, NEW final, NEW c, NEW b, NEW t, NEW ready, Advancing(D, final, c, b, t, ready),
         NEW k \in 1 .. Len(win) - c
  PROVE  /\ k + c \in DOMAIN win /\ k \in DOMAIN win' /\ k + c > c
         /\ Settled(win'[k]) <=> /\ win[k + c].done \/ k + c \in D
                                 /\ win[k + c].fate = "ok" \/ win[k + c].recov
         /\ Settled(win[k + c]) => Settled(win'[k])
         /\ Unresolved(win'[k]) => Unresolved(win[k + c])
         /\ IsControlWb(win'[k]) <=> IsControlWb(win[k + c])
         /\ Passes(win'[k]) <=> Passes(win[k + c])
<1>1. TypeInv /\ Advanced(D, c, b, t)
  BY AdvancingFacts
<1>2. /\ k + c \in DOMAIN win
      /\ win'[k].tag = win[k + c].tag /\ win'[k].kind = win[k + c].kind
      /\ win'[k].fate = win[k + c].fate /\ win'[k].recov = win[k + c].recov
      /\ win'[k].done <=> win[k + c].done \/ k + c \in D
  BY <1>1 DEF Advanced
<1>3. k \in DOMAIN win' /\ k + c > c
  BY <1>1, Places
<1>4. /\ Settled(win'[k]) <=> /\ win[k + c].done \/ k + c \in D
                              /\ win[k + c].fate = "ok" \/ win[k + c].recov
      /\ Settled(win[k + c]) => Settled(win'[k])
  BY <1>2 DEF Settled
<1>5. Unresolved(win'[k]) => Unresolved(win[k + c])
  BY <1>2, <1>4 DEF Unresolved
<1>6. /\ IsControlWb(win'[k]) <=> IsControlWb(win[k + c])
      /\ Passes(win'[k]) <=> Passes(win[k + c])
  BY <1>2 DEF IsControlWb, Passes
<1> QED BY <1>2, <1>3, <1>4, <1>5, <1>6

LEMMA DispatchFacts ==
  ASSUME NEW D, NEW final, NEW c, NEW b, NEW t, NEW ready, Advancing(D, final, c, b, t, ready),
         b # << >>
  PROVE  /\ ctl_state = "idle"
         /\ \A k \in DOMAIN win : win[k].kind # "sys"
         /\ \A m \in DOMAIN b : b[m][1] = "sys" => window = << >>
<1>1. Dispatchable(b, branch_final(D), final, RetireEvent(c))
  BY DEF Advancing, Step
<1>2. /\ ~dispatch_freeze(final, RetireEvent(c))
      /\ \A k \in DOMAIN win : win[k].kind # "sys"
      /\ \A m \in DOMAIN b : b[m][1] = "sys" => ~serial_dispatch_block(recovery_pulse)
  BY <1>1 DEF Dispatchable
<1>3. ctl_state = "idle"
  BY <1>2 DEF dispatch_freeze, ctl_dispatch_freeze
<1>4. \A m \in DOMAIN b : b[m][1] = "sys" => window = << >>
  BY <1>2 DEF serial_dispatch_block
<1> QED BY <1>2, <1>3, <1>4

LEMMA NewFacts ==
  ASSUME NEW D, NEW final, NEW c, NEW b, NEW t, NEW ready, Advancing(D, final, c, b, t, ready),
         NEW m \in 1 .. Len(b)
  PROVE  /\ Behind(c, m) \in DOMAIN win'
         /\ win'[Behind(c, m)].tag = t[m] /\ win'[Behind(c, m)].kind = b[m][1] /\ win'[Behind(c, m)].fate = b[m][2]
         /\ win'[Behind(c, m)].tag \in Tags /\ win'[Behind(c, m)].tag # NoTag /\ win'[Behind(c, m)].tag \notin InFlight
         /\ ~win'[Behind(c, m)].done /\ ~win'[Behind(c, m)].recov /\ ~Settled(win'[Behind(c, m)])
         /\ win'[Behind(c, m)].kind # "op" => m = Len(b)
         /\ m \in DOMAIN b /\ b # << >>
<1> DEFINE e == win'[Behind(c, m)]
<1>0. TypeInv /\ Advanced(D, c, b, t) /\ b \in Bundles /\ t \in Fresh(Len(b))
  BY AdvancingFacts DEF Advancing, Chosen
<1>1. /\ e.tag = t[m] /\ e.kind = b[m][1] /\ e.fate = b[m][2]
      /\ ~e.done /\ ~e.recov
      /\ e.on <=> right /\ (m = 2 => b[1][2] = "ok")
  BY <1>0 DEF Advanced, Behind
<1>2. Behind(c, m) \in DOMAIN win'
  BY <1>0, Places
<1>3. /\ Len(b) \in 0 .. 2 /\ DOMAIN b = 1 .. Len(b)
      /\ (b = << >>) <=> (Len(b) = 0)
      /\ \A j \in DOMAIN b : b[j] \in program.insts /\ b[j] = <<b[j][1], b[j][2]>>
      /\ Len(b) = 2 => b[1][1] = "op"
  BY <1>0, BundleFacts
<1>4. t[m] \in Tags /\ t[m] # NoTag /\ t[m] \notin InFlight
  <2> DEFINE n == Len(b)
  <2>1. n \in 0 .. 2 /\ t \in Fresh(n) /\ m \in 1 .. n
    BY <1>0, <1>3
  <2> HIDE DEF n
  <2> QED BY <2>1, FreshFacts
<1>5. m \in DOMAIN b /\ b # << >>
  BY <1>3
<1> HIDE DEF e
<1>6. e.kind # "op" => m = Len(b)
  <2>1. SUFFICES ASSUME b[m][1] # "op" PROVE m = Len(b)
    BY <1>1
  <2>2. CASE Len(b) = 2
    BY <1>3, <2>1, <2>2
  <2>3. CASE Len(b) # 2
    <3> DEFINE n == Len(b)
    <3>1. n \in 0 .. 2 /\ n # 2 /\ m \in 1 .. n
      BY <1>3, <2>3
    <3> HIDE DEF n
    <3>2. m = n
      BY <3>1
    <3> QED BY <3>2 DEF n
  <2> QED BY <2>2, <2>3
<1>7. ~Settled(e)
  BY <1>1 DEF Settled
<1> QED BY <1>1, <1>2, <1>4, <1>5, <1>6, <1>7 DEF e

LEMMA NewOnPath ==
  ASSUME NEW D, NEW final, NEW c, NEW b, NEW t, NEW ready, Advancing(D, final, c, b, t, ready),
         NEW m \in 1 .. Len(b)
  PROVE  win'[Behind(c, m)].on <=> right /\ (m = 2 => b[1][2] = "ok")
<1>1. Advanced(D, c, b, t)
  BY AdvancingFacts
<1> QED BY <1>1 DEF Advanced, Behind

LEMMA AdvanceDistinct ==
  ASSUME NEW D, NEW final, NEW c, NEW b, NEW t, NEW ready, Advancing(D, final, c, b, t, ready)
  PROVE  Distinct'
<1>0. TypeInv /\ Distinct /\ Advanced(D, c, b, t) /\ b \in Bundles /\ t \in Fresh(Len(b))
  BY AdvancingFacts DEF Advancing, Chosen
<1>1. ASSUME NEW k \in 1 .. Len(win) - c
      PROVE  /\ k + c \in DOMAIN win /\ win'[k].tag = win[k + c].tag /\ win'[k].tag \in InFlight
  <2>1. k + c \in DOMAIN win /\ win'[k].tag = win[k + c].tag
    BY <1>0 DEF Advanced
  <2> QED BY <1>0, <2>1, WinFacts
<1>2. ASSUME NEW m \in 1 .. Len(b)
      PROVE  win'[Behind(c, m)].tag = t[m] /\ t[m] \notin InFlight
  BY NewFacts
<1>3. ASSUME NEW m \in 1 .. Len(b), NEW o \in 1 .. Len(b), t[m] = t[o]
      PROVE  m = o
  <2> DEFINE n == Len(b)
  <2>1. n \in 0 .. 2 /\ t \in Fresh(n) /\ m \in 1 .. n /\ o \in 1 .. n
    BY <1>0 DEF Advanced
  <2> HIDE DEF n
  <2>2. n = 2 => t[1] # t[2]
    BY <2>1, FreshFacts
  <2> QED BY <1>3, <2>1, <2>2
<1>4. Len(win) \in Nat /\ c \in 0 .. 2 /\ c <= Len(win) /\ Len(b) \in 0 .. 2
  BY <1>0, WinFacts DEF Advanced
<1>5. SUFFICES ASSUME NEW j \in DOMAIN win', NEW k \in DOMAIN win', win'[j].tag = win'[k].tag
               PROVE  j = k
  BY DEF Distinct
<1>6. /\ j \in 1 .. Len(win) - c \/ \E m \in 1 .. Len(b) : j = Behind(c, m)
      /\ k \in 1 .. Len(win) - c \/ \E m \in 1 .. Len(b) : k = Behind(c, m)
  BY <1>0, Places
<1>7. CASE j \in 1 .. Len(win) - c /\ k \in 1 .. Len(win) - c
  <2>1. j + c = k + c
    BY <1>0, <1>1, <1>5, <1>7 DEF Distinct
  <2> QED BY <1>4, <1>7, <2>1
<1>8. CASE j \in 1 .. Len(win) - c /\ \E m \in 1 .. Len(b) : k = Behind(c, m)
  BY <1>1, <1>2, <1>5, <1>8
<1>9. CASE k \in 1 .. Len(win) - c /\ \E m \in 1 .. Len(b) : j = Behind(c, m)
  BY <1>1, <1>2, <1>5, <1>9
<1>10. CASE /\ \E m \in 1 .. Len(b) : j = Behind(c, m)
            /\ \E m \in 1 .. Len(b) : k = Behind(c, m)
  BY <1>2, <1>3, <1>5, <1>10
<1> QED BY <1>6, <1>7, <1>8, <1>9, <1>10

LEMMA AdvanceOfProgram ==
  ASSUME NEW D, NEW final, NEW c, NEW b, NEW t, NEW ready, Advancing(D, final, c, b, t, ready)
  PROVE  OfProgram' /\ program' = program
<1>0. TypeInv /\ OfProgram /\ Advanced(D, c, b, t) /\ program' = program /\ b \in Bundles
  BY AdvancingFacts DEF Advancing, Step, Chosen
<1>1. SUFFICES ASSUME NEW k \in DOMAIN win'
               PROVE  /\ <<win'[k].kind, win'[k].fate>> \in program.insts
                      /\ win'[k].recov => win'[k].kind = "branch" /\ win'[k].fate = "redir"
                                            /\ win'[k].done
  BY <1>0 DEF OfProgram
<1>2. CASE k \in 1 .. Len(win) - c
  <2>1. /\ k + c \in DOMAIN win
        /\ win'[k].kind = win[k + c].kind /\ win'[k].fate = win[k + c].fate
        /\ win'[k].recov = win[k + c].recov /\ (win[k + c].done => win'[k].done)
    BY <1>0, <1>2 DEF Advanced
  <2> QED BY <1>0, <2>1 DEF OfProgram
<1>3. CASE \E m \in 1 .. Len(b) : k = Behind(c, m)
  <2>1. PICK m \in 1 .. Len(b) : k = Behind(c, m)
    BY <1>3
  <2>2. /\ win'[k].kind = b[m][1] /\ win'[k].fate = b[m][2] /\ ~win'[k].recov
        /\ m \in DOMAIN b
    BY <2>1, NewFacts
  <2>3. b[m] \in program.insts /\ b[m] = <<b[m][1], b[m][2]>>
    BY <1>0, <2>2, BundleFacts
  <2> QED BY <2>2, <2>3
<1> QED BY <1>0, <1>2, <1>3, Places

LEMMA AdvanceSerialized ==
  ASSUME NEW D, NEW final, NEW c, NEW b, NEW t, NEW ready, Advancing(D, final, c, b, t, ready)
  PROVE  Serialized'
<1>0. /\ TypeInv /\ Serialized /\ Tracked /\ Advanced(D, c, b, t) /\ b \in Bundles
  BY AdvancingFacts DEF Advancing, Chosen
<1>1. /\ Len(win) \in Nat /\ c \in 0 .. 2 /\ c <= Len(win) /\ Len(b) \in 0 .. 2
      /\ Len(win') = (Len(win) - c) + Len(b)
      /\ (b = << >>) <=> (Len(b) = 0)
  BY <1>0, WinFacts, BundleFacts DEF Advanced
<1>2. SUFFICES ASSUME NEW k \in DOMAIN win', win'[k].kind = "sys"
               PROVE  k = Len(win') /\ \A j \in DOMAIN win' : ~Unresolved(win'[j])
  BY DEF Serialized
<1>3. CASE k \in 1 .. Len(win) - c
  <2>1. k + c \in DOMAIN win /\ win[k + c].kind = "sys"
    BY <1>0, <1>2, <1>3 DEF Advanced
  <2>2. k + c = Len(win) /\ \A j \in DOMAIN win : ~Unresolved(win[j])
    BY <1>0, <2>1 DEF Serialized
  <2>3. b = << >>
    BY <2>1, DispatchFacts
  <2>4. k = Len(win')
    BY <1>1, <1>3, <2>2, <2>3
  <2>5. ASSUME NEW j \in DOMAIN win' PROVE ~Unresolved(win'[j])
    <3>1. j \in 1 .. Len(win) - c \/ \E m \in 1 .. Len(b) : j = Behind(c, m)
      BY <1>0, Places
    <3>2. Len(b) = 0
      BY <1>1, <2>3
    <3>3. j \in 1 .. Len(win) - c
      BY <3>1, <3>2
    <3> QED BY <2>2, <3>3, KeptFacts
  <2> QED BY <2>4, <2>5
<1>4. CASE \E m \in 1 .. Len(b) : k = Behind(c, m)
  <2>1. PICK m \in 1 .. Len(b) : k = Behind(c, m)
    BY <1>4
  <2>2. m = Len(b) /\ b[m][1] = "sys" /\ m \in DOMAIN b /\ b # << >>
    <3>1. /\ win'[k].kind = b[m][1] /\ m \in DOMAIN b /\ b # << >>
          /\ win'[k].kind # "op" => m = Len(b)
      BY <2>1, NewFacts
    <3> QED BY <1>2, <3>1
  <2>3. window = << >>
    BY <2>2, DispatchFacts
  <2>4. \A j \in DOMAIN win : ~Unresolved(win[j])
    <3>1. DOMAIN window = {}
      BY <2>3
    <3> QED BY <1>0, <3>1 DEF Tracked
  <2>5. ASSUME NEW j \in DOMAIN win' PROVE ~Unresolved(win'[j])
    <3>1. CASE j \in 1 .. Len(win) - c
      BY <2>4, <3>1, KeptFacts
    <3>2. CASE \E o \in 1 .. Len(b) : j = Behind(c, o)
      <4>1. PICK o \in 1 .. Len(b) : j = Behind(c, o)
        BY <3>2
      <4>2. win'[j].kind = b[o][1] /\ (win'[j].kind # "op" => o = Len(b))
        BY <4>1, NewFacts
      <4>3. win'[j].kind # "branch"
        BY <2>2, <4>2
      <4> QED BY <4>3 DEF Unresolved
    <3> QED BY <1>0, <3>1, <3>2, Places
  <2>6. k = Len(win')
    BY <1>1, <2>1, <2>2 DEF Behind
  <2> QED BY <2>5, <2>6
<1> QED BY <1>0, <1>3, <1>4, Places

LEMMA AppendFacts ==
  ASSUME NEW S, NEW W \in Seq(S), NEW x \in S
  PROVE  /\ Append(W, x) \in Seq(S) /\ Len(Append(W, x)) = Len(W) + 1
         /\ DOMAIN Append(W, x) = 1 .. Len(W) + 1
         /\ \A i \in 1 .. Len(W) : Append(W, x)[i] = W[i]
         /\ Append(W, x)[Len(W) + 1] = x
  OBVIOUS

(* The branches the recovery controller knows afterwards.                  *)
LEMMA WindowAdvance ==
  ASSUME NEW D, NEW final, NEW c, NEW b, NEW t, NEW ready, Advancing(D, final, c, b, t, ready)
  PROVE  LET rel   == checkpoint_release(branch_final(D))
             alloc == branch_dispatch_tag(b, t)
         IN /\ window' \in Seq(Tags) /\ Len(window') \in 0 .. 2
            /\ DOMAIN window' = 1 .. Len(window')
            /\ \A i \in DOMAIN window' :
                 \/ \E j \in DOMAIN window : window'[i] = window[j] /\ window[j] # rel
                 \/ alloc # NoTag /\ window'[i] = alloc
            /\ \A j \in DOMAIN window : window[j] # rel =>
                 \E i \in DOMAIN window' : window'[i] = window[j]
            /\ alloc # NoTag => \E i \in DOMAIN window' : window'[i] = alloc
            /\ Len(window') = 2 /\ alloc = NoTag => window' = window
            /\ Len(window') = 2 /\ alloc # NoTag =>
                 /\ window'[2] = alloc
                 /\ \E j \in DOMAIN window : window'[1] = window[j] /\ window[j] # rel
<1> DEFINE rel   == checkpoint_release(branch_final(D))
           alloc == branch_dispatch_tag(b, t)
           gone  == {rel}
           W     == Without(gone)
<1>0. TypeInv /\ Distinct /\ Tracked
  BY AdvancingFacts
<1>1. /\ window' = IF alloc # NoTag THEN Append(W, alloc) ELSE W
      /\ alloc # NoTag => Len(W) < 2
  BY RecoveryAdvance
<1>2. alloc \in NoneOrTag
  BY AllocFacts
<1>3. Len(window) = 2 => window[1] # window[2]
  BY <1>0, WindowDistinct
<1>4. Len(window) \in 0 .. 2
  BY <1>0, WindowFacts
<1> HIDE DEF alloc, gone, rel
<1>5. /\ W \in Seq(Tags) /\ Len(W) <= Len(window) /\ DOMAIN W = 1 .. Len(W)
      /\ \A i \in DOMAIN W : \E j \in DOMAIN window : W[i] = window[j] /\ window[j] \notin gone
      /\ \A j \in DOMAIN window : window[j] \notin gone => \E i \in DOMAIN W : W[i] = window[j]
      /\ Len(W) = 2 => W = window
  BY <1>0, <1>3, WithoutFacts
<1>6. \A j \in DOMAIN window : window[j] \notin gone <=> window[j] # rel
  BY DEF gone
<1> HIDE DEF W
<1>7. Len(W) \in 0 .. 2
  <2>1. Len(W) \in Nat
    BY <1>5
  <2> DEFINE m == Len(W)
             n == Len(window)
  <2>2. m \in Nat /\ n \in 0 .. 2 /\ m <= n
    BY <1>4, <1>5, <2>1
  <2> HIDE DEF m, n
  <2>3. m \in 0 .. 2
    BY <2>2
  <2> QED BY <2>3 DEF m
<1>8. CASE alloc = NoTag
  <2>1. window' = W
    BY <1>1, <1>8
  <2> QED BY <1>5, <1>6, <1>7, <1>8, <2>1 DEF rel, alloc
<1>9. CASE alloc # NoTag
  <2> DEFINE m == Len(W)
  <2>1. alloc \in Tags /\ W \in Seq(Tags) /\ window' = Append(W, alloc)
    BY <1>1, <1>2, <1>5, <1>9 DEF NoneOrTag
  <2>2. /\ window' \in Seq(Tags) /\ Len(window') = m + 1 /\ DOMAIN window' = 1 .. m + 1
        /\ \A i \in 1 .. m : window'[i] = W[i]
        /\ window'[m + 1] = alloc
    BY <2>1, AppendFacts
  <2>3. m \in 0 .. 1 /\ DOMAIN W = 1 .. m
    BY <1>1, <1>5, <1>7, <1>9
  <2>4. Len(window') \in 0 .. 2 /\ DOMAIN window' = 1 .. Len(window') /\ m + 1 \in DOMAIN window'
    BY <2>2, <2>3
  <2>5. ASSUME NEW i \in DOMAIN window'
        PROVE  \/ \E j \in DOMAIN window : window'[i] = window[j] /\ window[j] # rel
               \/ alloc # NoTag /\ window'[i] = alloc
    <3>1. CASE i = m + 1
      BY <1>9, <2>2, <3>1
    <3>2. CASE i # m + 1
      <4>1. i \in 1 .. m
        BY <2>2, <2>3, <3>2
      <4> QED BY <1>5, <1>6, <2>2, <2>3, <4>1
    <3> QED BY <3>1, <3>2
  <2>6. ASSUME NEW j \in DOMAIN window, window[j] # rel
        PROVE  \E i \in DOMAIN window' : window'[i] = window[j]
    <3>1. PICK i \in DOMAIN W : W[i] = window[j]
      BY <1>5, <1>6, <2>6
    <3>2. i \in 1 .. m /\ i \in DOMAIN window'
      BY <2>2, <2>3, <3>1
    <3> QED BY <2>2, <3>1, <3>2
  <2>7. ASSUME Len(window') = 2
        PROVE  /\ window'[2] = alloc
               /\ \E j \in DOMAIN window : window'[1] = window[j] /\ window[j] # rel
    <3>1. m = 1 /\ 1 \in DOMAIN W
      BY <2>2, <2>3, <2>7
    <3>2. window'[2] = alloc /\ window'[1] = W[1]
      BY <2>2, <3>1
    <3> QED BY <1>5, <1>6, <3>1, <3>2
  <2>8. \E i \in DOMAIN window' : window'[i] = alloc
    BY <2>2, <2>4
  <2> QED BY <1>9, <2>2, <2>4, <2>5, <2>6, <2>7, <2>8 DEF rel, alloc
<1> QED BY <1>8, <1>9

(* ... and the checkpoints.                                                *)
LEMMA EntryAdvance ==
  ASSUME NEW D, NEW final, NEW c, NEW b, NEW t, NEW ready, Advancing(D, final, c, b, t, ready)
  PROVE  LET rel   == checkpoint_release(branch_final(D))
             alloc == branch_dispatch_tag(b, t)
         IN /\ entry' \in [0 .. 1 -> NoneOrTag] /\ oldest_idx' \in 0 .. 1
            /\ \A n \in 0 .. 1 : \/ entry'[n] = NoTag
                                 \/ entry'[n] = entry[n] /\ entry[n] # rel
                                 \/ alloc # NoTag /\ entry'[n] = alloc
            /\ \A n \in 0 .. 1 : entry[n] # NoTag /\ entry[n] # rel => entry'[n] = entry[n]
            /\ alloc # NoTag => \E n \in 0 .. 1 : /\ entry'[n] = alloc
                                                  /\ entry'[1 - n] # alloc
                                                  /\ entry'[1 - n] # NoTag => oldest_idx' = 1 - n
            /\ alloc = NoTag /\ entry'[0] # NoTag /\ entry'[1] # NoTag =>
                 oldest_idx' = oldest_idx
            /\ entry'[0] = NoTag => oldest_idx' = IF entry'[1] # NoTag THEN 1 ELSE 0
            /\ entry'[0] # NoTag /\ entry'[1] = NoTag => oldest_idx' = 0
<1> DEFINE rel   == checkpoint_release(branch_final(D))
           alloc == branch_dispatch_tag(b, t)
           P     == post_release(rel)
           idx   == alloc_idx(rel)
<1>0. /\ entry \in [0 .. 1 -> NoneOrTag] /\ oldest_idx \in 0 .. 1
  BY AdvancingFacts DEF TypeInv
<1>1. /\ entry' = IF alloc # NoTag THEN [P EXCEPT ![idx] = alloc] ELSE P
      /\ idx \in 0 .. 1
      /\ alloc # NoTag => P[idx] = NoTag
      /\ entry'[0] = NoTag => oldest_idx' = IF entry'[1] # NoTag THEN 1 ELSE 0
      /\ entry'[0] # NoTag => oldest_idx' = IF entry'[1] = NoTag THEN 0
                                            ELSE IF alloc # NoTag THEN 1 - idx
                                            ELSE oldest_idx
  BY CheckpointAdvance
<1>2. alloc \in NoneOrTag /\ ~Holds(alloc)
  BY AllocFacts
<1> HIDE DEF rel, alloc
<1>3. /\ P \in [0 .. 1 -> NoneOrTag]
      /\ \A n \in 0 .. 1 : P[n] = IF entry[n] = rel THEN NoTag ELSE entry[n]
  BY <1>0 DEF post_release, NoneOrTag
<1>4. alloc # NoTag => \A n \in 0 .. 1 : entry[n] # alloc /\ P[n] # alloc
  BY <1>2, <1>3 DEF Holds
<1> HIDE DEF P, idx
<1>5. CASE alloc = NoTag
  <2>1. entry' = P
    BY <1>1, <1>5
  <2>2. entry' \in [0 .. 1 -> NoneOrTag]
    BY <1>3, <2>1
  <2>3. oldest_idx' \in 0 .. 1
    BY <1>0, <1>1, <1>5
  <2>4. /\ entry'[0] # NoTag /\ entry'[1] # NoTag => oldest_idx' = oldest_idx
        /\ entry'[0] # NoTag /\ entry'[1] = NoTag => oldest_idx' = 0
    BY <1>1, <1>5
  <2>5. \A n \in 0 .. 1 : /\ \/ entry'[n] = NoTag
                             \/ entry'[n] = entry[n] /\ entry[n] # rel
                          /\ entry[n] # NoTag /\ entry[n] # rel => entry'[n] = entry[n]
    BY <1>3, <2>1
  <2> QED BY <1>1, <1>5, <2>2, <2>3, <2>4, <2>5 DEF rel, alloc
<1>6. CASE alloc # NoTag
  <2>1. entry' = [P EXCEPT ![idx] = alloc] /\ P[idx] = NoTag /\ idx \in 0 .. 1
    BY <1>1, <1>6
  <2>2. /\ entry' \in [0 .. 1 -> NoneOrTag] /\ entry'[idx] = alloc
        /\ \A n \in 0 .. 1 : n # idx => entry'[n] = P[n]
    BY <1>2, <1>3, <2>1
  <2>3. /\ oldest_idx' \in 0 .. 1
        /\ entry'[0] # NoTag /\ entry'[1] = NoTag => oldest_idx' = 0
        /\ entry'[0] # NoTag /\ entry'[1] # NoTag => oldest_idx' = 1 - idx
    BY <1>1, <1>6
  <2>4. 1 - idx \in 0 .. 1 /\ 1 - idx # idx
    BY <2>1
  <2>5. entry'[1 - idx] # alloc
    BY <1>4, <1>6, <2>2, <2>4
  <2>6. entry'[1 - idx] # NoTag => oldest_idx' = 1 - idx
    <3>1. CASE idx = 0
      BY <1>6, <2>2, <2>3, <3>1
    <3>2. CASE idx = 1
      BY <1>6, <2>2, <2>3, <3>2
    <3> QED BY <2>1, <3>1, <3>2
  <2>7. \A n \in 0 .. 1 : /\ \/ entry'[n] = NoTag
                             \/ entry'[n] = entry[n] /\ entry[n] # rel
                             \/ alloc # NoTag /\ entry'[n] = alloc
                          /\ entry[n] # NoTag /\ entry[n] # rel => entry'[n] = entry[n]
    BY <1>3, <1>6, <2>1, <2>2
  <2> QED BY <1>1, <1>6, <2>1, <2>2, <2>3, <2>5, <2>6, <2>7 DEF rel, alloc
<1> QED BY <1>5, <1>6

LEMMA AdvanceTypes ==
  ASSUME NEW D, NEW final, NEW c, NEW b, NEW t, NEW ready, Advancing(D, final, c, b, t, ready)
  PROVE  TypeInv'
<1>0. TypeInv /\ Advanced(D, c, b, t) /\ Step(D, final, c, b, t, ready)
  BY AdvancingFacts DEF Advancing
<1>1. program' \in Programs
  BY <1>0, AdvanceOfProgram DEF TypeInv
<1>2. win' \in Seq(EntryType)
  BY <1>0 DEF Advanced
<1>3. window' \in Seq(Tags) /\ Len(window') <= 2
  <2>1. window' \in Seq(Tags) /\ Len(window') \in 0 .. 2
    BY WindowAdvance
  <2>2. \A n \in 0 .. 2 : n <= 2
    OBVIOUS
  <2> QED BY <2>1, <2>2, Zenon
<1>4. entry' \in [0 .. 1 -> NoneOrTag] /\ oldest_idx' \in 0 .. 1
  BY EntryAdvance
<1>5. rec_state' \in {"active", "transaction"} /\ pending_tag' \in NoneOrTag
  <2> DEFINE sel == checkpoint_select(branch_final(D))
  <2>1. sel \in NoneOrTag
    BY BranchFacts
  <2>2. /\ sel = NoTag => rec_state' = "active" /\ pending_tag' = NoTag
        /\ sel # NoTag => rec_state' = "transaction" /\ pending_tag' = sel
    BY RecoveryAdvance
  <2> HIDE DEF sel
  <2> QED BY <2>1, <2>2 DEF NoneOrTag
<1>6. ctl_state' \in {"idle", "pending", "recover", "redirect"} /\ ctl_tag' \in NoneOrTag
  BY ControlAdvance
<1>7. last' \in [tag : NoneOrTag, on : BOOLEAN]
  <2>1. last' = IF c = 0 THEN last ELSE [tag |-> win[c].tag, on |-> win[c].on]
    BY <1>0 DEF Step, FrontEnd
  <2>2. CASE c = 0
    BY <1>0, <2>1, <2>2 DEF TypeInv
  <2>3. CASE c # 0
    <3>1. c \in 1 .. c
      BY <1>0, <2>3 DEF Advanced
    <3>2. c \in DOMAIN win
      BY <3>1, RetireFacts
    <3>3. win[c].tag \in Tags /\ win[c].on \in BOOLEAN
      BY <1>0, <3>2, WinFacts
    <3> QED BY <2>1, <2>3, <3>3 DEF NoneOrTag
  <2> QED BY <2>2, <2>3
<1> QED BY <1>1, <1>2, <1>3, <1>4, <1>5, <1>6, <1>7 DEF TypeInv, EntryType, NoneOrTag

(* What fires the squash is still there on the next edge.                  *)
LEMMA AdvanceTransaction ==
  ASSUME NEW D, NEW final, NEW c, NEW b, NEW t, NEW ready, Advancing(D, final, c, b, t, ready)
  PROVE  InTransaction'
<1> DEFINE rel   == checkpoint_release(branch_final(D))
           sel   == checkpoint_select(branch_final(D))
           alloc == branch_dispatch_tag(b, t)
<1>0. /\ TypeInv /\ OfProgram /\ Advanced(D, c, b, t) /\ D \subseteq {k \in DOMAIN win : ~win[k].done}
  BY AdvancingFacts
<1>1. /\ sel = NoTag => rec_state' = "active"
      /\ sel # NoTag => /\ rec_state' = "transaction" /\ pending_tag' = sel
                        /\ pending_checkpoint' = TRUE
  BY RecoveryAdvance
<1>2. /\ rel # NoTag => sel = NoTag
      /\ sel # NoTag => /\ Holds(sel)
           /\ \E d \in D : win[d].tag = sel /\ win[d].kind = "branch" /\ win[d].fate = "redir"
  BY BranchFacts
<1>3. \A n \in 0 .. 1 : entry[n] # NoTag /\ entry[n] # rel => entry'[n] = entry[n]
  BY EntryAdvance
<1> HIDE DEF rel, sel, alloc
<1>4. SUFFICES ASSUME rec_state' = "transaction"
               PROVE  /\ pending_checkpoint' /\ pending_tag' # NoTag
                      /\ \E i \in 0 .. 1 : entry'[i] = pending_tag'
                      /\ \E k \in DOMAIN win' :
                           /\ win'[k].tag = pending_tag' /\ win'[k].done /\ ~win'[k].recov
                           /\ win'[k].kind = "branch" /\ win'[k].fate = "redir"
  BY DEF InTransaction, Holds
<1>5. sel # NoTag /\ rel = NoTag /\ pending_tag' = sel /\ pending_checkpoint' = TRUE
  BY <1>1, <1>2, <1>4
<1>6. PICK d \in D : win[d].tag = sel /\ win[d].kind = "branch" /\ win[d].fate = "redir"
  BY <1>2, <1>5
<1>7. d \in DOMAIN win /\ ~win[d].done /\ ~win[d].recov
  BY <1>0, <1>6, WinFacts DEF OfProgram
<1>8. d > c
  <2>1. SUFFICES ASSUME ~(d > c) PROVE FALSE
    OBVIOUS
  <2>2. d \in 1 .. c
    <3>1. Len(win) \in Nat /\ DOMAIN win = 1 .. Len(win) /\ c \in 0 .. 2
      BY <1>0, WinFacts DEF Advanced
    <3> QED BY <1>7, <2>1, <3>1
  <2>3. ~IsControlWb(win[d])
    BY <1>6 DEF IsControlWb
  <2> QED BY <1>6, <1>7, <2>2, <2>3, RetireFacts
<1>9. d - c \in 1 .. Len(win) - c /\ d - c \in DOMAIN win' /\ (d - c) + c = d
  BY <1>0, <1>7, <1>8, Places
<1> DEFINE k == d - c
<1>10. k \in 1 .. Len(win) - c /\ k \in DOMAIN win' /\ k + c = d
  BY <1>9
<1> HIDE DEF k
<1>11. /\ win'[k].tag = win[k + c].tag /\ win'[k].kind = win[k + c].kind
       /\ win'[k].fate = win[k + c].fate /\ win'[k].recov = win[k + c].recov
       /\ win'[k].done <=> win[k + c].done \/ k + c \in D
  BY <1>0, <1>10 DEF Advanced
<1>12. /\ win'[k].tag = pending_tag' /\ win'[k].done /\ ~win'[k].recov
       /\ win'[k].kind = "branch" /\ win'[k].fate = "redir"
  BY <1>5, <1>6, <1>7, <1>10, <1>11
<1>13. \E i \in 0 .. 1 : entry'[i] = pending_tag'
  <2>1. PICK i \in 0 .. 1 : entry[i] = sel
    BY <1>2, <1>5 DEF Holds
  <2> QED BY <1>3, <1>5, <2>1
<1> QED BY <1>5, <1>10, <1>12, <1>13

(* What retires is on the path.                                            *)
LEMMA RetiredOn ==
  ASSUME NEW D, NEW final, NEW c, NEW b, NEW t, NEW ready, Advancing(D, final, c, b, t, ready),
         NEW k \in 1 .. c
  PROVE  win[k].on
<1>0. /\ TypeInv /\ OnPath /\ Advanced(D, c, b, t)
  BY AdvancingFacts
<1>1. Len(win) \in Nat /\ DOMAIN win = 1 .. Len(win) /\ c \in 0 .. 2 /\ c <= Len(win)
      /\ ((win = << >>) <=> (Len(win) = 0))
  BY <1>0, WinFacts DEF Advanced
<1>2. win[1].on
  BY <1>0, <1>1 DEF OnPath
<1>3. CASE k = 1
  BY <1>2, <1>3
<1>4. CASE k # 1
  <2>1. k = 2 /\ c = 2 /\ 1 \in 1 .. c /\ 1 \in DOMAIN win /\ 1 # Len(win)
    BY <1>1, <1>4
  <2>2. Passes(win[1])
    <3>1. ~IsControlWb(win[1])
      BY <2>1, RetireFacts
    <3> QED BY <2>1, <3>1, RetireFacts
  <2>3. win[1 + 1].on
    BY <1>0, <1>2, <2>1, <2>2 DEF OnPath
  <2> QED BY <2>1, <2>3
<1> QED BY <1>3, <1>4

LEMMA AdvanceQuiet ==
  ASSUME NEW D, NEW final, NEW c, NEW b, NEW t, NEW ready, Advancing(D, final, c, b, t, ready)
  PROVE  Restart' /\ Flushed' /\ Quiet'
<1>1. /\ dup_error' = FALSE /\ ctl_state' # "redirect"
      /\ ctl_state' = "recover" => c = 1 /\ IsControlWb(win[1]) /\ ctl_tag' = win[1].tag
  BY ControlAdvance
<1>2. Flushed'
  BY <1>1 DEF Flushed
<1>3. Quiet'
  <2>1. rec_errors' = {}
    BY RecoveryAdvance
  <2>2. ckpt_errors' = {}
    BY CheckpointAdvance
  <2>3. strayed' = FALSE
    <3>1. strayed' = (\E k \in 1 .. c : ~win[k].on)
      BY DEF Advancing, Step, FrontEnd
    <3> QED BY <3>1, RetiredOn
  <2> QED BY <1>1, <2>1, <2>2, <2>3 DEF Quiet, NoProtocolError
<1>4. Restart'
  <2>1. SUFFICES ASSUME ctl_state' = "recover" PROVE last'.tag = ctl_tag' /\ last'.on
    BY <1>1 DEF Restart
  <2>2. c = 1 /\ 1 \in 1 .. c /\ ctl_tag' = win[1].tag
    BY <1>1, <2>1
  <2>3. last' = [tag |-> win[1].tag, on |-> win[1].on]
    BY <2>2 DEF Advancing, Step, FrontEnd
  <2>4. win[1].on
    BY <2>2, RetiredOn
  <2> QED BY <2>2, <2>3, <2>4
<1> QED BY <1>2, <1>3, <1>4

(* The branches still to be resolved, before and after.                    *)
LEMMA OldTracked ==
  ASSUME NEW D, NEW final, NEW c, NEW b, NEW t, NEW ready, Advancing(D, final, c, b, t, ready),
         ctl_state' # "recover", NEW k \in DOMAIN win, Unresolved(win[k]),
         win[k].tag # checkpoint_release(branch_final(D))
  PROVE  /\ k - c \in 1 .. Len(win) - c /\ k - c \in DOMAIN win' /\ (k - c) + c = k
         /\ Unresolved(win'[k - c]) /\ win'[k - c].tag = win[k].tag
<1>0. /\ TypeInv /\ OfProgram /\ Advanced(D, c, b, t)
  BY AdvancingFacts
<1>1. /\ \A d \in D : win[d].kind = "branch" /\ win[d].fate = "ok" =>
           checkpoint_release(branch_final(D)) = win[d].tag
  BY BranchFacts
<1>2. ~(k \in D /\ win[k].fate = "ok") /\ win[k].kind = "branch" /\ ~Settled(win[k])
  BY <1>1 DEF Unresolved
<1>3. k > c
  <2>1. SUFFICES ASSUME ~(k > c) PROVE FALSE
    OBVIOUS
  <2>2. k \in 1 .. c
    <3>1. Len(win) \in Nat /\ DOMAIN win = 1 .. Len(win) /\ c \in 0 .. 2
      BY <1>0, WinFacts DEF Advanced
    <3> QED BY <2>1, <3>1
  <2>3. ~IsControlWb(win[k])
    BY <2>2, ControlAdvance
  <2>4. Passes(win[k]) /\ win[k].done
    BY <1>2, <2>2, <2>3, RetireFacts
  <2> QED BY <1>2, <2>4 DEF Passes, Settled
<1>4. k - c \in 1 .. Len(win) - c /\ k - c \in DOMAIN win' /\ (k - c) + c = k
  BY <1>0, <1>3, Places
<1> DEFINE j == k - c
<1>5. j \in 1 .. Len(win) - c /\ j + c = k
  BY <1>4
<1> HIDE DEF j
<1>6. /\ Settled(win'[j]) <=> /\ win[j + c].done \/ j + c \in D
                              /\ win[j + c].fate = "ok" \/ win[j + c].recov
  BY <1>5, KeptFacts
<1>7. ~Settled(win'[j])
  <2>1. win[k].recov => win[k].done
    BY <1>0 DEF OfProgram
  <2> QED BY <1>2, <1>5, <1>6, <2>1 DEF Settled
<1>8. win'[j].tag = win[k].tag /\ win'[j].kind = win[k].kind
  BY <1>0, <1>5 DEF Advanced
<1> QED BY <1>2, <1>4, <1>7, <1>8 DEF Unresolved, j

LEMMA KeptTracked ==
  ASSUME NEW D, NEW final, NEW c, NEW b, NEW t, NEW ready, Advancing(D, final, c, b, t, ready),
         NEW k \in 1 .. Len(win) - c, Unresolved(win'[k])
  PROVE  /\ k + c \in DOMAIN win /\ Unresolved(win[k + c]) /\ win'[k].tag = win[k + c].tag
         /\ win'[k].tag # checkpoint_release(branch_final(D))
<1> DEFINE rel == checkpoint_release(branch_final(D))
<1>0. /\ TypeInv /\ Distinct /\ Advanced(D, c, b, t) /\ D \subseteq {i \in DOMAIN win : ~win[i].done}
  BY AdvancingFacts
<1>1. k + c \in DOMAIN win /\ Unresolved(win[k + c])
  BY KeptFacts
<1>2. win'[k].tag = win[k + c].tag
  BY <1>0 DEF Advanced
<1>3. win[k + c].tag \in Tags /\ win[k + c].tag # NoTag
  BY <1>0, <1>1, WinFacts
<1>4. rel # NoTag =>
        \E d \in D : win[d].tag = rel /\ win[d].kind = "branch" /\ win[d].fate = "ok"
  BY BranchFacts
<1> HIDE DEF rel
<1>5. ASSUME win'[k].tag = rel PROVE FALSE
  <2>1. PICK d \in D : win[d].tag = rel /\ win[d].kind = "branch" /\ win[d].fate = "ok"
    BY <1>2, <1>3, <1>4, <1>5
  <2>2. d = k + c
    BY <1>0, <1>1, <1>2, <1>5, <2>1 DEF Distinct
  <2>3. Settled(win'[k])
    BY <2>1, <2>2, KeptFacts
  <2> QED BY <2>3 DEF Unresolved
<1> QED BY <1>1, <1>2, <1>5 DEF rel

LEMMA AdvanceTracked ==
  ASSUME NEW D, NEW final, NEW c, NEW b, NEW t, NEW ready, Advancing(D, final, c, b, t, ready),
         ctl_state' # "recover"
  PROVE  Tracked'
<1> DEFINE rel   == checkpoint_release(branch_final(D))
           alloc == branch_dispatch_tag(b, t)
<1>0. /\ TypeInv /\ Distinct /\ Tracked /\ Advanced(D, c, b, t)
  BY AdvancingFacts
<1>1. /\ DOMAIN window' = 1 .. Len(window')
      /\ \A i \in DOMAIN window' :
           \/ \E j \in DOMAIN window : window'[i] = window[j] /\ window[j] # rel
           \/ alloc # NoTag /\ window'[i] = alloc
      /\ \A j \in DOMAIN window : window[j] # rel =>
           \E i \in DOMAIN window' : window'[i] = window[j]
      /\ alloc # NoTag => \E i \in DOMAIN window' : window'[i] = alloc
      /\ Len(window') = 2 /\ alloc = NoTag => window' = window
      /\ Len(window') = 2 /\ alloc # NoTag =>
           /\ window'[2] = alloc
           /\ \E j \in DOMAIN window : window'[1] = window[j] /\ window[j] # rel
  BY WindowAdvance
<1>2. /\ \A m \in 1 .. Len(b) : b[m][1] = "branch" => alloc = t[m] /\ alloc # NoTag
      /\ alloc # NoTag =>
           \E m \in DOMAIN b : m \in 1 .. Len(b) /\ b[m][1] = "branch" /\ alloc = t[m]
  BY AllocPlace
<1>3. \A k \in DOMAIN win : Unresolved(win[k]) /\ win[k].tag # rel =>
         /\ k - c \in 1 .. Len(win) - c /\ k - c \in DOMAIN win'
         /\ Unresolved(win'[k - c]) /\ win'[k - c].tag = win[k].tag
  BY OldTracked
<1>4. \A k \in 1 .. Len(win) - c : Unresolved(win'[k]) =>
         /\ k + c \in DOMAIN win /\ Unresolved(win[k + c]) /\ win'[k].tag = win[k + c].tag
         /\ win'[k].tag # rel
  BY KeptTracked
<1>5. Len(win) \in Nat /\ DOMAIN win = 1 .. Len(win) /\ c \in 0 .. 2
  BY <1>0, WinFacts DEF Advanced
<1> HIDE DEF rel, alloc
<1>6. ASSUME NEW k \in DOMAIN win', Unresolved(win'[k])
      PROVE  \E i \in DOMAIN window' : window'[i] = win'[k].tag
  <2>1. CASE k \in 1 .. Len(win) - c
    <3>1. /\ k + c \in DOMAIN win /\ Unresolved(win[k + c]) /\ win'[k].tag = win[k + c].tag
          /\ win'[k].tag # rel
      BY <1>4, <1>6, <2>1
    <3>2. PICK j \in DOMAIN window : window[j] = win[k + c].tag
      BY <1>0, <3>1 DEF Tracked
    <3> QED BY <1>1, <3>1, <3>2
  <2>2. CASE \E m \in 1 .. Len(b) : k = Behind(c, m)
    <3>1. PICK m \in 1 .. Len(b) : k = Behind(c, m)
      BY <2>2
    <3>2. win'[k].kind = b[m][1] /\ win'[k].tag = t[m]
      BY <3>1, NewFacts
    <3>3. b[m][1] = "branch"
      BY <1>6, <3>2 DEF Unresolved
    <3> QED BY <1>1, <1>2, <3>2, <3>3
  <2> QED BY <1>0, <2>1, <2>2, Places
<1>7. ASSUME NEW j \in DOMAIN window, window[j] # rel
      PROVE  \E k \in DOMAIN win : /\ window[j] = win[k].tag /\ Unresolved(win[k])
                                   /\ k - c \in 1 .. Len(win) - c /\ k - c \in DOMAIN win'
                                   /\ Unresolved(win'[k - c]) /\ win'[k - c].tag = window[j]
  <2>1. PICK k \in DOMAIN win : window[j] = win[k].tag /\ Unresolved(win[k])
    BY <1>0 DEF Tracked
  <2> QED BY <1>3, <1>7, <2>1
<1>8. ASSUME alloc # NoTag
      PROVE  \E m \in 1 .. Len(b) : /\ Behind(c, m) \in DOMAIN win'
                                    /\ win'[Behind(c, m)].tag = alloc
                                    /\ Unresolved(win'[Behind(c, m)])
  <2>1. PICK m \in 1 .. Len(b) : b[m][1] = "branch" /\ alloc = t[m]
    BY <1>2, <1>8
  <2>2. /\ Behind(c, m) \in DOMAIN win' /\ win'[Behind(c, m)].tag = t[m]
        /\ win'[Behind(c, m)].kind = b[m][1] /\ ~Settled(win'[Behind(c, m)])
    BY NewFacts
  <2> QED BY <2>1, <2>2 DEF Unresolved
<1>9. ASSUME NEW i \in DOMAIN window'
      PROVE  \E k \in DOMAIN win' : window'[i] = win'[k].tag /\ Unresolved(win'[k])
  <2>1. CASE \E j \in DOMAIN window : window'[i] = window[j] /\ window[j] # rel
    BY <1>7, <2>1
  <2>2. CASE alloc # NoTag /\ window'[i] = alloc
    BY <1>8, <2>2
  <2> QED BY <1>1, <2>1, <2>2
<1>10. ASSUME Len(window') = 2
       PROVE  \E j, k \in DOMAIN win' :
                j < k /\ window'[1] = win'[j].tag /\ window'[2] = win'[k].tag
  <2>1. CASE alloc = NoTag
    <3>1. window' = window /\ 1 \in DOMAIN window /\ 2 \in DOMAIN window /\ Len(window) = 2
      BY <1>1, <1>10, <2>1
    <3>2. window[1] # rel /\ window[2] # rel
      BY <1>1, <2>1, <3>1
    <3>3. PICK j \in DOMAIN win, k \in DOMAIN win :
            j < k /\ window[1] = win[j].tag /\ window[2] = win[k].tag
      BY <1>0, <3>1 DEF Tracked
    <3>4. PICK x \in DOMAIN win : /\ window[1] = win[x].tag /\ x - c \in DOMAIN win'
                                  /\ win'[x - c].tag = window[1]
      BY <1>7, <3>1, <3>2
    <3>5. PICK y \in DOMAIN win : /\ window[2] = win[y].tag /\ y - c \in DOMAIN win'
                                  /\ win'[y - c].tag = window[2]
      BY <1>7, <3>1, <3>2
    <3>6. x = j /\ y = k
      BY <1>0, <3>3, <3>4, <3>5 DEF Distinct
    <3>7. x - c < y - c
      BY <1>5, <3>3, <3>6
    <3> QED BY <3>1, <3>4, <3>5, <3>7
  <2>2. CASE alloc # NoTag
    <3>1. PICK j \in DOMAIN window : window'[1] = window[j] /\ window[j] # rel
      BY <1>1, <1>10, <2>2
    <3>2. PICK k \in DOMAIN win : /\ k - c \in 1 .. Len(win) - c /\ k - c \in DOMAIN win'
                                  /\ win'[k - c].tag = window[j]
      BY <1>7, <3>1
    <3>3. PICK m \in 1 .. Len(b) : Behind(c, m) \in DOMAIN win' /\ win'[Behind(c, m)].tag = alloc
      BY <1>8, <2>2
    <3>4. k - c < Behind(c, m)
      BY <1>5, <3>2 DEF Behind
    <3>5. window'[2] = alloc
      BY <1>1, <1>10, <2>2
    <3> QED BY <3>1, <3>2, <3>3, <3>4, <3>5
  <2> QED BY <2>1, <2>2
<1> QED BY <1>6, <1>9, <1>10 DEF Tracked

LEMMA AdvanceCheckpointed ==
  ASSUME NEW D, NEW final, NEW c, NEW b, NEW t, NEW ready, Advancing(D, final, c, b, t, ready)
  PROVE  Checkpointed'
<1> DEFINE rel   == checkpoint_release(branch_final(D))
           alloc == branch_dispatch_tag(b, t)
<1>0. /\ TypeInv /\ Checkpointed
  BY AdvancingFacts
<1>1. /\ window' \in Seq(Tags) /\ Len(window') \in 0 .. 2 /\ DOMAIN window' = 1 .. Len(window')
      /\ \A i \in DOMAIN window' :
           \/ \E j \in DOMAIN window : window'[i] = window[j] /\ window[j] # rel
           \/ alloc # NoTag /\ window'[i] = alloc
      /\ \A j \in DOMAIN window : window[j] # rel =>
           \E i \in DOMAIN window' : window'[i] = window[j]
      /\ alloc # NoTag => \E i \in DOMAIN window' : window'[i] = alloc
      /\ Len(window') = 2 /\ alloc = NoTag => window' = window
      /\ Len(window') = 2 /\ alloc # NoTag => window'[2] = alloc
  BY WindowAdvance
<1>2. /\ entry' \in [0 .. 1 -> NoneOrTag] /\ oldest_idx' \in 0 .. 1
      /\ \A n \in 0 .. 1 : \/ entry'[n] = NoTag
                           \/ entry'[n] = entry[n] /\ entry[n] # rel
                           \/ alloc # NoTag /\ entry'[n] = alloc
      /\ \A n \in 0 .. 1 : entry[n] # NoTag /\ entry[n] # rel => entry'[n] = entry[n]
      /\ alloc # NoTag => \E n \in 0 .. 1 : /\ entry'[n] = alloc
                                            /\ entry'[1 - n] # alloc
                                            /\ entry'[1 - n] # NoTag => oldest_idx' = 1 - n
      /\ alloc = NoTag /\ entry'[0] # NoTag /\ entry'[1] # NoTag => oldest_idx' = oldest_idx
      /\ entry'[0] = NoTag => oldest_idx' = IF entry'[1] # NoTag THEN 1 ELSE 0
      /\ entry'[0] # NoTag /\ entry'[1] = NoTag => oldest_idx' = 0
  BY EntryAdvance
<1>3. \A j \in DOMAIN window : window[j] # NoTag
  BY <1>0, WindowFacts
<1> HIDE DEF rel, alloc
<1>4. ASSUME NEW i \in DOMAIN window'
      PROVE  \E n \in 0 .. 1 : entry'[n] = window'[i]
  <2>1. CASE \E j \in DOMAIN window : window'[i] = window[j] /\ window[j] # rel
    <3>1. PICK j \in DOMAIN window : window'[i] = window[j] /\ window[j] # rel
      BY <2>1
    <3>2. PICK n \in 0 .. 1 : entry[n] = window[j]
      BY <1>0 DEF Checkpointed
    <3> QED BY <1>2, <1>3, <3>1, <3>2
  <2>2. CASE alloc # NoTag /\ window'[i] = alloc
    BY <1>2, <2>2
  <2> QED BY <1>1, <2>1, <2>2
<1>5. ASSUME NEW n \in 0 .. 1, entry'[n] # NoTag
      PROVE  \E i \in DOMAIN window' : entry'[n] = window'[i]
  <2>1. CASE entry'[n] = entry[n] /\ entry[n] # rel
    <3>1. PICK j \in DOMAIN window : entry[n] = window[j]
      BY <1>0, <1>5, <2>1 DEF Checkpointed
    <3> QED BY <1>1, <2>1, <3>1
  <2>2. CASE alloc # NoTag /\ entry'[n] = alloc
    BY <1>1, <2>2
  <2> QED BY <1>2, <1>5, <2>1, <2>2
<1>6. ASSUME entry'[0] = entry'[1], entry'[0] # NoTag
      PROVE  FALSE
  <2>1. CASE alloc = NoTag
    <3>1. entry'[0] = entry[0] /\ entry'[1] = entry[1]
      BY <1>2, <1>6, <2>1
    <3> QED BY <1>0, <1>6, <3>1 DEF Checkpointed
  <2>2. CASE alloc # NoTag
    <3>1. PICK n \in 0 .. 1 : entry'[n] = alloc /\ entry'[1 - n] # alloc
      BY <1>2, <2>2
    <3>2. (n = 0 /\ 1 - n = 1) \/ (n = 1 /\ 1 - n = 0)
      BY <3>1
    <3> QED BY <1>6, <3>1, <3>2
  <2> QED BY <2>1, <2>2
<1>7. ASSUME window' # << >>
      PROVE  entry'[oldest_idx'] = window'[1]
  <2>1. ASSUME entry'[0] # NoTag /\ entry'[1] # NoTag /\ Len(window') = 2
        PROVE  oldest_idx' \in 0 .. 1 /\ entry'[oldest_idx'] = window'[1]
    <3>1. CASE alloc = NoTag
      <4>1. entry'[0] = entry[0] /\ entry'[1] = entry[1] /\ oldest_idx' = oldest_idx
        BY <1>2, <2>1, <3>1
      <4>2. window' = window
        BY <1>1, <2>1, <3>1
      <4>3. entry[oldest_idx] = window[1]
        BY <1>0, <1>7, <4>2 DEF Checkpointed
      <4> QED BY <1>2, <4>1, <4>2, <4>3
    <3>2. CASE alloc # NoTag
      <4>1. PICK n \in 0 .. 1 : /\ entry'[n] = alloc /\ entry'[1 - n] # alloc
                                /\ entry'[1 - n] # NoTag => oldest_idx' = 1 - n
        BY <1>2, <3>2
      <4>2. 1 - n \in 0 .. 1
        BY <4>1
      <4>3. entry'[1 - n] # NoTag
        <5>1. CASE n = 0
          BY <2>1, <5>1
        <5>2. CASE n = 1
          BY <2>1, <5>2
        <5> QED BY <4>1, <5>1, <5>2
      <4>4. PICK i \in DOMAIN window' : entry'[1 - n] = window'[i]
        BY <1>5, <4>2, <4>3
      <4>5. window'[2] = alloc /\ DOMAIN window' = 1 .. 2
        BY <1>1, <2>1, <3>2
      <4>6. i = 1
        BY <4>1, <4>4, <4>5
      <4> QED BY <4>1, <4>2, <4>3, <4>4, <4>6
    <3> QED BY <3>1, <3>2
  <2> DEFINE E == entry'
             W == window'
             o == oldest_idx'
  <2>2. /\ E \in [0 .. 1 -> NoneOrTag] /\ W \in Seq(Tags)
        /\ \A i \in DOMAIN W : \E n \in 0 .. 1 : E[n] = W[i]
        /\ \A n \in 0 .. 1 : E[n] # NoTag => \E i \in DOMAIN W : E[n] = W[i]
        /\ E[0] = E[1] => E[0] = NoTag
        /\ E[0] # NoTag /\ E[1] # NoTag /\ Len(W) = 2 => o \in 0 .. 1 /\ E[o] = W[1]
        /\ E[0] = NoTag => o = IF E[1] # NoTag THEN 1 ELSE 0
        /\ E[0] # NoTag /\ E[1] = NoTag => o = 0
        /\ W # << >>
    BY <1>1, <1>2, <1>4, <1>5, <1>6, <1>7, <2>1
  <2>3. Len(W) <= 2
    <3>1. Len(W) \in 0 .. 2
      BY <1>1
    <3>2. \A n \in 0 .. 2 : n <= 2
      OBVIOUS
    <3> QED BY <3>1, <3>2, Zenon
  <2> HIDE DEF E, W, o
  <2>4. E[o] = W[1]
    BY <2>2, <2>3, OldestNames
  <2> QED BY <2>4 DEF E, W, o
<1> QED BY <1>4, <1>5, <1>6, <1>7 DEF Checkpointed

LEMMA AdvanceControlled ==
  ASSUME NEW D, NEW final, NEW c, NEW b, NEW t, NEW ready, Advancing(D, final, c, b, t, ready),
         ctl_state' # "recover"
  PROVE  Controlled'
<1>0. /\ TypeInv /\ Controlled /\ Advanced(D, c, b, t) /\ program' = program
      /\ D \subseteq {k \in DOMAIN win : ~win[k].done}
  BY AdvancingFacts, AdvanceOfProgram
<1>1. /\ \A k \in 1 .. c : ~IsControlWb(win[k])
      /\ \A k \in D : IsControlWb(win[k]) => /\ ctl_state' = "pending"
              /\ ctl_tag' = win[k].tag
              /\ ctl_kind' = IF win[k].fate = "exc" THEN "exception" ELSE "system"
      /\ ctl_state' = "pending" /\ (\A k \in D : ~IsControlWb(win[k])) => ctl_state = "pending"
      /\ ctl_state = "pending" =>
              ctl_state' = "pending" /\ ctl_tag' = ctl_tag /\ ctl_kind' = ctl_kind
  BY ControlAdvance
<1>2. Len(win) \in Nat /\ DOMAIN win = 1 .. Len(win) /\ c \in 0 .. 2
  BY <1>0, WinFacts DEF Advanced
<1>3. ASSUME NEW d \in DOMAIN win, IsControlWb(win[d]), win[d].done \/ d \in D,
             ctl_tag' = win[d].tag,
             ctl_kind' = IF win[d].fate = "exc" THEN "exception" ELSE "system",
             \A j \in 1 .. d - 1 : ~Unresolved(win[j]) /\ (program.in_order => Settled(win[j]))
      PROVE  \E k \in DOMAIN win' : Owns(k)'
  <2>1. d > c
    <3>1. SUFFICES ASSUME ~(d > c) PROVE FALSE
      OBVIOUS
    <3>2. d \in 1 .. c
      BY <1>2, <3>1
    <3> QED BY <1>1, <1>3, <3>2
  <2>2. d - c \in 1 .. Len(win) - c /\ d - c \in DOMAIN win' /\ (d - c) + c = d
    BY <1>0, <2>1, Places
  <2> DEFINE k == d - c
  <2>3. k \in 1 .. Len(win) - c /\ k \in DOMAIN win' /\ k + c = d
    BY <2>2
  <2> HIDE DEF k
  <2>4. /\ win'[k].tag = win[d].tag /\ win'[k].fate = win[d].fate
        /\ win'[k].kind = win[d].kind /\ win'[k].done
    BY <1>0, <1>3, <2>3 DEF Advanced
  <2>5. IsControlWb(win'[k])
    BY <1>3, <2>4 DEF IsControlWb
  <2>6. ASSUME NEW j \in 1 .. k - 1
        PROVE  ~Unresolved(win'[j]) /\ (program.in_order => Settled(win'[j]))
    <3>1. j \in 1 .. Len(win) - c /\ j + c \in 1 .. d - 1
      BY <1>2, <2>3
    <3>2. ~Unresolved(win[j + c]) /\ (program.in_order => Settled(win[j + c]))
      BY <1>3, <3>1
    <3> QED BY <3>1, <3>2, KeptFacts
  <2>7. Owns(k)'
    BY <1>0, <1>3, <2>4, <2>5, <2>6 DEF Owns
  <2> QED BY <2>3, <2>7
<1>4. ASSUME ctl_state' = "pending"
      PROVE  \E k \in DOMAIN win' : Owns(k)'
  <2>1. CASE \E d \in D : IsControlWb(win[d])
    <3>1. PICK d \in D : IsControlWb(win[d])
      BY <2>1
    <3>2. \A j \in 1 .. d - 1 : ~Unresolved(win[j]) /\ (program.in_order => Settled(win[j]))
      BY <3>1, ReportFacts
    <3>3. /\ ctl_tag' = win[d].tag
          /\ ctl_kind' = IF win[d].fate = "exc" THEN "exception" ELSE "system"
      BY <1>1, <3>1
    <3>4. d \in DOMAIN win
      BY <1>0
    <3> QED BY <1>3, <3>1, <3>2, <3>3, <3>4
  <2>2. CASE ~\E d \in D : IsControlWb(win[d])
    <3>1. ctl_state = "pending" /\ ctl_tag' = ctl_tag /\ ctl_kind' = ctl_kind
      BY <1>1, <1>4, <2>2
    <3>2. PICK m \in DOMAIN win : Owns(m)
      BY <1>0, <3>1 DEF Controlled
    <3>3. /\ IsControlWb(win[m]) /\ win[m].done /\ ctl_tag' = win[m].tag
          /\ ctl_kind' = IF win[m].fate = "exc" THEN "exception" ELSE "system"
          /\ \A j \in 1 .. m - 1 : ~Unresolved(win[j]) /\ (program.in_order => Settled(win[j]))
      BY <3>1, <3>2 DEF Owns
    <3> QED BY <1>3, <3>3
  <2> QED BY <2>1, <2>2
<1>5. ASSUME NEW k \in DOMAIN win', win'[k].done /\ IsControlWb(win'[k])
      PROVE  ctl_state' = "pending" /\ ctl_tag' = win'[k].tag
  <2>1. CASE k \in 1 .. Len(win) - c
    <3>1. /\ k + c \in DOMAIN win /\ win'[k].tag = win[k + c].tag
          /\ win[k + c].done \/ k + c \in D
      BY <1>0, <1>5, <2>1 DEF Advanced
    <3>2. IsControlWb(win[k + c])
      BY <1>5, <2>1, KeptFacts
    <3>3. CASE k + c \in D
      BY <1>1, <3>1, <3>2, <3>3
    <3>4. CASE win[k + c].done
      <4>1. ctl_state = "pending" /\ ctl_tag = win[k + c].tag
        BY <1>0, <3>1, <3>2, <3>4 DEF Controlled
      <4> QED BY <1>1, <3>1, <4>1
    <3> QED BY <3>1, <3>3, <3>4
  <2>2. CASE \E m \in 1 .. Len(b) : k = Behind(c, m)
    BY <1>5, <2>2, NewFacts
  <2> QED BY <1>0, <2>1, <2>2, Places
<1> QED BY <1>4, <1>5 DEF Controlled

LEMMA AdvanceRecovered ==
  ASSUME NEW D, NEW final, NEW c, NEW b, NEW t, NEW ready, Advancing(D, final, c, b, t, ready)
  PROVE  Recovered'
<1> DEFINE sel == checkpoint_select(branch_final(D))
<1>0. /\ TypeInv /\ Recovered /\ Advanced(D, c, b, t) /\ rec_state = "active"
      /\ D \subseteq {k \in DOMAIN win : ~win[k].done}
  BY AdvancingFacts DEF Advancing
<1>1. \A d \in D : win[d].kind = "branch" /\ win[d].fate = "redir" => sel = win[d].tag
  BY BranchFacts
<1>2. sel # NoTag => rec_state' = "transaction" /\ pending_tag' = sel
  BY RecoveryAdvance
<1> HIDE DEF sel
<1>3. SUFFICES ASSUME NEW k \in DOMAIN win', win'[k].done, win'[k].fate = "redir",
                      win'[k].kind = "branch"
               PROVE  win'[k].recov \/ (rec_state' = "transaction" /\ pending_tag' = win'[k].tag)
  BY DEF Recovered
<1>4. CASE k \in 1 .. Len(win) - c
  <2>1. /\ k + c \in DOMAIN win /\ win'[k].tag = win[k + c].tag
        /\ win'[k].kind = win[k + c].kind /\ win'[k].fate = win[k + c].fate
        /\ win'[k].recov = win[k + c].recov
        /\ win[k + c].done \/ k + c \in D
    BY <1>0, <1>3, <1>4 DEF Advanced
  <2>2. CASE k + c \in D
    <3>1. sel = win[k + c].tag
      BY <1>1, <1>3, <2>1, <2>2
    <3>2. win[k + c].tag # NoTag
      BY <1>0, <2>1, WinFacts
    <3> QED BY <1>2, <2>1, <3>1, <3>2
  <2>3. CASE win[k + c].done
    BY <1>0, <1>3, <2>1, <2>3 DEF Recovered
  <2> QED BY <2>1, <2>2, <2>3
<1>5. CASE \E m \in 1 .. Len(b) : k = Behind(c, m)
  BY <1>3, <1>5, NewFacts
<1> QED BY <1>0, <1>4, <1>5, Places

(* What follows what retires is on the path.                               *)
LEMMA NextOn ==
  ASSUME NEW D, NEW final, NEW c, NEW b, NEW t, NEW ready, Advancing(D, final, c, b, t, ready),
         ctl_state' # "recover"
  PROVE  /\ c < Len(win) => win[c + 1].on
         /\ c = Len(win) /\ ctl_state # "redirect" => right
<1>0. /\ TypeInv /\ OnPath /\ Advanced(D, c, b, t)
  BY AdvancingFacts
<1>1. Len(win) \in Nat /\ DOMAIN win = 1 .. Len(win) /\ c \in 0 .. 2 /\ c <= Len(win)
      /\ ((win = << >>) <=> (Len(win) = 0))
  BY <1>0, WinFacts DEF Advanced
<1>2. CASE c = 0
  <2>1. c < Len(win) => win # << >>
    BY <1>1, <1>2
  <2>2. c < Len(win) => win[c + 1].on
    BY <1>0, <1>2, <2>1 DEF OnPath
  <2>3. c = Len(win) /\ ctl_state # "redirect" => right
    BY <1>0, <1>1, <1>2 DEF OnPath
  <2> QED BY <2>2, <2>3
<1>3. CASE c # 0
  <2>1. c \in 1 .. c /\ c \in DOMAIN win
    BY <1>1, <1>3
  <2>2. ~IsControlWb(win[c])
    BY <2>1, ControlAdvance
  <2>3. Passes(win[c]) /\ win[c].on
    BY <2>1, <2>2, RetireFacts, RetiredOn
  <2>4. IF c = Len(win) THEN right ELSE win[c + 1].on
    BY <1>0, <2>1, <2>3 DEF OnPath
  <2>5. CASE c = Len(win)
    <3>1. ~(c < Len(win)) /\ right
      BY <1>1, <2>4, <2>5
    <3> QED BY <3>1
  <2>6. CASE c # Len(win)
    BY <2>4, <2>6
  <2> QED BY <2>5, <2>6
<1> QED BY <1>2, <1>3

LEMMA AdvanceOnPath ==
  ASSUME NEW D, NEW final, NEW c, NEW b, NEW t, NEW ready, Advancing(D, final, c, b, t, ready),
         ctl_state' # "recover"
  PROVE  OnPath'
<1>0. /\ TypeInv /\ OnPath /\ Flushed /\ Restart /\ Advanced(D, c, b, t) /\ rec_state = "active"
      /\ b \in Bundles /\ Step(D, final, c, b, t, ready) /\ ready = TRUE
  BY AdvancingFacts DEF Advancing, Chosen, redirect_ready
<1>1. Len(win) \in Nat /\ DOMAIN win = 1 .. Len(win) /\ c \in 0 .. 2 /\ c <= Len(win)
      /\ ((win = << >>) <=> (Len(win) = 0))
      /\ Len(b) \in 0 .. 2 /\ Len(win') = (Len(win) - c) + Len(b)
      /\ DOMAIN win' = 1 .. (Len(win) - c) + Len(b)
  BY <1>0, WinFacts DEF Advanced
<1>2. DOMAIN b = 1 .. Len(b) /\ ((b = << >>) <=> (Len(b) = 0))
  BY <1>0, BundleFacts
<1>3. CASE ctl_state = "redirect"
  <2>1. Len(win) = 0 /\ c = 0
    BY <1>0, <1>1, <1>3 DEF Flushed
  <2>2. Len(b) = 0
    <3>1. b = << >>
      BY <1>3, DispatchFacts
    <3> QED BY <1>2, <3>1
  <2>3. win' = << >> /\ DOMAIN win' = {}
    <3>1. win' \in Seq(EntryType) /\ Len(win') = 0
      BY <1>0, <1>1, <2>1, <2>2 DEF Advanced
    <3> QED BY <3>1
  <2>4. last' = last
    BY <1>0, <2>1 DEF Step, FrontEnd
  <2>5. redirect_accepted(ready) /\ redirect_tag = ctl_tag
    BY <1>0, <1>3 DEF redirect_accepted, redirect_tag, ctl_redirect_valid
  <2>6. right' = (last'.tag = redirect_tag /\ last'.on)
    BY <1>0, <2>3, <2>5 DEF Step, FrontEnd
  <2>7. right'
    BY <1>0, <1>3, <2>4, <2>5, <2>6 DEF Restart
  <2> QED BY <2>3, <2>7 DEF OnPath
<1>4. CASE ctl_state # "redirect"
  <2>1. right' = (right /\ \A k \in DOMAIN b : b[k][2] = "ok")
    <3>1. ~redirect_accepted(ready)
      BY <1>0, <1>4 DEF redirect_accepted, ctl_redirect_valid, branch_redirect_valid,
         rec_redirect_valid
    <3> QED BY <1>0, <3>1 DEF Step, FrontEnd
  <2>2. /\ c < Len(win) => win[c + 1].on
        /\ c = Len(win) => right
    BY <1>4, NextOn
  <2>3. ASSUME NEW m \in 1 .. Len(b), m = 1
        PROVE  win'[Behind(c, m)].on <=> right
    BY <2>3, NewOnPath
  <2>4. win' # << >> => win'[1].on
    <3>1. CASE c < Len(win)
      <4>1. 1 \in 1 .. Len(win) - c /\ 1 + c = c + 1
        BY <1>1, <3>1
      <4> QED BY <1>0, <2>2, <3>1, <4>1 DEF Advanced
    <3>2. CASE ~(c < Len(win))
      <4>1. c = Len(win) /\ Behind(c, 1) = 1
        <5> DEFINE n == Len(win)
        <5>1. n \in Nat /\ c \in 0 .. 2 /\ c <= n /\ ~(c < n) /\ Behind(c, 1) = (n - c) + 1
          BY <1>1, <3>2 DEF Behind
        <5> HIDE DEF n
        <5>2. c = n /\ Behind(c, 1) = 1
          BY <5>1
        <5> QED BY <5>2 DEF n
      <4>2. SUFFICES ASSUME win' # << >> PROVE win'[1].on
        OBVIOUS
      <4>3. Len(win') # 0
        BY <1>0, <4>2 DEF Advanced
      <4>4. 1 \in 1 .. Len(b)
        BY <1>1, <4>1, <4>3
      <4> QED BY <2>2, <2>3, <4>1, <4>4
    <3> QED BY <3>1, <3>2
  <2>5. ASSUME NEW k \in DOMAIN win', win'[k].on, Passes(win'[k])
        PROVE  IF k = Len(win') THEN right' ELSE win'[k + 1].on
    <3>1. CASE k \in 1 .. Len(win) - c
      <4>1. win[k + c].on /\ k + c \in DOMAIN win
        BY <1>0, <2>5, <3>1 DEF Advanced
      <4>2. Passes(win[k + c])
        BY <2>5, <3>1, KeptFacts
      <4>3. IF k + c = Len(win) THEN right ELSE win[(k + c) + 1].on
        BY <1>0, <4>1, <4>2 DEF OnPath
      <4>4. CASE k + c = Len(win)
        <5>1. CASE Len(b) = 0
          <6>1. right' = right
            <7>1. DOMAIN b = {}
              BY <1>2, <5>1
            <7> QED BY <2>1, <7>1, <4>3, <4>4
          <6>2. k = Len(win')
            BY <1>1, <3>1, <4>4, <5>1
          <6> QED BY <4>3, <4>4, <6>1, <6>2
        <5>2. CASE Len(b) # 0
          <6>1. 1 \in 1 .. Len(b) /\ Behind(c, 1) = k + 1 /\ k # Len(win')
            BY <1>1, <3>1, <4>4, <5>2 DEF Behind
          <6> QED BY <2>3, <4>3, <4>4, <6>1
        <5> QED BY <5>1, <5>2
      <4>5. CASE k + c # Len(win)
        <5>1. k + 1 \in 1 .. Len(win) - c /\ (k + 1) + c = (k + c) + 1 /\ k # Len(win')
          BY <1>1, <3>1, <4>5
        <5>2. win'[k + 1].on = win[(k + 1) + c].on
          BY <1>0, <5>1 DEF Advanced
        <5> QED BY <4>3, <4>5, <5>1, <5>2
      <4> QED BY <4>4, <4>5
    <3>2. CASE \E m \in 1 .. Len(b) : k = Behind(c, m)
      <4>1. PICK m \in 1 .. Len(b) : k = Behind(c, m)
        BY <3>2
      <4>2. win'[k].fate = b[m][2] /\ ~win'[k].recov
        BY <4>1, NewFacts
      <4>3. b[m][2] = "ok"
        BY <2>5, <4>2 DEF Passes
      <4>4. right /\ (m = 2 => b[1][2] = "ok")
        BY <2>5, <4>1, NewOnPath
      <4>5. CASE m = Len(b)
        <5>1. \A j \in DOMAIN b : b[j][2] = "ok"
          BY <1>1, <1>2, <4>3, <4>4, <4>5
        <5>2. k = Len(win')
          BY <1>1, <4>1, <4>5 DEF Behind
        <5> QED BY <2>1, <4>4, <5>1, <5>2
      <4>6. CASE m # Len(b)
        <5>1. m = 1 /\ 2 \in 1 .. Len(b) /\ Behind(c, 2) = k + 1 /\ k # Len(win')
          <6> DEFINE n == Len(win) - c
                     q == Len(b)
                     z == Len(win')
          <6>1. n \in Nat /\ q \in 0 .. 2 /\ m \in 1 .. q /\ m # q /\ z = n + q
            BY <1>1, <4>6
          <6>2. k = n + m /\ Behind(c, 2) = n + 2
            BY <4>1 DEF Behind
          <6> HIDE DEF n, q, z
          <6>3. m = 1 /\ q = 2
            BY <6>1
          <6>4. 2 \in 1 .. q /\ Behind(c, 2) = k + 1 /\ k # z
            BY <6>1, <6>2, <6>3
          <6> QED BY <6>3, <6>4 DEF q, z
        <5>2. win'[Behind(c, 2)].on <=> right /\ (2 = 2 => b[1][2] = "ok")
          BY <5>1, NewOnPath
        <5>3. win'[Behind(c, 2)].on
          BY <4>3, <4>4, <5>1, <5>2
        <5> QED BY <5>1, <5>3
      <4> QED BY <4>5, <4>6
    <3> QED BY <1>0, <3>1, <3>2, Places
  <2>6. ASSUME win' = << >>
        PROVE  right'
    <3>1. Len(win') = 0
      BY <2>6
    <3>2. c = Len(win) /\ Len(b) = 0
      <4> DEFINE n == Len(win)
                 q == Len(b)
                 z == Len(win')
      <4>1. n \in Nat /\ c \in 0 .. 2 /\ c <= n /\ q \in 0 .. 2 /\ z = (n - c) + q /\ z = 0
        BY <1>1, <3>1
      <4> HIDE DEF n, q, z
      <4>2. c = n /\ q = 0
        BY <4>1
      <4> QED BY <4>2 DEF n, q
    <3>3. DOMAIN b = {} /\ right
      BY <1>2, <2>2, <3>2
    <3> QED BY <2>1, <3>3
  <2> QED BY <2>4, <2>5, <2>6 DEF OnPath
<1> QED BY <1>3, <1>4

LEMMA AdvanceKeeps ==
  ASSUME NEW D, NEW final, NEW c, NEW b, NEW t, NEW ready, Advancing(D, final, c, b, t, ready)
  PROVE  IInv'
<1>1. FaultsInOrder'
  BY AdvancingFacts, AdvanceOfProgram DEF FaultsInOrder
<1>2. TypeInv' /\ Distinct' /\ OfProgram' /\ Serialized'
  BY AdvanceTypes, AdvanceDistinct, AdvanceOfProgram, AdvanceSerialized
<1>3. InTransaction' /\ Restart' /\ Flushed' /\ Quiet'
  BY AdvanceTransaction, AdvanceQuiet
<1>4. ctl_state' # "recover" => Tracked' /\ Checkpointed' /\ Controlled' /\ Recovered' /\ OnPath'
  BY AdvanceTracked, AdvanceCheckpointed, AdvanceControlled, AdvanceRecovered, AdvanceOnPath
<1> QED BY <1>1, <1>2, <1>3, <1>4 DEF IInv

-----------------------------------------------------------------------------
LEMMA InitHolds ==
  ASSUME Init, FaultsInOrder
  PROVE  IInv
<1>1. /\ program \in Programs /\ win = << >> /\ window = << >> /\ Len(window) = 0
      /\ entry = [i \in 0 .. 1 |-> NoTag] /\ oldest_idx = 0 /\ rec_state = "active"
      /\ pending_tag = NoTag /\ ctl_state = "idle" /\ ctl_tag = NoTag
      /\ last = [tag |-> NoTag, on |-> TRUE] /\ right = TRUE /\ strayed = FALSE
      /\ ckpt_errors = {} /\ rec_errors = {} /\ dup_error = FALSE
  BY DEF Init, CkptInit, RecInit, CtlInit
<1>2. DOMAIN win = {} /\ DOMAIN window = {} /\ entry[0] = NoTag /\ entry[1] = NoTag
  BY <1>1
<1>3. TypeInv
  <2>1. /\ win \in Seq(EntryType) /\ window \in Seq(Tags) /\ Len(window) <= 2
        /\ entry \in [0 .. 1 -> NoneOrTag] /\ oldest_idx \in 0 .. 1
    BY <1>1 DEF NoneOrTag
  <2>2. last \in [tag : NoneOrTag, on : BOOLEAN]
    BY <1>1 DEF NoneOrTag
  <2> QED BY <1>1, <2>1, <2>2 DEF TypeInv, NoneOrTag
<1>4. Distinct /\ OfProgram /\ Serialized
  BY <1>2 DEF Distinct, OfProgram, Serialized
<1>5. InTransaction /\ Restart /\ Flushed /\ Quiet
  BY <1>1 DEF InTransaction, Restart, Flushed, Quiet, NoProtocolError
<1>6. Tracked
  BY <1>1, <1>2 DEF Tracked
<1>7. Checkpointed
  BY <1>1, <1>2 DEF Checkpointed
<1>8. Controlled /\ Recovered
  BY <1>1, <1>2 DEF Controlled, Recovered
<1>9. OnPath
  BY <1>1, <1>2 DEF OnPath
<1> QED BY <1>3, <1>4, <1>5, <1>6, <1>7, <1>8, <1>9 DEF IInv

LEMMA IdleKeeps ==
  ASSUME IInv, UNCHANGED vars
  PROVE  IInv'
<1>1. UNCHANGED <<entry, oldest_idx, ckpt_errors, rec_state, window, pending_tag, rec_errors,
                  ctl_state, ctl_kind, ctl_tag, dup_error, program, win, pending_checkpoint,
                  right, last, strayed>>
  BY DEF vars, ckptvars, recvars, ctlvars
<1>2. FaultsInOrder' /\ TypeInv' /\ Distinct' /\ OfProgram' /\ Serialized'
  BY <1>1 DEF IInv, FaultsInOrder, TypeInv, EntryType, NoneOrTag, Distinct, OfProgram,
     Serialized, Unresolved, Settled
<1>3. InTransaction' /\ Restart' /\ Flushed' /\ Quiet'
  BY <1>1 DEF IInv, InTransaction, Restart, Flushed, Quiet, NoProtocolError, Holds
<1>4. CASE ctl_state # "recover"
  <2>1. Tracked' /\ Checkpointed'
    BY <1>1, <1>4 DEF IInv, Tracked, Checkpointed, Unresolved, Settled
  <2>2. Controlled' /\ Recovered'
    BY <1>1, <1>4 DEF IInv, Controlled, Recovered, Owns, IsControlWb, Unresolved, Settled
  <2>3. OnPath'
    BY <1>1, <1>4 DEF IInv, OnPath, Passes
  <2> QED BY <1>2, <1>3, <2>1, <2>2, <2>3 DEF IInv
<1> QED BY <1>1, <1>2, <1>3, <1>4 DEF IInv

(* Every edge keeps the invariant.                                         *)
LEMMA EdgeKeeps ==
  ASSUME IInv, Edge
  PROVE  IInv'
<1>1. PICK D, final, c, b, t, ready :
        Chosen(D, final, c, b, t, ready) /\ Step(D, final, c, b, t, ready)
  BY EdgeStep
<1>2. CASE ctl_state = "recover"
  BY <1>1, <1>2, FlushKeeps
<1>3. CASE ctl_state # "recover" /\ rec_state = "transaction"
  BY <1>1, <1>3, SquashKeeps
<1>4. CASE ctl_state # "recover" /\ rec_state # "transaction"
  <2>1. rec_state = "active"
    BY <1>4 DEF IInv, TypeInv
  <2>2. Advancing(D, final, c, b, t, ready)
    BY <1>1, <1>4, <2>1 DEF Advancing
  <2> QED BY <2>2, AdvanceKeeps
<1> QED BY <1>2, <1>3, <1>4

(* The inductive invariant holds of every program whose faults are         *)
(* reported in order.                                                      *)
THEOREM Inductive == Spec /\ FaultsInOrder => []IInv
<1>1. Init /\ FaultsInOrder => IInv
  BY InitHolds
<1>2. IInv /\ [Edge]_vars => IInv'
  BY EdgeKeeps, IdleKeeps
<1> QED BY <1>1, <1>2, PTL DEF Spec

-----------------------------------------------------------------------------
LEMMA BookkeepingOf ==
  ASSUME IInv
  PROVE  BranchBookkeeping
<1> SUFFICES ASSUME ctl_state # "recover"
             PROVE  /\ {window[i] : i \in DOMAIN window}
                         = {win[k].tag : k \in {j \in DOMAIN win : Unresolved(win[j])}}
                    /\ \A i, j \in DOMAIN window : i < j => At(window[i]) < At(window[j])
                    /\ {entry[i] : i \in 0 .. 1} \ {NoTag} = {window[k] : k \in DOMAIN window}
                    /\ window # << >> => entry[oldest_idx] = window[1]
  BY DEF BranchBookkeeping
<1>0. TypeInv /\ Distinct /\ Tracked /\ Checkpointed
  BY DEF IInv
<1>1. Len(window) \in 0 .. 2 /\ DOMAIN window = 1 .. Len(window)
      /\ \A i \in DOMAIN window : window[i] # NoTag
  BY <1>0, WindowFacts
<1>2. {window[i] : i \in DOMAIN window}
        = {win[k].tag : k \in {j \in DOMAIN win : Unresolved(win[j])}}
  <2>1. \A k \in DOMAIN win : Unresolved(win[k]) =>
          \E i \in DOMAIN window : window[i] = win[k].tag
    BY <1>0 DEF Tracked
  <2>2. \A i \in DOMAIN window : \E k \in DOMAIN win :
          window[i] = win[k].tag /\ Unresolved(win[k])
    BY <1>0 DEF Tracked
  <2> QED BY <2>1, <2>2
<1>3. ASSUME NEW i \in DOMAIN window, NEW j \in DOMAIN window, i < j
      PROVE  At(window[i]) < At(window[j])
  <2>1. Len(window) = 2 /\ i = 1 /\ j = 2
    <3> DEFINE n == Len(window)
    <3>1. n \in 0 .. 2 /\ i \in 1 .. n /\ j \in 1 .. n /\ i < j
      BY <1>1, <1>3
    <3> HIDE DEF n
    <3>2. n = 2 /\ i = 1 /\ j = 2
      BY <3>1
    <3> QED BY <3>2 DEF n
  <2>2. PICK x \in DOMAIN win, y \in DOMAIN win :
          x < y /\ window[1] = win[x].tag /\ window[2] = win[y].tag
    BY <1>0, <2>1 DEF Tracked
  <2>3. At(win[x].tag) = x /\ At(win[y].tag) = y
    BY <1>0, AtIsPlace
  <2> QED BY <2>1, <2>2, <2>3
<1>4. {entry[i] : i \in 0 .. 1} \ {NoTag} = {window[k] : k \in DOMAIN window}
  <2>1. /\ \A i \in DOMAIN window : \E n \in 0 .. 1 : entry[n] = window[i]
        /\ \A n \in 0 .. 1 : entry[n] # NoTag => \E i \in DOMAIN window : entry[n] = window[i]
    BY <1>0 DEF Checkpointed
  <2> QED BY <1>1, <2>1
<1>5. window # << >> => entry[oldest_idx] = window[1]
  BY <1>0 DEF Checkpointed
<1> QED BY <1>2, <1>3, <1>4, <1>5

LEMMA PendingOf ==
  ASSUME IInv
  PROVE  PendingOwned
<1> SUFFICES ASSUME ctl_state = "pending"
             PROVE  \E k \in DOMAIN win : win[k].tag = ctl_tag /\ win[k].done
  BY DEF PendingOwned
<1>1. PICK k \in DOMAIN win : Owns(k)
  BY DEF IInv, Controlled
<1> QED BY <1>1 DEF Owns

LEMMA TransactionOf ==
  ASSUME IInv
  PROVE  TransactionOwned
  BY DEF IInv, InTransaction, TransactionOwned

(* The recovery controller, the checkpoints and the window of instructions *)
(* agree on every edge about the branches that may still mispredict and    *)
(* about their order.                                                      *)
THEOREM BookkeepingAgrees == Spec /\ FaultsInOrder => []BranchBookkeeping
  BY Inductive, BookkeepingOf, PTL

(* No part ever raises one of its sticky error flags: every completion,    *)
(* admission, lookup, release, purge and control report comes to a part    *)
(* that expects it.                                                        *)
THEOREM ProtocolKept == Spec /\ FaultsInOrder => []NoProtocolError
<1>1. IInv => NoProtocolError
  BY DEF IInv, Quiet
<1> QED BY <1>1, Inductive, PTL

(* The control completion that freezes dispatch is of an instruction that  *)
(* is still to retire.                                                     *)
THEOREM PendingHolds == Spec /\ FaultsInOrder => []PendingOwned
  BY Inductive, PendingOf, PTL

(* The branch whose squash is due is in flight, completed, and still has   *)
(* its checkpoint.                                                         *)
THEOREM TransactionHolds == Spec /\ FaultsInOrder => []TransactionOwned
  BY Inductive, TransactionOf, PTL

(* Nothing retires that program order would not execute, whatever is       *)
(* mispredicted, faults or is squashed on the way.                         *)
THEOREM PathHolds == Spec /\ FaultsInOrder => []RightPathOnly
<1>1. IInv => RightPathOnly
  BY DEF IInv, Quiet, RightPathOnly
<1> QED BY <1>1, Inductive, PTL
=============================================================================
