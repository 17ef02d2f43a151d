--------------------------- MODULE AsicFlowProofs ---------------------------
(***************************************************************************)
(* Proofs about AsicFlow for any checkouts, tools, processes and faults.   *)
(*                                                                         *)
(* A stage that runs owns a directory; what it may assume about it is a    *)
(* statement about what the process is doing and what is in the directory  *)
(* (DcOwn, PnrOwn, StaOwn).  Every command changes one process and at most *)
(* one directory, and the lemmas DcStep, PnrStep and StaStep say what has  *)
(* to be shown of such a change; each action is then shown to be one.      *)
(*                                                                         *)
(* The scan: every scan is one that its reports call for, whatever the     *)
(* frequencies, the grid and the reports are.  What a scan has decided is  *)
(* a statement about its directory, that stays when the process is killed; *)
(* what it does next is a statement about the process and the directory,   *)
(* for which Fenced is needed: nobody else writes there.                   *)
(***************************************************************************)
EXTENDS AsicFlow, FiniteSetTheorems, SequenceTheorems, TLAPS

-----------------------------------------------------------------------------
(***************************************************************************)
(* The inductive invariant.                                                *)
(***************************************************************************)

DcSteps == {"dc_tool", "dc_seal", "dc_mark", "dc_decide"}
PnrSteps == {"pnr_stage", "pnr_tool", "pnr_record", "pnr_mark", "rec_record"}
StaSteps == {"sta_tool", "sta_mark"}
OpenSteps == {"dc_open", "pnr_open", "rec_open", "sta_open"}
Working == DcSteps \cup PnrSteps \cup StaSteps

(* Frequencies have a lowest and a highest.                                *)
Frequencies(S) == S \subseteq Nat \ {0} /\ \E lo, hi \in S : \A g \in S : lo <= g /\ g <= hi

Sequence(s) == s \in Seq({s[i] : i \in DOMAIN s})

(* The records in a directory of each stage, by their fields.              *)
MatrixRecord(d) ==
  /\ DOMAIN d = {"input", "points", "decisions", "verdict"}
  /\ Frequencies(d.input.frequencies)
  /\ Sequence(d.decisions)
  /\ IsFiniteSet(DOMAIN d.points) /\ DOMAIN d.points \subseteq Nat \ {0}
  /\ \A f \in DOMAIN d.points :
       /\ DOMAIN d.points[f] = {"report", "output", "ok", "mapped"}
       /\ d.points[f].report \in DOMAIN DcReports
RouteRecord(run) ==
  DOMAIN run = {"copy", "input", "contract", "orfs", "handoff", "exit_status", "ledger", "summary", "ok"}
TimingRecord(run) == DOMAIN run = {"input", "report", "analysed", "summary", "ok"}

(* What a process in a stage may assume about its directory.               *)
DcOwn(doing, d) ==
  /\ DOMAIN doing = {"pc", "dir", "mhz"} /\ doing.mhz \in Nat \ {0}
  /\ d.verdict = None
  /\ doing.pc = "dc_tool" =>
       /\ \A g \in DOMAIN d.points : doing.mhz < g
       /\ Len(d.decisions) = Cardinality(DOMAIN d.points)
  /\ doing.pc # "dc_tool" =>
       /\ doing.mhz \in DOMAIN d.points /\ \A g \in DOMAIN d.points : doing.mhz <= g
       /\ Len(d.decisions) + 1 = Cardinality(DOMAIN d.points)
  /\ doing.pc = "dc_seal" => d.points[doing.mhz].output = None
  /\ doing.pc \in {"dc_seal", "dc_mark"} => d.points[doing.mhz].ok = FALSE
PnrOwn(doing, run) ==
  /\ doing.pc \in {"pnr_stage", "pnr_tool"} => DOMAIN doing = {"pc", "dir", "from", "mapped"}
  /\ doing.pc = "pnr_record" => DOMAIN doing = {"pc", "dir", "mapped", "exit_status"}
  /\ doing.pc = "rec_record" => DOMAIN doing = {"pc", "dir", "source"}
  /\ run.summary = None
  /\ doing.pc = "pnr_stage" => run.input = None
  /\ doing.pc \in {"pnr_stage", "pnr_tool"} => run.orfs = None
  /\ doing.pc \in {"pnr_stage", "pnr_tool", "pnr_record"} => run.exit_status = None
  /\ doing.pc # "pnr_mark" => run.ledger = None
  /\ doing.pc = "rec_record" => run.handoff = None
StaOwn(doing, run) ==
  /\ DOMAIN doing = {"pc", "dir", "source", "routed"}
  /\ run.summary = None /\ run.ok = FALSE
  /\ doing.pc = "sta_tool" => run.report = None

(* What it remembers while it waits to make its directory.                 *)
Waits(doing) ==
  /\ doing.pc = "dc_open" => DOMAIN doing = {"pc", "dir", "timer", "frequencies"} /\ Frequencies(doing.frequencies)
  /\ doing.pc = "pnr_open" => DOMAIN doing = {"pc", "dir", "from", "mapped"}
  /\ doing.pc = "rec_open" => DOMAIN doing = {"pc", "dir", "source"}
  /\ doing.pc = "sta_open" => DOMAIN doing = {"pc", "dir", "source", "routed"}

(* A scan runs on a checkout that it can be run on.                        *)
Scannable == DOMAIN IdentityOf[tree] # {} /\ quantum(t) > 0

DcOwned(p) ==
  proc[p].pc \in DcSteps => /\ Dir(p) \in DOMAIN dc /\ DcOwn(proc[p], dc[Dir(p)])
PnrOwned(p) ==
  proc[p].pc \in PnrSteps => /\ Dir(p) \in DOMAIN pnr /\ PnrOwn(proc[p], pnr[Dir(p)])
StaOwned(p) ==
  proc[p].pc \in StaSteps => /\ Dir(p) \in DOMAIN sta /\ StaOwn(proc[p], sta[Dir(p)])
Apart(p, q) ==
  (\/ proc[p].pc \in DcSteps /\ proc[q].pc \in DcSteps
   \/ proc[p].pc \in PnrSteps /\ proc[q].pc \in PnrSteps
   \/ proc[p].pc \in StaSteps /\ proc[q].pc \in StaSteps) => Dir(p) # Dir(q)

Fenced ==
  /\ proc = [p \in Proc |-> proc[p]] /\ tree \in DOMAIN Trees
  /\ \A dir \in DOMAIN dc : MatrixRecord(dc[dir])
  /\ \A dir \in DOMAIN pnr : RouteRecord(pnr[dir])
  /\ \A dir \in DOMAIN sta : TimingRecord(sta[dir])
  /\ \A p \in Proc : "pc" \in DOMAIN proc[p] /\ Waits(proc[p])
  /\ \A p \in Proc : DcOwned(p) /\ PnrOwned(p) /\ StaOwned(p)
  /\ \A p, q \in Proc : p # q => Apart(p, q)
  /\ \A p \in Proc : proc[p].pc \in DcSteps \cup {"dc_open"} => Scannable

-----------------------------------------------------------------------------
(***************************************************************************)
(* The frequencies of a scan.                                              *)
(***************************************************************************)

LEMMA HighestIs ==
  ASSUME NEW S, Frequencies(S)
  PROVE  Highest(S) \in S /\ Highest(S) \in Nat \ {0} /\ \A g \in S : g <= Highest(S)
<1>1. \E f \in S : \A g \in S : g <= f
  BY DEF Frequencies
<1>2. Highest(S) \in S /\ \A g \in S : g <= Highest(S)
  BY <1>1, Zenon DEF Highest
<1> QED BY <1>2 DEF Frequencies

LEMMA LowestIs ==
  ASSUME NEW S, Frequencies(S)
  PROVE  Lowest(S) \in S /\ Lowest(S) \in Nat \ {0} /\ \A g \in S : Lowest(S) <= g
<1>1. \E f \in S : \A g \in S : f <= g
  BY DEF Frequencies
<1>2. Lowest(S) \in S /\ \A g \in S : Lowest(S) <= g
  BY <1>1, Zenon DEF Lowest
<1> QED BY <1>2 DEF Frequencies

(* A list that parse_frequency_list accepts starts with the highest and    *)
(* ends with the lowest.                                                   *)
LEMMA ParsedFrequencies ==
  ASSUME NEW list, NEW defaults, list \in Seq(Int), defaults \in Seq(Int),
         parse_frequency_list(list, defaults)
  PROVE  Frequencies(Range(Requested(list, defaults)))
<1> DEFINE fs == Requested(list, defaults)
<1>1. fs \in Seq(Int)
  BY DEF Requested
<1>2. /\ fs # << >> /\ \A i \in DOMAIN fs : fs[i] > 0
      /\ \A i, j \in DOMAIN fs : i < j => fs[i] > fs[j]
  BY DEF parse_frequency_list
<1> HIDE DEF fs
<1>3. Len(fs) \in Nat /\ Len(fs) > 0 /\ DOMAIN fs = 1 .. Len(fs)
  BY <1>1, <1>2
<1>4. 1 \in DOMAIN fs /\ Len(fs) \in DOMAIN fs
  BY <1>3
<1>5. \A i \in DOMAIN fs : fs[i] \in Int
  BY <1>1
<1>6. \A i \in DOMAIN fs : fs[Len(fs)] <= fs[i] /\ fs[i] <= fs[1]
  <2> TAKE i \in DOMAIN fs
  <2>1. i \in 1 .. Len(fs)
    BY <1>3
  <2>2. i < Len(fs) => fs[i] > fs[Len(fs)]
    BY <1>2, <1>4
  <2>3. 1 < i => fs[1] > fs[i]
    BY <1>2, <1>4
  <2>4. fs[i] \in Int /\ fs[1] \in Int /\ fs[Len(fs)] \in Int
    BY <1>4, <1>5
  <2>5. i = Len(fs) \/ i < Len(fs)
    BY <2>1, <1>3
  <2>6. i = 1 \/ 1 < i
    BY <2>1
  <2> QED BY <2>2, <2>3, <2>4, <2>5, <2>6
<1>7. Range(fs) = {fs[i] : i \in DOMAIN fs}
  BY DEF Range
<1>8. Range(fs) \subseteq Nat \ {0}
  BY <1>2, <1>5, <1>7
<1>9. \A g \in Range(fs) : fs[Len(fs)] <= g /\ g <= fs[1]
  BY <1>6, <1>7
<1>10. fs[Len(fs)] \in Range(fs) /\ fs[1] \in Range(fs)
  BY <1>4, <1>7
<1>11. Frequencies(Range(fs))
  BY <1>8, <1>9, <1>10 DEF Frequencies
<1> QED BY <1>11 DEF fs

(* The estimate is a number, and the next frequency is a lower one.        *)
LEMMA NextIsLower ==
  ASSUME NEW f \in Nat \ {0}, NEW wns \in Int, wns < 0, NEW q \in Int, q > 0
  PROVE  next_frequency(f, wns, q) \in Int /\ next_frequency(f, wns, q) < f
<1>1. wns * f \in Int /\ wns * f < 0
  BY SMT
<1> DEFINE lost == wns * f
<1> HIDE DEF lost
<1>2. lost \in Int /\ lost < 0
  BY <1>1 DEF lost
<1>3. (1000000 - lost) * q \in Int /\ (1000000 - lost) * q > 0
  BY <1>2, SMT
<1> DEFINE divisor == (1000000 - lost) * q
           steps == (1000000 * f) \div divisor
<1>4. divisor \in Int /\ divisor > 0
  BY <1>3
<1> HIDE DEF divisor
<1>5. steps \in Int
  BY <1>4
<1>6. Estimated(f, wns, q) = steps * q
  BY DEF Estimated, steps, divisor, lost
<1> HIDE DEF steps
<1>7. Estimated(f, wns, q) \in Int
  BY <1>5, <1>6
<1> QED BY <1>7 DEF next_frequency

LEMMA DecisionIsLower ==
  ASSUME NEW F, Frequencies(F), NEW f \in Nat \ {0}, NEW row, row.wns \in Int,
         NEW completed_, NEW q \in Int, q > 0, NEW executed, NEW budget,
         NEW decision,
         decision = Budgeted(dc_frequency_decision(F, f, row, completed_, q), executed, budget),
         decision.next # 0
  PROVE  decision.next \in Nat \ {0} /\ decision.next < f
<1> DEFINE raw == dc_frequency_decision(F, f, row, completed_, q)
           next == next_frequency(f, row.wns, q)
<1>1. decision = raw
  BY DEF Budgeted
<1>2. raw.next # 0
  BY <1>1
<1>3. /\ wns_navigation_eligible(row, completed_) /\ ~(next < Lowest(F))
      /\ raw.next = next
  BY <1>2 DEF dc_frequency_decision
<1>4. row.wns < 0
  BY <1>3 DEF wns_navigation_eligible
<1>5. next \in Int /\ next < f
  BY <1>4, NextIsLower
<1>6. Lowest(F) \in Nat \ {0}
  BY LowestIs
<1> HIDE DEF next, raw
<1> QED BY <1>1, <1>3, <1>5, <1>6

-----------------------------------------------------------------------------
(***************************************************************************)
(* Decisions and points.                                                   *)
(***************************************************************************)

LEMMA Appended ==
  ASSUME NEW s, Sequence(s), NEW x
  PROVE  Sequence(Append(s, x)) /\ Len(Append(s, x)) = Len(s) + 1 /\ Len(s) \in Nat
<1> DEFINE S == {s[i] : i \in DOMAIN s}
           T == S \cup {x}
           r == Append(s, x)
<1>1. s \in Seq(S)
  BY DEF Sequence
<1> HIDE DEF S
<1>2. s \in Seq(T) /\ x \in T
  BY <1>1
<1>3. Len(r) = Len(s) + 1 /\ Len(s) \in Nat /\ r \in Seq(T)
  BY <1>2
<1>4. r \in Seq({r[i] : i \in DOMAIN r})
  <2>1. DOMAIN r = 1 .. Len(r) /\ Len(r) \in Nat
    BY <1>3
  <2> HIDE DEF r
  <2>2. \A i \in 1 .. Len(r) : r[i] \in {r[j] : j \in DOMAIN r}
    BY <2>1
  <2>3. r = [i \in 1 .. Len(r) |-> r[i]]
    BY <1>3, <2>1
  <2> QED BY <2>1, <2>2, <2>3
<1> QED BY <1>3, <1>4 DEF Sequence

-----------------------------------------------------------------------------
(***************************************************************************)
(* A step of one process on one directory.                                 *)
(***************************************************************************)

LEMMA Becomes ==
  ASSUME Fenced, NEW p \in Proc, NEW doing, Become(p, doing)
  PROVE  /\ proc' = [q \in Proc |-> proc'[q]] /\ proc'[p] = doing
         /\ \A q \in Proc \ {p} : proc'[q] = proc[q]
<1>1. proc = [q \in Proc |-> proc[q]] /\ proc' = [proc EXCEPT ![p] = doing]
  BY DEF Fenced, Become
<1>2. DOMAIN proc = Proc
  BY <1>1
<1> QED BY <1>1, <1>2

(* What holds of a process that does nothing to a directory.               *)
LEMMA AtRest ==
  ASSUME Fenced, NEW p \in Proc, NEW doing, Become(p, doing),
         UNCHANGED <<tree, dc, pnr, sta>>,
         "pc" \in DOMAIN doing, doing.pc \notin Working, Waits(doing),
         doing.pc = "dc_open" => Scannable
  PROVE  Fenced'
<1>0. /\ proc' = [q \in Proc |-> proc'[q]] /\ proc'[p] = doing
      /\ \A q \in Proc \ {p} : proc'[q] = proc[q]
  BY Becomes
<1>1. /\ \A dir \in DOMAIN dc : MatrixRecord(dc[dir])
      /\ \A dir \in DOMAIN pnr : RouteRecord(pnr[dir])
      /\ \A dir \in DOMAIN sta : TimingRecord(sta[dir])
  BY DEF Fenced
<1>2. \A q \in Proc : "pc" \in DOMAIN proc'[q] /\ Waits(proc'[q])
  BY <1>0 DEF Fenced
<1>3. \A q \in Proc : DcOwned(q)' /\ PnrOwned(q)' /\ StaOwned(q)'
  <2> TAKE q \in Proc
  <2>1. CASE q = p
    BY <1>0, <2>1 DEF DcOwned, PnrOwned, StaOwned, Working
  <2>2. CASE q # p
    BY <1>0, <2>2 DEF Fenced, DcOwned, PnrOwned, StaOwned, Dir
  <2> QED BY <2>1, <2>2
<1>4. \A q, r \in Proc : q # r => Apart(q, r)'
  <2> SUFFICES ASSUME NEW q \in Proc, NEW r \in Proc, q # r PROVE Apart(q, r)'
    OBVIOUS
  <2>1. CASE q = p \/ r = p
    BY <1>0, <2>1 DEF Apart, Working
  <2>2. CASE q # p /\ r # p
    BY <1>0, <2>2 DEF Fenced, Apart, Dir
  <2> QED BY <2>1, <2>2
<1>5. \A q \in Proc : proc'[q].pc \in DcSteps \cup {"dc_open"} => Scannable'
  <2> TAKE q \in Proc
  <2>1. Scannable' = Scannable
    BY DEF Scannable, t
  <2>2. CASE q = p
    BY <1>0, <2>1, <2>2 DEF Working
  <2>3. CASE q # p
    BY <1>0, <2>1, <2>3 DEF Fenced
  <2> QED BY <2>2, <2>3
<1> QED
  <2>1. tree' \in DOMAIN Trees
    BY DEF Fenced, Trees
  <2> QED BY <1>0, <1>1, <1>2, <1>3, <1>4, <1>5, <2>1 DEF Fenced

LEMMA DcStep ==
  ASSUME Fenced, NEW p \in Proc, NEW doing, Become(p, doing),
         UNCHANGED <<tree, pnr, sta>>,
         NEW dir, DOMAIN dc' = DOMAIN dc \cup {dir},
         \A x \in DOMAIN dc \ {dir} : dc'[x] = dc[x],
         MatrixRecord(dc'[dir]),
         dir \notin DOMAIN dc \/ (proc[p].pc \in DcSteps /\ Dir(p) = dir),
         proc[p].pc \in DcSteps \cup {"dc_open"},
         "pc" \in DOMAIN doing, doing.pc \in DcSteps \cup {"idle"},
         doing.pc \in DcSteps => doing.dir = dir /\ DcOwn(doing, dc'[dir])
  PROVE  Fenced'
<1>0. /\ proc' = [q \in Proc |-> proc'[q]] /\ proc'[p] = doing
      /\ \A q \in Proc \ {p} : proc'[q] = proc[q]
  BY Becomes
<1>1. \A x \in DOMAIN dc' : MatrixRecord(dc'[x])
  BY DEF Fenced
<1>2. /\ \A x \in DOMAIN pnr : RouteRecord(pnr[x])
      /\ \A x \in DOMAIN sta : TimingRecord(sta[x])
  BY DEF Fenced
<1>3. \A q \in Proc : "pc" \in DOMAIN proc'[q] /\ Waits(proc'[q])
  <2> TAKE q \in Proc
  <2>1. CASE q = p
    BY <1>0, <2>1 DEF Waits, DcSteps
  <2>2. CASE q # p
    BY <1>0, <2>2 DEF Fenced
  <2> QED BY <2>1, <2>2
<1>4. \A q \in Proc \ {p} : proc[q].pc \in DcSteps => Dir(q) \in DOMAIN dc /\ Dir(q) # dir
  BY DEF Fenced, DcOwned, Apart
<1>5. \A q \in Proc : DcOwned(q)' /\ PnrOwned(q)' /\ StaOwned(q)'
  <2> TAKE q \in Proc
  <2>1. CASE q = p
    BY <1>0, <2>1 DEF DcOwned, PnrOwned, StaOwned, DcSteps, PnrSteps, StaSteps, Dir
  <2>2. CASE q # p
    <3>1. proc[q].pc \in DcSteps => dc'[Dir(q)] = dc[Dir(q)] /\ Dir(q) \in DOMAIN dc'
      BY <1>4, <2>2
    <3>2. DcOwned(q) /\ PnrOwned(q) /\ StaOwned(q)
      BY DEF Fenced
    <3> QED BY <1>0, <2>2, <3>1, <3>2 DEF DcOwned, PnrOwned, StaOwned, Dir
  <2> QED BY <2>1, <2>2
<1>6. \A q, r \in Proc : q # r => Apart(q, r)'
  <2> SUFFICES ASSUME NEW q \in Proc, NEW r \in Proc, q # r PROVE Apart(q, r)'
    OBVIOUS
  <2>1. CASE q = p
    BY <1>0, <1>4, <2>1 DEF Apart, DcSteps, PnrSteps, StaSteps, Dir
  <2>2. CASE r = p
    BY <1>0, <1>4, <2>2 DEF Apart, DcSteps, PnrSteps, StaSteps, Dir
  <2>3. CASE q # p /\ r # p
    BY <1>0, <2>3 DEF Fenced, Apart, Dir
  <2> QED BY <2>1, <2>2, <2>3
<1>7. Scannable'
  <2>1. Scannable' = Scannable
    BY DEF Scannable, t
  <2> QED BY <2>1 DEF Fenced
<1> QED
  <2>1. tree' \in DOMAIN Trees
    BY DEF Fenced, Trees
  <2> QED BY <1>0, <1>1, <1>2, <1>3, <1>5, <1>6, <1>7, <2>1 DEF Fenced

LEMMA PnrStep ==
  ASSUME Fenced, NEW p \in Proc, NEW doing, Become(p, doing),
         UNCHANGED <<tree, dc, sta>>,
         NEW dir, DOMAIN pnr' = DOMAIN pnr \cup {dir},
         \A x \in DOMAIN pnr \ {dir} : pnr'[x] = pnr[x],
         RouteRecord(pnr'[dir]),
         dir \notin DOMAIN pnr \/ (proc[p].pc \in PnrSteps /\ Dir(p) = dir),
         "pc" \in DOMAIN doing, doing.pc \in PnrSteps \cup {"idle"},
         doing.pc \in PnrSteps => doing.dir = dir /\ PnrOwn(doing, pnr'[dir])
  PROVE  Fenced'
<1>0. /\ proc' = [q \in Proc |-> proc'[q]] /\ proc'[p] = doing
      /\ \A q \in Proc \ {p} : proc'[q] = proc[q]
  BY Becomes
<1>1. \A x \in DOMAIN pnr' : RouteRecord(pnr'[x])
  BY DEF Fenced
<1>2. /\ \A x \in DOMAIN dc : MatrixRecord(dc[x])
      /\ \A x \in DOMAIN sta : TimingRecord(sta[x])
  BY DEF Fenced
<1>3. \A q \in Proc : "pc" \in DOMAIN proc'[q] /\ Waits(proc'[q])
  <2> TAKE q \in Proc
  <2>1. CASE q = p
    BY <1>0, <2>1 DEF Waits, PnrSteps
  <2>2. CASE q # p
    BY <1>0, <2>2 DEF Fenced
  <2> QED BY <2>1, <2>2
<1>4. \A q \in Proc \ {p} : proc[q].pc \in PnrSteps => Dir(q) \in DOMAIN pnr /\ Dir(q) # dir
  BY DEF Fenced, PnrOwned, Apart
<1>5. \A q \in Proc : DcOwned(q)' /\ PnrOwned(q)' /\ StaOwned(q)'
  <2> TAKE q \in Proc
  <2>1. CASE q = p
    BY <1>0, <2>1 DEF DcOwned, PnrOwned, StaOwned, DcSteps, PnrSteps, StaSteps, Dir
  <2>2. CASE q # p
    <3>1. proc[q].pc \in PnrSteps => pnr'[Dir(q)] = pnr[Dir(q)] /\ Dir(q) \in DOMAIN pnr'
      BY <1>4, <2>2
    <3>2. DcOwned(q) /\ PnrOwned(q) /\ StaOwned(q)
      BY DEF Fenced
    <3> QED BY <1>0, <2>2, <3>1, <3>2 DEF DcOwned, PnrOwned, StaOwned, Dir
  <2> QED BY <2>1, <2>2
<1>6. \A q, r \in Proc : q # r => Apart(q, r)'
  <2> SUFFICES ASSUME NEW q \in Proc, NEW r \in Proc, q # r PROVE Apart(q, r)'
    OBVIOUS
  <2>1. CASE q = p
    BY <1>0, <1>4, <2>1 DEF Apart, DcSteps, PnrSteps, StaSteps, Dir
  <2>2. CASE r = p
    BY <1>0, <1>4, <2>2 DEF Apart, DcSteps, PnrSteps, StaSteps, Dir
  <2>3. CASE q # p /\ r # p
    BY <1>0, <2>3 DEF Fenced, Apart, Dir
  <2> QED BY <2>1, <2>2, <2>3
<1>7. \A q \in Proc : proc'[q].pc \in DcSteps \cup {"dc_open"} => Scannable'
  <2> TAKE q \in Proc
  <2>1. Scannable' = Scannable
    BY DEF Scannable, t
  <2>2. CASE q = p
    BY <1>0, <2>2 DEF DcSteps, PnrSteps
  <2>3. CASE q # p
    BY <1>0, <2>1, <2>3 DEF Fenced
  <2> QED BY <2>2, <2>3
<1> QED
  <2>1. tree' \in DOMAIN Trees
    BY DEF Fenced, Trees
  <2> QED BY <1>0, <1>1, <1>2, <1>3, <1>5, <1>6, <1>7, <2>1 DEF Fenced

LEMMA StaStep ==
  ASSUME Fenced, NEW p \in Proc, NEW doing, Become(p, doing),
         UNCHANGED <<tree, dc, pnr>>,
         NEW dir, DOMAIN sta' = DOMAIN sta \cup {dir},
         \A x \in DOMAIN sta \ {dir} : sta'[x] = sta[x],
         TimingRecord(sta'[dir]),
         dir \notin DOMAIN sta \/ (proc[p].pc \in StaSteps /\ Dir(p) = dir),
         "pc" \in DOMAIN doing, doing.pc \in StaSteps \cup {"idle"},
         doing.pc \in StaSteps => doing.dir = dir /\ StaOwn(doing, sta'[dir])
  PROVE  Fenced'
<1>0. /\ proc' = [q \in Proc |-> proc'[q]] /\ proc'[p] = doing
      /\ \A q \in Proc \ {p} : proc'[q] = proc[q]
  BY Becomes
<1>1. \A x \in DOMAIN sta' : TimingRecord(sta'[x])
  BY DEF Fenced
<1>2. /\ \A x \in DOMAIN dc : MatrixRecord(dc[x])
      /\ \A x \in DOMAIN pnr : RouteRecord(pnr[x])
  BY DEF Fenced
<1>3. \A q \in Proc : "pc" \in DOMAIN proc'[q] /\ Waits(proc'[q])
  <2> TAKE q \in Proc
  <2>1. CASE q = p
    BY <1>0, <2>1 DEF Waits, StaSteps
  <2>2. CASE q # p
    BY <1>0, <2>2 DEF Fenced
  <2> QED BY <2>1, <2>2
<1>4. \A q \in Proc \ {p} : proc[q].pc \in StaSteps => Dir(q) \in DOMAIN sta /\ Dir(q) # dir
  BY DEF Fenced, StaOwned, Apart
<1>5. \A q \in Proc : DcOwned(q)' /\ PnrOwned(q)' /\ StaOwned(q)'
  <2> TAKE q \in Proc
  <2>1. CASE q = p
    BY <1>0, <2>1 DEF DcOwned, PnrOwned, StaOwned, DcSteps, PnrSteps, StaSteps, Dir
  <2>2. CASE q # p
    <3>1. proc[q].pc \in StaSteps => sta'[Dir(q)] = sta[Dir(q)] /\ Dir(q) \in DOMAIN sta'
      BY <1>4, <2>2
    <3>2. DcOwned(q) /\ PnrOwned(q) /\ StaOwned(q)
      BY DEF Fenced
    <3> QED BY <1>0, <2>2, <3>1, <3>2 DEF DcOwned, PnrOwned, StaOwned, Dir
  <2> QED BY <2>1, <2>2
<1>6. \A q, r \in Proc : q # r => Apart(q, r)'
  <2> SUFFICES ASSUME NEW q \in Proc, NEW r \in Proc, q # r PROVE Apart(q, r)'
    OBVIOUS
  <2>1. CASE q = p
    BY <1>0, <1>4, <2>1 DEF Apart, DcSteps, PnrSteps, StaSteps, Dir
  <2>2. CASE r = p
    BY <1>0, <1>4, <2>2 DEF Apart, DcSteps, PnrSteps, StaSteps, Dir
  <2>3. CASE q # p /\ r # p
    BY <1>0, <2>3 DEF Fenced, Apart, Dir
  <2> QED BY <2>1, <2>2, <2>3
<1>7. \A q \in Proc : proc'[q].pc \in DcSteps \cup {"dc_open"} => Scannable'
  <2> TAKE q \in Proc
  <2>1. Scannable' = Scannable
    BY DEF Scannable, t
  <2>2. CASE q = p
    BY <1>0, <2>2 DEF DcSteps, StaSteps
  <2>3. CASE q # p
    BY <1>0, <2>1, <2>3 DEF Fenced
  <2> QED BY <2>2, <2>3
<1> QED
  <2>1. tree' \in DOMAIN Trees
    BY DEF Fenced, Trees
  <2> QED BY <1>0, <1>1, <1>2, <1>3, <1>5, <1>6, <1>7, <2>1 DEF Fenced

-----------------------------------------------------------------------------
(***************************************************************************)
(* Each action keeps the invariant.  First those that only wait, fail or   *)
(* write the shared macro directories.                                     *)
(***************************************************************************)

LEMMA MacroSteps ==
  ASSUME Fenced, NEW p \in Proc,
         SramOpen(p) \/ SramView(p) \/ SramSeal(p) \/ LcOpen(p) \/ LcTool(p) \/ LcManifest(p)
  PROVE  Fenced'
<1>0. UNCHANGED <<tree, dc, pnr, sta>>
  BY DEF SramOpen, SramView, SramSeal, LcOpen, LcTool, LcManifest
<1>1. proc[p].pc \notin Working \cup OpenSteps /\ "pc" \in DOMAIN proc[p] /\ proc[p] = proc[p]
  BY DEF SramOpen, SramView, SramSeal, LcOpen, LcTool, LcManifest, At, Fenced, Working, DcSteps,
         PnrSteps, StaSteps, OpenSteps
<1>2. PICK doing : /\ Become(p, doing)
                   /\ \/ doing = proc[p]
                      \/ doing \in {Idle, [pc |-> "sram_views"], [pc |-> "lc_tool"]}
  <2>1. proc' = proc => Become(p, proc[p])
    BY DEF Become, Fenced
  <2>2. proc' = proc \/ Become(p, Idle) \/ Become(p, [pc |-> "sram_views"]) \/ Become(p, [pc |-> "lc_tool"])
    <3>1. CASE SramOpen(p)
      BY <3>1 DEF SramOpen
    <3>2. CASE SramView(p)
      BY <3>2 DEF SramView
    <3>3. CASE SramSeal(p)
      BY <3>3 DEF SramSeal
    <3>4. CASE LcOpen(p)
      BY <3>4 DEF LcOpen
    <3>5. CASE LcTool(p)
      BY <3>5 DEF LcTool
    <3>6. CASE LcManifest(p)
      BY <3>6 DEF LcManifest
    <3> QED BY <3>1, <3>2, <3>3, <3>4, <3>5, <3>6
  <2> QED BY <2>1, <2>2
<1>3. "pc" \in DOMAIN doing /\ doing.pc \notin Working \cup OpenSteps
  BY <1>1, <1>2 DEF Idle, Working, DcSteps, PnrSteps, StaSteps, OpenSteps
<1>4. Waits(doing)
  BY <1>3 DEF Waits, OpenSteps
<1> QED BY <1>0, <1>2, <1>3, <1>4, AtRest DEF OpenSteps

LEMMA Resting ==
  ASSUME Fenced, NEW p \in Proc, Become(p, Idle), UNCHANGED <<tree, dc, pnr, sta>>
  PROVE  Fenced'
<1>1. "pc" \in DOMAIN Idle /\ Idle.pc = "idle"
  BY DEF Idle
<1>2. Idle.pc \notin Working /\ Waits(Idle) /\ Idle.pc # "dc_open"
  BY <1>1 DEF Working, DcSteps, PnrSteps, StaSteps, Waits
<1> QED BY <1>1, <1>2, AtRest

LEMMA DcStarts ==
  ASSUME Fenced, NEW p \in Proc, DcStart(p)
  PROVE  Fenced'
<1>1. PICK mode \in ModeArgs, list \in FrequencyArgs, timer \in TimerArgs, id \in RunId :
        /\ Builds(mode) /\ quantum(t) > 0
        /\ parse_frequency_list(list, frequencies_mhz(t))
        /\ Become(p, [pc |-> "dc_open", dir |-> [line |-> Line(t, mode), id |-> id], timer |-> timer,
                      frequencies |-> Range(Requested(list, frequencies_mhz(t)))])
  BY DEF DcStart
<1> DEFINE doing == [pc |-> "dc_open", dir |-> [line |-> Line(t, mode), id |-> id], timer |-> timer,
                     frequencies |-> Range(Requested(list, frequencies_mhz(t)))]
<1>2. Scannable
  BY <1>1 DEF Scannable, Builds
<1>3. frequencies_mhz(t) \in Seq(Int) /\ list \in Seq(Int)
  BY <1>2, FlowConstants DEF Fenced, Scannable, t, Trees
<1>4. Frequencies(doing.frequencies)
  BY <1>1, <1>3, ParsedFrequencies
<1>5. Waits(doing) /\ "pc" \in DOMAIN doing /\ doing.pc \notin Working
  BY <1>4 DEF Waits, Working, DcSteps, PnrSteps, StaSteps
<1>6. UNCHANGED <<tree, dc, pnr, sta>> /\ Become(p, doing)
  BY <1>1 DEF DcStart
<1> HIDE DEF doing
<1> QED BY <1>2, <1>5, <1>6, AtRest

LEMMA OtherStarts ==
  ASSUME Fenced, NEW p \in Proc, PnrStart(p) \/ RecoverStart(p) \/ StaStart(p)
  PROVE  Fenced'
<1>1. UNCHANGED <<tree, dc, pnr, sta>>
  BY DEF PnrStart, RecoverStart, StaStart
<1>2. PICK doing : Become(p, doing) /\ "pc" \in DOMAIN doing /\ doing.pc \in OpenSteps \ {"dc_open"} /\ Waits(doing)
  <2>1. CASE PnrStart(p)
    <3>1. PICK dir, from, mapped : Become(p, [pc |-> "pnr_open", dir |-> dir, from |-> from, mapped |-> mapped])
      <4>1. PICK mode \in ModeArgs, point \in DOMAIN dc, arg \in PnrArgs, id \in RunId :
              \E f \in DOMAIN dc[point].points :
                Become(p, [pc |-> "pnr_open", dir |-> [line |-> Line(t, mode), id |-> id, mhz |-> pnr_mhz(arg, f)],
                           from |-> [dir |-> point, mhz |-> f], mapped |-> Point(point, f).output.mapped])
        BY <2>1, SMTT(30) DEF PnrStart
      <4>2. PICK f \in DOMAIN dc[point].points :
              Become(p, [pc |-> "pnr_open", dir |-> [line |-> Line(t, mode), id |-> id, mhz |-> pnr_mhz(arg, f)],
                         from |-> [dir |-> point, mhz |-> f], mapped |-> Point(point, f).output.mapped])
        BY <4>1
      <4> QED BY <4>2, Zenon
    <3> DEFINE doing == [pc |-> "pnr_open", dir |-> dir, from |-> from, mapped |-> mapped]
    <3>2. "pc" \in DOMAIN doing /\ doing.pc \in OpenSteps \ {"dc_open"} /\ Waits(doing)
      BY DEF Waits, OpenSteps
    <3> QED BY <3>1, <3>2
  <2>2. CASE RecoverStart(p)
    <3>1. PICK dir, source : Become(p, [pc |-> "rec_open", dir |-> dir, source |-> source])
      BY <2>2 DEF RecoverStart
    <3> DEFINE doing == [pc |-> "rec_open", dir |-> dir, source |-> source]
    <3>2. "pc" \in DOMAIN doing /\ doing.pc \in OpenSteps \ {"dc_open"} /\ Waits(doing)
      BY DEF Waits, OpenSteps
    <3> QED BY <3>1, <3>2
  <2>3. CASE StaStart(p)
    <3>1. PICK dir, source, routed : Become(p, [pc |-> "sta_open", dir |-> dir, source |-> source, routed |-> routed])
      BY <2>3 DEF StaStart
    <3> DEFINE doing == [pc |-> "sta_open", dir |-> dir, source |-> source, routed |-> routed]
    <3>2. "pc" \in DOMAIN doing /\ doing.pc \in OpenSteps \ {"dc_open"} /\ Waits(doing)
      BY DEF Waits, OpenSteps
    <3> QED BY <3>1, <3>2
  <2> QED BY <2>1, <2>2, <2>3
<1>3. doing.pc \notin Working
  BY <1>2 DEF Working, DcSteps, PnrSteps, StaSteps, OpenSteps
<1> QED BY <1>1, <1>2, <1>3, AtRest

-----------------------------------------------------------------------------
(***************************************************************************)
(* Synthesis.                                                              *)
(***************************************************************************)

LEMMA DcUpdate ==
  ASSUME Fenced, NEW p \in Proc, NEW doing, Become(p, doing), UNCHANGED <<tree, pnr, sta>>,
         proc[p].pc \in DcSteps, NEW d, dc' = [dc EXCEPT ![Dir(p)] = d], MatrixRecord(d),
         "pc" \in DOMAIN doing, doing.pc \in DcSteps \cup {"idle"},
         doing.pc \in DcSteps => doing.dir = Dir(p) /\ DcOwn(doing, d)
  PROVE  Fenced'
<1>1. Dir(p) \in DOMAIN dc
  BY DEF Fenced, DcOwned
<1>2. /\ DOMAIN dc' = DOMAIN dc \cup {Dir(p)} /\ dc'[Dir(p)] = d
      /\ \A x \in DOMAIN dc \ {Dir(p)} : dc'[x] = dc[x]
  BY <1>1
<1> DEFINE dir == Dir(p)
<1>3. dir = Dir(p)
  OBVIOUS
<1> HIDE DEF dir
<1> QED BY <1>2, <1>3, DcStep

LEMMA DcOpens ==
  ASSUME Fenced, NEW p \in Proc, DcOpen(p)
  PROVE  Fenced'
<1>1. UNCHANGED <<tree, pnr, sta>> /\ proc[p].pc = "dc_open"
  BY DEF DcOpen, At
<1>2. CASE Dir(p) \in DOMAIN dc
  <2>1. Become(p, Idle) /\ UNCHANGED dc
    BY <1>2 DEF DcOpen
  <2> QED BY <1>1, <2>1, Resting
<1>3. CASE Dir(p) \notin DOMAIN dc
  <2> DEFINE input == [identity |-> Now(Dir(p).line[2]), libraries |-> disk, timer |-> proc[p].timer,
                       frequencies |-> proc[p].frequencies,
                       constraint |-> t.files["internal_clock.sdc"],
                       handoff |-> IF t.memory_mode = "sram" THEN sha256(sram.manifest) ELSE None]
             d == [input |-> input, points |-> << >>, decisions |-> << >>, verdict |-> None]
             doing == [pc |-> "dc_tool", dir |-> Dir(p), mhz |-> Highest(proc[p].frequencies)]
  <2>1. dc' = Entered(dc, Dir(p), d) /\ Become(p, doing)
    BY <1>3 DEF DcOpen
  <2>2. Frequencies(proc[p].frequencies)
    BY <1>1 DEF Fenced, Waits
  <2>3. MatrixRecord(d)
    <3>1. Sequence(<< >>) /\ DOMAIN << >> = {} /\ IsFiniteSet({})
      BY FS_EmptySet DEF Sequence
    <3>2. input.frequencies = proc[p].frequencies
      OBVIOUS
    <3> HIDE DEF input
    <3> QED BY <2>2, <3>1, <3>2 DEF MatrixRecord
  <2>4. DcOwn(doing, d)
    <3>1. Len(<< >>) = 0 /\ Cardinality({}) = 0 /\ DOMAIN << >> = {}
      BY FS_EmptySet
    <3>2. Highest(proc[p].frequencies) \in Nat \ {0}
      BY <2>2, HighestIs
    <3> HIDE DEF input
    <3> QED BY <3>1, <3>2 DEF DcOwn
  <2>5. /\ "pc" \in DOMAIN doing /\ doing.pc \in DcSteps /\ doing.dir = Dir(p)
    BY DEF DcSteps
  <2> HIDE DEF d, doing
  <2>6. /\ DOMAIN dc' = DOMAIN dc \cup {Dir(p)} /\ dc'[Dir(p)] = d
        /\ \A x \in DOMAIN dc \ {Dir(p)} : dc'[x] = dc[x]
    BY <1>3, <2>1 DEF Entered
  <2> DEFINE dir == Dir(p)
  <2>7. dir = Dir(p)
    OBVIOUS
  <2> HIDE DEF dir
  <2> QED BY <1>1, <1>3, <2>1, <2>3, <2>4, <2>5, <2>6, <2>7, DcStep
<1> QED BY <1>2, <1>3

(* What a process in a synthesis step starts from.                         *)
LEMMA DcHas ==
  ASSUME Fenced, NEW p \in Proc, proc[p].pc \in DcSteps
  PROVE  /\ Dir(p) \in DOMAIN dc /\ MatrixRecord(dc[Dir(p)]) /\ DcOwn(proc[p], dc[Dir(p)])
         /\ DOMAIN proc[p] = {"pc", "dir", "mhz"} /\ proc[p].mhz \in Nat \ {0}
  BY DEF Fenced, DcOwned, DcOwn

LEMMA DcToolKeeps ==
  ASSUME Fenced, NEW p \in Proc, DcTool(p)
  PROVE  Fenced'
<1> DEFINE f == proc[p].mhz
           d == dc[Dir(p)]
<1>1. UNCHANGED <<tree, pnr, sta>> /\ proc[p].pc = "dc_tool" /\ proc[p].pc \in DcSteps
  BY DEF DcTool, At, DcSteps
<1>2. PICK report \in DOMAIN DcReports :
        /\ dc' = [dc EXCEPT ![Dir(p)].points = Entered(@, f,
               [report |-> report, output |-> None, ok |-> FALSE,
                mapped |-> IF DcReports[report].netlist THEN Product(tree, f, Databases) ELSE None])]
        /\ Become(p, [pc |-> IF DcReports[report].exit_status = 0
                                /\ (IF DcReports[report].netlist THEN Product(tree, f, Databases) ELSE None) # None
                             THEN "dc_seal" ELSE "dc_decide", dir |-> Dir(p), mhz |-> f])
  BY DEF DcTool
<1> DEFINE mapped == IF DcReports[report].netlist THEN Product(tree, f, Databases) ELSE None
           point == [report |-> report, output |-> None, ok |-> FALSE, mapped |-> mapped]
           step == IF DcReports[report].exit_status = 0 /\ mapped # None THEN "dc_seal" ELSE "dc_decide"
           doing == [pc |-> step, dir |-> Dir(p), mhz |-> f]
           points == Entered(d.points, f, point)
           e == [d EXCEPT !.points = points]
<1>3. dc' = [dc EXCEPT ![Dir(p)] = e] /\ Become(p, doing)
  BY <1>2
<1>4. /\ MatrixRecord(d) /\ DcOwn(proc[p], d) /\ f \in Nat \ {0}
  BY <1>1, DcHas
<1>5. /\ DOMAIN point = {"report", "output", "ok", "mapped"} /\ point.report \in DOMAIN DcReports
      /\ point.output = None /\ point.ok = FALSE
  OBVIOUS
<1> HIDE DEF point
<1>6. /\ step \in {"dc_seal", "dc_decide"}
  OBVIOUS
<1> HIDE DEF step
<1>7. /\ \A g \in DOMAIN d.points : f < g
      /\ Len(d.decisions) = Cardinality(DOMAIN d.points)
      /\ d.verdict = None
  BY <1>1, <1>4 DEF DcOwn
<1>8. /\ DOMAIN d.points \subseteq Nat \ {0} /\ IsFiniteSet(DOMAIN d.points)
      /\ DOMAIN d = {"input", "points", "decisions", "verdict"} /\ Sequence(d.decisions)
      /\ Frequencies(d.input.frequencies)
  BY <1>4 DEF MatrixRecord
<1>9. f \notin DOMAIN d.points
  BY <1>7, <1>8
<1>10. /\ DOMAIN points = DOMAIN d.points \cup {f} /\ points[f] = point
       /\ \A g \in DOMAIN d.points : points[g] = d.points[g]
  BY <1>9 DEF Entered
<1> HIDE DEF points
<1>11. IsFiniteSet(DOMAIN points) /\ Cardinality(DOMAIN points) = Cardinality(DOMAIN d.points) + 1
  BY <1>8, <1>9, <1>10, FS_AddElement
<1>12. /\ DOMAIN e = DOMAIN d /\ e.points = points /\ e.input = d.input
       /\ e.decisions = d.decisions /\ e.verdict = d.verdict
  BY <1>8
<1> HIDE DEF e
<1>13. MatrixRecord(e)
  <2>1. \A g \in DOMAIN points : /\ DOMAIN points[g] = {"report", "output", "ok", "mapped"}
                                 /\ points[g].report \in DOMAIN DcReports
    BY <1>4, <1>5, <1>10 DEF MatrixRecord
  <2>2. DOMAIN points \subseteq Nat \ {0}
    BY <1>4, <1>8, <1>10
  <2> HIDE DEF d, f
  <2> QED BY <1>8, <1>11, <1>12, <2>1, <2>2 DEF MatrixRecord
<1>14. /\ DOMAIN doing = {"pc", "dir", "mhz"} /\ doing.pc = step /\ doing.dir = Dir(p) /\ doing.mhz = f
  OBVIOUS
<1> HIDE DEF doing
<1>15. DcOwn(doing, e)
  <2>1. f \in DOMAIN points /\ \A g \in DOMAIN points : f <= g
    BY <1>4, <1>7, <1>8, <1>10
  <2>2. Len(d.decisions) + 1 = Cardinality(DOMAIN points)
    BY <1>7, <1>11
  <2> HIDE DEF f, d
  <2> QED BY <1>4, <1>5, <1>6, <1>7, <1>10, <1>12, <1>14, <2>1, <2>2 DEF DcOwn
<1>16. "pc" \in DOMAIN doing /\ doing.pc \in DcSteps
  BY <1>6, <1>14 DEF DcSteps
<1> QED BY <1>1, <1>3, <1>13, <1>14, <1>15, <1>16, DcUpdate

(* A field of one point changes.                                           *)
LEMMA PointUpdate ==
  ASSUME NEW d, MatrixRecord(d), NEW f \in DOMAIN d.points, NEW point,
         DOMAIN point = {"report", "output", "ok", "mapped"}, point.report = d.points[f].report,
         NEW e, e = [d EXCEPT !.points = [d.points EXCEPT ![f] = point]]
  PROVE  /\ MatrixRecord(e) /\ DOMAIN e.points = DOMAIN d.points /\ e.points[f] = point
         /\ \A g \in DOMAIN d.points \ {f} : e.points[g] = d.points[g]
         /\ e.decisions = d.decisions /\ e.verdict = d.verdict /\ e.input = d.input
<1> DEFINE points == [d.points EXCEPT ![f] = point]
<1>1. /\ DOMAIN points = DOMAIN d.points /\ points[f] = point
      /\ \A g \in DOMAIN d.points \ {f} : points[g] = d.points[g]
  OBVIOUS
<1> HIDE DEF points
<1>2. DOMAIN d = {"input", "points", "decisions", "verdict"}
  BY DEF MatrixRecord
<1>3. /\ DOMAIN e = DOMAIN d /\ e.points = points /\ e.input = d.input
      /\ e.decisions = d.decisions /\ e.verdict = d.verdict
  BY <1>2 DEF points
<1>4. \A g \in DOMAIN points : /\ DOMAIN points[g] = {"report", "output", "ok", "mapped"}
                               /\ points[g].report \in DOMAIN DcReports
  BY <1>1 DEF MatrixRecord
<1>5. MatrixRecord(e)
  BY <1>1, <1>2, <1>3, <1>4 DEF MatrixRecord
<1> QED BY <1>1, <1>3, <1>5

(* The next step of the same point.                                        *)
LEMMA DcNextStep ==
  ASSUME Fenced, NEW p \in Proc, proc[p].pc \in DcSteps, NEW step \in DcSteps,
         NEW doing, doing = [proc[p] EXCEPT !.pc = step]
  PROVE  /\ DOMAIN doing = {"pc", "dir", "mhz"} /\ doing.pc = step
         /\ doing.dir = Dir(p) /\ doing.mhz = proc[p].mhz
  BY DcHas DEF Dir

LEMMA DcSealKeeps ==
  ASSUME Fenced, NEW p \in Proc, DcSeal(p)
  PROVE  Fenced'
<1> DEFINE f == proc[p].mhz
           d == dc[Dir(p)]
           record == dc_output_manifest_record(p, Point(Dir(p), f))
<1>1. UNCHANGED <<tree, pnr, sta>> /\ proc[p].pc = "dc_seal" /\ proc[p].pc \in DcSteps
  BY DEF DcSeal, At, DcSteps
<1>2. \/ /\ dc' = [dc EXCEPT ![Dir(p)].points[f].output = record]
         /\ Become(p, [proc[p] EXCEPT !.pc = "dc_mark"])
      \/ Become(p, [proc[p] EXCEPT !.pc = "dc_decide"]) /\ UNCHANGED dc
  BY DEF DcSeal
<1>3. /\ Dir(p) \in DOMAIN dc /\ MatrixRecord(d) /\ DcOwn(proc[p], d) /\ f \in Nat \ {0}
  BY <1>1, DcHas
<1>4. /\ f \in DOMAIN d.points /\ \A g \in DOMAIN d.points : f <= g
      /\ Len(d.decisions) + 1 = Cardinality(DOMAIN d.points)
      /\ d.verdict = None /\ d.points[f].ok = FALSE
  BY <1>1, <1>3 DEF DcOwn
<1> HIDE DEF record
<1>5. CASE /\ dc' = [dc EXCEPT ![Dir(p)].points[f].output = record]
           /\ Become(p, [proc[p] EXCEPT !.pc = "dc_mark"])
  <2> DEFINE point == [d.points[f] EXCEPT !.output = record]
             points == [d.points EXCEPT ![f] = point]
             e == [d EXCEPT !.points = points]
             doing == [proc[p] EXCEPT !.pc = "dc_mark"]
  <2>1. dc' = [dc EXCEPT ![Dir(p)] = e]
    BY <1>5
  <2>2. DOMAIN d.points[f] = {"report", "output", "ok", "mapped"}
    BY <1>3, <1>4 DEF MatrixRecord
  <2>3. /\ DOMAIN point = {"report", "output", "ok", "mapped"} /\ point.report = d.points[f].report
        /\ point.ok = d.points[f].ok
    BY <2>2
  <2>4. e = [d EXCEPT !.points = [d.points EXCEPT ![f] = point]]
    OBVIOUS
  <2> HIDE DEF point, e, points
  <2>5. /\ MatrixRecord(e) /\ DOMAIN e.points = DOMAIN d.points /\ e.points[f] = point
        /\ e.decisions = d.decisions /\ e.verdict = d.verdict
    <3> HIDE DEF f, d
    <3> QED BY <1>3, <1>4, <2>3, <2>4, PointUpdate
  <2>6. /\ DOMAIN doing = {"pc", "dir", "mhz"} /\ doing.pc = "dc_mark"
        /\ doing.dir = Dir(p) /\ doing.mhz = f
    BY <1>1, DcNextStep DEF DcSteps
  <2> HIDE DEF doing
  <2>7. DcOwn(doing, e)
    <3> HIDE DEF f, d
    <3> QED BY <1>3, <1>4, <2>3, <2>5, <2>6 DEF DcOwn
  <2>8. "pc" \in DOMAIN doing /\ doing.pc \in DcSteps /\ Become(p, doing)
    BY <1>5, <2>6 DEF DcSteps, doing
  <2> QED BY <1>1, <2>1, <2>5, <2>6, <2>7, <2>8, DcUpdate
<1>6. CASE Become(p, [proc[p] EXCEPT !.pc = "dc_decide"]) /\ UNCHANGED dc
  <2> DEFINE doing == [proc[p] EXCEPT !.pc = "dc_decide"]
             e == d
  <2>1. /\ DOMAIN doing = {"pc", "dir", "mhz"} /\ doing.pc = "dc_decide"
        /\ doing.dir = Dir(p) /\ doing.mhz = f
    BY <1>1, DcNextStep DEF DcSteps
  <2> HIDE DEF doing
  <2>2. "pc" \in DOMAIN doing /\ doing.pc \in DcSteps /\ Become(p, doing)
    BY <1>6, <2>1 DEF DcSteps, doing
  <2>3. DcOwn(doing, e) /\ MatrixRecord(e)
    <3> HIDE DEF f, d
    <3> QED BY <1>3, <1>4, <2>1 DEF DcOwn
  <2>4. /\ DOMAIN dc' = DOMAIN dc \cup {Dir(p)} /\ dc'[Dir(p)] = e
        /\ \A x \in DOMAIN dc \ {Dir(p)} : dc'[x] = dc[x]
    BY <1>3, <1>6
  <2> DEFINE dir == Dir(p)
  <2>5. dir = Dir(p)
    OBVIOUS
  <2> HIDE DEF dir, e
  <2> QED BY <1>1, <2>1, <2>2, <2>3, <2>4, <2>5, DcStep
<1> QED BY <1>2, <1>5, <1>6

LEMMA DcMarkKeeps ==
  ASSUME Fenced, NEW p \in Proc, DcMark(p)
  PROVE  Fenced'
<1> DEFINE f == proc[p].mhz
           d == dc[Dir(p)]
<1>1. UNCHANGED <<tree, pnr, sta>> /\ proc[p].pc = "dc_mark" /\ proc[p].pc \in DcSteps
  BY DEF DcMark, At, DcSteps
<1>2. /\ dc' = [dc EXCEPT ![Dir(p)].points[f].ok = TRUE]
      /\ Become(p, [proc[p] EXCEPT !.pc = "dc_decide"])
  BY DEF DcMark
<1>3. /\ Dir(p) \in DOMAIN dc /\ MatrixRecord(d) /\ DcOwn(proc[p], d) /\ f \in Nat \ {0}
  BY <1>1, DcHas
<1>4. /\ f \in DOMAIN d.points /\ \A g \in DOMAIN d.points : f <= g
      /\ Len(d.decisions) + 1 = Cardinality(DOMAIN d.points)
      /\ d.verdict = None
  BY <1>1, <1>3 DEF DcOwn
<1> DEFINE point == [d.points[f] EXCEPT !.ok = TRUE]
           points == [d.points EXCEPT ![f] = point]
           e == [d EXCEPT !.points = points]
           doing == [proc[p] EXCEPT !.pc = "dc_decide"]
<1>5. dc' = [dc EXCEPT ![Dir(p)] = e]
  BY <1>2
<1>6. DOMAIN d.points[f] = {"report", "output", "ok", "mapped"}
  BY <1>3, <1>4 DEF MatrixRecord
<1>7. DOMAIN point = {"report", "output", "ok", "mapped"} /\ point.report = d.points[f].report
  BY <1>6
<1>8. e = [d EXCEPT !.points = [d.points EXCEPT ![f] = point]]
  OBVIOUS
<1> HIDE DEF point, e, points
<1>9. /\ MatrixRecord(e) /\ DOMAIN e.points = DOMAIN d.points
      /\ e.decisions = d.decisions /\ e.verdict = d.verdict
  <2> HIDE DEF f, d
  <2> QED BY <1>3, <1>4, <1>7, <1>8, PointUpdate
<1>10. /\ DOMAIN doing = {"pc", "dir", "mhz"} /\ doing.pc = "dc_decide"
       /\ doing.dir = Dir(p) /\ doing.mhz = f
  BY <1>1, DcNextStep DEF DcSteps
<1> HIDE DEF doing
<1>11. DcOwn(doing, e)
  <2> HIDE DEF f, d
  <2> QED BY <1>3, <1>4, <1>9, <1>10 DEF DcOwn
<1>12. "pc" \in DOMAIN doing /\ doing.pc \in DcSteps /\ Become(p, doing)
  BY <1>2, <1>10 DEF DcSteps, doing
<1> QED BY <1>1, <1>5, <1>9, <1>10, <1>11, <1>12, DcUpdate

LEMMA DcDecideKeeps ==
  ASSUME Fenced, NEW p \in Proc, DcDecide(p)
  PROVE  Fenced'
<1> DEFINE f == proc[p].mhz
           d == dc[Dir(p)]
           row == Report(d.points[f])
           done == completed(d.points[f])
           raw == dc_frequency_decision(d.input.frequencies, f, row, done, quantum(t))
           decision == Budgeted(raw, Len(d.decisions) + 1, max_points(t))
           closed == {g \in DOMAIN d.points : Closed(d.points[g])}
           verdict == IF decision.next # 0 THEN None ELSE IF closed = {} THEN 0 ELSE Highest(closed)
           decisions == Append(d.decisions, decision)
           e == [d EXCEPT !.decisions = decisions, !.verdict = verdict]
           doing == IF decision.next = 0 THEN Idle
                    ELSE [pc |-> "dc_tool", dir |-> Dir(p), mhz |-> decision.next]
<1>1. UNCHANGED <<tree, pnr, sta>> /\ proc[p].pc = "dc_decide" /\ proc[p].pc \in DcSteps
  BY DEF DcDecide, At, DcSteps
<1>2. dc' = [dc EXCEPT ![Dir(p)] = e] /\ Become(p, doing)
  BY DEF DcDecide
<1>3. /\ Dir(p) \in DOMAIN dc /\ MatrixRecord(d) /\ DcOwn(proc[p], d) /\ f \in Nat \ {0}
  BY <1>1, DcHas
<1>4. /\ f \in DOMAIN d.points /\ \A g \in DOMAIN d.points : f <= g
      /\ Len(d.decisions) + 1 = Cardinality(DOMAIN d.points)
      /\ d.verdict = None
  BY <1>1, <1>3 DEF DcOwn
<1>5. row.wns \in Int
  <2>1. d.points[f].report \in DOMAIN DcReports
    BY <1>3, <1>4 DEF MatrixRecord
  <2> QED BY <2>1, FlowConstants DEF Report
<1>6. quantum(t) \in Int /\ quantum(t) > 0
  <2>1. Scannable /\ tree \in DOMAIN Trees
    BY <1>1 DEF Fenced
  <2> QED BY <2>1, FlowConstants DEF Scannable, t, Trees
<1>7. Frequencies(d.input.frequencies) /\ Sequence(d.decisions)
  BY <1>3 DEF MatrixRecord
<1>8. decision.next # 0 => decision.next \in Nat \ {0} /\ decision.next < f
  <2> SUFFICES ASSUME decision.next # 0 PROVE decision.next \in Nat \ {0} /\ decision.next < f
    OBVIOUS
  <2> DEFINE q == quantum(t)
             F == d.input.frequencies
             budget == max_points(t)
             executed == Len(d.decisions) + 1
  <2>1. decision = Budgeted(dc_frequency_decision(F, f, row, done, q), executed, budget)
    OBVIOUS
  <2>2. Frequencies(F) /\ q \in Int /\ q > 0
    BY <1>6, <1>7
  <2> HIDE DEF decision, row, done, q, F, budget, executed, f
  <2> QED BY <1>3, <1>5, <2>1, <2>2, DecisionIsLower
<1> HIDE DEF decision, row, done, raw, closed
<1>9. /\ Sequence(decisions) /\ Len(decisions) = Len(d.decisions) + 1
  BY <1>7, Appended
<1>10. DOMAIN d = {"input", "points", "decisions", "verdict"}
  BY <1>3 DEF MatrixRecord
<1> HIDE DEF decisions, verdict
<1>11. /\ DOMAIN e = DOMAIN d /\ e.points = d.points /\ e.input = d.input
       /\ e.decisions = decisions /\ e.verdict = verdict
  BY <1>10
<1> HIDE DEF e
<1>12. MatrixRecord(e)
  <2> HIDE DEF d
  <2> QED BY <1>3, <1>9, <1>10, <1>11 DEF MatrixRecord
<1>13. CASE decision.next = 0
  <2>1. doing = Idle
    BY <1>13
  <2>2. "pc" \in DOMAIN doing /\ doing.pc = "idle" /\ doing.pc \notin DcSteps
    BY <2>1 DEF Idle, DcSteps
  <2> HIDE DEF doing
  <2> QED BY <1>1, <1>2, <1>12, <2>2, DcUpdate
<1>14. CASE decision.next # 0
  <2>1. doing = [pc |-> "dc_tool", dir |-> Dir(p), mhz |-> decision.next]
    BY <1>14
  <2>2. /\ DOMAIN doing = {"pc", "dir", "mhz"} /\ doing.pc = "dc_tool"
        /\ doing.dir = Dir(p) /\ doing.mhz = decision.next
    BY <2>1
  <2> HIDE DEF doing
  <2>3. verdict = None
    BY <1>14 DEF verdict
  <2>4. \A g \in DOMAIN d.points : decision.next < g
    <3>1. DOMAIN d.points \subseteq Nat
      BY <1>3 DEF MatrixRecord
    <3> QED BY <1>3, <1>4, <1>8, <1>14, <3>1
  <2>5. DcOwn(doing, e)
    <3> HIDE DEF d, f
    <3> QED BY <1>4, <1>8, <1>9, <1>11, <1>14, <2>2, <2>3, <2>4 DEF DcOwn
  <2>6. "pc" \in DOMAIN doing /\ doing.pc \in DcSteps
    BY <2>2 DEF DcSteps
  <2> QED BY <1>1, <1>2, <1>12, <2>2, <2>5, <2>6, DcUpdate
<1> QED BY <1>13, <1>14

-----------------------------------------------------------------------------
(***************************************************************************)
(* Place and route, recovery, and timing.                                  *)
(***************************************************************************)

LEMMA PnrUpdate ==
  ASSUME Fenced, NEW p \in Proc, NEW doing, Become(p, doing), UNCHANGED <<tree, dc, sta>>,
         proc[p].pc \in PnrSteps, NEW run, pnr' = [pnr EXCEPT ![Dir(p)] = run], RouteRecord(run),
         "pc" \in DOMAIN doing, doing.pc \in PnrSteps \cup {"idle"},
         doing.pc \in PnrSteps => doing.dir = Dir(p) /\ PnrOwn(doing, run)
  PROVE  Fenced'
<1>1. Dir(p) \in DOMAIN pnr
  BY DEF Fenced, PnrOwned
<1>2. /\ DOMAIN pnr' = DOMAIN pnr \cup {Dir(p)} /\ pnr'[Dir(p)] = run
      /\ \A x \in DOMAIN pnr \ {Dir(p)} : pnr'[x] = pnr[x]
  BY <1>1
<1> DEFINE dir == Dir(p)
<1>3. dir = Dir(p)
  OBVIOUS
<1> HIDE DEF dir
<1> QED BY <1>2, <1>3, PnrStep

(* The process moves on and the directory stays as it is.                  *)
LEMMA PnrMove ==
  ASSUME Fenced, NEW p \in Proc, NEW doing, Become(p, doing), UNCHANGED <<tree, dc, pnr, sta>>,
         proc[p].pc \in PnrSteps,
         "pc" \in DOMAIN doing, doing.pc \in PnrSteps \cup {"idle"},
         doing.pc \in PnrSteps => doing.dir = Dir(p) /\ PnrOwn(doing, pnr[Dir(p)])
  PROVE  Fenced'
<1> DEFINE dir == Dir(p)
<1>1. dir \in DOMAIN pnr /\ RouteRecord(pnr[dir]) /\ dir = Dir(p)
  BY DEF Fenced, PnrOwned
<1>2. /\ DOMAIN pnr' = DOMAIN pnr \cup {dir} /\ RouteRecord(pnr'[dir])
      /\ \A x \in DOMAIN pnr \ {dir} : pnr'[x] = pnr[x]
  BY <1>1
<1>3. doing.pc \in PnrSteps => doing.dir = dir /\ PnrOwn(doing, pnr'[dir])
  BY <1>1
<1> HIDE DEF dir
<1> QED BY <1>1, <1>2, <1>3, PnrStep

LEMMA PnrCreate ==
  ASSUME Fenced, NEW p \in Proc, NEW doing, Become(p, doing), UNCHANGED <<tree, dc, sta>>,
         Dir(p) \notin DOMAIN pnr, NEW run, pnr' = Entered(pnr, Dir(p), run), RouteRecord(run),
         "pc" \in DOMAIN doing, doing.pc \in PnrSteps \cup {"idle"},
         doing.pc \in PnrSteps => doing.dir = Dir(p) /\ PnrOwn(doing, run)
  PROVE  Fenced'
<1> DEFINE dir == Dir(p)
<1>1. dir \notin DOMAIN pnr /\ dir = Dir(p)
  OBVIOUS
<1>2. /\ DOMAIN pnr' = DOMAIN pnr \cup {dir} /\ pnr'[dir] = run
      /\ \A x \in DOMAIN pnr \ {dir} : pnr'[x] = pnr[x]
  BY <1>1 DEF Entered
<1>3. doing.pc \in PnrSteps => doing.dir = dir /\ PnrOwn(doing, pnr'[dir])
  BY <1>2
<1> HIDE DEF dir
<1> QED BY <1>1, <1>2, <1>3, PnrStep

LEMMA PnrHas ==
  ASSUME Fenced, NEW p \in Proc, proc[p].pc \in PnrSteps
  PROVE  /\ Dir(p) \in DOMAIN pnr /\ RouteRecord(pnr[Dir(p)]) /\ PnrOwn(proc[p], pnr[Dir(p)])
         /\ "pc" \in DOMAIN proc[p]
  BY DEF Fenced, PnrOwned

LEMMA IdleFacts == "pc" \in DOMAIN Idle /\ Idle.pc = "idle" /\ Idle.pc \notin PnrSteps \cup DcSteps \cup StaSteps
  BY DEF Idle, PnrSteps, DcSteps, StaSteps

LEMMA EmptyFacts ==
  ASSUME NEW copy
  PROVE  /\ RouteRecord(EmptyRun(copy)) /\ EmptyRun(copy).summary = None /\ EmptyRun(copy).input = None
         /\ EmptyRun(copy).orfs = None /\ EmptyRun(copy).exit_status = None
         /\ EmptyRun(copy).ledger = None /\ EmptyRun(copy).handoff = None
  BY DEF EmptyRun, RouteRecord

LEMMA PnrOpens ==
  ASSUME Fenced, NEW p \in Proc, PnrOpen(p)
  PROVE  Fenced'
<1>1. UNCHANGED <<tree, dc, sta>> /\ proc[p].pc = "pnr_open"
  BY DEF PnrOpen, At
<1>2. CASE Dir(p) \in DOMAIN pnr
  <2>1. Become(p, Idle) /\ UNCHANGED pnr
    BY <1>2 DEF PnrOpen
  <2> QED BY <1>1, <2>1, Resting
<1>3. CASE Dir(p) \notin DOMAIN pnr
  <2>1. PICK copy : /\ pnr' = Entered(pnr, Dir(p), EmptyRun(copy))
                    /\ Become(p, [proc[p] EXCEPT !.pc = "pnr_stage"]) \/ Become(p, Idle)
    BY <1>3 DEF PnrOpen
  <2> DEFINE run == EmptyRun(copy)
  <2>2. /\ RouteRecord(run) /\ run.summary = None /\ run.input = None /\ run.orfs = None
        /\ run.exit_status = None /\ run.ledger = None
    BY EmptyFacts
  <2> HIDE DEF run
  <2>3. pnr' = Entered(pnr, Dir(p), run)
    BY <2>1 DEF run
  <2>4. CASE Become(p, Idle)
    BY <1>1, <1>3, <2>2, <2>3, <2>4, IdleFacts, PnrCreate
  <2>5. CASE Become(p, [proc[p] EXCEPT !.pc = "pnr_stage"])
    <3> DEFINE doing == [proc[p] EXCEPT !.pc = "pnr_stage"]
    <3>1. DOMAIN proc[p] = {"pc", "dir", "from", "mapped"}
      BY <1>1 DEF Fenced, Waits
    <3>2. DOMAIN doing = {"pc", "dir", "from", "mapped"} /\ doing.pc = "pnr_stage" /\ doing.dir = Dir(p)
      BY <3>1 DEF Dir
    <3> HIDE DEF doing
    <3>3. PnrOwn(doing, run) /\ doing.pc \in PnrSteps /\ "pc" \in DOMAIN doing /\ Become(p, doing)
      BY <2>2, <2>5, <3>2 DEF PnrOwn, PnrSteps, doing
    <3> QED BY <1>1, <1>3, <2>2, <2>3, <3>2, <3>3, PnrCreate
  <2> QED BY <2>1, <2>4, <2>5
<1> QED BY <1>2, <1>3

LEMMA PnrStageKeeps ==
  ASSUME Fenced, NEW p \in Proc, PnrStage(p)
  PROVE  Fenced'
<1> DEFINE run == pnr[Dir(p)]
           staged == [run EXCEPT !.input = PnrManifest(p)]
           contract == [mapped |-> sha256(run.copy), import |-> None, orfs |-> t.matrix.orfs]
           begun == [staged EXCEPT !.contract = contract]
           doing == [proc[p] EXCEPT !.pc = "pnr_tool"]
<1>1. UNCHANGED <<tree, dc, sta>> /\ proc[p].pc = "pnr_stage" /\ proc[p].pc \in PnrSteps
  BY DEF PnrStage, At, PnrSteps
<1>2. \/ Become(p, Idle) /\ UNCHANGED pnr
      \/ Become(p, Idle) /\ pnr' = [pnr EXCEPT ![Dir(p)] = staged]
      \/ Become(p, doing) /\ pnr' = [pnr EXCEPT ![Dir(p)] = begun]
  BY DEF PnrStage
<1>3. RouteRecord(run) /\ PnrOwn(proc[p], run)
  BY <1>1, PnrHas
<1>4. /\ DOMAIN proc[p] = {"pc", "dir", "from", "mapped"}
      /\ run.summary = None /\ run.orfs = None /\ run.exit_status = None /\ run.ledger = None
  BY <1>1, <1>3 DEF PnrOwn
<1>5. RouteRecord(staged) /\ RouteRecord(begun)
  <2> HIDE DEF run, contract
  <2> QED BY <1>3 DEF RouteRecord
<1>6. begun.summary = None /\ begun.orfs = None /\ begun.exit_status = None /\ begun.ledger = None
  <2> HIDE DEF run, contract
  <2> QED BY <1>3, <1>4 DEF RouteRecord
<1>7. DOMAIN doing = {"pc", "dir", "from", "mapped"} /\ doing.pc = "pnr_tool" /\ doing.dir = Dir(p)
  BY <1>4 DEF Dir
<1> HIDE DEF staged, begun, doing
<1>8. PnrOwn(doing, begun) /\ doing.pc \in PnrSteps /\ "pc" \in DOMAIN doing
  BY <1>6, <1>7 DEF PnrOwn, PnrSteps
<1>9. CASE Become(p, Idle) /\ UNCHANGED pnr
  BY <1>1, <1>9, Resting
<1>10. CASE Become(p, Idle) /\ pnr' = [pnr EXCEPT ![Dir(p)] = staged]
  BY <1>1, <1>5, <1>10, IdleFacts, PnrUpdate
<1>11. CASE Become(p, doing) /\ pnr' = [pnr EXCEPT ![Dir(p)] = begun]
  BY <1>1, <1>5, <1>7, <1>8, <1>11, PnrUpdate
<1> QED BY <1>2, <1>9, <1>10, <1>11

LEMMA PnrToolKeeps ==
  ASSUME Fenced, NEW p \in Proc, PnrTool(p)
  PROVE  Fenced'
<1> DEFINE run == pnr[Dir(p)]
           ended(status) == [pc |-> "pnr_record", dir |-> Dir(p), mapped |-> proc[p].mapped,
                             exit_status |-> status]
<1>1. UNCHANGED <<tree, dc, sta>> /\ proc[p].pc = "pnr_tool" /\ proc[p].pc \in PnrSteps
  BY DEF PnrTool, At, PnrSteps
<1>2. RouteRecord(run) /\ PnrOwn(proc[p], run)
  BY <1>1, PnrHas
<1>3. run.summary = None /\ run.exit_status = None /\ run.ledger = None
  BY <1>1, <1>2 DEF PnrOwn
<1>4. ASSUME NEW status
      PROVE  /\ DOMAIN ended(status) = {"pc", "dir", "mapped", "exit_status"}
             /\ ended(status).pc = "pnr_record" /\ ended(status).dir = Dir(p)
  OBVIOUS
<1>5. ASSUME NEW status, NEW now, now.summary = None, now.exit_status = None, now.ledger = None
      PROVE  /\ PnrOwn(ended(status), now) /\ ended(status).pc \in PnrSteps
             /\ "pc" \in DOMAIN ended(status)
  <2> HIDE DEF ended
  <2> QED BY <1>4, <1>5 DEF PnrOwn, PnrSteps
<1>6. CASE Become(p, ended(1)) /\ UNCHANGED pnr
  <2> DEFINE doing == ended(1)
  <2>1. /\ doing.dir = Dir(p) /\ PnrOwn(doing, run) /\ doing.pc \in PnrSteps /\ "pc" \in DOMAIN doing
    BY <1>3, <1>5
  <2>2. Become(p, doing)
    BY <1>6
  <2> HIDE DEF doing
  <2> QED BY <1>1, <1>6, <2>1, <2>2, PnrMove
<1>7. CASE \E report \in DOMAIN RouteReports :
             \/ /\ pnr' = [pnr EXCEPT ![Dir(p)] = [run EXCEPT
                       !.orfs = [import |-> run.copy, final |-> run.copy, report |-> report]]]
                /\ Become(p, ended(1))
             \/ /\ pnr' = [pnr EXCEPT ![Dir(p)] = [[run EXCEPT
                       !.orfs = [import |-> run.copy, final |-> run.copy, report |-> report]] EXCEPT
                              !.handoff = run.copy, !.contract.import = sha256(run.copy)]]
                /\ Become(p, ended(0))
  <2>1. PICK report \in DOMAIN RouteReports :
             \/ /\ pnr' = [pnr EXCEPT ![Dir(p)] = [run EXCEPT
                       !.orfs = [import |-> run.copy, final |-> run.copy, report |-> report]]]
                /\ Become(p, ended(1))
             \/ /\ pnr' = [pnr EXCEPT ![Dir(p)] = [[run EXCEPT
                       !.orfs = [import |-> run.copy, final |-> run.copy, report |-> report]] EXCEPT
                              !.handoff = run.copy, !.contract.import = sha256(run.copy)]]
                /\ Become(p, ended(0))
    BY <1>7
  <2> DEFINE orfs == [import |-> run.copy, final |-> run.copy, report |-> report]
             routed == [run EXCEPT !.orfs = orfs]
             gathered == [routed EXCEPT !.handoff = run.copy, !.contract.import = sha256(run.copy)]
  <2>2. /\ RouteRecord(routed) /\ routed.summary = None /\ routed.exit_status = None /\ routed.ledger = None
    <3> HIDE DEF run, orfs
    <3> QED BY <1>2, <1>3 DEF RouteRecord
  <2>3. /\ RouteRecord(gathered) /\ gathered.summary = None /\ gathered.exit_status = None
        /\ gathered.ledger = None
    <3> HIDE DEF routed
    <3> QED BY <2>2 DEF RouteRecord
  <2>4. PICK status, now : /\ pnr' = [pnr EXCEPT ![Dir(p)] = now] /\ Become(p, ended(status))
                           /\ now = routed \/ now = gathered
    <3>1. \/ pnr' = [pnr EXCEPT ![Dir(p)] = routed] /\ Become(p, ended(1))
          \/ pnr' = [pnr EXCEPT ![Dir(p)] = gathered] /\ Become(p, ended(0))
      BY <2>1
    <3> HIDE DEF routed, gathered, ended
    <3> QED BY <3>1
  <2> HIDE DEF routed, gathered
  <2>5. RouteRecord(now) /\ now.summary = None /\ now.exit_status = None /\ now.ledger = None
    BY <2>2, <2>3, <2>4
  <2> DEFINE doing == ended(status)
  <2>6. /\ doing.dir = Dir(p) /\ PnrOwn(doing, now) /\ doing.pc \in PnrSteps /\ "pc" \in DOMAIN doing
    BY <1>5, <2>5
  <2>7. Become(p, doing) /\ pnr' = [pnr EXCEPT ![Dir(p)] = now]
    BY <2>4
  <2> HIDE DEF doing
  <2> QED BY <1>1, <2>5, <2>6, <2>7, PnrUpdate
<1>8. \/ Become(p, ended(1)) /\ UNCHANGED pnr
      \/ \E report \in DOMAIN RouteReports :
             \/ /\ pnr' = [pnr EXCEPT ![Dir(p)] = [run EXCEPT
                       !.orfs = [import |-> run.copy, final |-> run.copy, report |-> report]]]
                /\ Become(p, ended(1))
             \/ /\ pnr' = [pnr EXCEPT ![Dir(p)] = [[run EXCEPT
                       !.orfs = [import |-> run.copy, final |-> run.copy, report |-> report]] EXCEPT
                              !.handoff = run.copy, !.contract.import = sha256(run.copy)]]
                /\ Become(p, ended(0))
  BY DEF PnrTool
<1> QED BY <1>6, <1>7, <1>8

LEMMA PnrRecordKeeps ==
  ASSUME Fenced, NEW p \in Proc, PnrRecord(p)
  PROVE  Fenced'
<1> DEFINE run == pnr[Dir(p)]
           ledger == Ledger(proc[p].mapped, run.copy, run.orfs.import, run.handoff)
           exited == [run EXCEPT !.exit_status = proc[p].exit_status]
           partial == [exited EXCEPT !.summary = "PNR_RCX_PARTIAL"]
           sealed == [exited EXCEPT !.ledger = ledger]
           doing == [proc[p] EXCEPT !.pc = "pnr_mark"]
<1>1. UNCHANGED <<tree, dc, sta>> /\ proc[p].pc = "pnr_record" /\ proc[p].pc \in PnrSteps
  BY DEF PnrRecord, At, PnrSteps
<1>2. RouteRecord(run) /\ PnrOwn(proc[p], run)
  BY <1>1, PnrHas
<1>3. DOMAIN proc[p] = {"pc", "dir", "mapped", "exit_status"} /\ run.summary = None
  BY <1>1, <1>2 DEF PnrOwn
<1>4. \/ pnr' = [pnr EXCEPT ![Dir(p)] = partial] /\ Become(p, Idle)
      \/ pnr' = [pnr EXCEPT ![Dir(p)] = sealed] /\ Become(p, doing)
      \/ pnr' = [pnr EXCEPT ![Dir(p)] = exited] /\ Become(p, Idle)
  BY DEF PnrRecord
<1> HIDE DEF ledger
<1>5. RouteRecord(partial) /\ RouteRecord(sealed) /\ RouteRecord(exited) /\ sealed.summary = None
  <2> HIDE DEF run
  <2> QED BY <1>2, <1>3 DEF RouteRecord
<1>6. DOMAIN doing = {"pc", "dir", "mapped", "exit_status"} /\ doing.pc = "pnr_mark" /\ doing.dir = Dir(p)
  BY <1>3 DEF Dir
<1> HIDE DEF run, partial, sealed, exited, doing
<1>7. PnrOwn(doing, sealed) /\ doing.pc \in PnrSteps /\ "pc" \in DOMAIN doing
  BY <1>5, <1>6 DEF PnrOwn, PnrSteps
<1>8. CASE pnr' = [pnr EXCEPT ![Dir(p)] = partial] /\ Become(p, Idle)
  BY <1>1, <1>5, <1>8, IdleFacts, PnrUpdate
<1>9. CASE pnr' = [pnr EXCEPT ![Dir(p)] = sealed] /\ Become(p, doing)
  BY <1>1, <1>5, <1>6, <1>7, <1>9, PnrUpdate
<1>10. CASE pnr' = [pnr EXCEPT ![Dir(p)] = exited] /\ Become(p, Idle)
  BY <1>1, <1>5, <1>10, IdleFacts, PnrUpdate
<1> QED BY <1>4, <1>8, <1>9, <1>10

LEMMA PnrMarkKeeps ==
  ASSUME Fenced, NEW p \in Proc, PnrMark(p)
  PROVE  Fenced'
<1> DEFINE run == pnr[Dir(p)]
<1>1. UNCHANGED <<tree, dc, sta>> /\ proc[p].pc = "pnr_mark" /\ proc[p].pc \in PnrSteps /\ Become(p, Idle)
  BY DEF PnrMark, At, PnrSteps
<1>2. PICK complete, summary : pnr' = [pnr EXCEPT ![Dir(p)] = [run EXCEPT !.ok = complete, !.summary = summary]]
  BY DEF PnrMark
<1> DEFINE marked == [run EXCEPT !.ok = complete, !.summary = summary]
<1>3. RouteRecord(run)
  BY <1>1, PnrHas
<1>4. RouteRecord(marked)
  <2> HIDE DEF run
  <2> QED BY <1>3 DEF RouteRecord
<1>5. pnr' = [pnr EXCEPT ![Dir(p)] = marked]
  BY <1>2
<1> HIDE DEF marked
<1> QED BY <1>1, <1>4, <1>5, IdleFacts, PnrUpdate

LEMMA RecoverOpens ==
  ASSUME Fenced, NEW p \in Proc, RecoverOpen(p)
  PROVE  Fenced'
<1> DEFINE source == pnr[proc[p].source]
           copied == copy_input_manifest(source)
           begun == [copied EXCEPT !.contract = source.contract, !.orfs = source.orfs]
           empty == EmptyRun(source.copy)
           doing == [proc[p] EXCEPT !.pc = "rec_record"]
<1>1. UNCHANGED <<tree, dc, sta>> /\ proc[p].pc = "rec_open"
  BY DEF RecoverOpen, At
<1>2. \/ Become(p, Idle) /\ UNCHANGED pnr
      \/ Dir(p) \notin DOMAIN pnr /\ pnr' = Entered(pnr, Dir(p), begun) /\ Become(p, doing)
      \/ Dir(p) \notin DOMAIN pnr /\ pnr' = Entered(pnr, Dir(p), empty) /\ Become(p, Idle)
  BY DEF RecoverOpen
<1>3. RouteRecord(empty) /\ empty.summary = None /\ empty.exit_status = None /\ empty.ledger = None /\ empty.handoff = None
  BY EmptyFacts
<1>4. copied = [empty EXCEPT !.input = source.input]
  BY DEF copy_input_manifest
<1> HIDE DEF source, empty, copied
<1>5. /\ RouteRecord(begun) /\ begun.summary = None /\ begun.exit_status = None
      /\ begun.ledger = None /\ begun.handoff = None
  BY <1>3, <1>4 DEF RouteRecord
<1>6. DOMAIN proc[p] = {"pc", "dir", "source"}
  BY <1>1 DEF Fenced, Waits
<1>7. DOMAIN doing = {"pc", "dir", "source"} /\ doing.pc = "rec_record" /\ doing.dir = Dir(p)
  BY <1>6 DEF Dir
<1> HIDE DEF begun, doing
<1>8. PnrOwn(doing, begun) /\ doing.pc \in PnrSteps /\ "pc" \in DOMAIN doing
  BY <1>5, <1>7 DEF PnrOwn, PnrSteps
<1>9. CASE Become(p, Idle) /\ UNCHANGED pnr
  BY <1>1, <1>9, Resting
<1>10. CASE Dir(p) \notin DOMAIN pnr /\ pnr' = Entered(pnr, Dir(p), begun) /\ Become(p, doing)
  BY <1>1, <1>5, <1>7, <1>8, <1>10, PnrCreate
<1>11. CASE Dir(p) \notin DOMAIN pnr /\ pnr' = Entered(pnr, Dir(p), empty) /\ Become(p, Idle)
  BY <1>1, <1>3, <1>11, IdleFacts, PnrCreate
<1> QED BY <1>2, <1>9, <1>10, <1>11

LEMMA RecoverRecordKeeps ==
  ASSUME Fenced, NEW p \in Proc, RecoverRecord(p)
  PROVE  Fenced'
<1> DEFINE run == pnr[Dir(p)]
           source == pnr[proc[p].source]
           ledger == same_run_artifacts(run, source.orfs.final)
           gathered == [run EXCEPT !.handoff = source.orfs.final]
           recorded == [gathered EXCEPT !.ledger = ledger, !.contract.mapped = ledger.pnr_input,
                                        !.contract.import = ledger.orfs_import]
           exited == [recorded EXCEPT !.exit_status = 0]
           doing == [pc |-> "pnr_mark", dir |-> Dir(p)]
<1>1. UNCHANGED <<tree, dc, sta>> /\ proc[p].pc = "rec_record" /\ proc[p].pc \in PnrSteps
  BY DEF RecoverRecord, At, PnrSteps
<1>2. RouteRecord(run) /\ PnrOwn(proc[p], run)
  BY <1>1, PnrHas
<1>3. run.summary = None
  BY <1>2 DEF PnrOwn
<1>4. \/ pnr' = [pnr EXCEPT ![Dir(p)] = gathered] /\ Become(p, Idle)
      \/ pnr' = [pnr EXCEPT ![Dir(p)] = recorded] /\ Become(p, Idle)
      \/ pnr' = [pnr EXCEPT ![Dir(p)] = exited] /\ Become(p, doing)
  BY DEF RecoverRecord
<1> HIDE DEF ledger, source
<1>5. RouteRecord(gathered) /\ gathered.summary = None
  <2> HIDE DEF run
  <2> QED BY <1>2, <1>3 DEF RouteRecord
<1>6. RouteRecord(recorded) /\ recorded.summary = None
  <2> HIDE DEF gathered
  <2> QED BY <1>5 DEF RouteRecord
<1>7. RouteRecord(exited) /\ exited.summary = None
  <2> HIDE DEF recorded
  <2> QED BY <1>6 DEF RouteRecord
<1>8. doing.pc = "pnr_mark" /\ doing.dir = Dir(p) /\ "pc" \in DOMAIN doing
  OBVIOUS
<1> HIDE DEF run, gathered, recorded, exited, doing
<1>9. PnrOwn(doing, exited) /\ doing.pc \in PnrSteps
  BY <1>7, <1>8 DEF PnrOwn, PnrSteps
<1>10. CASE pnr' = [pnr EXCEPT ![Dir(p)] = gathered] /\ Become(p, Idle)
  BY <1>1, <1>5, <1>10, IdleFacts, PnrUpdate
<1>11. CASE pnr' = [pnr EXCEPT ![Dir(p)] = recorded] /\ Become(p, Idle)
  BY <1>1, <1>6, <1>11, IdleFacts, PnrUpdate
<1>12. CASE pnr' = [pnr EXCEPT ![Dir(p)] = exited] /\ Become(p, doing)
  BY <1>1, <1>7, <1>8, <1>9, <1>12, PnrUpdate
<1> QED BY <1>4, <1>10, <1>11, <1>12

LEMMA StaOpens ==
  ASSUME Fenced, NEW p \in Proc, StaOpen(p)
  PROVE  Fenced'
<1> DEFINE dir == Dir(p)
           input == [identity |-> Now(Dir(p).line[2]), source |-> proc[p].source, db |-> disk.db,
                     pnr_output |-> pnr[proc[p].source].ledger.routed,
                     sta_input |-> proc[p].routed]
           run == [input |-> input, report |-> None, analysed |-> None, summary |-> None, ok |-> FALSE]
           doing == [proc[p] EXCEPT !.pc = "sta_tool"]
<1>1. UNCHANGED <<tree, dc, pnr>> /\ proc[p].pc = "sta_open"
  BY DEF StaOpen, At
<1>2. \/ Become(p, Idle) /\ UNCHANGED sta
      \/ dir \notin DOMAIN sta /\ sta' = Entered(sta, dir, run) /\ Become(p, doing)
  BY DEF StaOpen
<1> HIDE DEF input
<1>3. TimingRecord(run) /\ run.summary = None /\ run.report = None /\ run.ok = FALSE
  BY DEF TimingRecord
<1>4. DOMAIN proc[p] = {"pc", "dir", "source", "routed"}
  BY <1>1 DEF Fenced, Waits
<1>5. DOMAIN doing = {"pc", "dir", "source", "routed"} /\ doing.pc = "sta_tool" /\ doing.dir = dir
  BY <1>4 DEF Dir
<1> HIDE DEF run, doing
<1>6. StaOwn(doing, run) /\ doing.pc \in StaSteps /\ "pc" \in DOMAIN doing
  BY <1>3, <1>5 DEF StaOwn, StaSteps
<1>7. CASE Become(p, Idle) /\ UNCHANGED sta
  BY <1>1, <1>7, Resting
<1>8. CASE dir \notin DOMAIN sta /\ sta' = Entered(sta, dir, run) /\ Become(p, doing)
  <2>1. /\ DOMAIN sta' = DOMAIN sta \cup {dir} /\ sta'[dir] = run
        /\ \A x \in DOMAIN sta \ {dir} : sta'[x] = sta[x]
    BY <1>8 DEF Entered
  <2> HIDE DEF dir
  <2> QED BY <1>1, <1>3, <1>5, <1>6, <1>8, <2>1, StaStep
<1> QED BY <1>2, <1>7, <1>8

LEMMA StaHas ==
  ASSUME Fenced, NEW p \in Proc, proc[p].pc \in StaSteps
  PROVE  /\ Dir(p) \in DOMAIN sta /\ TimingRecord(sta[Dir(p)]) /\ StaOwn(proc[p], sta[Dir(p)])
  BY DEF Fenced, StaOwned

LEMMA StaUpdate ==
  ASSUME Fenced, NEW p \in Proc, NEW doing, Become(p, doing), UNCHANGED <<tree, dc, pnr>>,
         proc[p].pc \in StaSteps, NEW run, sta' = [sta EXCEPT ![Dir(p)] = run], TimingRecord(run),
         "pc" \in DOMAIN doing, doing.pc \in StaSteps \cup {"idle"},
         doing.pc \in StaSteps => doing.dir = Dir(p) /\ StaOwn(doing, run)
  PROVE  Fenced'
<1>1. Dir(p) \in DOMAIN sta
  BY StaHas
<1>2. /\ DOMAIN sta' = DOMAIN sta \cup {Dir(p)} /\ sta'[Dir(p)] = run
      /\ \A x \in DOMAIN sta \ {Dir(p)} : sta'[x] = sta[x]
  BY <1>1
<1> DEFINE dir == Dir(p)
<1>3. dir = Dir(p)
  OBVIOUS
<1> HIDE DEF dir
<1> QED BY <1>2, <1>3, StaStep

LEMMA StaToolKeeps ==
  ASSUME Fenced, NEW p \in Proc, StaTool(p)
  PROVE  Fenced'
<1> DEFINE run == sta[Dir(p)]
           doing == [proc[p] EXCEPT !.pc = "sta_mark"]
<1>1. UNCHANGED <<tree, dc, pnr>> /\ proc[p].pc = "sta_tool" /\ proc[p].pc \in StaSteps
  BY DEF StaTool, At, StaSteps
<1>2. TimingRecord(run) /\ StaOwn(proc[p], run)
  BY <1>1, StaHas
<1>3. CASE Become(p, Idle) /\ UNCHANGED sta
  BY <1>1, <1>3, Resting
<1>4. CASE \E report \in DOMAIN StaReports :
             /\ sta' = [sta EXCEPT ![Dir(p)].report = report,
                                   ![Dir(p)].analysed = pnr[proc[p].source].handoff]
             /\ Become(p, doing)
  <2>1. PICK report \in DOMAIN StaReports :
             /\ sta' = [sta EXCEPT ![Dir(p)].report = report,
                                   ![Dir(p)].analysed = pnr[proc[p].source].handoff]
             /\ Become(p, doing)
    BY <1>4
  <2> DEFINE analysed == pnr[proc[p].source].handoff
             now == [run EXCEPT !.report = report, !.analysed = analysed]
  <2>2. sta' = [sta EXCEPT ![Dir(p)] = now]
    BY <1>1, <2>1, StaHas
  <2>3. TimingRecord(now) /\ now.summary = None /\ now.ok = FALSE
    <3>1. run.summary = None /\ run.ok = FALSE
      BY <1>2 DEF StaOwn
    <3> HIDE DEF run, analysed
    <3> QED BY <1>2, <3>1 DEF TimingRecord
  <2>4. DOMAIN doing = {"pc", "dir", "source", "routed"} /\ doing.pc = "sta_mark" /\ doing.dir = Dir(p)
    BY <1>2 DEF StaOwn, Dir
  <2> HIDE DEF now, doing
  <2>5. StaOwn(doing, now) /\ doing.pc \in StaSteps /\ "pc" \in DOMAIN doing
    BY <2>3, <2>4 DEF StaOwn, StaSteps
  <2> QED BY <1>1, <2>1, <2>2, <2>3, <2>4, <2>5, StaUpdate
<1> QED BY <1>3, <1>4 DEF StaTool

LEMMA StaMarkKeeps ==
  ASSUME Fenced, NEW p \in Proc, StaMark(p)
  PROVE  Fenced'
<1> DEFINE run == sta[Dir(p)]
<1>1. UNCHANGED <<tree, dc, pnr>> /\ proc[p].pc = "sta_mark" /\ proc[p].pc \in StaSteps /\ Become(p, Idle)
  BY DEF StaMark, At, StaSteps
<1>2. PICK closed, summary : sta' = [sta EXCEPT ![Dir(p)].ok = closed, ![Dir(p)].summary = summary]
  BY DEF StaMark
<1> DEFINE marked == [run EXCEPT !.ok = closed, !.summary = summary]
<1>3. TimingRecord(run) /\ Dir(p) \in DOMAIN sta
  BY <1>1, StaHas
<1>4. TimingRecord(marked)
  <2> HIDE DEF run
  <2> QED BY <1>3 DEF TimingRecord
<1>5. sta' = [sta EXCEPT ![Dir(p)] = marked]
  BY <1>2, <1>3
<1> HIDE DEF marked
<1> QED BY <1>1, <1>4, <1>5, IdleFacts, StaUpdate

-----------------------------------------------------------------------------
(***************************************************************************)
(* Faults.                                                                 *)
(***************************************************************************)

(* A checkout is taken when nothing runs.                                  *)
LEMMA CheckoutKeeps ==
  ASSUME Fenced, Checkout
  PROVE  Fenced'
<1>1. /\ UNCHANGED <<dc, pnr, sta, proc>> /\ tree' \in DOMAIN Trees /\ \A p \in Proc : proc[p].pc = "idle"
  BY DEF Checkout, AllIdle, At
<1>2. \A p \in Proc : proc'[p].pc = "idle" /\ "pc" \in DOMAIN proc'[p]
  BY <1>1 DEF Fenced
<1>3. /\ proc' = [p \in Proc |-> proc'[p]]
      /\ \A dir \in DOMAIN dc' : MatrixRecord(dc'[dir])
      /\ \A dir \in DOMAIN pnr' : RouteRecord(pnr'[dir])
      /\ \A dir \in DOMAIN sta' : TimingRecord(sta'[dir])
  BY <1>1 DEF Fenced
<1>4. \A p \in Proc : Waits(proc'[p]) /\ DcOwned(p)' /\ PnrOwned(p)' /\ StaOwned(p)'
  BY <1>2 DEF Waits, DcOwned, PnrOwned, StaOwned, DcSteps, PnrSteps, StaSteps
<1>5. \A p, q \in Proc : p # q => Apart(p, q)'
  BY <1>2 DEF Apart, DcSteps, PnrSteps, StaSteps
<1>6. \A p \in Proc : proc'[p].pc \in DcSteps \cup {"dc_open"} => Scannable'
  BY <1>2 DEF DcSteps
<1> QED BY <1>1, <1>2, <1>3, <1>4, <1>5, <1>6 DEF Fenced, Trees

(* Nothing that Fenced speaks of changes.                                  *)
LEMMA SameFiles ==
  ASSUME Fenced, UNCHANGED <<tree, dc, pnr, sta, proc>>
  PROVE  Fenced'
<1>1. Scannable' = Scannable
  BY DEF Scannable, t
<1>2. \A p \in Proc : DcOwned(p)' /\ PnrOwned(p)' /\ StaOwned(p)'
  BY DEF Fenced, DcOwned, PnrOwned, StaOwned, Dir
<1>3. \A p, q \in Proc : p # q => Apart(p, q)'
  BY DEF Fenced, Apart, Dir
<1>4. /\ \A p \in Proc : "pc" \in DOMAIN proc'[p] /\ Waits(proc'[p])
      /\ \A p \in Proc : proc'[p].pc \in DcSteps \cup {"dc_open"} => Scannable'
  BY <1>1 DEF Fenced
<1>5. /\ proc' = [p \in Proc |-> proc'[p]] /\ tree' \in DOMAIN Trees
      /\ \A dir \in DOMAIN dc' : MatrixRecord(dc'[dir])
      /\ \A dir \in DOMAIN pnr' : RouteRecord(pnr'[dir])
      /\ \A dir \in DOMAIN sta' : TimingRecord(sta'[dir])
  BY DEF Fenced, Trees
<1> QED BY <1>2, <1>3, <1>4, <1>5 DEF Fenced

LEMMA AlterMappedKeeps ==
  ASSUME Fenced, AlterMapped
  PROVE  Fenced'
<1>1. UNCHANGED <<tree, pnr, sta, proc>>
  BY DEF AlterMapped
<1>2. PICK dir \in DOMAIN dc : \E f \in DOMAIN dc[dir].points : dc' = [dc EXCEPT ![dir].points[f].mapped = Altered]
  BY DEF AlterMapped
<1>3. PICK f \in DOMAIN dc[dir].points : dc' = [dc EXCEPT ![dir].points[f].mapped = Altered]
  BY <1>2
<1> DEFINE d == dc[dir]
           point == [d.points[f] EXCEPT !.mapped = Altered]
           e == [d EXCEPT !.points = [d.points EXCEPT ![f] = point]]
<1>4. dc' = [dc EXCEPT ![dir] = e] /\ MatrixRecord(d)
  BY <1>3 DEF Fenced
<1>5. DOMAIN d.points[f] = {"report", "output", "ok", "mapped"}
  BY <1>4 DEF MatrixRecord
<1>6. /\ DOMAIN point = {"report", "output", "ok", "mapped"} /\ point.report = d.points[f].report
      /\ point.ok = d.points[f].ok /\ point.output = d.points[f].output
  <2> HIDE DEF d
  <2> QED BY <1>5
<1>7. e = [d EXCEPT !.points = [d.points EXCEPT ![f] = point]] /\ f \in DOMAIN d.points
  OBVIOUS
<1> HIDE DEF point, e
<1>8. /\ MatrixRecord(e) /\ DOMAIN e.points = DOMAIN d.points /\ e.points[f] = point
      /\ \A g \in DOMAIN d.points \ {f} : e.points[g] = d.points[g]
      /\ e.decisions = d.decisions /\ e.verdict = d.verdict
  <2> HIDE DEF d
  <2> QED BY <1>4, <1>6, <1>7, PointUpdate
<1>9. \A doing : DcOwn(doing, d) => DcOwn(doing, e)
  <2> HIDE DEF d
  <2> TAKE doing
  <2> HAVE DcOwn(doing, d)
  <2>1. \A g \in DOMAIN d.points : e.points[g].output = d.points[g].output /\ e.points[g].ok = d.points[g].ok
    BY <1>6, <1>8
  <2> QED BY <1>8, <2>1 DEF DcOwn, DcSteps
<1>10. /\ DOMAIN dc' = DOMAIN dc /\ dc'[dir] = e /\ \A x \in DOMAIN dc \ {dir} : dc'[x] = dc[x]
  BY <1>4
<1> HIDE DEF d
<1>11. \A p \in Proc : DcOwned(p)' /\ PnrOwned(p)' /\ StaOwned(p)'
  <2> TAKE p \in Proc
  <2>1. PnrOwned(p)' /\ StaOwned(p)'
    BY <1>1 DEF Fenced, PnrOwned, StaOwned, Dir
  <2>2. DcOwned(p)'
    BY <1>1, <1>9, <1>10 DEF Fenced, DcOwned, Dir, d
  <2> QED BY <2>1, <2>2
<1>12. Scannable' = Scannable
  BY <1>1 DEF Scannable, t
<1>13. \A p, q \in Proc : p # q => Apart(p, q)'
  BY <1>1 DEF Fenced, Apart, Dir
<1>14. /\ proc' = [p \in Proc |-> proc'[p]] /\ tree' \in DOMAIN Trees
       /\ \A x \in DOMAIN dc' : MatrixRecord(dc'[x])
       /\ \A x \in DOMAIN pnr' : RouteRecord(pnr'[x])
       /\ \A x \in DOMAIN sta' : TimingRecord(sta'[x])
  BY <1>1, <1>8, <1>10 DEF Fenced, Trees
<1> QED BY <1>1, <1>11, <1>12, <1>13, <1>14 DEF Fenced

LEMMA AlterRouteKeeps ==
  ASSUME Fenced, AlterCopy \/ AlterHandoff
  PROVE  Fenced'
<1>1. UNCHANGED <<tree, dc, sta, proc>>
  BY DEF AlterCopy, AlterHandoff
<1>2. PICK dir \in DOMAIN pnr :
        \/ pnr' = [pnr EXCEPT ![dir].copy = Altered]
        \/ pnr[dir].ledger # None /\ pnr' = [pnr EXCEPT ![dir].handoff = Altered]
  BY DEF AlterCopy, AlterHandoff
<1> DEFINE run == pnr[dir]
<1>3. PICK now : /\ pnr' = [pnr EXCEPT ![dir] = now]
                 /\ \/ now = [run EXCEPT !.copy = Altered]
                    \/ run.ledger # None /\ now = [run EXCEPT !.handoff = Altered]
  BY <1>2
<1>4. RouteRecord(run) /\ dir \in DOMAIN pnr
  BY DEF Fenced
<1>5. /\ DOMAIN pnr' = DOMAIN pnr /\ pnr'[dir] = now /\ \A x \in DOMAIN pnr \ {dir} : pnr'[x] = pnr[x]
  BY <1>3
<1>6. RouteRecord(now)
  <2> HIDE DEF run
  <2> QED BY <1>3, <1>4 DEF RouteRecord
<1>7. \A doing : doing.pc \in PnrSteps /\ PnrOwn(doing, run) => PnrOwn(doing, now)
  <2> HIDE DEF run
  <2>1. /\ now.summary = run.summary /\ now.input = run.input /\ now.orfs = run.orfs
        /\ now.exit_status = run.exit_status /\ now.ledger = run.ledger
        /\ now.handoff = run.handoff \/ run.ledger # None
    BY <1>3, <1>4 DEF RouteRecord
  <2> QED BY <2>1 DEF PnrOwn
<1> HIDE DEF run
<1>8. \A p \in Proc : DcOwned(p)' /\ PnrOwned(p)' /\ StaOwned(p)'
  <2> TAKE p \in Proc
  <2>1. DcOwned(p)' /\ StaOwned(p)'
    BY <1>1 DEF Fenced, DcOwned, StaOwned, Dir
  <2>2. PnrOwned(p)'
    BY <1>1, <1>5, <1>7 DEF Fenced, PnrOwned, Dir, run
  <2> QED BY <2>1, <2>2
<1>9. Scannable' = Scannable
  BY <1>1 DEF Scannable, t
<1>10. \A p, q \in Proc : p # q => Apart(p, q)'
  BY <1>1 DEF Fenced, Apart, Dir
<1>11. /\ proc' = [p \in Proc |-> proc'[p]] /\ tree' \in DOMAIN Trees
       /\ \A x \in DOMAIN dc' : MatrixRecord(dc'[x])
       /\ \A x \in DOMAIN pnr' : RouteRecord(pnr'[x])
       /\ \A x \in DOMAIN sta' : TimingRecord(sta'[x])
  BY <1>1, <1>5, <1>6 DEF Fenced, Trees
<1> QED BY <1>1, <1>8, <1>9, <1>10, <1>11 DEF Fenced

-----------------------------------------------------------------------------
(***************************************************************************)
(* The theorems.                                                           *)
(***************************************************************************)

LEMMA InitFenced ==
  ASSUME Init
  PROVE  Fenced
<1>1. proc = [p \in Proc |-> Idle] /\ \A p \in Proc : proc[p] = Idle
  BY DEF Init
<1>2. \A p \in Proc : Waits(proc[p]) /\ DcOwned(p) /\ PnrOwned(p) /\ StaOwned(p)
  BY <1>1, IdleFacts DEF Waits, DcOwned, PnrOwned, StaOwned
<1>3. \A p, q \in Proc : p # q => Apart(p, q)
  BY <1>1, IdleFacts DEF Apart
<1>4. \A p \in Proc : proc[p].pc \notin DcSteps \cup {"dc_open"} /\ "pc" \in DOMAIN proc[p]
  BY <1>1, IdleFacts
<1>5. tree \in DOMAIN Trees
  BY FlowConstants DEF Init, Trees
<1>6. DOMAIN dc = {} /\ DOMAIN pnr = {} /\ DOMAIN sta = {}
  BY DEF Init
<1>7. proc = [p \in Proc |-> proc[p]]
  BY <1>1
<1> QED BY <1>2, <1>3, <1>4, <1>5, <1>6, <1>7 DEF Fenced

LEMMA StepFenced ==
  ASSUME Fenced, [Next]_vars
  PROVE  Fenced'
<1>1. ASSUME NEW p \in Proc, Command(p) PROVE Fenced'
  <2>1. CASE \/ SramOpen(p) \/ SramView(p) \/ SramSeal(p)
             \/ LcOpen(p) \/ LcTool(p) \/ LcManifest(p)
    BY <2>1, MacroSteps
  <2>2. CASE DcStart(p)
    BY <2>2, DcStarts
  <2>3. CASE PnrStart(p) \/ RecoverStart(p) \/ StaStart(p)
    BY <2>3, OtherStarts
  <2>4. CASE DcOpen(p) \/ DcTool(p) \/ DcSeal(p) \/ DcMark(p) \/ DcDecide(p)
    BY <2>4, DcOpens, DcToolKeeps, DcSealKeeps, DcMarkKeeps, DcDecideKeeps
  <2>5. CASE PnrOpen(p) \/ PnrStage(p) \/ PnrTool(p) \/ PnrRecord(p) \/ PnrMark(p)
    BY <2>5, PnrOpens, PnrStageKeeps, PnrToolKeeps, PnrRecordKeeps, PnrMarkKeeps
  <2>6. CASE RecoverOpen(p) \/ RecoverRecord(p)
    BY <2>6, RecoverOpens, RecoverRecordKeeps
  <2>7. CASE StaOpen(p) \/ StaTool(p) \/ StaMark(p)
    BY <2>7, StaOpens, StaToolKeeps, StaMarkKeeps
  <2> QED BY <1>1, <2>1, <2>2, <2>3, <2>4, <2>5, <2>6, <2>7 DEF Command
<1>2. ASSUME NEW p \in Proc, Crash(p) PROVE Fenced'
  <2>1. Become(p, Idle) /\ UNCHANGED <<tree, dc, pnr, sta>>
    BY <1>2 DEF Crash
  <2> QED BY <2>1, Resting
<1>3. CASE Checkout
  BY <1>3, CheckoutKeeps
<1>4. CASE ReplaceLibrary
  <2>1. UNCHANGED <<tree, dc, pnr, sta, proc>>
    BY <1>4 DEF ReplaceLibrary
  <2> QED BY <2>1, SameFiles
<1>5. CASE AlterMapped
  BY <1>5, AlterMappedKeeps
<1>6. CASE AlterCopy \/ AlterHandoff
  BY <1>6, AlterRouteKeeps
<1>7. CASE UNCHANGED vars
  <2>1. UNCHANGED <<tree, dc, pnr, sta, proc>>
    BY <1>7 DEF vars
  <2> QED BY <2>1, SameFiles
<1> QED BY <1>1, <1>2, <1>3, <1>4, <1>5, <1>6, <1>7 DEF Next

LEMMA FencedOneWriter ==
  ASSUME Fenced
  PROVE  OneWriter
<1> SUFFICES ASSUME NEW p \in Proc
             PROVE  /\ OwnFilesOnly(p)
                    /\ \A q \in Proc \ {p} : Stage(p) = Stage(q) /\ Stage(p) # "none" => Dir(p) # Dir(q)
  BY DEF OneWriter
<1>1. OwnFilesOnly(p)
  <2> DEFINE run == pnr[Dir(p)]
             d == dc[Dir(p)]
             route == sta[Dir(p)]
  <2>1. /\ proc[p].pc \in DcSteps => DcOwn(proc[p], d) /\ MatrixRecord(d)
        /\ proc[p].pc \in PnrSteps => PnrOwn(proc[p], run)
        /\ proc[p].pc \in StaSteps => StaOwn(proc[p], route)
    BY DcHas, PnrHas, StaHas
  <2>2. proc[p].pc = "dc_tool" =>
          proc[p].mhz \notin DOMAIN d.points /\ Len(d.decisions) = Cardinality(DOMAIN d.points) /\ d.verdict = None
    <3> SUFFICES ASSUME proc[p].pc = "dc_tool"
                 PROVE  proc[p].mhz \notin DOMAIN d.points /\ Len(d.decisions) = Cardinality(DOMAIN d.points)
                        /\ d.verdict = None
      OBVIOUS
    <3>1. DcOwn(proc[p], d) /\ DOMAIN d.points \subseteq Nat
      BY <2>1 DEF DcSteps, MatrixRecord
    <3> HIDE DEF d
    <3>2. /\ proc[p].mhz \in Nat /\ \A g \in DOMAIN d.points : proc[p].mhz < g
          /\ Len(d.decisions) = Cardinality(DOMAIN d.points) /\ d.verdict = None
      BY <3>1 DEF DcOwn
    <3>3. proc[p].mhz \notin DOMAIN d.points
      BY <3>1, <3>2
    <3> QED BY <3>2, <3>3
  <2>3. /\ proc[p].pc = "dc_seal" => /\ d.points[proc[p].mhz].output = None
                                     /\ Len(d.decisions) + 1 = Cardinality(DOMAIN d.points)
        /\ proc[p].pc = "dc_mark" => ~d.points[proc[p].mhz].ok
        /\ proc[p].pc = "dc_decide" => /\ Len(d.decisions) + 1 = Cardinality(DOMAIN d.points)
                                       /\ d.verdict = None
    <3> HIDE DEF d
    <3> QED BY <2>1 DEF DcOwn, DcSteps
  <2>4. /\ proc[p].pc = "pnr_stage" => run.input = None /\ run.orfs = None
        /\ proc[p].pc = "pnr_tool" => run.orfs = None /\ run.exit_status = None
        /\ proc[p].pc = "pnr_record" => run.exit_status = None /\ run.ledger = None
        /\ proc[p].pc = "pnr_mark" => run.summary = None
        /\ proc[p].pc = "rec_record" => run.handoff = None /\ run.ledger = None
    <3> HIDE DEF run
    <3> QED BY <2>1 DEF PnrOwn, PnrSteps
  <2>5. /\ proc[p].pc = "sta_tool" => route.report = None
        /\ proc[p].pc = "sta_mark" => route.summary = None
    <3> HIDE DEF route
    <3> QED BY <2>1 DEF StaOwn, StaSteps
  <2> QED BY <2>2, <2>3, <2>4, <2>5 DEF OwnFilesOnly, At, Point
<1>2. ASSUME NEW q \in Proc \ {p}, Stage(p) = Stage(q), Stage(p) # "none"
      PROVE  Dir(p) # Dir(q)
  <2>1. Apart(p, q)
    BY DEF Fenced
  <2>2. ASSUME NEW r \in Proc
        PROVE  \/ Stage(r) = "dc" /\ proc[r].pc \in DcSteps
               \/ Stage(r) = "pnr" /\ proc[r].pc \in PnrSteps
               \/ Stage(r) = "sta" /\ proc[r].pc \in StaSteps
               \/ Stage(r) = "none"
    BY DEF Stage, DcSteps, PnrSteps, StaSteps
  <2> QED BY <1>2, <2>1, <2>2 DEF Apart
<1> QED BY <1>1, <1>2

(* What every running stage may assume of its directory holds in every     *)
(* reachable state (asicctl.py: the mkdir of each stage and the files it   *)
(* writes after it).                                                       *)
THEOREM Fences == Spec => []Fenced
<1>1. Init => Fenced
  BY InitFenced
<1>2. Fenced /\ [Next]_vars => Fenced'
  BY StepFenced
<1> QED BY <1>1, <1>2, PTL DEF Spec

(* A stage works in a directory it made itself and no other process works  *)
(* in it: neither a running command nor what a killed one left is ever     *)
(* written over, and no frequency is synthesised twice in a scan           *)
(* (asicctl.py: exists() and mkdir() before every stage's first write).    *)
THEOREM OneWriterHolds == Spec => []OneWriter
<1>1. Fenced => OneWriter
  BY FencedOneWriter
<1> QED BY <1>1, Fences, PTL

-----------------------------------------------------------------------------
(***************************************************************************)
(* The scan: its inductive invariant.                                      *)
(***************************************************************************)

Scanned(d) == Trees[d.input.identity.tree]

(* The checkout of a scan declares a grid.                                 *)
Ruled(d) == quantum(Scanned(d)) \in Nat \ {0} /\ max_points(Scanned(d)) \in Int

(* The points decided on, each of them left for a lower one.               *)
Chained(d) ==
  LET n == Len(d.decisions)
  IN  /\ n > 0 => d.decisions[1].frequency = Highest(d.input.frequencies)
      /\ \A i \in 1 .. n - 1 : d.decisions[i + 1].frequency = d.decisions[i].next
      /\ \A i \in 1 .. n : d.decisions[i].frequency \in DOMAIN d.points
      /\ \A i \in 1 .. n : d.decisions[i].next # 0 => Descends(d, i, quantum(Scanned(d)))
      /\ d.verdict = None => \A i \in 1 .. n : d.decisions[i].next # 0

InBudget(d) ==
  LET n == Len(d.decisions)
  IN  max_points(Scanned(d)) # 0 => n <= 1 \/ n <= max_points(Scanned(d))

Judged(d) ==
  /\ \A f \in DOMAIN d.points : Closed(d.points[f]) /\ d.verdict # None => d.verdict = f
  /\ d.verdict \notin {None, 0} => /\ d.verdict \in DOMAIN d.points
                                   /\ Closed(d.points[d.verdict])
                                   /\ d.decisions[Len(d.decisions)].frequency = d.verdict

(* A netlist whose digest is recorded, or is about to be, is there.        *)
Recorded(d) == \A f \in DOMAIN d.points : d.points[f].output # None => d.points[f].mapped # None

ScanRecord(d) == Ruled(d) /\ Chained(d) /\ InBudget(d) /\ Judged(d) /\ Recorded(d)

(* The process of a scan is at the point its last decision named.          *)
ScanAt(doing, d) ==
  LET n == Len(d.decisions)
  IN  /\ d.input.identity.tree = tree
      /\ n = 0 => doing.mhz = Highest(d.input.frequencies)
      /\ n > 0 => doing.mhz = d.decisions[n].next
      /\ max_points(t) # 0 => n = 0 \/ n < max_points(t)
      /\ \A f \in DOMAIN d.points : \/ \E i \in 1 .. n : f = d.decisions[i].frequency
                                    \/ doing.pc # "dc_tool" /\ f = doing.mhz
      /\ doing.pc = "dc_seal" => d.points[doing.mhz].mapped # None

Scanning ==
  /\ \A dir \in DOMAIN dc : ScanRecord(dc[dir])
  /\ \A p \in Proc : proc[p].pc \in DcSteps => ScanAt(proc[p], dc[Dir(p)])

-----------------------------------------------------------------------------
(***************************************************************************)
(* The estimate.                                                           *)
(***************************************************************************)

LEMMA Product3 ==
  ASSUME NEW a \in Int, NEW b \in Int, NEW c \in Int
  PROVE  a * b \in Int /\ a * (b * c) = (a * c) * b /\ (a + 1) * b = a * b + b
  BY SMT

LEMMA ProductGrows ==
  ASSUME NEW a \in Int, NEW b \in Int, a <= b, NEW c \in Int, c > 0
  PROVE  a * c <= b * c /\ a * c \in Int /\ b * c \in Int /\ (a < b => a * c < b * c)
  BY SMT

LEMMA Quotient ==
  ASSUME NEW n \in Int, NEW m \in Int, m > 0
  PROVE  /\ n \div m \in Int /\ (n \div m) * m <= n /\ n < (n \div m) * m + m
         /\ n % m = 0 => n = (n \div m) * m
  BY SMT

LEMMA OnGrid ==
  ASSUME NEW k \in Int, NEW q \in Int, q > 0
  PROVE  (k * q) % q = 0
  BY SMT

(* The next frequency is the highest on the grid whose period covers the   *)
(* period of this one and the slack lost there.                            *)
LEMMA NextIsNearest ==
  ASSUME NEW f \in Nat \ {0}, NEW wns \in Int, wns < 0, NEW q \in Int, q > 0,
         NEW next, next = next_frequency(f, wns, q)
  PROVE  /\ next \in Int /\ next < f /\ next % q = 0 /\ Covers(next, f, wns)
         /\ \A g \in next + 1 .. f - 1 : g % q = 0 => ~Covers(g, f, wns)
<1> DEFINE D == 1000000 - wns * f
           P == D * q
           k == (1000000 * f) \div P
<1>1. D \in Int /\ D > 1000000
  BY SMT
<1> HIDE DEF D
<1>2. P \in Int /\ P > 0
  BY <1>1, SMT
<1> HIDE DEF P
<1>3. k \in Int /\ k * P <= 1000000 * f /\ 1000000 * f < k * P + P
  BY <1>2, Quotient
<1>4. Estimated(f, wns, q) = k * q
  BY DEF Estimated, k, P, D
<1> HIDE DEF k
<1>5. k * P = (k * q) * D /\ k * q \in Int /\ (k + 1) * P = k * P + P /\ (k + 1) * P = ((k + 1) * q) * D
  BY <1>1, <1>2, <1>3, Product3 DEF P
<1>6. k * q < f
  <2> SUFFICES ASSUME f <= k * q PROVE FALSE
    BY <1>5
  <2>1. f * D <= (k * q) * D
    BY <1>1, <1>5, ProductGrows
  <2>2. 1000000 * f < D * f
    BY <1>1, ProductGrows
  <2>3. D * f = f * D /\ f * D \in Int /\ (k * q) * D \in Int /\ 1000000 * f \in Int
    BY <1>1, <1>5
  <2> QED BY <1>3, <1>5, <2>1, <2>2, <2>3
<1>7. next = k * q
  BY <1>4, <1>5, <1>6 DEF next_frequency
<1>8. next % q = 0
  BY <1>3, <1>7, OnGrid
<1>9. Covers(next, f, wns)
  BY <1>3, <1>5, <1>7 DEF Covers, D
<1>10. ASSUME NEW g \in next + 1 .. f - 1, g % q = 0 PROVE ~Covers(g, f, wns)
  <2> DEFINE h == g \div q
  <2>1. g \in Int /\ next < g
    BY <1>5, <1>7
  <2>2. h \in Int /\ g = h * q
    BY <1>10, <2>1, Quotient
  <2> HIDE DEF h
  <2>3. k < h
    <3> SUFFICES ASSUME h <= k PROVE FALSE
      BY <1>3, <2>2
    <3>1. h * q <= k * q
      BY <1>3, <2>2, ProductGrows
    <3> QED BY <1>5, <1>7, <2>1, <2>2, <3>1
  <2>4. (k + 1) * q <= h * q /\ (k + 1) * q \in Int
    BY <1>3, <2>2, <2>3, ProductGrows
  <2>5. ((k + 1) * q) * D <= (h * q) * D /\ (h * q) * D \in Int
    BY <1>1, <2>1, <2>2, <2>4, ProductGrows
  <2>6. 1000000 * f < g * D
    BY <1>2, <1>3, <1>5, <2>2, <2>5
  <2>7. g * D \in Int
    BY <2>2, <2>5
  <2> QED BY <2>6, <2>7 DEF Covers, D
<1> QED BY <1>5, <1>6, <1>7, <1>8, <1>9, <1>10

-----------------------------------------------------------------------------
(***************************************************************************)
(* Steps that are not of the scan, and steps of one scan.                  *)
(***************************************************************************)

LEMMA ScanRest ==
  ASSUME Scanning, UNCHANGED <<tree, dc>>,
         \A p \in Proc : proc'[p].pc \in DcSteps => proc'[p] = proc[p]
  PROVE  Scanning'
<1>1. \A dir \in DOMAIN dc' : ScanRecord(dc'[dir])
  BY DEF Scanning
<1>2. ASSUME NEW p \in Proc, proc'[p].pc \in DcSteps PROVE ScanAt(proc[p], dc[Dir(p)])'
  <2>1. ScanAt(proc[p], dc[Dir(p)]) /\ proc'[p] = proc[p]
    BY <1>2 DEF Scanning
  <2> QED BY <2>1 DEF ScanAt, t, Dir
<1> QED BY <1>1, <1>2 DEF Scanning

LEMMA ScanStep ==
  ASSUME Fenced, Scanning, NEW p \in Proc, NEW doing, Become(p, doing), UNCHANGED tree,
         NEW dir, DOMAIN dc' = DOMAIN dc \cup {dir},
         \A x \in DOMAIN dc \ {dir} : dc'[x] = dc[x],
         dir \notin DOMAIN dc \/ (proc[p].pc \in DcSteps /\ Dir(p) = dir),
         ScanRecord(dc'[dir]),
         doing.pc \in DcSteps => doing.dir = dir /\ ScanAt(doing, dc'[dir])
  PROVE  Scanning'
<1>1. proc'[p] = doing /\ \A q \in Proc \ {p} : proc'[q] = proc[q]
  BY Becomes
<1>2. \A x \in DOMAIN dc' : ScanRecord(dc'[x])
  BY DEF Scanning
<1>3. ASSUME NEW q \in Proc, proc'[q].pc \in DcSteps PROVE ScanAt(proc[q], dc[Dir(q)])'
  <2>1. CASE q = p
    <3>1. ScanAt(doing, dc'[dir]) /\ proc'[q] = doing /\ Dir(q)' = dir
      BY <1>1, <1>3, <2>1 DEF Dir
    <3> QED BY <3>1 DEF ScanAt, t
  <2>2. CASE q # p
    <3>1. proc'[q] = proc[q] /\ proc[q].pc \in DcSteps /\ Dir(q)' = Dir(q)
      BY <1>1, <1>3, <2>2 DEF Dir
    <3>2. Dir(q) \in DOMAIN dc /\ Dir(q) # dir
      BY <2>2, <3>1 DEF Fenced, DcOwned, Apart
    <3>3. ScanAt(proc[q], dc[Dir(q)]) /\ dc'[Dir(q)] = dc[Dir(q)]
      BY <3>1, <3>2 DEF Scanning
    <3> QED BY <3>1, <3>3 DEF ScanAt, t
  <2> QED BY <2>1, <2>2
<1> QED BY <1>2, <1>3 DEF Scanning

LEMMA ScanUpdate ==
  ASSUME Fenced, Scanning, NEW p \in Proc, NEW doing, Become(p, doing), UNCHANGED tree,
         proc[p].pc \in DcSteps, NEW d, dc' = [dc EXCEPT ![Dir(p)] = d], ScanRecord(d),
         doing.pc \in DcSteps => doing.dir = Dir(p) /\ ScanAt(doing, d)
  PROVE  Scanning'
<1> DEFINE dir == Dir(p)
<1>1. dir \in DOMAIN dc /\ dir = Dir(p)
  BY DcHas
<1>2. /\ DOMAIN dc' = DOMAIN dc \cup {dir} /\ dc'[dir] = d
      /\ \A x \in DOMAIN dc \ {dir} : dc'[x] = dc[x]
  BY <1>1
<1> HIDE DEF dir
<1> QED BY <1>1, <1>2, ScanStep

(* A process that does something else than a step of a scan.               *)
LEMMA Elsewhere ==
  ASSUME Fenced, Scanning, NEW p \in Proc, NEW doing, Become(p, doing), UNCHANGED <<tree, dc>>,
         doing.pc \notin DcSteps
  PROVE  Scanning'
<1>1. proc'[p] = doing /\ \A q \in Proc \ {p} : proc'[q] = proc[q]
  BY Becomes
<1> QED BY <1>1, ScanRest

(* The same process with another program counter.                          *)
LEMMA NextPc ==
  ASSUME Fenced, NEW p \in Proc, NEW pc
  PROVE  [proc[p] EXCEPT !.pc = pc].pc = pc
<1>1. "pc" \in DOMAIN proc[p]
  BY DEF Fenced
<1> QED BY <1>1

LEMMA MacroScans ==
  ASSUME Fenced, Scanning, NEW p \in Proc,
         SramOpen(p) \/ SramView(p) \/ SramSeal(p) \/ LcOpen(p) \/ LcTool(p) \/ LcManifest(p)
  PROVE  Scanning'
<1>1. UNCHANGED <<tree, dc>>
  BY DEF SramOpen, SramView, SramSeal, LcOpen, LcTool, LcManifest
<1>2. proc' = proc \/ Become(p, Idle) \/ Become(p, [pc |-> "sram_views"]) \/ Become(p, [pc |-> "lc_tool"])
  <2>1. CASE SramOpen(p)
    BY <2>1 DEF SramOpen
  <2>2. CASE SramView(p)
    BY <2>2 DEF SramView
  <2>3. CASE SramSeal(p)
    BY <2>3 DEF SramSeal
  <2>4. CASE LcOpen(p)
    BY <2>4 DEF LcOpen
  <2>5. CASE LcTool(p)
    BY <2>5 DEF LcTool
  <2>6. CASE LcManifest(p)
    BY <2>6 DEF LcManifest
  <2> QED BY <2>1, <2>2, <2>3, <2>4, <2>5, <2>6
<1>3. CASE proc' = proc
  BY <1>1, <1>3, ScanRest
<1>4. CASE \E doing : Become(p, doing) /\ doing.pc \notin DcSteps
  BY <1>1, <1>4, Elsewhere
<1>5. /\ Idle.pc \notin DcSteps /\ [pc |-> "sram_views"].pc \notin DcSteps
      /\ [pc |-> "lc_tool"].pc \notin DcSteps
  BY DEF Idle, DcSteps
<1> QED BY <1>2, <1>3, <1>4, <1>5

LEMMA RouteScans ==
  ASSUME Fenced, Scanning, NEW p \in Proc,
         \/ PnrOpen(p) \/ PnrStage(p) \/ PnrTool(p) \/ PnrRecord(p) \/ PnrMark(p)
         \/ RecoverOpen(p) \/ RecoverRecord(p)
         \/ StaOpen(p) \/ StaTool(p) \/ StaMark(p)
  PROVE  Scanning'
<1>1. UNCHANGED <<tree, dc>>
  BY DEF PnrOpen, PnrStage, PnrTool, PnrRecord, PnrMark, RecoverOpen, RecoverRecord, StaOpen, StaTool, StaMark
<1> DEFINE Then(pc) == Become(p, [proc[p] EXCEPT !.pc = pc])
           ended(status) == [pc |-> "pnr_record", dir |-> Dir(p), mapped |-> proc[p].mapped,
                             exit_status |-> status]
<1>2. \/ Become(p, Idle) \/ Then("pnr_stage") \/ Then("pnr_tool") \/ Then("pnr_mark") \/ Then("rec_record")
      \/ Then("sta_tool") \/ Then("sta_mark") \/ Become(p, [pc |-> "pnr_mark", dir |-> Dir(p)])
      \/ \E status : Become(p, ended(status))
  <2>1. CASE PnrOpen(p)
    BY <2>1 DEF PnrOpen
  <2>2. CASE PnrStage(p)
    BY <2>2 DEF PnrStage
  <2>3. CASE PnrTool(p)
    BY <2>3 DEF PnrTool
  <2>4. CASE PnrRecord(p)
    BY <2>4 DEF PnrRecord
  <2>5. CASE PnrMark(p)
    BY <2>5 DEF PnrMark
  <2>6. CASE RecoverOpen(p)
    BY <2>6 DEF RecoverOpen
  <2>7. CASE RecoverRecord(p)
    BY <2>7 DEF RecoverRecord
  <2>8. CASE StaOpen(p)
    BY <2>8 DEF StaOpen
  <2>9. CASE StaTool(p)
    BY <2>9 DEF StaTool
  <2>10. CASE StaMark(p)
    BY <2>10 DEF StaMark
  <2> QED BY <2>1, <2>2, <2>3, <2>4, <2>5, <2>6, <2>7, <2>8, <2>9, <2>10
<1>3. CASE \E doing : Become(p, doing) /\ doing.pc \notin DcSteps
  BY <1>1, <1>3, Elsewhere
<1>4. ASSUME NEW pc \in PnrSteps \cup StaSteps, Then(pc)
      PROVE  \E doing : Become(p, doing) /\ doing.pc \notin DcSteps
  <2> DEFINE doing == [proc[p] EXCEPT !.pc = pc]
  <2>1. doing.pc = pc /\ pc \notin DcSteps
    BY NextPc DEF PnrSteps, StaSteps, DcSteps
  <2> QED BY <1>4, <2>1
<1>5. ASSUME NEW status, Become(p, ended(status))
      PROVE  \E doing : Become(p, doing) /\ doing.pc \notin DcSteps
  <2>1. ended(status).pc \notin DcSteps
    BY DEF DcSteps
  <2> QED BY <1>5, <2>1
<1>6. Idle.pc \notin DcSteps /\ [pc |-> "pnr_mark", dir |-> Dir(p)].pc \notin DcSteps
  BY DEF Idle, DcSteps
<1>7. {"pnr_stage", "pnr_tool", "pnr_mark", "rec_record", "sta_tool", "sta_mark"} \subseteq PnrSteps \cup StaSteps
  BY DEF PnrSteps, StaSteps
<1> HIDE DEF Then, ended
<1> QED BY <1>2, <1>3, <1>4, <1>5, <1>6, <1>7

LEMMA StartScans ==
  ASSUME Fenced, Scanning, NEW p \in Proc, DcStart(p) \/ PnrStart(p) \/ RecoverStart(p) \/ StaStart(p)
  PROVE  Scanning'
<1>1. UNCHANGED <<tree, dc>>
  BY DEF DcStart, PnrStart, RecoverStart, StaStart
<1>2. PICK doing : Become(p, doing) /\ doing.pc \notin DcSteps
  <2>1. CASE DcStart(p)
    <3>1. PICK dir, timer, frequencies :
            Become(p, [pc |-> "dc_open", dir |-> dir, timer |-> timer, frequencies |-> frequencies])
      BY <2>1 DEF DcStart
    <3>2. [pc |-> "dc_open", dir |-> dir, timer |-> timer, frequencies |-> frequencies].pc \notin DcSteps
      BY DEF DcSteps
    <3> QED BY <3>1, <3>2
  <2>2. CASE PnrStart(p)
    <3>1. PICK mode \in ModeArgs, point \in DOMAIN dc, arg \in PnrArgs, id \in RunId :
            \E f \in DOMAIN dc[point].points :
              Become(p, [pc |-> "pnr_open", dir |-> [line |-> Line(t, mode), id |-> id, mhz |-> pnr_mhz(arg, f)],
                         from |-> [dir |-> point, mhz |-> f], mapped |-> Point(point, f).output.mapped])
      BY <2>2, SMTT(30) DEF PnrStart
    <3>2. PICK f \in DOMAIN dc[point].points :
              Become(p, [pc |-> "pnr_open", dir |-> [line |-> Line(t, mode), id |-> id, mhz |-> pnr_mhz(arg, f)],
                         from |-> [dir |-> point, mhz |-> f], mapped |-> Point(point, f).output.mapped])
      BY <3>1
    <3>3. PICK dir, from, mapped : Become(p, [pc |-> "pnr_open", dir |-> dir, from |-> from, mapped |-> mapped])
      BY <3>2, Zenon
    <3>4. [pc |-> "pnr_open", dir |-> dir, from |-> from, mapped |-> mapped].pc \notin DcSteps
      BY DEF DcSteps
    <3> QED BY <3>3, <3>4
  <2>3. CASE RecoverStart(p)
    <3>1. PICK dir, source : Become(p, [pc |-> "rec_open", dir |-> dir, source |-> source])
      BY <2>3 DEF RecoverStart
    <3>2. [pc |-> "rec_open", dir |-> dir, source |-> source].pc \notin DcSteps
      BY DEF DcSteps
    <3> QED BY <3>1, <3>2
  <2>4. CASE StaStart(p)
    <3>1. PICK dir, source, routed :
            Become(p, [pc |-> "sta_open", dir |-> dir, source |-> source, routed |-> routed])
      BY <2>4 DEF StaStart
    <3>2. [pc |-> "sta_open", dir |-> dir, source |-> source, routed |-> routed].pc \notin DcSteps
      BY DEF DcSteps
    <3> QED BY <3>1, <3>2
  <2> QED BY <2>1, <2>2, <2>3, <2>4
<1> QED BY <1>1, <1>2, Elsewhere

-----------------------------------------------------------------------------
(***************************************************************************)
(* The points of a scan.                                                   *)
(***************************************************************************)

(* More points, or more written of them, leave the decisions as they are.  *)
LEMMA SameScan ==
  ASSUME NEW d, NEW e, Ruled(d), Chained(d), InBudget(d),
         e.input = d.input, e.decisions = d.decisions, e.verdict = d.verdict,
         DOMAIN d.points \subseteq DOMAIN e.points,
         \A f \in DOMAIN d.points : /\ e.points[f].report = d.points[f].report
                                    /\ d.points[f].ok => e.points[f].ok
  PROVE  Ruled(e) /\ Chained(e) /\ InBudget(e)
<1>1. Scanned(e) = Scanned(d)
  BY DEF Scanned
<1>2. Ruled(e) /\ InBudget(e)
  BY <1>1 DEF Ruled, InBudget
<1> DEFINE q == quantum(Scanned(d))
<1>3. ASSUME NEW i \in 1 .. Len(d.decisions), d.decisions[i].next # 0 PROVE Descends(e, i, q)
  <2> DEFINE f == d.decisions[i].frequency
  <2>1. Descends(d, i, q) /\ f \in DOMAIN d.points
    BY <1>3 DEF Chained
  <2> HIDE DEF q
  <2>2. Report(e.points[f]) = Report(d.points[f])
    BY <2>1 DEF Report
  <2> QED BY <2>1, <2>2 DEF Descends
<1>4. Chained(e)
  <2>1. \A i \in 1 .. Len(d.decisions) : d.decisions[i].next # 0 => Descends(e, i, q)
    BY <1>3
  <2> HIDE DEF q
  <2>2. q = quantum(Scanned(e))
    BY <1>1 DEF q
  <2> QED BY <2>1, <2>2 DEF Chained
<1> QED BY <1>2, <1>4

LEMMA Unjudged ==
  ASSUME NEW d, d.verdict = None
  PROVE  Judged(d)
BY DEF Judged

LEMMA DcOpenScans ==
  ASSUME Fenced, Scanning, NEW p \in Proc, DcOpen(p)
  PROVE  Scanning'
<1>1. UNCHANGED tree /\ proc[p].pc = "dc_open"
  BY DEF DcOpen, At
<1>2. CASE Dir(p) \in DOMAIN dc
  <2>1. Become(p, Idle) /\ UNCHANGED dc /\ Idle.pc \notin DcSteps
    BY <1>2, IdleFacts DEF DcOpen
  <2> QED BY <1>1, <2>1, Elsewhere
<1>3. CASE Dir(p) \notin DOMAIN dc
  <2> DEFINE input == [identity |-> Now(Dir(p).line[2]), libraries |-> disk, timer |-> proc[p].timer,
                       frequencies |-> proc[p].frequencies,
                       constraint |-> t.files["internal_clock.sdc"],
                       handoff |-> IF t.memory_mode = "sram" THEN sha256(sram.manifest) ELSE None]
             d == [input |-> input, points |-> << >>, decisions |-> << >>, verdict |-> None]
             doing == [pc |-> "dc_tool", dir |-> Dir(p), mhz |-> Highest(proc[p].frequencies)]
             dir == Dir(p)
  <2>1. dc' = Entered(dc, dir, d) /\ Become(p, doing)
    BY <1>3 DEF DcOpen
  <2>2. input.identity.tree = tree /\ input.frequencies = proc[p].frequencies
    BY DEF Now
  <2> HIDE DEF input
  <2>3. /\ d.input = input /\ DOMAIN d.points = {} /\ Len(d.decisions) = 0 /\ d.verdict = None
        /\ doing.pc = "dc_tool" /\ doing.dir = dir /\ doing.mhz = Highest(proc[p].frequencies)
    OBVIOUS
  <2>4. /\ DOMAIN dc' = DOMAIN dc \cup {dir} /\ dc'[dir] = d
        /\ \A x \in DOMAIN dc \ {dir} : dc'[x] = dc[x]
    BY <1>3, <2>1 DEF Entered
  <2> HIDE DEF d, doing
  <2>5. Ruled(d)
    <3>1. Scannable /\ tree \in DOMAIN Trees
      BY <1>1 DEF Fenced
    <3>2. Scanned(d) = t
      BY <2>2, <2>3 DEF Scanned, t
    <3>3. quantum(t) \in Int /\ quantum(t) > 0 /\ max_points(t) \in Int
      BY <3>1, FlowConstants DEF Scannable, t, Trees
    <3> QED BY <3>2, <3>3 DEF Ruled
  <2>6. ScanRecord(d)
    BY <2>3, <2>5 DEF ScanRecord, Chained, InBudget, Judged, Recorded
  <2>7. ScanAt(doing, d)
    BY <2>2, <2>3 DEF ScanAt
  <2>8. dir \notin DOMAIN dc
    BY <1>3
  <2> HIDE DEF dir
  <2> QED BY <1>1, <2>1, <2>3, <2>4, <2>6, <2>7, <2>8, ScanStep
<1> QED BY <1>2, <1>3

(* Where the process of a scan is.                                         *)
LEMMA ScanHas ==
  ASSUME Fenced, Scanning, NEW p \in Proc, proc[p].pc \in DcSteps
  PROVE  ScanRecord(dc[Dir(p)]) /\ ScanAt(proc[p], dc[Dir(p)])
BY DcHas DEF Scanning

LEMMA DcToolScans ==
  ASSUME Fenced, Scanning, NEW p \in Proc, DcTool(p)
  PROVE  Scanning'
<1> DEFINE f == proc[p].mhz
           d == dc[Dir(p)]
<1>1. UNCHANGED tree /\ proc[p].pc = "dc_tool" /\ proc[p].pc \in DcSteps
  BY DEF DcTool, At, DcSteps
<1>2. PICK report \in DOMAIN DcReports :
        /\ dc' = [dc EXCEPT ![Dir(p)].points = Entered(@, f,
               [report |-> report, output |-> None, ok |-> FALSE,
                mapped |-> IF DcReports[report].netlist THEN Product(tree, f, Databases) ELSE None])]
        /\ Become(p, [pc |-> IF DcReports[report].exit_status = 0
                                /\ (IF DcReports[report].netlist THEN Product(tree, f, Databases) ELSE None) # None
                             THEN "dc_seal" ELSE "dc_decide", dir |-> Dir(p), mhz |-> f])
  BY DEF DcTool
<1> DEFINE mapped == IF DcReports[report].netlist THEN Product(tree, f, Databases) ELSE None
           point == [report |-> report, output |-> None, ok |-> FALSE, mapped |-> mapped]
           step == IF DcReports[report].exit_status = 0 /\ mapped # None THEN "dc_seal" ELSE "dc_decide"
           doing == [pc |-> step, dir |-> Dir(p), mhz |-> f]
           points == Entered(d.points, f, point)
           e == [d EXCEPT !.points = points]
<1>3. dc' = [dc EXCEPT ![Dir(p)] = e] /\ Become(p, doing)
  BY <1>2
<1>4. /\ MatrixRecord(d) /\ DcOwn(proc[p], d) /\ ScanRecord(d) /\ ScanAt(proc[p], d)
  BY <1>1, DcHas, ScanHas
<1>5. point.output = None /\ point.mapped = mapped
  OBVIOUS
<1>6. step \in {"dc_seal", "dc_decide"} /\ (step = "dc_seal" => mapped # None)
  OBVIOUS
<1> HIDE DEF point, step, mapped
<1>7. /\ doing.pc = step /\ doing.dir = Dir(p) /\ doing.mhz = f
  OBVIOUS
<1> HIDE DEF doing
<1>8. d.verdict = None /\ \A g \in DOMAIN d.points : f < g
  BY <1>1, <1>4 DEF DcOwn
<1>9. f \notin DOMAIN d.points
  <2>1. f \in Nat
    BY <1>1, DcHas
  <2> QED BY <1>8, <2>1
<1>10. /\ DOMAIN points = DOMAIN d.points \cup {f} /\ points[f] = point
       /\ \A g \in DOMAIN d.points : points[g] = d.points[g]
  BY <1>9 DEF Entered
<1> HIDE DEF points
<1>11. /\ e.points = points /\ e.input = d.input /\ e.decisions = d.decisions /\ e.verdict = d.verdict
  BY <1>4 DEF MatrixRecord
<1> HIDE DEF e
<1>12. ScanRecord(e)
  <2> HIDE DEF d, f
  <2>1. Ruled(e) /\ Chained(e) /\ InBudget(e)
    BY <1>4, <1>10, <1>11, SameScan DEF ScanRecord
  <2>2. Recorded(e)
    BY <1>4, <1>5, <1>10, <1>11 DEF ScanRecord, Recorded
  <2>3. Judged(e)
    BY <1>8, <1>11, Unjudged
  <2> QED BY <2>1, <2>2, <2>3 DEF ScanRecord
<1>13. ScanAt(doing, e)
  <2> HIDE DEF d
  <2> QED BY <1>1, <1>4, <1>5, <1>6, <1>7, <1>10, <1>11 DEF ScanAt
<1> HIDE DEF d, f
<1> QED BY <1>1, <1>3, <1>7, <1>12, <1>13, ScanUpdate

(* One point changes, and nothing else; the scan does not notice.          *)
LEMMA SamePoint ==
  ASSUME NEW d, ScanRecord(d), d.verdict = None, NEW f \in DOMAIN d.points, NEW e,
         e.input = d.input, e.decisions = d.decisions, e.verdict = d.verdict,
         DOMAIN e.points = DOMAIN d.points,
         \A g \in DOMAIN d.points \ {f} : e.points[g] = d.points[g],
         e.points[f].report = d.points[f].report, d.points[f].ok => e.points[f].ok,
         e.points[f].output # None => e.points[f].mapped # None
  PROVE  ScanRecord(e)
<1>1. \A g \in DOMAIN d.points : /\ e.points[g].report = d.points[g].report
                                /\ d.points[g].ok => e.points[g].ok
  <2> TAKE g \in DOMAIN d.points
  <2>1. CASE g = f
    BY <2>1
  <2>2. CASE g # f
    BY <2>2
  <2> QED BY <2>1, <2>2
<1>2. Ruled(d) /\ Chained(d) /\ InBudget(d)
  BY DEF ScanRecord
<1>3. Ruled(e) /\ Chained(e) /\ InBudget(e)
  BY <1>1, <1>2, SameScan
<1>4. Recorded(e)
  BY DEF ScanRecord, Recorded
<1>5. Judged(e)
  BY Unjudged
<1> QED BY <1>3, <1>4, <1>5 DEF ScanRecord

LEMMA DcSealScans ==
  ASSUME Fenced, Scanning, NEW p \in Proc, DcSeal(p)
  PROVE  Scanning'
<1> DEFINE f == proc[p].mhz
           d == dc[Dir(p)]
           record == dc_output_manifest_record(p, Point(Dir(p), f))
<1>1. UNCHANGED tree /\ proc[p].pc = "dc_seal" /\ proc[p].pc \in DcSteps
  BY DEF DcSeal, At, DcSteps
<1>2. \/ /\ dc' = [dc EXCEPT ![Dir(p)].points[f].output = record]
         /\ Become(p, [proc[p] EXCEPT !.pc = "dc_mark"])
      \/ Become(p, [proc[p] EXCEPT !.pc = "dc_decide"]) /\ UNCHANGED dc
  BY DEF DcSeal
<1> HIDE DEF record
<1>3. /\ Dir(p) \in DOMAIN dc /\ MatrixRecord(d) /\ DcOwn(proc[p], d) /\ ScanRecord(d) /\ ScanAt(proc[p], d)
  BY <1>1, DcHas, ScanHas
<1>4. f \in DOMAIN d.points /\ d.verdict = None
  BY <1>1, <1>3 DEF DcOwn
<1>5. d.points[f].mapped # None
  BY <1>1, <1>3 DEF ScanAt
<1>6. DOMAIN d.points[f] = {"report", "output", "ok", "mapped"}
  BY <1>3, <1>4 DEF MatrixRecord
<1>7. CASE /\ dc' = [dc EXCEPT ![Dir(p)].points[f].output = record]
           /\ Become(p, [proc[p] EXCEPT !.pc = "dc_mark"])
  <2> DEFINE point == [d.points[f] EXCEPT !.output = record]
             points == [d.points EXCEPT ![f] = point]
             e == [d EXCEPT !.points = points]
             doing == [proc[p] EXCEPT !.pc = "dc_mark"]
  <2>1. dc' = [dc EXCEPT ![Dir(p)] = e]
    BY <1>7
  <2>2. /\ DOMAIN point = {"report", "output", "ok", "mapped"} /\ point.report = d.points[f].report
        /\ point.ok = d.points[f].ok /\ point.mapped = d.points[f].mapped
    BY <1>6
  <2>3. e = [d EXCEPT !.points = [d.points EXCEPT ![f] = point]]
    OBVIOUS
  <2> HIDE DEF point, e, points
  <2>4. /\ DOMAIN e.points = DOMAIN d.points /\ e.points[f] = point
        /\ \A g \in DOMAIN d.points \ {f} : e.points[g] = d.points[g]
        /\ e.decisions = d.decisions /\ e.verdict = d.verdict /\ e.input = d.input
    <3> HIDE DEF f, d
    <3> QED BY <1>3, <1>4, <2>2, <2>3, PointUpdate
  <2>5. ScanRecord(e)
    <3> HIDE DEF f, d
    <3> QED BY <1>3, <1>4, <1>5, <2>2, <2>4, SamePoint
  <2>6. doing.pc = "dc_mark" /\ doing.dir = Dir(p) /\ doing.mhz = f
    BY <1>1, DcNextStep DEF DcSteps
  <2>7. Become(p, doing)
    BY <1>7
  <2> HIDE DEF doing
  <2>8. ScanAt(doing, e)
    <3> HIDE DEF d
    <3> QED BY <1>1, <1>3, <2>4, <2>6 DEF ScanAt
  <2> HIDE DEF d, f
  <2> QED BY <1>1, <2>1, <2>5, <2>6, <2>7, <2>8, ScanUpdate
<1>8. CASE Become(p, [proc[p] EXCEPT !.pc = "dc_decide"]) /\ UNCHANGED dc
  <2> DEFINE doing == [proc[p] EXCEPT !.pc = "dc_decide"]
             dir == Dir(p)
  <2>1. doing.pc = "dc_decide" /\ doing.dir = dir /\ doing.mhz = f
    BY <1>1, DcNextStep DEF DcSteps
  <2>2. Become(p, doing)
    BY <1>8
  <2> HIDE DEF doing
  <2>3. ScanAt(doing, d)
    <3> HIDE DEF d
    <3> QED BY <1>1, <1>3, <2>1 DEF ScanAt
  <2>4. /\ dir = Dir(p) /\ DOMAIN dc' = DOMAIN dc \cup {dir} /\ dc'[dir] = d
        /\ \A x \in DOMAIN dc \ {dir} : dc'[x] = dc[x]
    BY <1>3, <1>8
  <2> HIDE DEF d, f, dir
  <2> QED BY <1>1, <1>3, <2>1, <2>2, <2>3, <2>4, ScanStep
<1> QED BY <1>2, <1>7, <1>8

LEMMA DcMarkScans ==
  ASSUME Fenced, Scanning, NEW p \in Proc, DcMark(p)
  PROVE  Scanning'
<1> DEFINE f == proc[p].mhz
           d == dc[Dir(p)]
           point == [d.points[f] EXCEPT !.ok = TRUE]
           points == [d.points EXCEPT ![f] = point]
           e == [d EXCEPT !.points = points]
           doing == [proc[p] EXCEPT !.pc = "dc_decide"]
<1>1. UNCHANGED tree /\ proc[p].pc = "dc_mark" /\ proc[p].pc \in DcSteps
  BY DEF DcMark, At, DcSteps
<1>2. dc' = [dc EXCEPT ![Dir(p)] = e] /\ Become(p, doing)
  BY DEF DcMark
<1>3. /\ Dir(p) \in DOMAIN dc /\ MatrixRecord(d) /\ DcOwn(proc[p], d) /\ ScanRecord(d) /\ ScanAt(proc[p], d)
  BY <1>1, DcHas, ScanHas
<1>4. f \in DOMAIN d.points /\ d.verdict = None
  BY <1>1, <1>3 DEF DcOwn
<1>5. DOMAIN d.points[f] = {"report", "output", "ok", "mapped"}
  BY <1>3, <1>4 DEF MatrixRecord
<1>6. /\ DOMAIN point = {"report", "output", "ok", "mapped"} /\ point.report = d.points[f].report
      /\ point.ok = TRUE /\ point.mapped = d.points[f].mapped /\ point.output = d.points[f].output
  BY <1>5
<1>7. e = [d EXCEPT !.points = [d.points EXCEPT ![f] = point]]
  OBVIOUS
<1>8. doing.pc = "dc_decide" /\ doing.dir = Dir(p) /\ doing.mhz = f
  BY <1>1, DcNextStep DEF DcSteps
<1> HIDE DEF point, e, points, doing
<1>9. point.output # None => point.mapped # None
  BY <1>3, <1>4, <1>6 DEF ScanRecord, Recorded
<1> HIDE DEF d
<1>10. /\ DOMAIN e.points = DOMAIN d.points /\ e.points[f] = point
       /\ \A g \in DOMAIN d.points \ {f} : e.points[g] = d.points[g]
       /\ e.decisions = d.decisions /\ e.verdict = d.verdict /\ e.input = d.input
  <2> HIDE DEF f
  <2> QED BY <1>3, <1>4, <1>6, <1>7, PointUpdate
<1>11. ScanAt(doing, e)
  BY <1>1, <1>3, <1>8, <1>10 DEF ScanAt
<1> HIDE DEF f
<1>12. ScanRecord(e)
  BY <1>3, <1>4, <1>6, <1>9, <1>10, SamePoint
<1> QED BY <1>1, <1>2, <1>8, <1>11, <1>12, ScanUpdate

-----------------------------------------------------------------------------
(***************************************************************************)
(* A decision.                                                             *)
(***************************************************************************)

LEMMA AppendAt ==
  ASSUME NEW s, Sequence(s), NEW x
  PROVE  /\ Len(s) \in Nat /\ Len(Append(s, x)) = Len(s) + 1 /\ Append(s, x)[Len(s) + 1] = x
         /\ \A i \in 1 .. Len(s) : Append(s, x)[i] = s[i]
<1> DEFINE S == {s[i] : i \in DOMAIN s}
           T == S \cup {x}
<1>1. s \in Seq(S)
  BY DEF Sequence
<1> HIDE DEF S
<1>2. s \in Seq(T) /\ x \in T
  BY <1>1
<1> HIDE DEF T
<1> QED BY <1>2

(* The scan goes on only for a failure of setup timing alone, not below    *)
(* the floor and not beyond the budget.                                    *)
LEMMA DecisionSays ==
  ASSUME NEW F, NEW f, NEW row, NEW done, NEW q, NEW executed \in Nat, NEW budget \in Int,
         NEW decision,
         decision = Budgeted(dc_frequency_decision(F, f, row, done, q), executed, budget)
  PROVE  /\ decision.frequency = f
         /\ decision.next # 0 => /\ wns_navigation_eligible(row, done)
                                 /\ decision.next = next_frequency(f, row.wns, q)
                                 /\ ~(decision.next < Lowest(F))
                                 /\ budget # 0 => executed < budget
<1> DEFINE raw == dc_frequency_decision(F, f, row, done, q)
           next == next_frequency(f, row.wns, q)
<1>1. /\ DOMAIN raw = {"frequency", "action", "next"} /\ raw.frequency = f
      /\ raw.next # 0 => /\ wns_navigation_eligible(row, done) /\ raw.next = next
                         /\ ~(next < Lowest(F))
  <2> HIDE DEF next
  <2>1. CASE setup_closed(row, done)
    BY <2>1 DEF dc_frequency_decision
  <2>2. CASE ~setup_closed(row, done) /\ ~wns_navigation_eligible(row, done)
    BY <2>2 DEF dc_frequency_decision
  <2>3. CASE ~setup_closed(row, done) /\ wns_navigation_eligible(row, done) /\ next < Lowest(F)
    BY <2>3 DEF dc_frequency_decision, next
  <2>4. CASE ~setup_closed(row, done) /\ wns_navigation_eligible(row, done) /\ ~(next < Lowest(F))
    BY <2>4 DEF dc_frequency_decision, next
  <2> QED BY <2>1, <2>2, <2>3, <2>4
<1> HIDE DEF raw, next
<1>2. decision = Budgeted(raw, executed, budget)
  BY DEF raw
<1>3. CASE budget # 0 /\ executed >= budget /\ raw.next # 0
  <2>1. decision = [raw EXCEPT !.next = 0, !.action = "stop_point_budget_exhausted"]
    BY <1>2, <1>3 DEF Budgeted
  <2> QED BY <1>1, <2>1
<1>4. CASE ~(budget # 0 /\ executed >= budget /\ raw.next # 0)
  <2>1. decision = raw
    BY <1>2, <1>4 DEF Budgeted
  <2> QED BY <1>1, <1>4, <2>1 DEF next
<1> QED BY <1>3, <1>4

(* What was decided before stays decided, whatever comes after it.         *)
LEMMA LeftPoints ==
  ASSUME NEW d, Chained(d), d.verdict = None, MatrixRecord(d),
         NEW i \in 1 .. Len(d.decisions)
  PROVE  ~Closed(d.points[d.decisions[i].frequency])
<1> DEFINE f == d.decisions[i].frequency
           row == Report(d.points[f])
<1>1. d.decisions[i].next # 0 /\ f \in DOMAIN d.points
  BY DEF Chained
<1>2. Descends(d, i, quantum(Scanned(d)))
  BY <1>1 DEF Chained
<1>3. row.wns < 0
  BY <1>2 DEF Descends
<1>4. d.points[f].report \in DOMAIN DcReports
  BY <1>1 DEF MatrixRecord
<1>5. row.wns \in Int
  BY <1>4, FlowConstants DEF Report
<1> HIDE DEF row, f
<1>6. ~(row.wns >= 0)
  BY <1>3, <1>5
<1> QED BY <1>6 DEF Closed, setup_closed, row, f

LEMMA HighestOne ==
  ASSUME NEW f \in Nat
  PROVE  Highest({f}) = f
<1>1. \E x \in {f} : \A g \in {f} : g <= x
  OBVIOUS
<1>2. Highest({f}) \in {f}
  BY <1>1, Zenon DEF Highest
<1> QED BY <1>2

LEMMA DcDecideScans ==
  ASSUME Fenced, Scanning, NEW p \in Proc, DcDecide(p)
  PROVE  Scanning'
<1> DEFINE f == proc[p].mhz
           d == dc[Dir(p)]
           n == Len(d.decisions)
           F == d.input.frequencies
           q == quantum(t)
           row == Report(d.points[f])
           done == completed(d.points[f])
           decision == Budgeted(dc_frequency_decision(F, f, row, done, q), n + 1, max_points(t))
           closed == {g \in DOMAIN d.points : Closed(d.points[g])}
           verdict == IF decision.next # 0 THEN None ELSE IF closed = {} THEN 0 ELSE Highest(closed)
           decisions == Append(d.decisions, decision)
           e == [d EXCEPT !.decisions = decisions, !.verdict = verdict]
           doing == IF decision.next = 0 THEN Idle
                    ELSE [pc |-> "dc_tool", dir |-> Dir(p), mhz |-> decision.next]
<1>1. UNCHANGED tree /\ proc[p].pc = "dc_decide" /\ proc[p].pc \in DcSteps
  BY DEF DcDecide, At, DcSteps
<1>2. dc' = [dc EXCEPT ![Dir(p)] = e] /\ Become(p, doing)
  BY DEF DcDecide
<1>3. /\ Dir(p) \in DOMAIN dc /\ MatrixRecord(d) /\ DcOwn(proc[p], d) /\ f \in Nat \ {0}
      /\ ScanRecord(d) /\ ScanAt(proc[p], d)
  BY <1>1, DcHas, ScanHas
<1>4. f \in DOMAIN d.points /\ d.verdict = None
  BY <1>1, <1>3 DEF DcOwn
<1>5. Frequencies(F) /\ Sequence(d.decisions) /\ DOMAIN d = {"input", "points", "decisions", "verdict"}
  BY <1>3 DEF MatrixRecord
<1>6. row.wns \in Int
  <2>1. d.points[f].report \in DOMAIN DcReports
    BY <1>3, <1>4 DEF MatrixRecord
  <2> QED BY <2>1, FlowConstants DEF Report
<1>7. Scanned(d) = t /\ q \in Nat \ {0} /\ max_points(t) \in Int
  <2>1. Scanned(d) = t
    BY <1>3 DEF ScanAt, Scanned, t
  <2>2. Ruled(d)
    BY <1>3 DEF ScanRecord
  <2> QED BY <2>1, <2>2 DEF Ruled
<1>8. /\ n \in Nat /\ Len(decisions) = n + 1 /\ decisions[n + 1] = decision
      /\ \A i \in 1 .. n : decisions[i] = d.decisions[i]
  BY <1>5, AppendAt
<1>9. /\ decision.frequency = f
      /\ decision.next # 0 => /\ wns_navigation_eligible(row, done)
                              /\ decision.next = next_frequency(f, row.wns, q)
                              /\ ~(decision.next < Lowest(F))
                              /\ max_points(t) # 0 => n + 1 < max_points(t)
  <2>1. n + 1 \in Nat /\ max_points(t) \in Int
    BY <1>7, <1>8
  <2>2. decision = Budgeted(dc_frequency_decision(F, f, row, done, q), n + 1, max_points(t))
    OBVIOUS
  <2> HIDE DEF decision, F, f, row, done, q, n
  <2> QED BY <2>1, <2>2, DecisionSays
<1> HIDE DEF decision, decisions, verdict, q, row, done
<1>10. /\ e.points = d.points /\ e.input = d.input /\ e.decisions = decisions /\ e.verdict = verdict
  BY <1>5
<1> HIDE DEF e
<1>11. Scanned(e) = t /\ Ruled(e) /\ Recorded(e)
  <2>1. Scanned(e) = Scanned(d)
    BY <1>10 DEF Scanned
  <2> HIDE DEF d
  <2> QED BY <1>3, <1>7, <1>10, <2>1 DEF Ruled, Recorded, ScanRecord, q
<1>12. InBudget(e)
  <2>1. max_points(t) # 0 => n = 0 \/ n < max_points(t)
    BY <1>3 DEF ScanAt
  <2> HIDE DEF n, d
  <2> QED BY <1>7, <1>8, <1>10, <1>11, <2>1 DEF InBudget
<1>13. Chained(d)
  BY <1>3 DEF ScanRecord
<1>14. ASSUME NEW i \in 1 .. n + 1, decisions[i].next # 0 PROVE Descends(e, i, q)
  <2>1. CASE i \in 1 .. n
    <3>1. decisions[i] = d.decisions[i]
      BY <1>8, <2>1
    <3>2. Descends(d, i, q)
      BY <1>7, <1>13, <1>14, <2>1, <3>1 DEF Chained, q
    <3> HIDE DEF d
    <3> QED BY <1>10, <3>1, <3>2 DEF Descends
  <2>2. CASE i = n + 1
    <3>1. /\ decisions[i].frequency = f /\ decisions[i].next = decision.next
          /\ wns_navigation_eligible(row, done) /\ decision.next = next_frequency(f, row.wns, q)
          /\ ~(decision.next < Lowest(F))
      BY <1>8, <1>9, <1>14, <2>2
    <3>2. /\ done /\ Clean(row) /\ row.wns < 0
      BY <3>1 DEF wns_navigation_eligible
    <3> DEFINE next == decision.next
    <3>3. /\ next \in Int /\ next < f /\ next % q = 0 /\ Covers(next, f, row.wns)
          /\ \A g \in next + 1 .. f - 1 : g % q = 0 => ~Covers(g, f, row.wns)
      <4> DEFINE wns == row.wns
      <4>1. next = next_frequency(f, wns, q)
        BY <3>1
      <4>2. f \in Nat \ {0} /\ wns \in Int /\ wns < 0 /\ q \in Int /\ q > 0
        BY <1>3, <1>6, <1>7, <3>2
      <4> HIDE DEF next, f, wns
      <4>3. /\ next \in Int /\ next < f /\ next % q = 0 /\ Covers(next, f, wns)
            /\ \A g \in next + 1 .. f - 1 : g % q = 0 => ~Covers(g, f, wns)
        BY <4>1, <4>2, NextIsNearest
      <4> QED BY <4>3 DEF wns
    <3>4. next >= Lowest(F)
      <4>1. Lowest(F) \in Nat
        BY <1>5, LowestIs
      <4> HIDE DEF next, F
      <4> QED BY <3>1, <3>3, <4>1 DEF next
    <3>5. d.points[f].ok
      BY <3>2 DEF done, completed
    <3>6. /\ e.decisions[i].frequency = f /\ e.decisions[i].next = next /\ e.points = d.points
          /\ Report(d.points[f]) = row /\ e.input.frequencies = F
      BY <1>10, <3>1 DEF row
    <3> HIDE DEF next, F, d, f
    <3> QED BY <3>2, <3>3, <3>4, <3>5, <3>6 DEF Descends
  <2> QED BY <1>8, <2>1, <2>2
<1>15. \A g \in closed : g = f
  <2> TAKE g \in closed
  <2>1. \/ \E i \in 1 .. n : g = d.decisions[i].frequency
        \/ g = f
    BY <1>3 DEF ScanAt
  <2>2. ASSUME NEW i \in 1 .. n, g = d.decisions[i].frequency PROVE FALSE
    <3>1. ~Closed(d.points[g])
      <4> HIDE DEF d
      <4> QED BY <1>3, <1>4, <1>13, <2>2, LeftPoints DEF n
    <3> QED BY <3>1
  <2> QED BY <2>1, <2>2
<1>16. /\ decision.next # 0 => verdict = None
       /\ decision.next = 0 => /\ verdict # None
                               /\ closed = {} => verdict = 0
                               /\ closed # {} => closed = {f} /\ verdict = f
  <2>1. closed # {} => closed = {f}
    BY <1>15
  <2> HIDE DEF closed, f
  <2>2. closed # {} => Highest(closed) = f
    BY <1>3, <2>1, HighestOne
  <2> QED BY <1>3, <2>1, <2>2, NoneIsNothing DEF verdict
<1>17. Chained(e)
  <2>1. decisions[1].frequency = Highest(F)
    <3>1. CASE n = 0
      BY <1>3, <1>8, <1>9, <3>1 DEF ScanAt
    <3>2. CASE n > 0
      BY <1>8, <1>13, <3>2 DEF Chained
    <3> QED BY <1>8, <3>1, <3>2
  <2>2. \A i \in 1 .. n : decisions[i + 1].frequency = decisions[i].next
    <3> TAKE i \in 1 .. n
    <3>1. CASE i = n
      BY <1>3, <1>8, <1>9, <3>1 DEF ScanAt
    <3>2. CASE i # n
      <4>1. i \in 1 .. n - 1 /\ i + 1 \in 1 .. n
        BY <1>8, <3>2
      <4> QED BY <1>8, <1>13, <4>1 DEF Chained
    <3> QED BY <3>1, <3>2
  <2>3. \A i \in 1 .. n + 1 : decisions[i].frequency \in DOMAIN d.points
    <3> TAKE i \in 1 .. n + 1
    <3>1. i = n + 1 \/ i \in 1 .. n
      BY <1>8
    <3> QED BY <1>4, <1>8, <1>9, <1>13, <3>1 DEF Chained
  <2>4. verdict = None => \A i \in 1 .. n + 1 : decisions[i].next # 0
    <3> SUFFICES ASSUME verdict = None, NEW i \in 1 .. n + 1 PROVE decisions[i].next # 0
      OBVIOUS
    <3>1. i = n + 1 \/ i \in 1 .. n
      BY <1>8
    <3> QED BY <1>4, <1>8, <1>13, <1>16, <3>1 DEF Chained
  <2>5. Len(e.decisions) = n + 1 /\ n + 1 - 1 = n
    BY <1>8, <1>10
  <2>6. e.decisions[1].frequency = Highest(e.input.frequencies)
    BY <1>10, <2>1
  <2>7. \A i \in 1 .. Len(e.decisions) - 1 : e.decisions[i + 1].frequency = e.decisions[i].next
    BY <1>8, <1>10, <2>2, <2>5
  <2>8. \A i \in 1 .. Len(e.decisions) : e.decisions[i].frequency \in DOMAIN e.points
    BY <1>10, <2>3, <2>5
  <2>9. \A i \in 1 .. Len(e.decisions) : e.decisions[i].next # 0 => Descends(e, i, quantum(Scanned(e)))
    BY <1>10, <1>11, <1>14, <2>5 DEF q
  <2>10. e.verdict = None => \A i \in 1 .. Len(e.decisions) : e.decisions[i].next # 0
    BY <1>10, <2>4, <2>5
  <2> QED BY <2>6, <2>7, <2>8, <2>9, <2>10 DEF Chained
<1>18. Judged(e)
  <2>1. \A g \in DOMAIN d.points : Closed(d.points[g]) /\ verdict # None => verdict = g
    BY <1>15, <1>16
  <2>2. verdict \notin {None, 0} => /\ verdict \in DOMAIN d.points /\ Closed(d.points[verdict])
                                    /\ decisions[n + 1].frequency = verdict
    BY <1>8, <1>9, <1>16
  <2>3. Len(e.decisions) = n + 1
    BY <1>8, <1>10
  <2> HIDE DEF n, d, closed, f
  <2> QED BY <1>10, <2>1, <2>2, <2>3 DEF Judged
<1>19. ScanRecord(e)
  BY <1>11, <1>12, <1>17, <1>18 DEF ScanRecord
<1>20. doing.pc \in DcSteps => doing.dir = Dir(p) /\ ScanAt(doing, e)
  <2> SUFFICES ASSUME doing.pc \in DcSteps PROVE doing.dir = Dir(p) /\ ScanAt(doing, e)
    OBVIOUS
  <2>1. decision.next # 0
    BY IdleFacts
  <2>2. doing = [pc |-> "dc_tool", dir |-> Dir(p), mhz |-> decision.next]
    BY <2>1
  <2>3. doing.pc = "dc_tool" /\ doing.dir = Dir(p) /\ doing.mhz = decision.next
    BY <2>2
  <2> HIDE DEF doing
  <2>4. Len(e.decisions) = n + 1 /\ n + 1 > 0 /\ n + 1 # 0
    BY <1>8, <1>10
  <2>5. e.input.identity.tree = tree
    BY <1>3, <1>10 DEF ScanAt
  <2>6. \A g \in DOMAIN e.points : \E i \in 1 .. n + 1 : g = e.decisions[i].frequency
    <3> TAKE g \in DOMAIN e.points
    <3>1. \/ \E i \in 1 .. n : g = d.decisions[i].frequency
          \/ g = f
      BY <1>3, <1>10 DEF ScanAt
    <3>2. CASE g = f
      BY <1>8, <1>9, <1>10, <3>2
    <3>3. CASE \E i \in 1 .. n : g = d.decisions[i].frequency
      <4>1. PICK i \in 1 .. n : g = d.decisions[i].frequency
        BY <3>3
      <4>2. i \in 1 .. n + 1 /\ g = e.decisions[i].frequency
        BY <1>8, <1>10, <4>1
      <4> QED BY <4>2
    <3> QED BY <3>1, <3>2, <3>3
  <2> HIDE DEF n, d, f
  <2> QED BY <1>8, <1>9, <1>10, <2>1, <2>3, <2>4, <2>5, <2>6 DEF ScanAt
<1> HIDE DEF doing, n, d, f, F
<1> QED BY <1>1, <1>2, <1>19, <1>20, ScanUpdate

-----------------------------------------------------------------------------
(***************************************************************************)
(* Faults.                                                                 *)
(***************************************************************************)

LEMMA CheckoutScans ==
  ASSUME Fenced, Scanning, Checkout
  PROVE  Scanning'
<1>1. UNCHANGED <<dc, proc>> /\ \A p \in Proc : proc[p].pc = "idle"
  BY DEF Checkout, AllIdle, At
<1>2. \A p \in Proc : proc'[p].pc \notin DcSteps
  BY <1>1 DEF DcSteps
<1>3. \A dir \in DOMAIN dc' : ScanRecord(dc'[dir])
  BY <1>1 DEF Scanning
<1> QED BY <1>2, <1>3 DEF Scanning

(* An altered netlist is still a netlist: the point is as complete as it   *)
(* was.                                                                    *)
LEMMA AlterMappedScans ==
  ASSUME Fenced, Scanning, AlterMapped
  PROVE  Scanning'
<1>1. UNCHANGED <<tree, proc>>
  BY DEF AlterMapped
<1>2. PICK dir \in DOMAIN dc :
        \E f \in DOMAIN dc[dir].points : /\ Point(dir, f).output # None
                                         /\ dc' = [dc EXCEPT ![dir].points[f].mapped = Altered]
  BY DEF AlterMapped
<1>3. PICK f \in DOMAIN dc[dir].points : /\ dc[dir].points[f].output # None
                                         /\ dc' = [dc EXCEPT ![dir].points[f].mapped = Altered]
  BY <1>2 DEF Point
<1> DEFINE d == dc[dir]
           point == [d.points[f] EXCEPT !.mapped = Altered]
           e == [d EXCEPT !.points = [d.points EXCEPT ![f] = point]]
<1>4. dc' = [dc EXCEPT ![dir] = e] /\ MatrixRecord(d) /\ ScanRecord(d)
  BY <1>3 DEF Fenced, Scanning
<1>5. DOMAIN d.points[f] = {"report", "output", "ok", "mapped"}
  BY <1>4 DEF MatrixRecord
<1>6. /\ DOMAIN point = {"report", "output", "ok", "mapped"} /\ point.report = d.points[f].report
      /\ point.ok = d.points[f].ok /\ point.output = d.points[f].output /\ point.mapped = Altered
  <2> HIDE DEF d
  <2> QED BY <1>5
<1>7. e = [d EXCEPT !.points = [d.points EXCEPT ![f] = point]] /\ f \in DOMAIN d.points
      /\ d.points[f].output # None
  BY <1>3
<1> HIDE DEF point, e
<1>8. /\ DOMAIN e.points = DOMAIN d.points /\ e.points[f] = point
      /\ \A g \in DOMAIN d.points \ {f} : e.points[g] = d.points[g]
      /\ e.decisions = d.decisions /\ e.verdict = d.verdict /\ e.input = d.input
  <2> HIDE DEF d
  <2> QED BY <1>4, <1>6, <1>7, PointUpdate
<1>9. /\ DOMAIN dc' = DOMAIN dc /\ dc'[dir] = e /\ \A x \in DOMAIN dc \ {dir} : dc'[x] = dc[x]
  BY <1>4
<1> HIDE DEF d
<1>10. d.points[f].mapped # None /\ Altered # None
  BY <1>4, <1>7, NoneIsNothing DEF ScanRecord, Recorded
<1>11. \A g \in DOMAIN d.points : Closed(e.points[g]) <=> Closed(d.points[g])
  <2> TAKE g \in DOMAIN d.points
  <2>1. CASE g = f
    <3>1. completed(point) <=> completed(d.points[f])
      BY <1>6, <1>10 DEF completed
    <3>2. Report(point) = Report(d.points[f])
      BY <1>6 DEF Report
    <3> QED BY <1>8, <2>1, <3>1, <3>2 DEF Closed, setup_closed
  <2>2. CASE g # f
    BY <1>8, <2>2
  <2> QED BY <2>1, <2>2
<1>12. Ruled(e) /\ Chained(e) /\ InBudget(e)
  <2>1. \A g \in DOMAIN d.points : /\ e.points[g].report = d.points[g].report
                                   /\ d.points[g].ok => e.points[g].ok
    <3> TAKE g \in DOMAIN d.points
    <3>1. CASE g = f
      BY <1>6, <1>8, <3>1
    <3>2. CASE g # f
      BY <1>8, <3>2
    <3> QED BY <3>1, <3>2
  <2>2. Ruled(d) /\ Chained(d) /\ InBudget(d)
    BY <1>4 DEF ScanRecord
  <2> QED BY <1>8, <2>1, <2>2, SameScan
<1>13. Judged(e) /\ Recorded(e)
  BY <1>4, <1>6, <1>8, <1>10, <1>11 DEF ScanRecord, Judged, Recorded
<1>14. \A x \in DOMAIN dc' : ScanRecord(dc'[x])
  BY <1>9, <1>12, <1>13 DEF Scanning, ScanRecord
<1>15. ASSUME NEW p \in Proc, proc'[p].pc \in DcSteps PROVE ScanAt(proc[p], dc[Dir(p)])'
  <2>1. Dir(p) \in DOMAIN dc /\ ScanAt(proc[p], dc[Dir(p)]) /\ Dir(p)' = Dir(p) /\ proc'[p] = proc[p]
    BY <1>1, <1>15, DcHas, ScanHas DEF Dir
  <2>2. CASE Dir(p) = dir
    <3>1. ScanAt(proc[p], d)
      BY <2>1, <2>2 DEF d
    <3>2. ScanAt(proc[p], e)
      <4>1. proc[p].pc = "dc_seal" => e.points[proc[p].mhz].mapped # None
        <5> SUFFICES ASSUME proc[p].pc = "dc_seal" PROVE e.points[proc[p].mhz].mapped # None
          OBVIOUS
        <5>1. d.points[proc[p].mhz].mapped # None /\ proc[p].mhz \in DOMAIN d.points
          BY <1>1, <1>15, <2>2, <3>1, DcHas DEF ScanAt, DcOwn, d
        <5> QED BY <1>6, <1>8, <1>10, <5>1
      <4> QED BY <1>8, <3>1, <4>1 DEF ScanAt
    <3> QED BY <1>1, <1>9, <2>1, <2>2, <3>2 DEF ScanAt, t
  <2>3. CASE Dir(p) # dir
    BY <1>1, <1>9, <2>1, <2>3 DEF ScanAt, t
  <2> QED BY <2>2, <2>3
<1> QED BY <1>14, <1>15 DEF Scanning

-----------------------------------------------------------------------------
(***************************************************************************)
(* The theorems.                                                           *)
(***************************************************************************)

LEMMA StepScans ==
  ASSUME Fenced, Scanning, [Next]_vars
  PROVE  Scanning'
<1>1. ASSUME NEW p \in Proc, Command(p) PROVE Scanning'
  <2>1. CASE \/ SramOpen(p) \/ SramView(p) \/ SramSeal(p)
             \/ LcOpen(p) \/ LcTool(p) \/ LcManifest(p)
    BY <2>1, MacroScans
  <2>2. CASE DcStart(p) \/ PnrStart(p) \/ RecoverStart(p) \/ StaStart(p)
    BY <2>2, StartScans
  <2>3. CASE DcOpen(p) \/ DcTool(p) \/ DcSeal(p) \/ DcMark(p) \/ DcDecide(p)
    BY <2>3, DcOpenScans, DcToolScans, DcSealScans, DcMarkScans, DcDecideScans
  <2>4. CASE \/ PnrOpen(p) \/ PnrStage(p) \/ PnrTool(p) \/ PnrRecord(p) \/ PnrMark(p)
             \/ RecoverOpen(p) \/ RecoverRecord(p)
             \/ StaOpen(p) \/ StaTool(p) \/ StaMark(p)
    BY <2>4, RouteScans
  <2> QED BY <1>1, <2>1, <2>2, <2>3, <2>4 DEF Command
<1>2. ASSUME NEW p \in Proc, Crash(p) PROVE Scanning'
  <2>1. Become(p, Idle) /\ UNCHANGED <<tree, dc>> /\ Idle.pc \notin DcSteps
    BY <1>2, IdleFacts DEF Crash
  <2> QED BY <2>1, Elsewhere
<1>3. CASE Checkout
  BY <1>3, CheckoutScans
<1>4. CASE AlterMapped
  BY <1>4, AlterMappedScans
<1>5. CASE ReplaceLibrary \/ AlterCopy \/ AlterHandoff \/ UNCHANGED vars
  <2>1. UNCHANGED <<tree, dc, proc>>
    BY <1>5 DEF ReplaceLibrary, AlterCopy, AlterHandoff, vars
  <2> QED BY <2>1, ScanRest
<1> QED BY <1>1, <1>2, <1>3, <1>4, <1>5 DEF Next

(* What a scan has decided, and where its process is, whatever else runs,  *)
(* fails or is killed (asicctl.py, the loop of dc_matrix).                 *)
THEOREM Scans == Spec => []Scanning
<1>1. Init => Scanning
  <2> SUFFICES ASSUME Init PROVE Scanning
    OBVIOUS
  <2>1. DOMAIN dc = {} /\ \A p \in Proc : proc[p] = Idle
    BY DEF Init
  <2> QED BY <2>1, IdleFacts DEF Scanning
<1>2. Fenced /\ Scanning /\ [Next]_vars => Scanning'
  BY StepScans
<1> QED BY <1>1, <1>2, Fences, PTL DEF Spec

(* Every scan starts at the highest frequency asked for; it leaves a point *)
(* for setup timing alone, to the highest frequency of the grid whose      *)
(* period covers what was lost, never below the lowest one or beyond the   *)
(* budget; and its verdict is the one point that closed, the last          *)
(* (asicctl.py, dc_frequency_decision and dc_matrix).                      *)
THEOREM ScanHolds == Spec => []ScanSound
<1>1. Scanning => ScanSound
  BY DEF Scanning, ScanRecord, Chained, InBudget, Judged, Scanned, ScanSound
<1> QED BY <1>1, Scans, PTL
=============================================================================
