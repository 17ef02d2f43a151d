------------------------- MODULE AsicEvidenceProofs -------------------------
(***************************************************************************)
(* The evidence of AsicFlow: proof that what the evidence check accepts is *)
(* what was synthesised, routed and analysed.  A file whose digest was     *)
(* once recorded is that file or an altered one for good (Later), so a     *)
(* digest that is found again names the file it was taken of.  A sealed    *)
(* output manifest, the input manifest of a run and the ledger of a marked *)
(* run stay as they are (DcGrows, RoutesGrow), whatever runs, fails or is  *)
(* killed; Traced says how they were made from each other.                 *)
(*                                                                         *)
(* The chain: Handed says what every stage was handed, the identity above  *)
(* all.  It is an invariant as Traced is, and every step of Next either    *)
(* seals nothing or is a step of SealedChain: only the three marks seal,   *)
(* and the run they seal has a sealed parent of the same identity.         *)
(***************************************************************************)
EXTENDS AsicFlowProofs

-----------------------------------------------------------------------------
(***************************************************************************)
(* The inductive invariant.  The tables of files are arguments: dc or dc', *)
(* pnr or pnr'.                                                            *)
(***************************************************************************)

(* None is no manifest.                                                    *)
NoneIsNoRecord == \A S, T : None \notin [S -> T]

(* A file as it was when its digest was taken, and as it is now.           *)
Later(old, new) == new = old \/ new = Altered

(* A point of synthesis with an output manifest, and the netlist there.    *)
Sealed(table, from) ==
  /\ from.dir \in DOMAIN table /\ from.mhz \in DOMAIN table[from.dir].points
  /\ table[from.dir].points[from.mhz].output # None
Output(table, from) == table[from.dir].points[from.mhz].output.mapped

(* A run has the manifest of its inputs.                                   *)
Imported(run, table) ==
  /\ run.input # None /\ Sealed(table, run.input.from)
  /\ Later(run.input.mapped, run.copy)

(* The ledger ties what synthesis recorded to what was routed.             *)
Tied(run, table) ==
  /\ Imported(run, table)
  /\ run.ledger.dc_output = Output(table, run.input.from)
  /\ Later(run.input.mapped, run.ledger.pnr_input)
  /\ Later(run.ledger.pnr_input, run.copy)

RouteTraced(run, table) ==
  /\ run.input # None => Imported(run, table)
  /\ run.ok => Tied(run, table)

(* What a process knows of the run it works on.                            *)
Routing(doing, run, table) ==
  /\ run.ok = FALSE
  /\ doing.pc \in {"pnr_stage", "pnr_tool"} =>
       Sealed(table, doing.from) /\ Output(table, doing.from) = doing.mapped
  /\ doing.pc \in {"pnr_tool", "pnr_record"} =>
       Imported(run, table) /\ Output(table, run.input.from) = doing.mapped
  /\ doing.pc = "rec_record" => Imported(run, table)
  /\ doing.pc = "pnr_mark" => Tied(run, table)

(* What PrimeTime analysed.                                                *)
Analysed(run, runs) ==
  /\ Later(run.input.sta_input, run.analysed)
  /\ Later(run.analysed, runs[run.input.source].handoff)

TimeTraced(run, runs) ==
  /\ run.input.source \in DOMAIN runs /\ runs[run.input.source].ok
  /\ Later(run.input.sta_input, runs[run.input.source].handoff)
  /\ run.ok => Analysed(run, runs)

Timed(doing, run, runs) ==
  /\ doing.pc = "sta_tool" => doing.source = run.input.source
  /\ doing.pc = "sta_mark" => Analysed(run, runs)

(* What a process knows while it waits to make its directory.              *)
Awaiting(doing, table, runs) ==
  /\ doing.pc = "pnr_open" => Sealed(table, doing.from) /\ Output(table, doing.from) = doing.mapped
  /\ doing.pc = "rec_open" => doing.source \in DOMAIN runs /\ runs[doing.source].input # None
  /\ doing.pc = "sta_open" => /\ doing.source \in DOMAIN runs /\ runs[doing.source].ok
                              /\ Later(doing.routed, runs[doing.source].handoff)

Doing(doing, table, runs, times) ==
  /\ Awaiting(doing, table, runs)
  /\ doing.pc \in PnrSteps => Routing(doing, runs[doing.dir], table)
  /\ doing.pc \in StaSteps => Timed(doing, times[doing.dir], runs)

Traced ==
  /\ \A dir \in DOMAIN pnr : RouteTraced(pnr[dir], dc)
  /\ \A dir \in DOMAIN sta : TimeTraced(sta[dir], pnr)
  /\ \A p \in Proc : Doing(proc[p], dc, pnr, sta)

(* What was recorded stays.                                                *)
DcGrows ==
  \A dir \in DOMAIN dc :
    /\ dir \in DOMAIN dc'
    /\ \A f \in DOMAIN dc[dir].points :
         /\ f \in DOMAIN dc'[dir].points
         /\ Point(dir, f).output # None => Point(dir, f)'.output = Point(dir, f).output
         /\ Point(dir, f).ok => Point(dir, f)'.ok

RoutesGrow ==
  \A dir \in DOMAIN pnr :
    /\ dir \in DOMAIN pnr'
    /\ Later(pnr[dir].copy, pnr'[dir].copy)
    /\ pnr[dir].input # None => pnr'[dir].input = pnr[dir].input
    /\ pnr[dir].orfs # None => pnr'[dir].orfs = pnr[dir].orfs
    /\ pnr[dir].ok => /\ pnr'[dir].ok /\ pnr'[dir].ledger = pnr[dir].ledger
                      /\ Later(pnr[dir].handoff, pnr'[dir].handoff)

-----------------------------------------------------------------------------
(***************************************************************************)
(* What is known stays known while the files grow.                         *)
(***************************************************************************)

LEMMA SealedStays ==
  ASSUME DcGrows, NEW from, Sealed(dc, from)
  PROVE  Sealed(dc', from) /\ Output(dc', from) = Output(dc, from)
<1>1. /\ from.dir \in DOMAIN dc /\ from.mhz \in DOMAIN dc[from.dir].points
      /\ dc[from.dir].points[from.mhz].output # None
  BY DEF Sealed
<1>2. /\ from.dir \in DOMAIN dc' /\ from.mhz \in DOMAIN dc'[from.dir].points
      /\ dc'[from.dir].points[from.mhz].output = dc[from.dir].points[from.mhz].output
  BY <1>1 DEF DcGrows, Point
<1> QED BY <1>1, <1>2 DEF Sealed, Output

(* A run whose copy was at most altered.                                   *)
LEMMA RunStays ==
  ASSUME DcGrows, NEW run, NEW now, now.input = run.input, now.ledger = run.ledger, now.ok = run.ok,
         Later(run.copy, now.copy)
  PROVE  /\ Imported(run, dc) => Imported(now, dc') /\ Output(dc', now.input.from) = Output(dc, run.input.from)
         /\ Tied(run, dc) => Tied(now, dc')
         /\ RouteTraced(run, dc) => RouteTraced(now, dc')
<1>1. ASSUME Imported(run, dc)
      PROVE  Imported(now, dc') /\ Output(dc', now.input.from) = Output(dc, run.input.from)
  <2>1. Sealed(dc', run.input.from) /\ Output(dc', run.input.from) = Output(dc, run.input.from)
    BY <1>1, SealedStays DEF Imported
  <2> QED BY <1>1, <2>1 DEF Imported, Later
<1>2. ASSUME Tied(run, dc) PROVE Tied(now, dc')
  <2>1. Imported(now, dc') /\ Output(dc', now.input.from) = Output(dc, run.input.from)
    BY <1>1, <1>2 DEF Tied
  <2> QED BY <1>2, <2>1 DEF Tied, Later
<1> QED BY <1>1, <1>2 DEF RouteTraced

LEMMA RoutingStays ==
  ASSUME DcGrows, NEW run, NEW now, now.input = run.input, now.ledger = run.ledger, now.ok = run.ok,
         Later(run.copy, now.copy), NEW doing, Routing(doing, run, dc)
  PROVE  Routing(doing, now, dc')
<1>1. /\ Imported(run, dc) => Imported(now, dc') /\ Output(dc', now.input.from) = Output(dc, run.input.from)
      /\ Tied(run, dc) => Tied(now, dc')
  BY RunStays
<1>2. doing.pc \in {"pnr_stage", "pnr_tool"} =>
        Sealed(dc', doing.from) /\ Output(dc', doing.from) = doing.mapped
  BY SealedStays DEF Routing
<1> QED BY <1>1, <1>2 DEF Routing

LEMMA TimeStays ==
  ASSUME RoutesGrow, NEW run, TimeTraced(run, pnr)
  PROVE  TimeTraced(run, pnr') /\ (Analysed(run, pnr) => Analysed(run, pnr'))
<1>1. /\ run.input.source \in DOMAIN pnr /\ pnr[run.input.source].ok
      /\ Later(run.input.sta_input, pnr[run.input.source].handoff)
      /\ run.ok => Analysed(run, pnr)
  BY DEF TimeTraced
<1>2. /\ run.input.source \in DOMAIN pnr' /\ pnr'[run.input.source].ok
      /\ Later(pnr[run.input.source].handoff, pnr'[run.input.source].handoff)
  BY <1>1 DEF RoutesGrow
<1>3. Analysed(run, pnr) => Analysed(run, pnr')
  BY <1>2 DEF Analysed, Later
<1>4. Later(run.input.sta_input, pnr'[run.input.source].handoff)
  BY <1>1, <1>2 DEF Later
<1> QED BY <1>1, <1>2, <1>3, <1>4 DEF TimeTraced

LEMMA AwaitingStays ==
  ASSUME DcGrows, RoutesGrow, NEW doing, Awaiting(doing, dc, pnr)
  PROVE  Awaiting(doing, dc', pnr')
<1>1. doing.pc = "pnr_open" => Sealed(dc', doing.from) /\ Output(dc', doing.from) = doing.mapped
  BY SealedStays DEF Awaiting
<1>2. doing.pc = "rec_open" => doing.source \in DOMAIN pnr' /\ pnr'[doing.source].input # None
  <2> SUFFICES ASSUME doing.pc = "rec_open"
               PROVE  doing.source \in DOMAIN pnr' /\ pnr'[doing.source].input # None
    OBVIOUS
  <2>1. doing.source \in DOMAIN pnr /\ pnr[doing.source].input # None
    BY DEF Awaiting
  <2> QED BY <2>1 DEF RoutesGrow
<1>3. doing.pc = "sta_open" => /\ doing.source \in DOMAIN pnr' /\ pnr'[doing.source].ok
                               /\ Later(doing.routed, pnr'[doing.source].handoff)
  <2> SUFFICES ASSUME doing.pc = "sta_open"
               PROVE  /\ doing.source \in DOMAIN pnr' /\ pnr'[doing.source].ok
                      /\ Later(doing.routed, pnr'[doing.source].handoff)
    OBVIOUS
  <2>1. /\ doing.source \in DOMAIN pnr /\ pnr[doing.source].ok
        /\ Later(doing.routed, pnr[doing.source].handoff)
    BY DEF Awaiting
  <2>2. /\ doing.source \in DOMAIN pnr' /\ pnr'[doing.source].ok
        /\ Later(pnr[doing.source].handoff, pnr'[doing.source].handoff)
    BY <2>1 DEF RoutesGrow
  <2> QED BY <2>1, <2>2 DEF Later
<1> QED BY <1>1, <1>2, <1>3 DEF Awaiting

(* A process whose directory is left alone, or whose copy is altered.      *)
LEMMA DoingStays ==
  ASSUME Fenced, Traced, DcGrows, RoutesGrow, NEW q \in Proc,
         proc[q].pc \in PnrSteps => /\ pnr'[Dir(q)].input = pnr[Dir(q)].input
                                    /\ pnr'[Dir(q)].ledger = pnr[Dir(q)].ledger
                                    /\ pnr'[Dir(q)].ok = pnr[Dir(q)].ok
                                    /\ Later(pnr[Dir(q)].copy, pnr'[Dir(q)].copy),
         proc[q].pc \in StaSteps => sta'[Dir(q)] = sta[Dir(q)]
  PROVE  Doing(proc[q], dc', pnr', sta')
<1>1. Doing(proc[q], dc, pnr, sta)
  BY DEF Traced
<1>2. Awaiting(proc[q], dc', pnr')
  BY <1>1, AwaitingStays DEF Doing
<1>3. proc[q].pc \in PnrSteps => Routing(proc[q], pnr'[proc[q].dir], dc')
  <2> DEFINE run == pnr[proc[q].dir]
             now == pnr'[proc[q].dir]
  <2> SUFFICES ASSUME proc[q].pc \in PnrSteps PROVE Routing(proc[q], now, dc')
    OBVIOUS
  <2>1. Routing(proc[q], run, dc)
    BY <1>1 DEF Doing
  <2>2. now.input = run.input /\ now.ledger = run.ledger /\ now.ok = run.ok /\ Later(run.copy, now.copy)
    BY DEF Dir
  <2> HIDE DEF run, now
  <2> QED BY <2>1, <2>2, RoutingStays
<1>4. proc[q].pc \in StaSteps => Timed(proc[q], sta'[proc[q].dir], pnr')
  <2> DEFINE run == sta[proc[q].dir]
  <2> SUFFICES ASSUME proc[q].pc \in StaSteps PROVE Timed(proc[q], run, pnr')
    BY DEF Dir
  <2>1. Timed(proc[q], run, pnr)
    BY <1>1 DEF Doing
  <2>2. TimeTraced(run, pnr)
    BY DEF Fenced, StaOwned, Traced, Dir
  <2> HIDE DEF run
  <2>3. Analysed(run, pnr) => Analysed(run, pnr')
    BY <2>2, TimeStays
  <2> QED BY <2>1, <2>3 DEF Timed
<1> QED BY <1>2, <1>3, <1>4 DEF Doing

-----------------------------------------------------------------------------
(***************************************************************************)
(* A step of one process on one directory.                                 *)
(***************************************************************************)

LEMMA SameRoutes == ASSUME UNCHANGED pnr PROVE RoutesGrow
  BY DEF RoutesGrow, Later

LEMMA SameDc == ASSUME UNCHANGED dc PROVE DcGrows
  BY DEF DcGrows, Point

(* A process that does something else than a step of P&R or of timing.     *)
LEMMA DcTrace ==
  ASSUME Fenced, Traced, NEW p \in Proc, NEW doing, Become(p, doing), UNCHANGED <<pnr, sta>>, DcGrows,
         Awaiting(doing, dc', pnr), doing.pc \notin PnrSteps \cup StaSteps
  PROVE  Traced' /\ DcGrows /\ RoutesGrow
<1>1. proc'[p] = doing /\ \A q \in Proc \ {p} : proc'[q] = proc[q]
  BY Becomes
<1>2. RoutesGrow
  BY SameRoutes
<1>3. \A dir \in DOMAIN pnr' : RouteTraced(pnr'[dir], dc')
  BY RunStays DEF Traced, Later
<1>4. \A dir \in DOMAIN sta' : TimeTraced(sta'[dir], pnr')
  BY DEF Traced
<1>5. \A q \in Proc : Doing(proc'[q], dc', pnr', sta')
  <2> TAKE q \in Proc
  <2>1. CASE q = p
    BY <1>1, <2>1 DEF Doing
  <2>2. CASE q # p
    <3>1. Doing(proc[q], dc', pnr', sta')
      BY <1>2, DoingStays DEF Later
    <3> QED BY <1>1, <2>2, <3>1
  <2> QED BY <2>1, <2>2
<1> QED BY <1>2, <1>3, <1>4, <1>5 DEF Traced

LEMMA RouteTrace ==
  ASSUME Fenced, Traced, NEW p \in Proc, NEW doing, Become(p, doing), UNCHANGED <<dc, sta>>,
         NEW dir, NEW run, DOMAIN pnr' = DOMAIN pnr \cup {dir}, pnr'[dir] = run,
         \A x \in DOMAIN pnr \ {dir} : pnr'[x] = pnr[x],
         \/ dir \notin DOMAIN pnr
         \/ /\ proc[p].pc \in PnrSteps /\ Dir(p) = dir /\ run.copy = pnr[dir].copy
            /\ pnr[dir].input # None => run.input = pnr[dir].input
            /\ pnr[dir].orfs # None => run.orfs = pnr[dir].orfs,
         RouteTraced(run, dc),
         doing.pc \in PnrSteps \cup {"idle"},
         doing.pc \in PnrSteps => doing.dir = dir /\ Routing(doing, run, dc)
  PROVE  Traced' /\ DcGrows /\ RoutesGrow
<1>1. proc'[p] = doing /\ \A q \in Proc \ {p} : proc'[q] = proc[q]
  BY Becomes
<1>2. DcGrows
  BY SameDc
<1>3. RoutesGrow
  <2> SUFFICES ASSUME NEW x \in DOMAIN pnr
               PROVE  /\ x \in DOMAIN pnr'
                      /\ Later(pnr[x].copy, pnr'[x].copy)
                      /\ pnr[x].input # None => pnr'[x].input = pnr[x].input
                      /\ pnr[x].orfs # None => pnr'[x].orfs = pnr[x].orfs
                      /\ pnr[x].ok => /\ pnr'[x].ok /\ pnr'[x].ledger = pnr[x].ledger
                                      /\ Later(pnr[x].handoff, pnr'[x].handoff)
    BY DEF RoutesGrow
  <2>1. CASE x # dir
    BY <2>1 DEF Later
  <2>2. CASE x = dir
    <3>1. pnr[dir].ok = FALSE
      BY <2>2 DEF Traced, Doing, Routing, Dir
    <3> QED BY <2>2, <3>1 DEF Later
  <2> QED BY <2>1, <2>2
<1>4. \A x \in DOMAIN pnr' : RouteTraced(pnr'[x], dc')
  BY DEF Traced
<1>5. \A x \in DOMAIN sta' : TimeTraced(sta'[x], pnr')
  BY <1>3, TimeStays DEF Traced
<1>6. \A q \in Proc : Doing(proc'[q], dc', pnr', sta')
  <2> TAKE q \in Proc
  <2>1. CASE q = p
    <3>1. Awaiting(doing, dc', pnr') /\ doing.pc \notin StaSteps
      BY DEF Awaiting, PnrSteps, StaSteps
    <3> QED BY <1>1, <2>1, <3>1 DEF Doing
  <2>2. CASE q # p
    <3>1. proc[q].pc \in PnrSteps => pnr'[Dir(q)] = pnr[Dir(q)]
      BY <2>2 DEF Fenced, PnrOwned, Apart
    <3>2. Doing(proc[q], dc', pnr', sta')
      BY <1>2, <1>3, <3>1, DoingStays DEF Later
    <3> QED BY <1>1, <2>2, <3>2
  <2> QED BY <2>1, <2>2
<1> QED BY <1>2, <1>3, <1>4, <1>5, <1>6 DEF Traced

LEMMA RouteUpdate ==
  ASSUME Fenced, Traced, NEW p \in Proc, NEW doing, Become(p, doing), UNCHANGED <<dc, sta>>,
         proc[p].pc \in PnrSteps, NEW run, pnr' = [pnr EXCEPT ![Dir(p)] = run],
         run.copy = pnr[Dir(p)].copy, pnr[Dir(p)].input # None => run.input = pnr[Dir(p)].input,
         pnr[Dir(p)].orfs # None => run.orfs = pnr[Dir(p)].orfs,
         RouteTraced(run, dc),
         doing.pc \in PnrSteps \cup {"idle"},
         doing.pc \in PnrSteps => doing.dir = Dir(p) /\ Routing(doing, run, dc)
  PROVE  Traced' /\ DcGrows /\ RoutesGrow
<1> DEFINE dir == Dir(p)
<1>1. dir \in DOMAIN pnr /\ dir = Dir(p)
  BY PnrHas
<1>2. /\ DOMAIN pnr' = DOMAIN pnr \cup {dir} /\ pnr'[dir] = run
      /\ \A x \in DOMAIN pnr \ {dir} : pnr'[x] = pnr[x]
  BY <1>1
<1> HIDE DEF dir
<1> QED BY <1>1, <1>2, RouteTrace

LEMMA RouteCreate ==
  ASSUME Fenced, Traced, NEW p \in Proc, NEW doing, Become(p, doing), UNCHANGED <<dc, sta>>,
         Dir(p) \notin DOMAIN pnr, NEW run, pnr' = Entered(pnr, Dir(p), run),
         RouteTraced(run, dc),
         doing.pc \in PnrSteps \cup {"idle"},
         doing.pc \in PnrSteps => doing.dir = Dir(p) /\ Routing(doing, run, dc)
  PROVE  Traced' /\ DcGrows /\ RoutesGrow
<1> DEFINE dir == Dir(p)
<1>1. dir \notin DOMAIN pnr /\ dir = Dir(p)
  OBVIOUS
<1>2. /\ DOMAIN pnr' = DOMAIN pnr \cup {dir} /\ pnr'[dir] = run
      /\ \A x \in DOMAIN pnr \ {dir} : pnr'[x] = pnr[x]
  BY <1>1 DEF Entered
<1> HIDE DEF dir
<1> QED BY <1>1, <1>2, RouteTrace

LEMMA TimeTrace ==
  ASSUME Fenced, Traced, NEW p \in Proc, NEW doing, Become(p, doing), UNCHANGED <<dc, pnr>>,
         NEW dir, NEW run, DOMAIN sta' = DOMAIN sta \cup {dir}, sta'[dir] = run,
         \A x \in DOMAIN sta \ {dir} : sta'[x] = sta[x],
         dir \notin DOMAIN sta \/ (proc[p].pc \in StaSteps /\ Dir(p) = dir),
         TimeTraced(run, pnr),
         doing.pc \in StaSteps \cup {"idle"},
         doing.pc \in StaSteps => doing.dir = dir /\ Timed(doing, run, pnr)
  PROVE  Traced' /\ DcGrows /\ RoutesGrow
<1>1. proc'[p] = doing /\ \A q \in Proc \ {p} : proc'[q] = proc[q]
  BY Becomes
<1>2. DcGrows /\ RoutesGrow
  BY SameDc, SameRoutes
<1>3. \A x \in DOMAIN pnr' : RouteTraced(pnr'[x], dc')
  BY DEF Traced
<1>4. \A x \in DOMAIN sta' : TimeTraced(sta'[x], pnr')
  BY DEF Traced
<1>5. \A q \in Proc : Doing(proc'[q], dc', pnr', sta')
  <2> TAKE q \in Proc
  <2>1. CASE q = p
    <3>1. Awaiting(doing, dc', pnr') /\ doing.pc \notin PnrSteps
      BY DEF Awaiting, PnrSteps, StaSteps
    <3> QED BY <1>1, <2>1, <3>1 DEF Doing
  <2>2. CASE q # p
    <3>1. proc[q].pc \in StaSteps => sta'[Dir(q)] = sta[Dir(q)]
      BY <2>2 DEF Fenced, StaOwned, Apart
    <3>2. Doing(proc[q], dc', pnr', sta')
      BY <1>2, <3>1, DoingStays DEF Later
    <3> QED BY <1>1, <2>2, <3>2
  <2> QED BY <2>1, <2>2
<1> QED BY <1>2, <1>3, <1>4, <1>5 DEF Traced

LEMMA TimeUpdate ==
  ASSUME Fenced, Traced, NEW p \in Proc, NEW doing, Become(p, doing), UNCHANGED <<dc, pnr>>,
         proc[p].pc \in StaSteps, NEW run, sta' = [sta EXCEPT ![Dir(p)] = run], TimeTraced(run, pnr),
         doing.pc \in StaSteps \cup {"idle"},
         doing.pc \in StaSteps => doing.dir = Dir(p) /\ Timed(doing, run, pnr)
  PROVE  Traced' /\ DcGrows /\ RoutesGrow
<1> DEFINE dir == Dir(p)
<1>1. dir \in DOMAIN sta /\ dir = Dir(p)
  BY StaHas
<1>2. /\ DOMAIN sta' = DOMAIN sta \cup {dir} /\ sta'[dir] = run
      /\ \A x \in DOMAIN sta \ {dir} : sta'[x] = sta[x]
  BY <1>1
<1> HIDE DEF dir
<1> QED BY <1>1, <1>2, TimeTrace

(* A process that gives up.                                                *)
LEMMA Rests ==
  ASSUME Fenced, Traced, NEW p \in Proc, Become(p, Idle), UNCHANGED <<dc, pnr, sta>>
  PROVE  Traced' /\ DcGrows /\ RoutesGrow
<1>1. Idle.pc \notin PnrSteps \cup StaSteps /\ Awaiting(Idle, dc', pnr) /\ DcGrows
  BY IdleFacts, SameDc DEF Awaiting
<1> QED BY <1>1, DcTrace

-----------------------------------------------------------------------------
(***************************************************************************)
(* Synthesis.  An output manifest is written once.                         *)
(***************************************************************************)

LEMMA GrowsBy ==
  ASSUME NEW dir \in DOMAIN dc, NEW e, dc' = [dc EXCEPT ![dir] = e],
         \A f \in DOMAIN dc[dir].points :
           /\ f \in DOMAIN e.points
           /\ dc[dir].points[f].output # None => e.points[f].output = dc[dir].points[f].output
           /\ dc[dir].points[f].ok => e.points[f].ok
  PROVE  DcGrows
<1>1. /\ DOMAIN dc' = DOMAIN dc /\ dc'[dir] = e
      /\ \A x \in DOMAIN dc \ {dir} : dc'[x] = dc[x]
  OBVIOUS
<1> SUFFICES ASSUME NEW x \in DOMAIN dc
             PROVE  /\ x \in DOMAIN dc'
                    /\ \A f \in DOMAIN dc[x].points :
                         /\ f \in DOMAIN dc'[x].points
                         /\ dc[x].points[f].output # None => dc'[x].points[f].output = dc[x].points[f].output
                         /\ dc[x].points[f].ok => dc'[x].points[f].ok
  BY DEF DcGrows, Point
<1>2. CASE x = dir
  BY <1>1, <1>2
<1>3. CASE x # dir
  BY <1>1, <1>3
<1> QED BY <1>2, <1>3

(* One point changes; if its output manifest does, there was none.         *)
LEMMA GrowsAt ==
  ASSUME NEW dir \in DOMAIN dc, MatrixRecord(dc[dir]), NEW f \in DOMAIN dc[dir].points, NEW point,
         dc' = [dc EXCEPT ![dir] = [dc[dir] EXCEPT !.points = [dc[dir].points EXCEPT ![f] = point]]],
         dc[dir].points[f].output # None => point.output = dc[dir].points[f].output,
         dc[dir].points[f].ok => point.ok
  PROVE  DcGrows
<1> DEFINE d == dc[dir]
           e == [d EXCEPT !.points = [d.points EXCEPT ![f] = point]]
<1>1. DOMAIN d = {"input", "points", "decisions", "verdict"} /\ f \in DOMAIN d.points
  BY DEF MatrixRecord
<1>2. /\ DOMAIN e.points = DOMAIN d.points /\ e.points[f] = point
      /\ \A g \in DOMAIN d.points \ {f} : e.points[g] = d.points[g]
  <2> HIDE DEF d
  <2> QED BY <1>1
<1>3. dc' = [dc EXCEPT ![dir] = e]
  OBVIOUS
<1> HIDE DEF e
<1>4. ASSUME NEW g \in DOMAIN d.points
      PROVE  /\ g \in DOMAIN e.points
             /\ d.points[g].output # None => e.points[g].output = d.points[g].output
             /\ d.points[g].ok => e.points[g].ok
  <2>1. CASE g = f
    BY <1>2, <2>1
  <2>2. CASE g # f
    BY <1>2, <2>2
  <2> QED BY <2>1, <2>2
<1> QED BY <1>3, <1>4, GrowsBy

LEMMA DcOpenGrows ==
  ASSUME Fenced, NEW p \in Proc, DcOpen(p)
  PROVE  DcGrows
<1>1. UNCHANGED dc \/ \E d : dc' = Entered(dc, Dir(p), d)
  BY DEF DcOpen
<1>2. CASE \E d : dc' = Entered(dc, Dir(p), d)
  <2>1. \A x \in DOMAIN dc : x \in DOMAIN dc' /\ dc'[x] = dc[x]
    BY <1>2 DEF Entered
  <2> QED BY <2>1 DEF DcGrows, Point
<1> QED BY <1>1, <1>2, SameDc

LEMMA DcToolGrows ==
  ASSUME Fenced, NEW p \in Proc, DcTool(p)
  PROVE  DcGrows
<1> DEFINE d == dc[Dir(p)]
<1>1. proc[p].pc \in DcSteps
  BY DEF DcTool, At, DcSteps
<1>2. Dir(p) \in DOMAIN dc /\ MatrixRecord(d)
  BY <1>1, DcHas
<1>3. PICK point : dc' = [dc EXCEPT ![Dir(p)].points = Entered(@, proc[p].mhz, point)]
  BY DEF DcTool
<1> DEFINE points == Entered(d.points, proc[p].mhz, point)
           e == [d EXCEPT !.points = points]
<1>4. dc' = [dc EXCEPT ![Dir(p)] = e]
  BY <1>2, <1>3
<1>5. \A f \in DOMAIN d.points : f \in DOMAIN points /\ points[f] = d.points[f]
  BY DEF Entered
<1> HIDE DEF points
<1>6. e.points = points
  <2> HIDE DEF d
  <2> QED BY <1>2 DEF MatrixRecord
<1> HIDE DEF e
<1> QED BY <1>2, <1>4, <1>5, <1>6, GrowsBy

LEMMA DcSealGrows ==
  ASSUME Fenced, NEW p \in Proc, DcSeal(p)
  PROVE  DcGrows
<1> DEFINE f == proc[p].mhz
           d == dc[Dir(p)]
<1>1. proc[p].pc = "dc_seal" /\ proc[p].pc \in DcSteps
  BY DEF DcSeal, At, DcSteps
<1>2. UNCHANGED dc \/ \E record : dc' = [dc EXCEPT ![Dir(p)].points[f].output = record]
  BY DEF DcSeal
<1>3. Dir(p) \in DOMAIN dc /\ MatrixRecord(d) /\ DcOwn(proc[p], d)
  BY <1>1, DcHas
<1>4. f \in DOMAIN d.points /\ d.points[f].output = None
  BY <1>1, <1>3 DEF DcOwn
<1>5. CASE \E record : dc' = [dc EXCEPT ![Dir(p)].points[f].output = record]
  <2>1. PICK record : dc' = [dc EXCEPT ![Dir(p)].points[f].output = record]
    BY <1>5
  <2> DEFINE point == [d.points[f] EXCEPT !.output = record]
  <2>2. dc' = [dc EXCEPT ![Dir(p)] = [d EXCEPT !.points = [d.points EXCEPT ![f] = point]]]
    BY <2>1
  <2>3. point.ok = d.points[f].ok
    <3>1. DOMAIN d.points[f] = {"report", "output", "ok", "mapped"}
      BY <1>3, <1>4 DEF MatrixRecord
    <3> HIDE DEF d
    <3> QED BY <3>1
  <2> HIDE DEF point
  <2> QED BY <1>3, <1>4, <2>2, <2>3, GrowsAt
<1> QED BY <1>2, <1>5, SameDc

LEMMA DcMarkGrows ==
  ASSUME Fenced, NEW p \in Proc, DcMark(p)
  PROVE  DcGrows
<1> DEFINE f == proc[p].mhz
           d == dc[Dir(p)]
           point == [d.points[f] EXCEPT !.ok = TRUE]
<1>1. proc[p].pc = "dc_mark" /\ proc[p].pc \in DcSteps
  BY DEF DcMark, At, DcSteps
<1>2. Dir(p) \in DOMAIN dc /\ MatrixRecord(d) /\ DcOwn(proc[p], d)
  BY <1>1, DcHas
<1>3. f \in DOMAIN d.points
  BY <1>1, <1>2 DEF DcOwn
<1>4. dc' = [dc EXCEPT ![Dir(p)] = [d EXCEPT !.points = [d.points EXCEPT ![f] = point]]]
  BY DEF DcMark
<1>5. point.output = d.points[f].output /\ point.ok
  <2>1. DOMAIN d.points[f] = {"report", "output", "ok", "mapped"}
    BY <1>2, <1>3 DEF MatrixRecord
  <2> QED BY <2>1
<1> HIDE DEF point
<1> QED BY <1>2, <1>3, <1>4, <1>5, GrowsAt

LEMMA DcDecideGrows ==
  ASSUME Fenced, NEW p \in Proc, DcDecide(p)
  PROVE  DcGrows
<1> DEFINE d == dc[Dir(p)]
<1>1. proc[p].pc \in DcSteps
  BY DEF DcDecide, At, DcSteps
<1>2. Dir(p) \in DOMAIN dc /\ MatrixRecord(d)
  BY <1>1, DcHas
<1>3. PICK decisions, verdict :
        dc' = [dc EXCEPT ![Dir(p)] = [d EXCEPT !.decisions = decisions, !.verdict = verdict]]
  BY DEF DcDecide
<1> DEFINE e == [d EXCEPT !.decisions = decisions, !.verdict = verdict]
<1>4. e.points = d.points
  <2> HIDE DEF d
  <2> QED BY <1>2 DEF MatrixRecord
<1>5. dc' = [dc EXCEPT ![Dir(p)] = e]
  BY <1>3
<1> HIDE DEF e
<1> QED BY <1>2, <1>4, <1>5, GrowsBy

LEMMA AlterMappedGrows ==
  ASSUME Fenced, AlterMapped
  PROVE  DcGrows
<1>1. PICK dir \in DOMAIN dc : \E f \in DOMAIN dc[dir].points : dc' = [dc EXCEPT ![dir].points[f].mapped = Altered]
  BY DEF AlterMapped
<1>2. PICK f \in DOMAIN dc[dir].points : dc' = [dc EXCEPT ![dir].points[f].mapped = Altered]
  BY <1>1
<1> DEFINE d == dc[dir]
           point == [d.points[f] EXCEPT !.mapped = Altered]
<1>3. dc' = [dc EXCEPT ![dir] = [d EXCEPT !.points = [d.points EXCEPT ![f] = point]]]
  BY <1>2
<1>4. MatrixRecord(d)
  BY DEF Fenced
<1>5. point.output = d.points[f].output /\ point.ok = d.points[f].ok
  <2>1. DOMAIN d.points[f] = {"report", "output", "ok", "mapped"}
    BY <1>4 DEF MatrixRecord
  <2> QED BY <2>1
<1> HIDE DEF point
<1> QED BY <1>3, <1>4, <1>5, GrowsAt

LEMMA SynthesisTraced ==
  ASSUME Fenced, Traced, NEW p \in Proc,
         DcOpen(p) \/ DcTool(p) \/ DcSeal(p) \/ DcMark(p) \/ DcDecide(p)
  PROVE  Traced' /\ DcGrows /\ RoutesGrow
<1>1. DcGrows
  BY DcOpenGrows, DcToolGrows, DcSealGrows, DcMarkGrows, DcDecideGrows
<1>2. UNCHANGED <<pnr, sta>>
  BY DEF DcOpen, DcTool, DcSeal, DcMark, DcDecide
<1>3. PICK doing : Become(p, doing) /\ doing.pc \in DcSteps \cup {"idle"}
  <2>1. ASSUME NEW dir, NEW mhz, NEW step \in DcSteps
        PROVE  [pc |-> step, dir |-> dir, mhz |-> mhz].pc \in DcSteps
    OBVIOUS
  <2>2. CASE DcOpen(p)
    <3>1. Become(p, Idle) \/ \E mhz : Become(p, [pc |-> "dc_tool", dir |-> Dir(p), mhz |-> mhz])
      BY <2>2 DEF DcOpen
    <3> QED BY <2>1, <3>1, IdleFacts DEF DcSteps
  <2>3. CASE DcTool(p)
    <3>1. PICK step : step \in DcSteps /\ Become(p, [pc |-> step, dir |-> Dir(p), mhz |-> proc[p].mhz])
      BY <2>3 DEF DcTool, DcSteps
    <3> QED BY <2>1, <3>1
  <2>4. CASE DcSeal(p) \/ DcMark(p)
    <3>1. PICK step : step \in DcSteps /\ Become(p, [proc[p] EXCEPT !.pc = step])
      BY <2>4 DEF DcSeal, DcMark, DcSteps
    <3> QED BY <3>1, NextPc
  <2>5. CASE DcDecide(p)
    <3>1. PICK next : Become(p, IF next = 0 THEN Idle ELSE [pc |-> "dc_tool", dir |-> Dir(p), mhz |-> next])
      BY <2>5 DEF DcDecide
    <3>2. Become(p, Idle) \/ \E mhz : Become(p, [pc |-> "dc_tool", dir |-> Dir(p), mhz |-> mhz])
      BY <3>1
    <3> QED BY <2>1, <3>2, IdleFacts DEF DcSteps
  <2> QED BY <2>2, <2>3, <2>4, <2>5
<1>4. Awaiting(doing, dc', pnr) /\ doing.pc \notin PnrSteps \cup StaSteps
  BY <1>3 DEF Awaiting, DcSteps, PnrSteps, StaSteps
<1> QED BY <1>1, <1>2, <1>3, <1>4, DcTrace

LEMMA MacrosTraced ==
  ASSUME Fenced, Traced, NEW p \in Proc,
         SramOpen(p) \/ SramView(p) \/ SramSeal(p) \/ LcOpen(p) \/ LcTool(p) \/ LcManifest(p)
  PROVE  Traced' /\ DcGrows /\ RoutesGrow
<1>1. UNCHANGED <<dc, pnr, sta>>
  BY DEF SramOpen, SramView, SramSeal, LcOpen, LcTool, LcManifest
<1>2. proc[p].pc \in {"idle", "sram_views", "lc_tool"}
  BY DEF SramOpen, SramView, SramSeal, LcOpen, LcTool, LcManifest, At
<1>3. PICK doing : Become(p, doing) /\ doing.pc \in {"idle", "sram_views", "lc_tool"}
  <2>1. proc' = proc => Become(p, proc[p])
    BY DEF Become, Fenced
  <2>2. proc' = proc \/ Become(p, Idle) \/ Become(p, [pc |-> "sram_views"]) \/ Become(p, [pc |-> "lc_tool"])
    <3>1. CASE SramOpen(p)
      BY <3>1 DEF SramOpen
    <3>2. CASE SramView(p)
      BY <3>2 DEF SramView
    <3>3. CASE SramSeal(p)
      BY <3>3 DEF SramSeal
    <3>4. CASE LcOpen(p)
      BY <3>4 DEF LcOpen
    <3>5. CASE LcTool(p)
      BY <3>5 DEF LcTool
    <3>6. CASE LcManifest(p)
      BY <3>6 DEF LcManifest
    <3> QED BY <3>1, <3>2, <3>3, <3>4, <3>5, <3>6
  <2>3. [pc |-> "sram_views"].pc = "sram_views" /\ [pc |-> "lc_tool"].pc = "lc_tool"
    OBVIOUS
  <2> QED BY <1>2, <2>1, <2>2, <2>3, IdleFacts
<1>4. Awaiting(doing, dc', pnr) /\ doing.pc \notin PnrSteps \cup StaSteps
  BY <1>3 DEF Awaiting, PnrSteps, StaSteps
<1> QED BY <1>1, <1>3, <1>4, SameDc, DcTrace

-----------------------------------------------------------------------------
(***************************************************************************)
(* Place and route.                                                        *)
(***************************************************************************)

LEMMA ManifestIsThere ==
  ASSUME NoneIsNoRecord, NEW p
  PROVE  PnrManifest(p) # None
<1> DEFINE m == PnrManifest(p)
           S == DOMAIN m
           T == {m[x] : x \in S}
<1>1. m \in [S -> T]
  BY DEF PnrManifest
<1> HIDE DEF m
<1> QED BY <1>1 DEF NoneIsNoRecord, m

LEMMA PnrStartTraced ==
  ASSUME Fenced, Traced, NEW p \in Proc, PnrStart(p)
  PROVE  Traced' /\ DcGrows /\ RoutesGrow
<1>1. PICK mode \in ModeArgs, point \in DOMAIN dc, arg \in PnrArgs, id \in RunId :
        \E f \in DOMAIN dc[point].points :
          /\ Point(point, f).output # None
          /\ Become(p, [pc |-> "pnr_open", dir |-> [line |-> Line(t, mode), id |-> id, mhz |-> pnr_mhz(arg, f)],
                        from |-> [dir |-> point, mhz |-> f], mapped |-> Point(point, f).output.mapped])
  BY SMTT(30) DEF PnrStart
<1>2. PICK f \in DOMAIN dc[point].points :
          /\ Point(point, f).output # None
          /\ Become(p, [pc |-> "pnr_open", dir |-> [line |-> Line(t, mode), id |-> id, mhz |-> pnr_mhz(arg, f)],
                        from |-> [dir |-> point, mhz |-> f], mapped |-> Point(point, f).output.mapped])
  BY <1>1
<1>3. PICK dir : Become(p, [pc |-> "pnr_open", dir |-> dir, from |-> [dir |-> point, mhz |-> f],
                            mapped |-> Point(point, f).output.mapped])
  BY <1>2, Zenon
<1> DEFINE from == [dir |-> point, mhz |-> f]
           doing == [pc |-> "pnr_open", dir |-> dir, from |-> from, mapped |-> Point(point, f).output.mapped]
<1>4. from.dir = point /\ from.mhz = f
  OBVIOUS
<1> HIDE DEF from
<1>5. doing.pc = "pnr_open" /\ doing.from = from /\ doing.mapped = Point(point, f).output.mapped
  OBVIOUS
<1>6. Become(p, doing)
  BY <1>3 DEF from
<1> HIDE DEF doing
<1>7. Sealed(dc, from) /\ Output(dc, from) = doing.mapped
  BY <1>2, <1>4, <1>5 DEF Sealed, Output, Point
<1>8. UNCHANGED <<dc, pnr, sta>>
  BY DEF PnrStart
<1>9. Awaiting(doing, dc', pnr) /\ doing.pc \notin PnrSteps \cup StaSteps
  BY <1>5, <1>7, <1>8 DEF Awaiting, PnrSteps, StaSteps
<1> QED BY <1>6, <1>8, <1>9, SameDc, DcTrace

LEMMA EmptyTraced ==
  ASSUME NEW copy
  PROVE  /\ RouteTraced(EmptyRun(copy), dc)
         /\ EmptyRun(copy).ok = FALSE /\ EmptyRun(copy).copy = copy /\ EmptyRun(copy).input = None
  BY DEF EmptyRun, RouteTraced

LEMMA PnrOpenTraced ==
  ASSUME Fenced, Traced, NEW p \in Proc, PnrOpen(p)
  PROVE  Traced' /\ DcGrows /\ RoutesGrow
<1>1. UNCHANGED <<dc, sta>> /\ proc[p].pc = "pnr_open"
  BY DEF PnrOpen, At
<1>2. CASE Dir(p) \in DOMAIN pnr
  <2>1. Become(p, Idle) /\ UNCHANGED pnr
    BY <1>2 DEF PnrOpen
  <2> QED BY <1>1, <2>1, Rests
<1>3. CASE Dir(p) \notin DOMAIN pnr
  <2>1. PICK copy : /\ pnr' = Entered(pnr, Dir(p), EmptyRun(copy))
                    /\ Become(p, [proc[p] EXCEPT !.pc = "pnr_stage"]) \/ Become(p, Idle)
    BY <1>3 DEF PnrOpen
  <2> DEFINE run == EmptyRun(copy)
  <2>2. RouteTraced(run, dc) /\ run.ok = FALSE
    BY EmptyTraced
  <2> HIDE DEF run
  <2>3. pnr' = Entered(pnr, Dir(p), run)
    BY <2>1 DEF run
  <2>4. CASE Become(p, Idle)
    BY <1>1, <1>3, <2>2, <2>3, <2>4, IdleFacts, RouteCreate
  <2>5. CASE Become(p, [proc[p] EXCEPT !.pc = "pnr_stage"])
    <3> DEFINE doing == [proc[p] EXCEPT !.pc = "pnr_stage"]
    <3>1. DOMAIN proc[p] = {"pc", "dir", "from", "mapped"}
      BY <1>1 DEF Fenced, Waits
    <3>2. /\ doing.pc = "pnr_stage" /\ doing.dir = Dir(p)
          /\ doing.from = proc[p].from /\ doing.mapped = proc[p].mapped
      BY <3>1 DEF Dir
    <3>3. Sealed(dc, proc[p].from) /\ Output(dc, proc[p].from) = proc[p].mapped
      BY <1>1 DEF Traced, Doing, Awaiting
    <3> HIDE DEF doing
    <3>4. Routing(doing, run, dc) /\ doing.pc \in PnrSteps /\ Become(p, doing)
      BY <2>2, <2>5, <3>2, <3>3 DEF Routing, PnrSteps, doing
    <3> QED BY <1>1, <1>3, <2>2, <2>3, <3>2, <3>4, RouteCreate
  <2> QED BY <2>1, <2>4, <2>5
<1> QED BY <1>2, <1>3

(* What a process in a step of P&R starts from.                            *)
LEMMA RouteHas ==
  ASSUME Fenced, Traced, NEW p \in Proc, proc[p].pc \in PnrSteps
  PROVE  /\ Dir(p) \in DOMAIN pnr /\ RouteRecord(pnr[Dir(p)]) /\ PnrOwn(proc[p], pnr[Dir(p)])
         /\ Routing(proc[p], pnr[Dir(p)], dc) /\ RouteTraced(pnr[Dir(p)], dc)
<1>1. Dir(p) \in DOMAIN pnr /\ RouteRecord(pnr[Dir(p)]) /\ PnrOwn(proc[p], pnr[Dir(p)])
  BY PnrHas
<1>2. Routing(proc[p], pnr[Dir(p)], dc)
  BY DEF Traced, Doing, Dir
<1>3. RouteTraced(pnr[Dir(p)], dc)
  BY <1>1 DEF Traced
<1> QED BY <1>1, <1>2, <1>3

LEMMA PnrStageTraced ==
  ASSUME NoneIsNoRecord, Fenced, Traced, NEW p \in Proc, PnrStage(p)
  PROVE  Traced' /\ DcGrows /\ RoutesGrow
<1> DEFINE run == pnr[Dir(p)]
           input == PnrManifest(p)
           staged == [run EXCEPT !.input = input]
           contract == [mapped |-> sha256(run.copy), import |-> None, orfs |-> t.matrix.orfs]
           begun == [staged EXCEPT !.contract = contract]
           doing == [proc[p] EXCEPT !.pc = "pnr_tool"]
<1>1. UNCHANGED <<dc, sta>> /\ proc[p].pc = "pnr_stage" /\ proc[p].pc \in PnrSteps
  BY DEF PnrStage, At, PnrSteps
<1>2. \/ Become(p, Idle) /\ UNCHANGED pnr
      \/ Become(p, Idle) /\ pnr' = [pnr EXCEPT ![Dir(p)] = staged]
      \/ Become(p, doing) /\ pnr' = [pnr EXCEPT ![Dir(p)] = begun]
  BY DEF PnrStage
<1>3. RouteRecord(run) /\ PnrOwn(proc[p], run) /\ Routing(proc[p], run, dc)
  BY <1>1, RouteHas
<1>4. /\ DOMAIN proc[p] = {"pc", "dir", "from", "mapped"} /\ run.input = None
      /\ run.ok = FALSE /\ Sealed(dc, proc[p].from) /\ Output(dc, proc[p].from) = proc[p].mapped
  BY <1>1, <1>3 DEF PnrOwn, Routing
<1>5. input.from = proc[p].from /\ input.mapped = run.copy
  BY DEF PnrManifest, sha256
<1>6. input # None
  BY ManifestIsThere
<1> HIDE DEF input
<1>7. /\ staged.input = input /\ staged.copy = run.copy /\ staged.ok = FALSE /\ staged.orfs = run.orfs
      /\ begun.input = input /\ begun.copy = run.copy /\ begun.ok = FALSE /\ begun.orfs = run.orfs
  <2> HIDE DEF run, contract
  <2> QED BY <1>3, <1>4 DEF RouteRecord
<1>8. doing.pc = "pnr_tool" /\ doing.dir = Dir(p) /\ doing.mapped = proc[p].mapped /\ doing.from = proc[p].from
  BY <1>4 DEF Dir
<1> HIDE DEF staged, begun, doing
<1>9. Imported(staged, dc) /\ Imported(begun, dc) /\ RouteTraced(staged, dc) /\ RouteTraced(begun, dc)
  BY <1>4, <1>5, <1>6, <1>7 DEF Imported, Later, RouteTraced
<1>10. Routing(doing, begun, dc) /\ doing.pc \in PnrSteps
  BY <1>4, <1>5, <1>7, <1>8, <1>9 DEF Routing, PnrSteps
<1>11. CASE Become(p, Idle) /\ UNCHANGED pnr
  BY <1>1, <1>11, Rests
<1>12. CASE Become(p, Idle) /\ pnr' = [pnr EXCEPT ![Dir(p)] = staged]
  BY <1>1, <1>4, <1>7, <1>9, <1>12, IdleFacts, RouteUpdate
<1>13. CASE Become(p, doing) /\ pnr' = [pnr EXCEPT ![Dir(p)] = begun]
  BY <1>1, <1>4, <1>7, <1>8, <1>9, <1>10, <1>13, RouteUpdate
<1> QED BY <1>2, <1>11, <1>12, <1>13

(* A run that differs in nothing Traced speaks of.                         *)
LEMMA SameTrace ==
  ASSUME NEW run, NEW now, now.input = run.input, now.copy = run.copy, now.ok = FALSE, run.ok = FALSE
  PROVE  /\ Imported(run, dc) => Imported(now, dc)
         /\ RouteTraced(run, dc) => RouteTraced(now, dc)
<1>1. Imported(run, dc) => Imported(now, dc)
  BY DEF Imported
<1>2. RouteTraced(run, dc) => RouteTraced(now, dc)
  BY <1>1 DEF RouteTraced
<1> QED BY <1>1, <1>2

LEMMA PnrToolTraced ==
  ASSUME Fenced, Traced, NEW p \in Proc, PnrTool(p)
  PROVE  Traced' /\ DcGrows /\ RoutesGrow
<1> DEFINE run == pnr[Dir(p)]
           ended(status) == [pc |-> "pnr_record", dir |-> Dir(p), mapped |-> proc[p].mapped,
                             exit_status |-> status]
           orfs(report) == [import |-> run.copy, final |-> run.copy, report |-> report]
           routed(report) == [run EXCEPT !.orfs = orfs(report)]
           gathered(report) == [routed(report) EXCEPT !.handoff = run.copy,
                                                      !.contract.import = sha256(run.copy)]
<1>1. UNCHANGED <<dc, sta>> /\ proc[p].pc = "pnr_tool" /\ proc[p].pc \in PnrSteps
  BY DEF PnrTool, At, PnrSteps
<1>2. /\ RouteRecord(run) /\ Routing(proc[p], run, dc) /\ RouteTraced(run, dc) /\ Dir(p) \in DOMAIN pnr
  BY <1>1, RouteHas
<1>3. /\ run.ok = FALSE /\ Imported(run, dc) /\ Output(dc, run.input.from) = proc[p].mapped
      /\ run.orfs = None
  BY <1>1, <1>2, RouteHas DEF Routing, PnrOwn
<1>4. \/ Become(p, ended(1)) /\ UNCHANGED pnr
      \/ \E report : \/ pnr' = [pnr EXCEPT ![Dir(p)] = routed(report)] /\ Become(p, ended(1))
                     \/ pnr' = [pnr EXCEPT ![Dir(p)] = gathered(report)] /\ Become(p, ended(0))
  BY DEF PnrTool
<1>5. ASSUME NEW report
      PROVE  /\ routed(report).input = run.input /\ routed(report).copy = run.copy /\ routed(report).ok = run.ok
             /\ gathered(report).input = run.input /\ gathered(report).copy = run.copy
             /\ gathered(report).ok = run.ok
  <2> HIDE DEF run, orfs
  <2> QED BY <1>2 DEF RouteRecord
<1>6. ASSUME NEW status
      PROVE  ended(status).pc = "pnr_record" /\ ended(status).dir = Dir(p) /\ ended(status).mapped = proc[p].mapped
  OBVIOUS
<1> HIDE DEF routed, gathered, ended, orfs
<1>7. ASSUME NEW now, now.input = run.input, now.copy = run.copy, now.ok = run.ok, NEW status
      PROVE  /\ RouteTraced(now, dc) /\ Routing(ended(status), now, dc) /\ ended(status).pc \in PnrSteps
             /\ ended(status).pc \notin StaSteps
  <2> HIDE DEF run
  <2>1. RouteTraced(now, dc) /\ Imported(now, dc)
    BY <1>2, <1>3, <1>7, SameTrace
  <2> QED BY <1>3, <1>6, <1>7, <2>1 DEF Routing, PnrSteps, StaSteps
<1>8. CASE Become(p, ended(1)) /\ UNCHANGED pnr
  <2> DEFINE doing == ended(1)
             dir == Dir(p)
  <2>1. /\ DOMAIN pnr' = DOMAIN pnr \cup {dir} /\ pnr'[dir] = run /\ \A x \in DOMAIN pnr \ {dir} : pnr'[x] = pnr[x]
        /\ run.copy = pnr[dir].copy /\ run.input = pnr[dir].input /\ run.orfs = pnr[dir].orfs
    BY <1>2, <1>8
  <2>2. /\ RouteTraced(run, dc) /\ Routing(doing, run, dc) /\ doing.pc \in PnrSteps /\ doing.dir = dir
    BY <1>6, <1>7
  <2>3. Become(p, doing) /\ dir = Dir(p)
    BY <1>8
  <2> HIDE DEF doing, dir, run
  <2> QED BY <1>1, <2>1, <2>2, <2>3, RouteTrace
<1>9. ASSUME NEW now, now.input = run.input, now.copy = run.copy, now.ok = run.ok, NEW status,
             pnr' = [pnr EXCEPT ![Dir(p)] = now], Become(p, ended(status))
      PROVE  Traced' /\ DcGrows /\ RoutesGrow
  <2> DEFINE doing == ended(status)
  <2>1. RouteTraced(now, dc) /\ Routing(doing, now, dc) /\ doing.pc \in PnrSteps /\ doing.dir = Dir(p)
    BY <1>6, <1>7, <1>9
  <2>2. Become(p, doing)
    BY <1>9
  <2> HIDE DEF doing
  <2> QED BY <1>1, <1>3, <1>9, <2>1, <2>2, RouteUpdate
<1> QED BY <1>4, <1>5, <1>8, <1>9

LEMMA PnrRecordTraced ==
  ASSUME Fenced, Traced, NEW p \in Proc, PnrRecord(p)
  PROVE  Traced' /\ DcGrows /\ RoutesGrow
<1> DEFINE run == pnr[Dir(p)]
           ledger == Ledger(proc[p].mapped, run.copy, run.orfs.import, run.handoff)
           exited == [run EXCEPT !.exit_status = proc[p].exit_status]
           partial == [exited EXCEPT !.summary = "PNR_RCX_PARTIAL"]
           tied == [exited EXCEPT !.ledger = ledger]
           doing == [proc[p] EXCEPT !.pc = "pnr_mark"]
<1>1. UNCHANGED <<dc, sta>> /\ proc[p].pc = "pnr_record" /\ proc[p].pc \in PnrSteps
  BY DEF PnrRecord, At, PnrSteps
<1>2. \/ pnr' = [pnr EXCEPT ![Dir(p)] = partial] /\ Become(p, Idle)
      \/ pnr' = [pnr EXCEPT ![Dir(p)] = tied] /\ Become(p, doing)
      \/ pnr' = [pnr EXCEPT ![Dir(p)] = exited] /\ Become(p, Idle)
  BY DEF PnrRecord
<1>3. RouteRecord(run) /\ PnrOwn(proc[p], run) /\ Routing(proc[p], run, dc) /\ RouteTraced(run, dc)
  BY <1>1, RouteHas
<1>4. /\ DOMAIN proc[p] = {"pc", "dir", "mapped", "exit_status"}
      /\ run.ok = FALSE /\ Imported(run, dc) /\ Output(dc, run.input.from) = proc[p].mapped
  BY <1>1, <1>3 DEF PnrOwn, Routing
<1>5. ledger.dc_output = proc[p].mapped /\ ledger.pnr_input = run.copy
  BY DEF Ledger, sha256
<1> HIDE DEF ledger
<1>6. /\ partial.input = run.input /\ partial.copy = run.copy /\ partial.ok = run.ok
      /\ exited.input = run.input /\ exited.copy = run.copy /\ exited.ok = run.ok
      /\ tied.input = run.input /\ tied.copy = run.copy /\ tied.ok = run.ok /\ tied.ledger = ledger
      /\ partial.orfs = run.orfs /\ exited.orfs = run.orfs /\ tied.orfs = run.orfs
  <2> HIDE DEF run
  <2> QED BY <1>3 DEF RouteRecord
<1>7. doing.pc = "pnr_mark" /\ doing.dir = Dir(p)
  BY <1>4 DEF Dir
<1> HIDE DEF exited, partial, tied, doing
<1>8. RouteTraced(partial, dc) /\ RouteTraced(exited, dc) /\ RouteTraced(tied, dc) /\ Imported(tied, dc)
  <2> HIDE DEF run
  <2> QED BY <1>3, <1>4, <1>6, SameTrace
<1>9. Tied(tied, dc)
  <2> HIDE DEF run
  <2> QED BY <1>4, <1>5, <1>6, <1>8 DEF Tied, Imported, Later
<1>10. Routing(doing, tied, dc) /\ doing.pc \in PnrSteps
  BY <1>4, <1>6, <1>7, <1>9 DEF Routing, PnrSteps
<1>11. CASE pnr' = [pnr EXCEPT ![Dir(p)] = partial] /\ Become(p, Idle)
  BY <1>1, <1>6, <1>8, <1>11, IdleFacts, RouteUpdate
<1>12. CASE pnr' = [pnr EXCEPT ![Dir(p)] = tied] /\ Become(p, doing)
  BY <1>1, <1>6, <1>7, <1>8, <1>10, <1>12, RouteUpdate
<1>13. CASE pnr' = [pnr EXCEPT ![Dir(p)] = exited] /\ Become(p, Idle)
  BY <1>1, <1>6, <1>8, <1>13, IdleFacts, RouteUpdate
<1> QED BY <1>2, <1>11, <1>12, <1>13

LEMMA PnrMarkTraced ==
  ASSUME Fenced, Traced, NEW p \in Proc, PnrMark(p)
  PROVE  Traced' /\ DcGrows /\ RoutesGrow
<1> DEFINE run == pnr[Dir(p)]
<1>1. UNCHANGED <<dc, sta>> /\ proc[p].pc = "pnr_mark" /\ proc[p].pc \in PnrSteps /\ Become(p, Idle)
  BY DEF PnrMark, At, PnrSteps
<1>2. PICK complete, summary : pnr' = [pnr EXCEPT ![Dir(p)] = [run EXCEPT !.ok = complete, !.summary = summary]]
  BY DEF PnrMark
<1> DEFINE marked == [run EXCEPT !.ok = complete, !.summary = summary]
<1>3. RouteRecord(run) /\ Routing(proc[p], run, dc)
  BY <1>1, RouteHas
<1>4. Tied(run, dc)
  BY <1>1, <1>3 DEF Routing
<1>5. /\ marked.input = run.input /\ marked.copy = run.copy /\ marked.ledger = run.ledger
      /\ marked.orfs = run.orfs
  <2> HIDE DEF run
  <2> QED BY <1>3 DEF RouteRecord
<1>6. pnr' = [pnr EXCEPT ![Dir(p)] = marked]
  BY <1>2
<1> HIDE DEF marked
<1>7. RouteTraced(marked, dc)
  <2> HIDE DEF run
  <2> QED BY <1>4, <1>5 DEF RouteTraced, Tied, Imported
<1> QED BY <1>1, <1>5, <1>6, <1>7, IdleFacts, RouteUpdate

-----------------------------------------------------------------------------
(***************************************************************************)
(* Recovery.                                                               *)
(***************************************************************************)

LEMMA RecoverStartTraced ==
  ASSUME Fenced, Traced, NEW p \in Proc, RecoverStart(p)
  PROVE  Traced' /\ DcGrows /\ RoutesGrow
<1>1. PICK source \in DOMAIN pnr, id \in RecoveryId :
        /\ pnr[source].input # None
        /\ Become(p, [pc |-> "rec_open", dir |-> [source EXCEPT !.id = id], source |-> source])
  BY DEF RecoverStart, load_input_manifest
<1> DEFINE dir == [source EXCEPT !.id = id]
           doing == [pc |-> "rec_open", dir |-> dir, source |-> source]
<1>2. Become(p, doing)
  BY <1>1
<1> HIDE DEF dir
<1>3. doing.pc = "rec_open" /\ doing.source = source
  OBVIOUS
<1> HIDE DEF doing
<1>4. UNCHANGED <<dc, pnr, sta>>
  BY DEF RecoverStart
<1>5. Awaiting(doing, dc', pnr) /\ doing.pc \notin PnrSteps \cup StaSteps
  BY <1>1, <1>3 DEF Awaiting, PnrSteps, StaSteps
<1> QED BY <1>2, <1>4, <1>5, SameDc, DcTrace

LEMMA RecoverOpenTraced ==
  ASSUME Fenced, Traced, NEW p \in Proc, RecoverOpen(p)
  PROVE  Traced' /\ DcGrows /\ RoutesGrow
<1> DEFINE source == pnr[proc[p].source]
           copied == copy_input_manifest(source)
           begun == [copied EXCEPT !.contract = source.contract, !.orfs = source.orfs]
           empty == EmptyRun(source.copy)
           doing == [proc[p] EXCEPT !.pc = "rec_record"]
<1>1. UNCHANGED <<dc, sta>> /\ proc[p].pc = "rec_open"
  BY DEF RecoverOpen, At
<1>2. \/ Become(p, Idle) /\ UNCHANGED pnr
      \/ /\ Dir(p) \notin DOMAIN pnr /\ sha256(source.copy) = source.input.mapped
         /\ pnr' = Entered(pnr, Dir(p), begun) /\ Become(p, doing)
      \/ Dir(p) \notin DOMAIN pnr /\ pnr' = Entered(pnr, Dir(p), empty) /\ Become(p, Idle)
  BY DEF RecoverOpen
<1>3. RouteRecord(empty) /\ RouteTraced(empty, dc) /\ empty.ok = FALSE /\ empty.copy = source.copy
  BY EmptyFacts, EmptyTraced
<1>4. copied = [empty EXCEPT !.input = source.input]
  BY DEF copy_input_manifest
<1>5. source.input # None /\ Sealed(dc, source.input.from)
  <2>1. proc[p].source \in DOMAIN pnr /\ pnr[proc[p].source].input # None
    BY <1>1 DEF Traced, Doing, Awaiting
  <2>2. RouteTraced(pnr[proc[p].source], dc)
    BY <2>1 DEF Traced
  <2> QED BY <2>1, <2>2 DEF RouteTraced, Imported
<1> HIDE DEF source, empty, copied
<1>6. begun.input = source.input /\ begun.copy = source.copy /\ begun.ok = FALSE
  BY <1>3, <1>4 DEF RouteRecord
<1>7. DOMAIN proc[p] = {"pc", "dir", "source"}
  BY <1>1 DEF Fenced, Waits
<1>8. doing.pc = "rec_record" /\ doing.dir = Dir(p)
  BY <1>7 DEF Dir
<1> HIDE DEF begun, doing
<1>9. CASE Become(p, Idle) /\ UNCHANGED pnr
  BY <1>1, <1>9, Rests
<1>10. CASE /\ Dir(p) \notin DOMAIN pnr /\ sha256(source.copy) = source.input.mapped
            /\ pnr' = Entered(pnr, Dir(p), begun) /\ Become(p, doing)
  <2>1. Imported(begun, dc)
    BY <1>5, <1>6, <1>10 DEF Imported, Later, sha256
  <2>2. RouteTraced(begun, dc) /\ Routing(doing, begun, dc) /\ doing.pc \in PnrSteps
    BY <1>6, <1>8, <2>1 DEF RouteTraced, Routing, PnrSteps
  <2> QED BY <1>1, <1>8, <1>10, <2>2, RouteCreate
<1>11. CASE Dir(p) \notin DOMAIN pnr /\ pnr' = Entered(pnr, Dir(p), empty) /\ Become(p, Idle)
  BY <1>1, <1>3, <1>11, IdleFacts, RouteCreate
<1> QED BY <1>2, <1>9, <1>10, <1>11

LEMMA RecoverRecordTraced ==
  ASSUME Fenced, Traced, NEW p \in Proc, RecoverRecord(p)
  PROVE  Traced' /\ DcGrows /\ RoutesGrow
<1> DEFINE run == pnr[Dir(p)]
           source == pnr[proc[p].source]
           ledger == same_run_artifacts(run, source.orfs.final)
           gathered == [run EXCEPT !.handoff = source.orfs.final]
           recorded == [gathered EXCEPT !.ledger = ledger, !.contract.mapped = ledger.pnr_input,
                                        !.contract.import = ledger.orfs_import]
           exited == [recorded EXCEPT !.exit_status = 0]
           doing == [pc |-> "pnr_mark", dir |-> Dir(p)]
<1>1. UNCHANGED <<dc, sta>> /\ proc[p].pc = "rec_record" /\ proc[p].pc \in PnrSteps
  BY DEF RecoverRecord, At, PnrSteps
<1>2. \/ pnr' = [pnr EXCEPT ![Dir(p)] = gathered] /\ Become(p, Idle)
      \/ pnr' = [pnr EXCEPT ![Dir(p)] = recorded] /\ Become(p, Idle)
      \/ pnr' = [pnr EXCEPT ![Dir(p)] = exited] /\ Become(p, doing)
  BY DEF RecoverRecord
<1>3. RouteRecord(run) /\ Routing(proc[p], run, dc) /\ RouteTraced(run, dc)
  BY <1>1, RouteHas
<1>4. run.ok = FALSE /\ Imported(run, dc)
  BY <1>1, <1>3 DEF Routing
<1>5. ledger.dc_output = Output(dc, run.input.from) /\ ledger.pnr_input = run.copy
  BY DEF same_run_artifacts, Ledger, sha256, Output, Point
<1> HIDE DEF ledger, source
<1>6. /\ RouteRecord(gathered)
      /\ gathered.input = run.input /\ gathered.copy = run.copy /\ gathered.ok = run.ok
      /\ gathered.orfs = run.orfs
  <2> HIDE DEF run
  <2> QED BY <1>3 DEF RouteRecord
<1>7. /\ RouteRecord(recorded) /\ recorded.ledger = ledger
      /\ recorded.input = gathered.input /\ recorded.copy = gathered.copy /\ recorded.ok = gathered.ok
      /\ recorded.orfs = gathered.orfs
  <2> HIDE DEF gathered
  <2> QED BY <1>6 DEF RouteRecord
<1>8. /\ exited.ledger = ledger
      /\ exited.input = recorded.input /\ exited.copy = recorded.copy /\ exited.ok = recorded.ok
      /\ exited.orfs = recorded.orfs
  <2> HIDE DEF recorded
  <2> QED BY <1>7 DEF RouteRecord
<1>9. doing.pc = "pnr_mark" /\ doing.dir = Dir(p) /\ doing.pc \in PnrSteps
  BY DEF PnrSteps
<1> HIDE DEF gathered, recorded, exited, doing
<1>10. RouteTraced(gathered, dc) /\ RouteTraced(recorded, dc) /\ RouteTraced(exited, dc) /\ Imported(exited, dc)
  <2> HIDE DEF run
  <2> QED BY <1>3, <1>4, <1>6, <1>7, <1>8, SameTrace
<1>11. Tied(exited, dc)
  <2> HIDE DEF run
  <2> QED BY <1>4, <1>5, <1>6, <1>7, <1>8, <1>10 DEF Tied, Imported, Later
<1>12. Routing(doing, exited, dc)
  BY <1>4, <1>6, <1>7, <1>8, <1>9, <1>11 DEF Routing
<1>13. CASE pnr' = [pnr EXCEPT ![Dir(p)] = gathered] /\ Become(p, Idle)
  BY <1>1, <1>6, <1>10, <1>13, IdleFacts, RouteUpdate
<1>14. CASE pnr' = [pnr EXCEPT ![Dir(p)] = recorded] /\ Become(p, Idle)
  BY <1>1, <1>6, <1>7, <1>10, <1>14, IdleFacts, RouteUpdate
<1>15. CASE pnr' = [pnr EXCEPT ![Dir(p)] = exited] /\ Become(p, doing)
  BY <1>1, <1>6, <1>7, <1>8, <1>9, <1>10, <1>12, <1>15, RouteUpdate
<1> QED BY <1>2, <1>13, <1>14, <1>15

-----------------------------------------------------------------------------
(***************************************************************************)
(* Timing signoff.                                                         *)
(***************************************************************************)

LEMMA StaStartTraced ==
  ASSUME Fenced, Traced, NEW p \in Proc, StaStart(p)
  PROVE  Traced' /\ DcGrows /\ RoutesGrow
<1>1. PICK mode \in ModeArgs, source \in DOMAIN pnr, id \in RunId :
        /\ pnr[source].ok
        /\ Become(p, [pc |-> "sta_open", dir |-> [line |-> Line(t, mode), id |-> id, mhz |-> pnr[source].input.mhz],
                      source |-> source, routed |-> sha256(pnr[source].handoff)])
  BY DEF StaStart
<1>2. PICK dir : Become(p, [pc |-> "sta_open", dir |-> dir, source |-> source,
                            routed |-> sha256(pnr[source].handoff)])
  BY <1>1
<1> DEFINE routed == sha256(pnr[source].handoff)
           doing == [pc |-> "sta_open", dir |-> dir, source |-> source, routed |-> routed]
<1>3. Become(p, doing)
  BY <1>2
<1>4. routed = pnr[source].handoff
  BY DEF sha256
<1> HIDE DEF routed
<1>5. doing.pc = "sta_open" /\ doing.source = source /\ doing.routed = routed
  OBVIOUS
<1> HIDE DEF doing
<1>6. UNCHANGED <<dc, pnr, sta>>
  BY DEF StaStart
<1>7. Awaiting(doing, dc', pnr) /\ doing.pc \notin PnrSteps \cup StaSteps
  BY <1>1, <1>4, <1>5 DEF Awaiting, Later, PnrSteps, StaSteps
<1> QED BY <1>3, <1>6, <1>7, SameDc, DcTrace

LEMMA StaOpenTraced ==
  ASSUME Fenced, Traced, NEW p \in Proc, StaOpen(p)
  PROVE  Traced' /\ DcGrows /\ RoutesGrow
<1> DEFINE dir == Dir(p)
           input == [identity |-> Now(Dir(p).line[2]), source |-> proc[p].source, db |-> disk.db,
                     pnr_output |-> pnr[proc[p].source].ledger.routed,
                     sta_input |-> proc[p].routed]
           run == [input |-> input, report |-> None, analysed |-> None, summary |-> None, ok |-> FALSE]
           doing == [proc[p] EXCEPT !.pc = "sta_tool"]
<1>1. UNCHANGED <<dc, pnr>> /\ proc[p].pc = "sta_open"
  BY DEF StaOpen, At
<1>2. \/ Become(p, Idle) /\ UNCHANGED sta
      \/ dir \notin DOMAIN sta /\ sta' = Entered(sta, dir, run) /\ Become(p, doing)
  BY DEF StaOpen
<1>3. input.source = proc[p].source /\ input.sta_input = proc[p].routed
  OBVIOUS
<1> HIDE DEF input
<1>4. run.input = input /\ run.ok = FALSE
  OBVIOUS
<1>5. DOMAIN proc[p] = {"pc", "dir", "source", "routed"}
  BY <1>1 DEF Fenced, Waits
<1>6. doing.pc = "sta_tool" /\ doing.dir = dir /\ doing.source = proc[p].source
  BY <1>5 DEF Dir
<1> HIDE DEF run, doing
<1>7. /\ proc[p].source \in DOMAIN pnr /\ pnr[proc[p].source].ok
      /\ Later(proc[p].routed, pnr[proc[p].source].handoff)
  BY <1>1 DEF Traced, Doing, Awaiting
<1>8. TimeTraced(run, pnr) /\ Timed(doing, run, pnr) /\ doing.pc \in StaSteps
  BY <1>3, <1>4, <1>6, <1>7 DEF TimeTraced, Timed, StaSteps
<1>9. CASE Become(p, Idle) /\ UNCHANGED sta
  BY <1>1, <1>9, Rests
<1>10. CASE dir \notin DOMAIN sta /\ sta' = Entered(sta, dir, run) /\ Become(p, doing)
  <2>1. /\ DOMAIN sta' = DOMAIN sta \cup {dir} /\ sta'[dir] = run
        /\ \A x \in DOMAIN sta \ {dir} : sta'[x] = sta[x]
    BY <1>10 DEF Entered
  <2> HIDE DEF dir
  <2> QED BY <1>1, <1>6, <1>8, <1>10, <2>1, TimeTrace
<1> QED BY <1>2, <1>9, <1>10

LEMMA TimeHas ==
  ASSUME Fenced, Traced, NEW p \in Proc, proc[p].pc \in StaSteps
  PROVE  /\ Dir(p) \in DOMAIN sta /\ TimingRecord(sta[Dir(p)]) /\ StaOwn(proc[p], sta[Dir(p)])
         /\ Timed(proc[p], sta[Dir(p)], pnr) /\ TimeTraced(sta[Dir(p)], pnr)
<1>1. Dir(p) \in DOMAIN sta /\ TimingRecord(sta[Dir(p)]) /\ StaOwn(proc[p], sta[Dir(p)])
  BY StaHas
<1>2. Timed(proc[p], sta[Dir(p)], pnr)
  BY DEF Traced, Doing, Dir
<1>3. TimeTraced(sta[Dir(p)], pnr)
  BY <1>1 DEF Traced
<1> QED BY <1>1, <1>2, <1>3

(* What PrimeTime reads is the handoff of the run it was started for, as   *)
(* it is now.                                                              *)
LEMMA StaToolTraced ==
  ASSUME Fenced, Traced, NEW p \in Proc, StaTool(p)
  PROVE  Traced' /\ DcGrows /\ RoutesGrow
<1> DEFINE run == sta[Dir(p)]
           doing == [proc[p] EXCEPT !.pc = "sta_mark"]
<1>1. UNCHANGED <<dc, pnr>> /\ proc[p].pc = "sta_tool" /\ proc[p].pc \in StaSteps
  BY DEF StaTool, At, StaSteps
<1>2. /\ Dir(p) \in DOMAIN sta /\ TimingRecord(run) /\ StaOwn(proc[p], run)
      /\ Timed(proc[p], run, pnr) /\ TimeTraced(run, pnr)
  BY <1>1, TimeHas
<1>3. CASE Become(p, Idle) /\ UNCHANGED sta
  BY <1>1, <1>3, Rests
<1>4. CASE \E report \in DOMAIN StaReports :
             /\ sta' = [sta EXCEPT ![Dir(p)].report = report,
                                   ![Dir(p)].analysed = pnr[proc[p].source].handoff]
             /\ Become(p, doing)
  <2>1. PICK report \in DOMAIN StaReports :
             /\ sta' = [sta EXCEPT ![Dir(p)].report = report,
                                   ![Dir(p)].analysed = pnr[proc[p].source].handoff]
             /\ Become(p, doing)
    BY <1>4
  <2> DEFINE handoff == pnr[proc[p].source].handoff
             now == [run EXCEPT !.report = report, !.analysed = handoff]
  <2>2. sta' = [sta EXCEPT ![Dir(p)] = now]
    BY <1>2, <2>1
  <2>3. proc[p].source = run.input.source
    BY <1>1, <1>2 DEF Timed
  <2>4. handoff = pnr[run.input.source].handoff
    BY <2>3
  <2>5. now.input = run.input /\ now.analysed = handoff /\ now.ok = run.ok
    <3> HIDE DEF run, handoff
    <3> QED BY <1>2 DEF TimingRecord
  <2>6. doing.pc = "sta_mark" /\ doing.dir = Dir(p)
    BY <1>2 DEF StaOwn, Dir
  <2> HIDE DEF now, doing, handoff
  <2>7. Analysed(now, pnr) /\ TimeTraced(now, pnr)
    <3> HIDE DEF run
    <3> QED BY <1>2, <2>4, <2>5 DEF Analysed, TimeTraced, Later
  <2>8. Timed(doing, now, pnr) /\ doing.pc \in StaSteps
    BY <2>6, <2>7 DEF Timed, StaSteps
  <2> QED BY <1>1, <2>1, <2>2, <2>6, <2>7, <2>8, TimeUpdate
<1> QED BY <1>3, <1>4 DEF StaTool

LEMMA StaMarkTraced ==
  ASSUME Fenced, Traced, NEW p \in Proc, StaMark(p)
  PROVE  Traced' /\ DcGrows /\ RoutesGrow
<1> DEFINE run == sta[Dir(p)]
<1>1. UNCHANGED <<dc, pnr>> /\ proc[p].pc = "sta_mark" /\ proc[p].pc \in StaSteps /\ Become(p, Idle)
  BY DEF StaMark, At, StaSteps
<1>2. PICK closed, summary : sta' = [sta EXCEPT ![Dir(p)].ok = closed, ![Dir(p)].summary = summary]
  BY DEF StaMark
<1> DEFINE marked == [run EXCEPT !.ok = closed, !.summary = summary]
<1>3. TimingRecord(run) /\ Dir(p) \in DOMAIN sta /\ Timed(proc[p], run, pnr) /\ TimeTraced(run, pnr)
  BY <1>1, TimeHas
<1>4. Analysed(run, pnr)
  BY <1>1, <1>3 DEF Timed
<1>5. marked.input = run.input /\ marked.analysed = run.analysed
  <2> HIDE DEF run
  <2> QED BY <1>3 DEF TimingRecord
<1>6. sta' = [sta EXCEPT ![Dir(p)] = marked]
  BY <1>2, <1>3
<1> HIDE DEF marked
<1>7. TimeTraced(marked, pnr)
  <2> HIDE DEF run
  <2> QED BY <1>3, <1>4, <1>5 DEF TimeTraced, Analysed
<1> QED BY <1>1, <1>6, <1>7, IdleFacts, TimeUpdate

-----------------------------------------------------------------------------
(***************************************************************************)
(* Faults.                                                                 *)
(***************************************************************************)

LEMMA AlterTraced ==
  ASSUME Fenced, Traced, AlterCopy \/ AlterHandoff
  PROVE  Traced' /\ DcGrows /\ RoutesGrow
<1>1. UNCHANGED <<dc, sta, proc>>
  BY DEF AlterCopy, AlterHandoff
<1>2. PICK dir \in DOMAIN pnr :
        pnr' = [pnr EXCEPT ![dir].copy = Altered] \/ pnr' = [pnr EXCEPT ![dir].handoff = Altered]
  BY DEF AlterCopy, AlterHandoff
<1> DEFINE run == pnr[dir]
<1>3. PICK now : /\ pnr' = [pnr EXCEPT ![dir] = now]
                 /\ now = [run EXCEPT !.copy = Altered] \/ now = [run EXCEPT !.handoff = Altered]
  BY <1>2
<1>4. RouteRecord(run)
  BY DEF Fenced
<1>5. /\ DOMAIN pnr' = DOMAIN pnr /\ pnr'[dir] = now /\ \A x \in DOMAIN pnr \ {dir} : pnr'[x] = pnr[x]
  BY <1>3
<1>6. /\ now.input = run.input /\ now.ledger = run.ledger /\ now.ok = run.ok /\ now.orfs = run.orfs
      /\ Later(run.copy, now.copy) /\ Later(run.handoff, now.handoff)
  <2> HIDE DEF run
  <2> QED BY <1>3, <1>4 DEF RouteRecord, Later
<1>7. ASSUME NEW x \in DOMAIN pnr
      PROVE  /\ x \in DOMAIN pnr' /\ pnr'[x].input = pnr[x].input /\ pnr'[x].ledger = pnr[x].ledger
             /\ pnr'[x].ok = pnr[x].ok /\ pnr'[x].orfs = pnr[x].orfs
             /\ Later(pnr[x].copy, pnr'[x].copy) /\ Later(pnr[x].handoff, pnr'[x].handoff)
  <2>1. CASE x = dir
    BY <1>5, <1>6, <2>1
  <2>2. CASE x # dir
    BY <1>5, <2>2 DEF Later
  <2> QED BY <2>1, <2>2
<1>8. RoutesGrow
  BY <1>7 DEF RoutesGrow
<1>9. DcGrows
  BY <1>1, SameDc
<1>10. \A x \in DOMAIN pnr' : RouteTraced(pnr'[x], dc')
  <2> SUFFICES ASSUME NEW x \in DOMAIN pnr PROVE RouteTraced(pnr'[x], dc')
    BY <1>5
  <2>1. RouteTraced(pnr[x], dc)
    BY DEF Traced
  <2> QED BY <1>7, <1>9, <2>1, RunStays
<1>11. \A x \in DOMAIN sta' : TimeTraced(sta'[x], pnr')
  BY <1>1, <1>8, TimeStays DEF Traced
<1>12. \A q \in Proc : Doing(proc'[q], dc', pnr', sta')
  <2> TAKE q \in Proc
  <2>1. proc[q].pc \in PnrSteps => Dir(q) \in DOMAIN pnr
    BY PnrHas
  <2>2. Doing(proc[q], dc', pnr', sta')
    BY <1>1, <1>7, <1>8, <1>9, <2>1, DoingStays
  <2> QED BY <1>1, <2>2
<1> QED BY <1>8, <1>9, <1>10, <1>11, <1>12 DEF Traced

LEMMA AlterMappedTraced ==
  ASSUME Fenced, Traced, AlterMapped
  PROVE  Traced' /\ DcGrows /\ RoutesGrow
<1>1. UNCHANGED <<pnr, sta, proc>>
  BY DEF AlterMapped
<1>2. DcGrows /\ RoutesGrow
  BY <1>1, AlterMappedGrows, SameRoutes
<1>3. \A x \in DOMAIN pnr' : RouteTraced(pnr'[x], dc')
  BY <1>1, <1>2, RunStays DEF Traced, Later
<1>4. \A x \in DOMAIN sta' : TimeTraced(sta'[x], pnr')
  BY <1>1 DEF Traced
<1>5. \A q \in Proc : Doing(proc'[q], dc', pnr', sta')
  BY <1>1, <1>2, DoingStays DEF Later
<1> QED BY <1>2, <1>3, <1>4, <1>5 DEF Traced

-----------------------------------------------------------------------------
(***************************************************************************)
(* The theorems.                                                           *)
(***************************************************************************)

LEMMA StepTraced ==
  ASSUME NoneIsNoRecord, Fenced, Traced, [Next]_vars
  PROVE  Traced' /\ DcGrows /\ RoutesGrow
<1>1. ASSUME NEW p \in Proc, Command(p) PROVE Traced' /\ DcGrows /\ RoutesGrow
  <2>1. CASE \/ SramOpen(p) \/ SramView(p) \/ SramSeal(p)
             \/ LcOpen(p) \/ LcTool(p) \/ LcManifest(p)
    BY <2>1, MacrosTraced
  <2>2. CASE DcStart(p)
    <3>1. PICK dir, timer, frequencies :
            Become(p, [pc |-> "dc_open", dir |-> dir, timer |-> timer, frequencies |-> frequencies])
      BY <2>2 DEF DcStart
    <3> DEFINE doing == [pc |-> "dc_open", dir |-> dir, timer |-> timer, frequencies |-> frequencies]
    <3>2. Awaiting(doing, dc', pnr) /\ doing.pc \notin PnrSteps \cup StaSteps
      BY DEF Awaiting, PnrSteps, StaSteps
    <3>3. Become(p, doing) /\ UNCHANGED <<dc, pnr, sta>>
      BY <2>2, <3>1 DEF DcStart
    <3> HIDE DEF doing
    <3> QED BY <3>2, <3>3, SameDc, DcTrace
  <2>3. CASE DcOpen(p) \/ DcTool(p) \/ DcSeal(p) \/ DcMark(p) \/ DcDecide(p)
    BY <2>3, SynthesisTraced
  <2>4. CASE PnrStart(p) \/ PnrOpen(p) \/ PnrStage(p) \/ PnrTool(p) \/ PnrRecord(p) \/ PnrMark(p)
    BY <2>4, PnrStartTraced, PnrOpenTraced, PnrStageTraced, PnrToolTraced, PnrRecordTraced, PnrMarkTraced
  <2>5. CASE RecoverStart(p) \/ RecoverOpen(p) \/ RecoverRecord(p)
    BY <2>5, RecoverStartTraced, RecoverOpenTraced, RecoverRecordTraced
  <2>6. CASE StaStart(p) \/ StaOpen(p) \/ StaTool(p) \/ StaMark(p)
    BY <2>6, StaStartTraced, StaOpenTraced, StaToolTraced, StaMarkTraced
  <2> QED BY <1>1, <2>1, <2>2, <2>3, <2>4, <2>5, <2>6 DEF Command
<1>2. ASSUME NEW p \in Proc, Crash(p) PROVE Traced' /\ DcGrows /\ RoutesGrow
  BY <1>2, Rests DEF Crash
<1>3. CASE AlterMapped
  BY <1>3, AlterMappedTraced
<1>4. CASE AlterCopy \/ AlterHandoff
  BY <1>4, AlterTraced
<1>5. CASE Checkout \/ ReplaceLibrary \/ UNCHANGED vars
  <2>1. UNCHANGED <<dc, pnr, sta, proc>>
    BY <1>5 DEF Checkout, ReplaceLibrary, vars
  <2> QED BY <2>1, SameDc, SameRoutes DEF Traced
<1> QED BY <1>1, <1>2, <1>3, <1>4, <1>5 DEF Next

(* How the manifests, the ledgers and the files were made from each other, *)
(* in every reachable state (asicctl.py pnr, sta and the writers of the    *)
(* ledger; recover_pnr_handoff.py).                                        *)
THEOREM Traces ==
  ASSUME NoneIsNoRecord
  PROVE  Spec => []Traced
<1>1. Init => Traced
  <2> SUFFICES ASSUME Init PROVE Traced
    OBVIOUS
  <2>1. DOMAIN pnr = {} /\ DOMAIN sta = {} /\ \A p \in Proc : proc[p] = Idle
    BY DEF Init
  <2>2. Doing(Idle, dc, pnr, sta)
    BY IdleFacts DEF Doing, Awaiting
  <2> QED BY <2>1, <2>2 DEF Traced
<1>2. Fenced /\ Traced /\ [Next]_vars => Traced'
  BY StepTraced
<1> QED BY <1>1, <1>2, Fences, PTL DEF Spec

(* What was recorded stays: no step of any command, and no fault, writes   *)
(* an output manifest of synthesis or the input manifest of a P&R run a    *)
(* second time, takes the marker of a point or of a run away, replaces the *)
(* result routing has recorded or changes the ledger of a marked run       *)
(* (asicctl.py write_json after mkdir; recover_pnr_handoff.py).            *)
THEOREM RecordsStay ==
  ASSUME NoneIsNoRecord
  PROVE  Spec => [][DcGrows /\ RoutesGrow]_vars
<1>1. Fenced /\ Traced /\ [Next]_vars => [DcGrows /\ RoutesGrow]_vars
  BY StepTraced
<1> QED BY <1>1, Fences, Traces, PTL DEF Spec

LEMMA SameDigest ==
  ASSUME NEW recorded, NEW between, NEW now, Later(recorded, between), Later(between, now), recorded = now
  PROVE  between = now
  BY DEF Later

LEMMA TracedEvidence ==
  ASSUME Traced
  PROVE  EvidenceSound
<1> SUFFICES ASSUME evidence_check, NEW dir \in DOMAIN sta, sta[dir].ok
             PROVE  LET run == pnr[sta[dir].input.source]
                        from == run.input.from
                    IN  /\ run.ok
                        /\ sha256(sta[dir].analysed) = run.ledger.routed
                        /\ sta[dir].analysed = run.handoff
                        /\ Point(from.dir, from.mhz).output.mapped = sha256(run.copy)
                        /\ run.ledger.orfs_import = sha256(run.copy)
  BY DEF EvidenceSound
<1> DEFINE source == sta[dir].input.source
           run == pnr[source]
           from == run.input.from
           ledger == run.ledger
<1>1. source \in DOMAIN pnr /\ run.ok /\ Analysed(sta[dir], pnr)
  BY DEF Traced, TimeTraced
<1>2. Tied(run, dc) /\ run.input # None
  BY <1>1 DEF Traced, RouteTraced, Tied, Imported
<1>3. run.input.mapped = run.copy /\ ledger # None
  BY <1>1, <1>2 DEF evidence_check, ManifestsHold, sha256
<1>4. SameMapped(ledger) /\ ledger.routed = run.handoff
  BY <1>1, <1>3 DEF evidence_check, LedgersHold, sha256
<1>5. sta[dir].input.sta_input = run.handoff
  BY DEF evidence_check, ManifestsHold, sha256
<1>6. sta[dir].analysed = run.handoff
  BY <1>1, <1>5, SameDigest DEF Analysed
<1>7. ledger.pnr_input = run.copy
  BY <1>2, <1>3, SameDigest DEF Tied
<1>8. Output(dc, from) = run.copy /\ ledger.orfs_import = run.copy
  BY <1>2, <1>4, <1>7 DEF Tied, SameMapped
<1> QED BY <1>1, <1>4, <1>6, <1>8 DEF Output, Point, sha256

(* When the evidence check accepts the build tree, what PrimeTime analysed *)
(* in every sealed timing run is what the ledger of its P&R run records    *)
(* and what is there now, and that run was routed from the netlist that    *)
(* the output manifest of synthesis records: whatever runs, fails, is      *)
(* killed or is altered in between (asicctl.py evidence_check).            *)
THEOREM EvidenceHolds ==
  ASSUME NoneIsNoRecord
  PROVE  Spec => []EvidenceSound
<1>1. Traced => EvidenceSound
  BY TracedEvidence
<1> QED BY <1>1, Traces, PTL

-----------------------------------------------------------------------------
(***************************************************************************)
(* The chain: its inductive invariant.  An identity that a stage recorded  *)
(* is one of a checkout that builds, of the mode its directory is named    *)
(* for; and a stage starts only from what has the same fields.             *)
(***************************************************************************)

Known(identity, dir) ==
  /\ identity.tree \in DOMAIN Trees /\ identity.mode \in DOMAIN IdentityOf[identity.tree]
  /\ identity.mode = dir.line[2] /\ Fields(identity).mode = identity.mode

(* A netlist as Design Compiler made it, of the sources of this identity.  *)
Genuine(mapped, identity) ==
  /\ mapped # None /\ mapped # Altered
  /\ mapped.tree = identity.tree /\ mapped.dbs = Pinned[identity.tree]

Certified(output, dir) == Known(output.identity, dir) /\ Genuine(output.mapped, output.identity)

(* A directory of synthesis.                                               *)
MatrixDir(dir) == dir = [line |-> dir.line, id |-> dir.id]
MatrixSound(dir, d) ==
  /\ MatrixDir(dir)
  /\ \A f \in DOMAIN d.points :
       /\ Lowest(d.input.frequencies) <= f /\ f <= Highest(d.input.frequencies)
       /\ d.points[f].output # None => Certified(d.points[f].output, dir)
       /\ d.points[f].ok => d.points[f].output # None

(* What a run of P&R may start from: a completed point of synthesis.       *)
Accepted(identity, from, dir, table) ==
  /\ Known(identity, dir)
  /\ Sealed(table, from) /\ table[from.dir].points[from.mhz].ok
  /\ Fields(table[from.dir].points[from.mhz].output.identity) = Fields(identity)

(* A run of P&R, and one that is marked.                                   *)
Routed(run) == run.ledger # None /\ run.ledger.routed = run.ledger.dc_output

RouteSound(dir, run, table) ==
  /\ DOMAIN dir = {"line", "id", "mhz"} /\ dir.id \in RunId \cup RecoveryId
  /\ run.exit_status \in {None, 0, 1}
  /\ run.input # None => Accepted(run.input.identity, run.input.from, dir, table)
  /\ run.orfs # None => run.orfs.import = run.orfs.final
  /\ run.ok => Routed(run)

(* A run of the timing analysis.                                           *)
TimeSound(dir, run, runs) ==
  /\ Known(run.input.identity, dir)
  /\ Fields(runs[run.input.source].input.identity) = Fields(run.input.identity)
  /\ run.input.sta_input = runs[run.input.source].ledger.routed
  /\ run.input.pnr_output = runs[run.input.source].ledger.routed

(* The macro databases that synthesis reads are the pinned ones.           *)
Supplied ==
  /\ Databases = Pinned[tree]
  /\ t.memory_mode = "sram" => lc # None /\ lc.manifest # None

(* What a process knows: of its checkout, which stays as it is while a     *)
(* process runs, and of its directory.                                     *)
Named(p) ==
  /\ "dir" \in DOMAIN proc[p] => proc[p].pc \in OpenSteps \cup Working
  /\ proc[p].pc \in {"pnr_open", "rec_open"} =>
       DOMAIN Dir(p) = {"line", "id", "mhz"} /\ Dir(p).id \in RunId \cup RecoveryId

Synthesising(p) ==
  LET d == dc[Dir(p)]
      f == proc[p].mhz
      identity == Now(Dir(p).line[2])
  IN  /\ proc[p].pc \in DcSteps \cup {"dc_open"} =>
           MatrixDir(Dir(p)) /\ Known(identity, Dir(p)) /\ Supplied
      /\ proc[p].pc \in DcSteps => Lowest(d.input.frequencies) <= f /\ f <= Highest(d.input.frequencies)
      /\ proc[p].pc = "dc_seal" => Genuine(d.points[f].mapped, identity)
      /\ proc[p].pc = "dc_mark" => d.points[f].output # None

PlacingRouting(p) ==
  LET run == pnr[Dir(p)]
      identity == Now(Dir(p).line[2])
  IN  /\ proc[p].pc \in {"pnr_open", "pnr_stage"} => Accepted(identity, proc[p].from, Dir(p), dc)
      /\ proc[p].pc = "pnr_record" => /\ proc[p].exit_status \in {0, 1}
                                      /\ proc[p].exit_status = 0 => run.handoff = run.orfs.import
      /\ proc[p].pc = "pnr_mark" => Routed(run)

Recovering(p) ==
  LET source == pnr[proc[p].source]
  IN  /\ proc[p].pc = "rec_open" => Dir(p).line = proc[p].source.line /\ source.orfs # None
      /\ proc[p].pc = "rec_record" => /\ proc[p].source \in DOMAIN pnr /\ source.orfs # None
                                      /\ pnr[Dir(p)].orfs = source.orfs

Timing(p) ==
  LET source == pnr[proc[p].source]
      identity == Now(Dir(p).line[2])
  IN  proc[p].pc = "sta_open" => /\ Known(identity, Dir(p))
                                 /\ Fields(source.input.identity) = Fields(identity)
                                 /\ proc[p].routed = source.ledger.routed

Knows(p) == Named(p) /\ Synthesising(p) /\ PlacingRouting(p) /\ Recovering(p) /\ Timing(p)

(* The macro databases are made from the handoff, once.                    *)
Compiled(dbs, handoff) ==
  /\ dbs = [m \in DOMAIN dbs |-> dbs[m]] /\ DOMAIN dbs \subseteq DOMAIN handoff.macros
  /\ \A m \in DOMAIN dbs : dbs[m] = handoff.macros[m].timing

Stocked ==
  /\ sram # None => DOMAIN sram = {"views", "manifest"}
  /\ lc # None => /\ DOMAIN lc = {"dbs", "manifest"} /\ sram # None /\ sram.manifest # None
                  /\ Compiled(lc.dbs, sram.manifest)
                  /\ lc.manifest # None => DOMAIN lc.dbs = DOMAIN sram.manifest.macros
  /\ \A p \in Proc :
       /\ At(p, "sram_views") => sram # None /\ sram.manifest = None
       /\ At(p, "lc_tool") => /\ lc # None /\ lc.manifest = None
                              /\ DOMAIN sram.manifest.macros = DOMAIN macros(t)
  /\ \A p, q \in Proc : proc[p].pc = proc[q].pc /\ proc[p].pc \in {"sram_views", "lc_tool"} => p = q

Handed ==
  /\ Stocked /\ faults \in 0 .. MaxFaults
  /\ \A dir \in DOMAIN dc : MatrixSound(dir, dc[dir])
  /\ \A dir \in DOMAIN pnr : RouteSound(dir, pnr[dir], dc)
  /\ \A dir \in DOMAIN sta : TimeSound(dir, sta[dir], pnr)
  /\ \A p \in Proc : Knows(p)

TimesGrow ==
  \A dir \in DOMAIN sta :
    /\ dir \in DOMAIN sta' /\ sta'[dir].input = sta[dir].input
    /\ sta[dir].ok => sta'[dir].ok

-----------------------------------------------------------------------------
(***************************************************************************)
(* Identities.                                                             *)
(***************************************************************************)

LEMMA IdentityIs ==
  ASSUME NEW c \in DOMAIN Trees, NEW m \in DOMAIN IdentityOf[c]
  PROVE  /\ m \in {"auto", "default"} \cup DOMAIN ParameterLock /\ Buildable(Trees[c], m, "auto")
         /\ IdentityOf[c][m] = Identity(Trees[c], m)
<1> DEFINE Modes(d) == {x \in {"auto", "default"} \cup DOMAIN ParameterLock : Buildable(Trees[d], x, "auto")}
<1>1. IdentityOf[c] = [x \in Modes(c) |-> Identity(Trees[c], x)]
  BY DEF IdentityOf
<1> QED BY <1>1

(* A mode resolves to one that resolves to itself.                         *)
LEMMA ModeTwice ==
  ASSUME NEW c, NEW m
  PROVE  Mode(c, Mode(c, m)) = Mode(c, m)
  BY DEF Mode

LEMMA Resolved ==
  ASSUME NEW c \in DOMAIN Trees, NEW m \in DOMAIN IdentityOf[c], NEW r, r = Mode(Trees[c], m)
  PROVE  /\ r \in DOMAIN IdentityOf[c] /\ IdentityOf[c][r] = IdentityOf[c][m]
         /\ IdentityOf[c][r].mode = r
<1> DEFINE k == Trees[c]
           Modes == {x \in {"auto", "default"} \cup DOMAIN ParameterLock : Buildable(k, x, "auto")}
<1>1. /\ IdentityOf[c] = [x \in Modes |-> Identity(k, x)]
  BY DEF IdentityOf
<1>2. m \in Modes
  BY <1>1
<1>3. r \in {"auto", "default"} \cup DOMAIN ParameterLock
  BY FlowConstants DEF Trees
<1>4. Mode(k, r) = r /\ r = Mode(k, m)
  BY ModeTwice
<1>5. Buildable(k, r, "auto")
  <2>1. Buildable(k, m, "auto")
    BY <1>2
  <2>2. resolve_mode(k, r)
    <3>1. resolve_mode(k, m)
      BY <2>1 DEF Buildable
    <3> QED BY <1>4, <3>1 DEF resolve_mode, Mode
  <2>3. check_parameter_lock(k, Mode(k, r))
    BY <1>4, <2>1 DEF Buildable
  <2> QED BY <2>1, <2>2, <2>3 DEF Buildable
<1>6. Identity(k, r) = Identity(k, m) /\ Identity(k, r).mode = r
  BY <1>4 DEF Identity
<1> QED BY <1>1, <1>2, <1>3, <1>5, <1>6

(* Identities whose fields agree are the same.                             *)
LEMMA SameFields ==
  ASSUME NEW c \in DOMAIN Trees, NEW m \in DOMAIN IdentityOf[c],
         NEW d \in DOMAIN Trees, NEW n \in DOMAIN IdentityOf[d],
         require_handoff_identity(IdentityOf[c][m], IdentityOf[d][n])
  PROVE  IdentityOf[c][m] = IdentityOf[d][n]
<1> DEFINE x == IdentityOf[c][m]
           y == IdentityOf[d][n]
<1>1. x = Identity(Trees[c], m) /\ y = Identity(Trees[d], n)
  BY IdentityIs
<1>2. /\ x = [f \in HANDOFF_IDENTITY_FIELDS |-> x[f]]
      /\ y = [f \in HANDOFF_IDENTITY_FIELDS |-> y[f]]
  BY <1>1 DEF Identity, HANDOFF_IDENTITY_FIELDS
<1>3. \A f \in HANDOFF_IDENTITY_FIELDS : x[f] = y[f]
  BY DEF require_handoff_identity
<1> HIDE DEF x, y
<1>4. x = y
  BY <1>2, <1>3
<1> QED BY <1>4 DEF x, y

(* The identity that a command computes now.                               *)
LEMMA KnownNow ==
  ASSUME tree \in DOMAIN Trees, NEW mode, Builds(mode), NEW dir, dir.line = Line(t, mode),
         NEW identity, identity = Now(dir.line[2])
  PROVE  Known(identity, dir) /\ Fields(identity) = IdentityOf[tree][mode]
<1> DEFINE r == Mode(t, mode)
<1>1. dir.line[2] = r
  BY DEF Line
<1>2. identity.tree = tree /\ identity.mode = r
  BY <1>1 DEF Now
<1>3. /\ r \in DOMAIN IdentityOf[tree] /\ IdentityOf[tree][r] = IdentityOf[tree][mode]
      /\ IdentityOf[tree][r].mode = r
  BY Resolved DEF Builds, t
<1> HIDE DEF r
<1> QED BY <1>1, <1>2, <1>3 DEF Known, Fields

(* Known identities with the same fields are of the same mode and class.   *)
LEMMA SameClass ==
  ASSUME NEW i, NEW j, NEW dir, NEW other, Known(i, dir), Known(j, other), Fields(i) = Fields(j)
  PROVE  i.mode = j.mode /\ Class(i) = Class(j)
<1>1. i.mode = j.mode
  BY DEF Known
<1>2. IdentityOf[i.tree][i.mode] = IdentityOf[j.tree][j.mode]
  BY DEF Fields
<1> DEFINE Earliest(m, fields) ==
             <<m, CHOOSE first \in DOMAIN Trees :
                      m \in DOMAIN IdentityOf[first] /\ IdentityOf[first][m] = fields>>
<1>3. ASSUME NEW k, k.tree \in DOMAIN Trees, k.mode \in DOMAIN IdentityOf[k.tree]
      PROVE  Class(k) = Earliest(k.mode, IdentityOf[k.tree][k.mode])
  BY <1>3 DEF Class, ClassOf
<1> HIDE DEF Earliest
<1> QED BY <1>1, <1>2, <1>3 DEF Known

(* What a genuine netlist was really made from is what is recorded of it.  *)
LEMMA GenuineMade ==
  ASSUME NEW mapped, NEW i, NEW dir, Known(i, dir), Genuine(mapped, i), NEW line, line[2] = i.mode
  PROVE  Made(mapped, line) = Class(i)
<1>1. i.tree \in DOMAIN Trees /\ i.mode \in DOMAIN ClassOf[i.tree]
  BY DEF Known, ClassOf
<1>2. mapped # Altered /\ mapped.tree = i.tree /\ mapped.dbs = Pinned[i.tree]
  BY DEF Genuine
<1> QED BY <1>1, <1>2 DEF Made, Class

-----------------------------------------------------------------------------
(***************************************************************************)
(* What is known stays known while the files grow.                         *)
(***************************************************************************)

LEMMA AcceptedStays ==
  ASSUME DcGrows, NEW i, NEW from, NEW dir, Accepted(i, from, dir, dc)
  PROVE  Accepted(i, from, dir, dc')
<1>1. /\ from.dir \in DOMAIN dc /\ from.mhz \in DOMAIN dc[from.dir].points
      /\ dc[from.dir].points[from.mhz].output # None /\ dc[from.dir].points[from.mhz].ok
  BY DEF Accepted, Sealed
<1>2. /\ from.dir \in DOMAIN dc' /\ from.mhz \in DOMAIN dc'[from.dir].points
      /\ dc'[from.dir].points[from.mhz].output = dc[from.dir].points[from.mhz].output
      /\ dc'[from.dir].points[from.mhz].ok
  BY <1>1 DEF DcGrows, Point
<1> QED BY <1>1, <1>2 DEF Accepted, Sealed

LEMMA RouteSoundStays ==
  ASSUME DcGrows, NEW dir, NEW run, RouteSound(dir, run, dc)
  PROVE  RouteSound(dir, run, dc')
  BY AcceptedStays DEF RouteSound

(* A marked run stays as it is.                                            *)
LEMMA MarkedStays ==
  ASSUME Traced, RoutesGrow, NEW source \in DOMAIN pnr, pnr[source].ok
  PROVE  /\ source \in DOMAIN pnr' /\ pnr'[source].ok
         /\ pnr[source].input # None /\ pnr'[source].input = pnr[source].input
         /\ pnr'[source].ledger = pnr[source].ledger
<1>1. pnr[source].input # None
  BY DEF Traced, RouteTraced, Tied, Imported
<1> QED BY <1>1 DEF RoutesGrow

LEMMA TimeSoundStays ==
  ASSUME Traced, RoutesGrow, NEW dir, NEW run, TimeTraced(run, pnr), TimeSound(dir, run, pnr)
  PROVE  TimeSound(dir, run, pnr')
<1> DEFINE source == run.input.source
<1>1. source \in DOMAIN pnr /\ pnr[source].ok
  BY DEF TimeTraced
<1>2. pnr'[source].input = pnr[source].input /\ pnr'[source].ledger = pnr[source].ledger
  BY <1>1, MarkedStays
<1> QED BY <1>2 DEF TimeSound

(* A process whose directory is left alone, or is altered.                 *)
LEMMA SynthesisingStays ==
  ASSUME Fenced, DcGrows, NEW p \in Proc, Synthesising(p), proc'[p] = proc[p], UNCHANGED tree,
         Supplied => Supplied',
         proc[p].pc \in DcSteps => dc'[Dir(p)].input = dc[Dir(p)].input,
         proc[p].pc = "dc_seal" => dc'[Dir(p)].points[proc[p].mhz].mapped = dc[Dir(p)].points[proc[p].mhz].mapped
  PROVE  Synthesising(p)'
<1>1. proc[p].pc = "dc_mark" => dc'[Dir(p)].points[proc[p].mhz].output # None
  <2> SUFFICES ASSUME proc[p].pc = "dc_mark" PROVE dc'[Dir(p)].points[proc[p].mhz].output # None
    OBVIOUS
  <2>1. Dir(p) \in DOMAIN dc /\ proc[p].mhz \in DOMAIN dc[Dir(p)].points
    BY DEF Fenced, DcOwned, DcOwn, DcSteps
  <2>2. dc[Dir(p)].points[proc[p].mhz].output # None
    BY DEF Synthesising
  <2> QED BY <2>1, <2>2 DEF DcGrows, Point
<1>2. Dir(p)' = Dir(p) /\ Now(Dir(p).line[2])' = Now(Dir(p).line[2])
  BY DEF Dir, Now
<1> QED BY <1>1, <1>2 DEF Synthesising

LEMMA PlacingStays ==
  ASSUME DcGrows, NEW p \in Proc, PlacingRouting(p), proc'[p] = proc[p], UNCHANGED tree,
         proc[p].pc \in {"pnr_record", "pnr_mark"} => /\ pnr'[Dir(p)].orfs = pnr[Dir(p)].orfs
                                                      /\ pnr'[Dir(p)].ledger = pnr[Dir(p)].ledger,
         proc[p].pc = "pnr_record" => pnr'[Dir(p)].handoff = pnr[Dir(p)].handoff
  PROVE  PlacingRouting(p)'
<1>1. Dir(p)' = Dir(p) /\ Now(Dir(p).line[2])' = Now(Dir(p).line[2])
  BY DEF Dir, Now
<1>2. proc[p].pc \in {"pnr_open", "pnr_stage"} => Accepted(Now(Dir(p).line[2]), proc[p].from, Dir(p), dc')
  BY AcceptedStays DEF PlacingRouting
<1> QED BY <1>1, <1>2 DEF PlacingRouting, Routed

LEMMA RecoveringStays ==
  ASSUME Traced, RoutesGrow, NEW p \in Proc, Recovering(p), proc'[p] = proc[p],
         proc[p].pc = "rec_record" => pnr'[Dir(p)].orfs = pnr[Dir(p)].orfs
  PROVE  Recovering(p)'
<1>1. Dir(p)' = Dir(p)
  BY DEF Dir
<1>2. proc[p].pc = "rec_open" => proc[p].source \in DOMAIN pnr
  BY DEF Traced, Doing, Awaiting
<1>3. \A source \in DOMAIN pnr : pnr[source].orfs # None =>
        source \in DOMAIN pnr' /\ pnr'[source].orfs = pnr[source].orfs
  BY DEF RoutesGrow
<1> QED BY <1>1, <1>2, <1>3 DEF Recovering

LEMMA TimingStays ==
  ASSUME Traced, RoutesGrow, NEW p \in Proc, Timing(p), proc'[p] = proc[p], UNCHANGED tree
  PROVE  Timing(p)'
<1>1. Dir(p)' = Dir(p) /\ Now(Dir(p).line[2])' = Now(Dir(p).line[2])
  BY DEF Dir, Now
<1> SUFFICES ASSUME proc[p].pc = "sta_open" PROVE Timing(p)'
  BY DEF Timing
<1>2. proc[p].source \in DOMAIN pnr /\ pnr[proc[p].source].ok
  BY DEF Traced, Doing, Awaiting
<1>3. /\ pnr'[proc[p].source].input = pnr[proc[p].source].input
      /\ pnr'[proc[p].source].ledger = pnr[proc[p].source].ledger
  BY <1>2, MarkedStays
<1> QED BY <1>1, <1>3 DEF Timing

LEMMA KnowsStays ==
  ASSUME Fenced, Traced, DcGrows, RoutesGrow, NEW p \in Proc, Knows(p), proc'[p] = proc[p], UNCHANGED tree,
         Supplied => Supplied',
         proc[p].pc \in DcSteps => dc'[Dir(p)].input = dc[Dir(p)].input,
         proc[p].pc = "dc_seal" => dc'[Dir(p)].points[proc[p].mhz].mapped = dc[Dir(p)].points[proc[p].mhz].mapped,
         proc[p].pc \in PnrSteps => /\ pnr'[Dir(p)].orfs = pnr[Dir(p)].orfs
                                    /\ pnr'[Dir(p)].ledger = pnr[Dir(p)].ledger,
         proc[p].pc = "pnr_record" => pnr'[Dir(p)].handoff = pnr[Dir(p)].handoff
  PROVE  Knows(p)'
<1>1. Named(p)'
  BY DEF Knows, Named, Dir
<1>2. Synthesising(p)'
  BY SynthesisingStays DEF Knows
<1>3. PlacingRouting(p)'
  BY PlacingStays DEF Knows, PnrSteps
<1>4. Recovering(p)'
  BY RecoveringStays DEF Knows, PnrSteps
<1>5. Timing(p)'
  BY TimingStays DEF Knows
<1> QED BY <1>1, <1>2, <1>3, <1>4, <1>5 DEF Knows

-----------------------------------------------------------------------------
(***************************************************************************)
(* The sealed runs.                                                        *)
(***************************************************************************)

(* No directory is marked by this step, but perhaps these.                 *)
DcSteady(but) ==
  \A dir \in DOMAIN dc' : \A f \in DOMAIN dc'[dir].points :
    Point(dir, f)'.ok /\ <<dir, f>> \notin but =>
      dir \in DOMAIN dc /\ f \in DOMAIN dc[dir].points /\ Point(dir, f).ok
RoutesSteady(but) == \A dir \in DOMAIN pnr' \ but : pnr'[dir].ok => dir \in DOMAIN pnr /\ pnr[dir].ok
TimesSteady(but) == \A dir \in DOMAIN sta' \ but : sta'[dir].ok => dir \in DOMAIN sta /\ sta[dir].ok

LEMMA DcRunsStay ==
  ASSUME Handed, DcGrows
  PROVE  \A dir \in DOMAIN dc : \A f \in DOMAIN dc[dir].points : Point(dir, f).ok =>
           /\ dir \in DOMAIN dc' /\ f \in DOMAIN dc'[dir].points /\ Point(dir, f)'.ok
           /\ Point(dir, f)'.output = Point(dir, f).output
<1> SUFFICES ASSUME NEW dir \in DOMAIN dc, NEW f \in DOMAIN dc[dir].points, dc[dir].points[f].ok
             PROVE  /\ dir \in DOMAIN dc' /\ f \in DOMAIN dc'[dir].points /\ dc'[dir].points[f].ok
                    /\ dc'[dir].points[f].output = dc[dir].points[f].output
  BY DEF Point
<1>1. dc[dir].points[f].output # None
  BY DEF Handed, MatrixSound
<1> QED BY <1>1 DEF DcGrows, Point

LEMMA DcRunsGrow ==
  ASSUME Handed, DcGrows, NEW but, DcSteady(but),
         NEW new, \A x : x \in new <=> \E y \in but :
           /\ y[1] \in DOMAIN dc' /\ y[2] \in DOMAIN dc'[y[1]].points /\ Point(y[1], y[2])'.ok
           /\ x = DcRun(y[1], y[2], Point(y[1], y[2])'.output)
  PROVE  DcRuns' = DcRuns \cup new
<1>1. ASSUME NEW x
      PROVE  x \in DcRuns <=> \E dir \in DOMAIN dc : \E f \in DOMAIN dc[dir].points :
                                Point(dir, f).ok /\ x = DcRun(dir, f, Point(dir, f).output)
  BY DEF DcRuns, DcDone
<1>2. ASSUME NEW x
      PROVE  x \in DcRuns' <=> \E dir \in DOMAIN dc' : \E f \in DOMAIN dc'[dir].points :
                                 Point(dir, f)'.ok /\ x = DcRun(dir, f, Point(dir, f)'.output)
  BY DEF DcRuns, DcDone
<1>3. ASSUME NEW x \in DcRuns PROVE x \in DcRuns'
  BY <1>1, <1>2, DcRunsStay
<1>4. ASSUME NEW x \in new PROVE x \in DcRuns'
  BY <1>2
<1>5. ASSUME NEW x \in DcRuns' PROVE x \in DcRuns \cup new
  <2>1. PICK dir \in DOMAIN dc' : \E f \in DOMAIN dc'[dir].points :
               Point(dir, f)'.ok /\ x = DcRun(dir, f, Point(dir, f)'.output)
    BY <1>2
  <2>2. PICK f \in DOMAIN dc'[dir].points :
               Point(dir, f)'.ok /\ x = DcRun(dir, f, Point(dir, f)'.output)
    BY <2>1
  <2>3. CASE <<dir, f>> \in but
    BY <2>2, <2>3
  <2>4. CASE <<dir, f>> \notin but
    <3>1. dir \in DOMAIN dc /\ f \in DOMAIN dc[dir].points /\ Point(dir, f).ok
      BY <2>2, <2>4 DEF DcSteady
    <3>2. Point(dir, f)'.output = Point(dir, f).output
      BY <3>1, DcRunsStay
    <3> QED BY <1>1, <2>2, <3>1, <3>2
  <2> QED BY <2>3, <2>4
<1> QED BY <1>3, <1>4, <1>5

LEMMA PnrRunsGrow ==
  ASSUME Traced, RoutesGrow, NEW but, RoutesSteady(but),
         NEW new, \A x : x \in new <=> \E y \in but : y \in DOMAIN pnr' /\ pnr'[y].ok /\ x = PnrRun(y, pnr'[y])
  PROVE  PnrRuns' = PnrRuns \cup new
<1>1. ASSUME NEW dir \in DOMAIN pnr, pnr[dir].ok
      PROVE  dir \in DOMAIN pnr' /\ pnr'[dir].ok /\ PnrRun(dir, pnr'[dir]) = PnrRun(dir, pnr[dir])
  BY <1>1, MarkedStays DEF PnrRun
<1>2. PnrRuns' = {PnrRun(dir, pnr'[dir]) : dir \in {d \in DOMAIN pnr' : pnr'[d].ok}}
  BY DEF PnrRuns
<1>3. ASSUME NEW x \in PnrRuns PROVE x \in PnrRuns'
  BY <1>1, <1>2 DEF PnrRuns
<1>4. ASSUME NEW x \in new PROVE x \in PnrRuns'
  BY <1>2
<1>5. ASSUME NEW x \in PnrRuns' PROVE x \in PnrRuns \cup new
  <2>1. PICK dir \in DOMAIN pnr' : pnr'[dir].ok /\ x = PnrRun(dir, pnr'[dir])
    BY <1>2
  <2>2. CASE dir \in but
    BY <2>1, <2>2
  <2>3. CASE dir \notin but
    <3>1. dir \in DOMAIN pnr /\ pnr[dir].ok
      BY <2>1, <2>3 DEF RoutesSteady
    <3> QED BY <1>1, <2>1, <3>1 DEF PnrRuns
  <2> QED BY <2>2, <2>3
<1> QED BY <1>3, <1>4, <1>5

LEMMA StaRunsGrow ==
  ASSUME TimesGrow, NEW but, TimesSteady(but),
         NEW new, \A x : x \in new <=> \E y \in but : y \in DOMAIN sta' /\ sta'[y].ok /\ x = StaRun(y, sta'[y])
  PROVE  StaRuns' = StaRuns \cup new
<1>1. ASSUME NEW dir \in DOMAIN sta, sta[dir].ok
      PROVE  dir \in DOMAIN sta' /\ sta'[dir].ok /\ StaRun(dir, sta'[dir]) = StaRun(dir, sta[dir])
  BY <1>1 DEF StaRun, TimesGrow
<1>2. StaRuns' = {StaRun(dir, sta'[dir]) : dir \in {d \in DOMAIN sta' : sta'[d].ok}}
  BY DEF StaRuns
<1>3. ASSUME NEW x \in StaRuns PROVE x \in StaRuns'
  BY <1>1, <1>2 DEF StaRuns
<1>4. ASSUME NEW x \in new PROVE x \in StaRuns'
  BY <1>2
<1>5. ASSUME NEW x \in StaRuns' PROVE x \in StaRuns \cup new
  <2>1. PICK dir \in DOMAIN sta' : sta'[dir].ok /\ x = StaRun(dir, sta'[dir])
    BY <1>2
  <2>2. CASE dir \in but
    BY <2>1, <2>2
  <2>3. CASE dir \notin but
    <3>1. dir \in DOMAIN sta /\ sta[dir].ok
      BY <2>1, <2>3 DEF TimesSteady
    <3> QED BY <1>1, <2>1, <3>1 DEF StaRuns
  <2> QED BY <2>2, <2>3
<1> QED BY <1>3, <1>4, <1>5

(* A step that marks no directory seals no run.                            *)
LEMMA NothingSealed ==
  ASSUME Handed, Traced, DcGrows, RoutesGrow, TimesGrow, DcSteady({}), RoutesSteady({}), TimesSteady({})
  PROVE  SealedRuns' = SealedRuns
<1>1. DcRuns' = DcRuns \cup {}
  BY DcRunsGrow
<1>2. PnrRuns' = PnrRuns \cup {}
  BY PnrRunsGrow
<1>3. StaRuns' = StaRuns \cup {}
  BY StaRunsGrow
<1> QED BY <1>1, <1>2, <1>3 DEF SealedRuns

-----------------------------------------------------------------------------
(***************************************************************************)
(* A step of one process on one directory.                                 *)
(***************************************************************************)

LEMMA StockedStays ==
  ASSUME Stocked, NEW p \in Proc, \A q \in Proc \ {p} : proc'[q] = proc[q], UNCHANGED <<tree, sram, lc>>,
         proc'[p].pc \notin {"sram_views", "lc_tool"}
  PROVE  Stocked' /\ (Supplied => Supplied')
<1>1. Supplied => Supplied'
  BY DEF Supplied, Databases, t
<1>2. \A q \in Proc :
        /\ At(q, "sram_views")' => sram' # None /\ sram'.manifest = None
        /\ At(q, "lc_tool")' => /\ lc' # None /\ lc'.manifest = None
                                /\ DOMAIN sram'.manifest.macros = DOMAIN macros(t)'
  BY DEF Stocked, At, t, macros, memory_data
<1>3. \A q, r \in Proc : proc'[q].pc = proc'[r].pc /\ proc'[q].pc \in {"sram_views", "lc_tool"} => q = r
  BY DEF Stocked
<1> QED BY <1>1, <1>2, <1>3 DEF Stocked

LEMMA RestFrame ==
  ASSUME Fenced, Traced, Handed, NEW p \in Proc, \A q \in Proc \ {p} : proc'[q] = proc[q],
         UNCHANGED <<tree, dc, pnr, sta>>, faults' \in 0 .. MaxFaults, Stocked', Supplied => Supplied',
         Knows(p)'
  PROVE  Handed' /\ TimesGrow /\ SealedRuns' = SealedRuns
<1>1. DcGrows /\ RoutesGrow /\ TimesGrow
  BY SameDc, SameRoutes DEF TimesGrow
<1>2. DcSteady({}) /\ RoutesSteady({}) /\ TimesSteady({})
  BY DEF DcSteady, RoutesSteady, TimesSteady, Point
<1>3. \A q \in Proc : Knows(q)'
  <2> TAKE q \in Proc
  <2>1. CASE q # p
    BY <1>1, <2>1, KnowsStays DEF Handed
  <2> QED BY <2>1
<1>4. Handed'
  BY <1>3 DEF Handed
<1> QED BY <1>1, <1>2, <1>4, NothingSealed

LEMMA DcFrame ==
  ASSUME Fenced, Traced, Handed, NEW p \in Proc, \A q \in Proc \ {p} : proc'[q] = proc[q],
         UNCHANGED <<tree, sram, lc, pnr, sta, faults>>, DcGrows,
         NEW dir, \A x \in DOMAIN dc' \ {dir} : x \in DOMAIN dc /\ dc'[x] = dc[x],
         dir \notin DOMAIN dc \/ (proc[p].pc \in DcSteps /\ Dir(p) = dir),
         dir \in DOMAIN dc' => MatrixSound(dir, dc'[dir]),
         proc'[p].pc \notin {"sram_views", "lc_tool"}, Knows(p)'
  PROVE  /\ Handed' /\ TimesGrow /\ RoutesGrow
         /\ (\A f \in DOMAIN dc'[dir].points : dc'[dir].points[f].ok =>
               dir \in DOMAIN dc /\ f \in DOMAIN dc[dir].points /\ dc[dir].points[f].ok)
            => SealedRuns' = SealedRuns
<1>1. RoutesGrow /\ TimesGrow
  BY SameRoutes DEF TimesGrow
<1>2. Stocked' /\ (Supplied => Supplied')
  BY StockedStays DEF Handed
<1>3. \A q \in Proc : Knows(q)'
  <2> TAKE q \in Proc
  <2>1. CASE q # p
    <3>1. proc[q].pc \in DcSteps => Dir(q) \in DOMAIN dc /\ Dir(q) # dir
      BY <2>1 DEF Fenced, DcOwned, Apart
    <3>2. proc[q].pc \in DcSteps => dc'[Dir(q)] = dc[Dir(q)]
      BY <3>1 DEF DcGrows
    <3> QED BY <1>1, <1>2, <2>1, <3>2, KnowsStays DEF Handed, DcSteps
  <2> QED BY <2>1
<1>4. \A x \in DOMAIN dc' : MatrixSound(x, dc'[x])
  BY DEF Handed
<1>5. \A x \in DOMAIN pnr' : RouteSound(x, pnr'[x], dc')
  BY RouteSoundStays DEF Handed
<1>6. Handed'
  BY <1>2, <1>3, <1>4, <1>5 DEF Handed
<1>7. ASSUME \A f \in DOMAIN dc'[dir].points : dc'[dir].points[f].ok =>
               dir \in DOMAIN dc /\ f \in DOMAIN dc[dir].points /\ dc[dir].points[f].ok
      PROVE  SealedRuns' = SealedRuns
  <2>1. DcSteady({})
    <3> SUFFICES ASSUME NEW x \in DOMAIN dc', NEW f \in DOMAIN dc'[x].points, dc'[x].points[f].ok
                 PROVE  x \in DOMAIN dc /\ f \in DOMAIN dc[x].points /\ dc[x].points[f].ok
      BY DEF DcSteady, Point
    <3>1. CASE x = dir
      BY <1>7, <3>1
    <3>2. CASE x # dir
      BY <3>2
    <3> QED BY <3>1, <3>2
  <2>2. RoutesSteady({}) /\ TimesSteady({})
    BY DEF RoutesSteady, TimesSteady
  <2> QED BY <1>1, <2>1, <2>2, NothingSealed
<1> QED BY <1>1, <1>6, <1>7

LEMMA RouteFrame ==
  ASSUME Fenced, Traced, Handed, NEW p \in Proc, \A q \in Proc \ {p} : proc'[q] = proc[q],
         UNCHANGED <<tree, sram, lc, dc, sta, faults>>, RoutesGrow,
         NEW dir, \A x \in DOMAIN pnr' \ {dir} : x \in DOMAIN pnr /\ pnr'[x] = pnr[x],
         dir \notin DOMAIN pnr \/ (proc[p].pc \in PnrSteps /\ Dir(p) = dir),
         RouteSound(dir, pnr'[dir], dc),
         proc'[p].pc \notin {"sram_views", "lc_tool"}, Knows(p)'
  PROVE  /\ Handed' /\ TimesGrow
         /\ pnr'[dir].ok = FALSE => SealedRuns' = SealedRuns
<1>1. DcGrows /\ TimesGrow
  BY SameDc DEF TimesGrow
<1>2. Stocked' /\ (Supplied => Supplied')
  BY StockedStays DEF Handed
<1>3. \A q \in Proc : Knows(q)'
  <2> TAKE q \in Proc
  <2>1. CASE q # p
    <3>1. proc[q].pc \in PnrSteps => Dir(q) \in DOMAIN pnr /\ Dir(q) # dir
      BY <2>1 DEF Fenced, PnrOwned, Apart
    <3>2. proc[q].pc \in PnrSteps => pnr'[Dir(q)] = pnr[Dir(q)]
      BY <3>1 DEF RoutesGrow
    <3> QED BY <1>1, <1>2, <2>1, <3>2, KnowsStays DEF Handed, PnrSteps
  <2> QED BY <2>1
<1>4. \A x \in DOMAIN pnr' : RouteSound(x, pnr'[x], dc')
  BY DEF Handed
<1>5. \A x \in DOMAIN sta' : TimeSound(x, sta'[x], pnr')
  BY TimeSoundStays DEF Handed, Traced
<1>6. Handed'
  BY <1>2, <1>3, <1>4, <1>5 DEF Handed
<1>7. ASSUME pnr'[dir].ok = FALSE PROVE SealedRuns' = SealedRuns
  <2>1. RoutesSteady({})
    BY <1>7 DEF RoutesSteady
  <2>2. DcSteady({}) /\ TimesSteady({})
    BY DEF DcSteady, TimesSteady, Point
  <2> QED BY <1>1, <2>1, <2>2, NothingSealed
<1> QED BY <1>1, <1>6, <1>7

LEMMA TimeFrame ==
  ASSUME Fenced, Traced, Handed, NEW p \in Proc, \A q \in Proc \ {p} : proc'[q] = proc[q],
         UNCHANGED <<tree, sram, lc, dc, pnr, faults>>,
         NEW dir, DOMAIN sta' = DOMAIN sta \cup {dir}, \A x \in DOMAIN sta \ {dir} : sta'[x] = sta[x],
         dir \in DOMAIN sta => /\ sta'[dir].input = sta[dir].input
                               /\ sta[dir].ok => sta'[dir].ok,
         TimeSound(dir, sta'[dir], pnr),
         proc'[p].pc \notin {"sram_views", "lc_tool"}, Knows(p)'
  PROVE  /\ Handed' /\ TimesGrow
         /\ (sta'[dir].ok => dir \in DOMAIN sta /\ sta[dir].ok) => SealedRuns' = SealedRuns
<1>1. DcGrows /\ RoutesGrow /\ TimesGrow
  BY SameDc, SameRoutes DEF TimesGrow
<1>2. Stocked' /\ (Supplied => Supplied')
  BY StockedStays DEF Handed
<1>3. \A q \in Proc : Knows(q)'
  <2> TAKE q \in Proc
  <2>1. CASE q # p
    BY <1>1, <1>2, <2>1, KnowsStays DEF Handed
  <2> QED BY <2>1
<1>4. \A x \in DOMAIN sta' : TimeSound(x, sta'[x], pnr')
  BY DEF Handed
<1>5. Handed'
  BY <1>2, <1>3, <1>4 DEF Handed
<1>6. ASSUME sta'[dir].ok => dir \in DOMAIN sta /\ sta[dir].ok PROVE SealedRuns' = SealedRuns
  <2>1. TimesSteady({})
    BY <1>6 DEF TimesSteady
  <2>2. DcSteady({}) /\ RoutesSteady({})
    BY DEF DcSteady, RoutesSteady, Point
  <2> QED BY <1>1, <2>1, <2>2, NothingSealed
<1> QED BY <1>1, <1>5, <1>6

-----------------------------------------------------------------------------
(***************************************************************************)
(* Macro views and databases: each made once.                              *)
(***************************************************************************)

LEMMA NotNone ==
  ASSUME NoneIsNoRecord, NEW r, r = [x \in DOMAIN r |-> r[x]]
  PROVE  r # None
<1> DEFINE S == DOMAIN r
           T == {r[x] : x \in S}
<1>1. r \in [S -> T]
  OBVIOUS
<1> HIDE DEF S, T
<1>2. None \notin [S -> T]
  BY DEF NoneIsNoRecord
<1> QED BY <1>1, <1>2

(* A process that waits, or works in no directory of a stage.              *)
LEMMA Unknowing ==
  ASSUME NEW p \in Proc, proc'[p].pc \notin OpenSteps \cup Working, "dir" \notin DOMAIN proc'[p]
  PROVE  Knows(p)'
<1>1. Named(p)'
  BY DEF Named, OpenSteps
<1>2. Synthesising(p)' /\ PlacingRouting(p)' /\ Recovering(p)' /\ Timing(p)'
  BY DEF Synthesising, PlacingRouting, Recovering, Timing, OpenSteps, Working, DcSteps, PnrSteps
<1> QED BY <1>1, <1>2 DEF Knows

LEMMA IdleKnows ==
  ASSUME Fenced, NEW p \in Proc, Become(p, Idle)
  PROVE  /\ Knows(p)' /\ proc'[p].pc = "idle" /\ \A q \in Proc \ {p} : proc'[q] = proc[q]
<1>1. proc'[p] = Idle /\ \A q \in Proc \ {p} : proc'[q] = proc[q]
  BY Becomes
<1>2. Idle.pc \notin OpenSteps \cup Working /\ "dir" \notin DOMAIN Idle
  BY DEF Idle, OpenSteps, Working, DcSteps, PnrSteps, StaSteps
<1> QED BY <1>1, <1>2, Unknowing, IdleFacts

LEMMA MacroFrame ==
  ASSUME Fenced, Traced, Handed, NEW p \in Proc, proc[p].pc \in {"idle", "sram_views", "lc_tool"},
         NEW doing, Become(p, doing),
         doing \in {Idle, [pc |-> "sram_views"], [pc |-> "lc_tool"]},
         UNCHANGED <<tree, dc, pnr, sta, faults>>,
         (/\ proc'[p] = doing /\ \A q \in Proc \ {p} : proc'[q] = proc[q]) => Stocked',
         Supplied => Supplied'
  PROVE  Handed' /\ TimesGrow /\ SealedRuns' = SealedRuns
<1>1. proc'[p] = doing /\ \A q \in Proc \ {p} : proc'[q] = proc[q]
  BY Becomes
<1>2. doing.pc \notin OpenSteps \cup Working /\ "dir" \notin DOMAIN doing
  BY DEF Idle, OpenSteps, Working, DcSteps, PnrSteps, StaSteps
<1>3. Knows(p)'
  BY <1>1, <1>2, Unknowing
<1> QED BY <1>1, <1>3, RestFrame DEF Handed

LEMMA SramOpenHands ==
  ASSUME NoneIsNoRecord, Fenced, Traced, Handed, NEW p \in Proc, SramOpen(p)
  PROVE  Handed' /\ TimesGrow /\ SealedRuns' = SealedRuns
<1> DEFINE doing == [pc |-> "sram_views"]
           empty == [views |-> <<>>, manifest |-> None]
<1>1. /\ proc[p].pc = "idle" /\ sram = None /\ sram' = empty /\ Become(p, doing)
      /\ UNCHANGED <<tree, lc, dc, pnr, sta, faults>>
  BY DEF SramOpen, At
<1>2. empty # None /\ DOMAIN empty = {"views", "manifest"} /\ empty.manifest = None
  BY NotNone
<1>3. doing.pc = "sram_views"
  OBVIOUS
<1>4. lc = None /\ \A q \in Proc : proc[q].pc \notin {"sram_views", "lc_tool"}
  BY <1>1 DEF Handed, Stocked, At
<1> HIDE DEF doing, empty
<1>5. ASSUME proc'[p] = doing, \A q \in Proc \ {p} : proc'[q] = proc[q]
      PROVE  Stocked'
  BY <1>1, <1>2, <1>3, <1>4, <1>5 DEF Stocked, At
<1>6. Supplied => Supplied'
  BY <1>1, <1>4 DEF Supplied, Databases, t
<1> QED BY <1>1, <1>5, <1>6, MacroFrame DEF doing

LEMMA SramViewHands ==
  ASSUME NoneIsNoRecord, Fenced, Traced, Handed, NEW p \in Proc, SramView(p)
  PROVE  Handed' /\ TimesGrow /\ SealedRuns' = SealedRuns
<1>1. proc[p].pc = "sram_views" /\ UNCHANGED <<tree, lc, dc, pnr, sta, faults>>
  BY DEF SramView, At
<1>2. /\ sram # None /\ sram.manifest = None /\ DOMAIN sram = {"views", "manifest"} /\ lc = None
      /\ \A q \in Proc \ {p} : proc[q].pc # "sram_views"
      /\ \A q \in Proc : proc[q].pc # "lc_tool"
  BY <1>1 DEF Handed, Stocked, At
<1>3. Supplied => Supplied'
  BY <1>1 DEF Supplied, Databases, t
<1>4. \/ Become(p, Idle) /\ UNCHANGED sram
      \/ UNCHANGED proc /\ \E views : sram' = [sram EXCEPT !.views = views]
  BY DEF SramView
<1>5. CASE Become(p, Idle) /\ UNCHANGED sram
  <2>1. ASSUME proc'[p] = Idle, \A q \in Proc \ {p} : proc'[q] = proc[q]
        PROVE  Stocked'
    BY <1>1, <1>2, <1>5, <2>1, IdleFacts DEF Stocked, At
  <2> QED BY <1>1, <1>3, <1>5, <2>1, MacroFrame
<1>6. CASE UNCHANGED proc /\ \E views : sram' = [sram EXCEPT !.views = views]
  <2>1. PICK views : sram' = [sram EXCEPT !.views = views]
    BY <1>6
  <2>2. sram' # None /\ DOMAIN sram' = {"views", "manifest"} /\ sram'.manifest = None
    BY <1>2, <2>1, NotNone
  <2>3. Stocked'
    BY <1>1, <1>2, <1>6, <2>2 DEF Stocked, At
  <2>4. Knows(p)'
    <3>1. "dir" \notin DOMAIN proc[p] /\ proc[p].pc \notin OpenSteps \cup Working
      BY <1>1 DEF Handed, Knows, Named, OpenSteps, Working, DcSteps, PnrSteps, StaSteps
    <3> QED BY <1>6, <3>1, Unknowing
  <2> QED BY <1>1, <1>3, <1>6, <2>3, <2>4, RestFrame DEF Handed
<1> QED BY <1>4, <1>5, <1>6

LEMMA SramSealHands ==
  ASSUME NoneIsNoRecord, Fenced, Traced, Handed, NEW p \in Proc, SramSeal(p)
  PROVE  Handed' /\ TimesGrow /\ SealedRuns' = SealedRuns
<1> DEFINE manifest == [revision |-> SramMatrix.revision, macros |-> sram.views]
<1>1. /\ proc[p].pc = "sram_views" /\ Become(p, Idle) /\ sram' = [sram EXCEPT !.manifest = manifest]
      /\ UNCHANGED <<tree, lc, dc, pnr, sta, faults>>
  BY DEF SramSeal, At
<1>2. /\ sram # None /\ sram.manifest = None /\ DOMAIN sram = {"views", "manifest"} /\ lc = None
      /\ \A q \in Proc \ {p} : proc[q].pc # "sram_views"
      /\ \A q \in Proc : proc[q].pc # "lc_tool"
  BY <1>1 DEF Handed, Stocked, At
<1>3. DOMAIN sram' = {"views", "manifest"}
  BY <1>1, <1>2
<1>4. Supplied => Supplied'
  BY <1>1 DEF Supplied, Databases, t
<1>5. ASSUME proc'[p] = Idle, \A q \in Proc \ {p} : proc'[q] = proc[q]
      PROVE  Stocked'
  BY <1>1, <1>2, <1>3, <1>5, IdleFacts DEF Stocked, At
<1> QED BY <1>1, <1>4, <1>5, MacroFrame

LEMMA LcOpenHands ==
  ASSUME NoneIsNoRecord, Fenced, Traced, Handed, NEW p \in Proc, LcOpen(p)
  PROVE  Handed' /\ TimesGrow /\ SealedRuns' = SealedRuns
<1> DEFINE doing == [pc |-> "lc_tool"]
           empty == [dbs |-> <<>>, manifest |-> None]
<1>1. /\ proc[p].pc = "idle" /\ lc = None /\ lc' = empty /\ Become(p, doing) /\ t.memory_mode = "sram"
      /\ load_sram_handoff
      /\ UNCHANGED <<tree, sram, dc, pnr, sta, faults>>
  BY DEF LcOpen, At
<1>2. sram # None /\ sram.manifest # None /\ DOMAIN sram.manifest.macros = DOMAIN macros(t)
  BY <1>1 DEF load_sram_handoff
<1>3. empty # None /\ DOMAIN empty = {"dbs", "manifest"} /\ empty.manifest = None /\ empty.dbs = <<>>
  BY NotNone
<1>4. Compiled(<<>>, sram.manifest)
  BY DEF Compiled
<1>5. doing.pc = "lc_tool"
  OBVIOUS
<1>6. \A q \in Proc : proc[q].pc \notin {"sram_views", "lc_tool"}
  BY <1>1, <1>2 DEF Handed, Stocked, At
<1>7. DOMAIN sram = {"views", "manifest"}
  BY <1>2 DEF Handed, Stocked
<1> HIDE DEF doing, empty
<1>8. ASSUME proc'[p] = doing, \A q \in Proc \ {p} : proc'[q] = proc[q]
      PROVE  Stocked'
  BY <1>1, <1>2, <1>3, <1>4, <1>5, <1>6, <1>7, <1>8 DEF Stocked, At, t, macros, memory_data
<1>9. ~Supplied
  BY <1>1 DEF Supplied
<1> QED BY <1>1, <1>8, <1>9, MacroFrame DEF doing

(* What a process in lc-macros starts from.                                *)
LEMMA LcHas ==
  ASSUME Fenced, Handed, NEW p \in Proc, proc[p].pc = "lc_tool"
  PROVE  /\ lc # None /\ lc.manifest = None /\ DOMAIN lc = {"dbs", "manifest"}
         /\ sram # None /\ sram.manifest # None /\ DOMAIN sram = {"views", "manifest"}
         /\ DOMAIN sram.manifest.macros = DOMAIN macros(t) /\ Compiled(lc.dbs, sram.manifest)
         /\ \A q \in Proc \ {p} : proc[q].pc # "lc_tool"
         /\ \A q \in Proc : proc[q].pc # "sram_views"
         /\ "dir" \notin DOMAIN proc[p] /\ proc[p].pc \notin OpenSteps \cup Working
<1>1. "dir" \notin DOMAIN proc[p] /\ proc[p].pc \notin OpenSteps \cup Working
  BY DEF Handed, Knows, Named, OpenSteps, Working, DcSteps, PnrSteps, StaSteps
<1> QED BY <1>1 DEF Handed, Stocked, At

LEMMA SuppliedStays ==
  ASSUME UNCHANGED tree, lc.manifest = None
  PROVE  Supplied => Supplied'
  BY DEF Supplied, Databases, t

LEMMA LcToolHands ==
  ASSUME NoneIsNoRecord, Fenced, Traced, Handed, NEW p \in Proc, LcTool(p)
  PROVE  Handed' /\ TimesGrow /\ SealedRuns' = SealedRuns
<1>1. proc[p].pc = "lc_tool" /\ UNCHANGED <<tree, sram, dc, pnr, sta, faults>>
  BY DEF LcTool, At
<1>2. Supplied => Supplied'
  BY <1>1, LcHas, SuppliedStays
<1>3. \/ Become(p, Idle) /\ UNCHANGED lc
      \/ UNCHANGED proc /\ \E m \in DOMAIN macros(t) :
           lc' = [lc EXCEPT !.dbs = Entered(@, m, sram.manifest.macros[m].timing)]
  BY DEF LcTool
<1>4. CASE Become(p, Idle) /\ UNCHANGED lc
  <2>1. ASSUME proc'[p] = Idle, \A q \in Proc \ {p} : proc'[q] = proc[q]
        PROVE  Stocked'
    BY <1>1, <1>4, <2>1, IdleFacts, LcHas DEF Stocked, Handed, At, t, macros, memory_data
  <2> QED BY <1>1, <1>2, <1>4, <2>1, MacroFrame
<1>5. CASE UNCHANGED proc /\ \E m \in DOMAIN macros(t) :
             lc' = [lc EXCEPT !.dbs = Entered(@, m, sram.manifest.macros[m].timing)]
  <2>1. PICK m \in DOMAIN macros(t) : lc' = [lc EXCEPT !.dbs = Entered(@, m, sram.manifest.macros[m].timing)]
    BY <1>5
  <2> DEFINE more == Entered(lc.dbs, m, sram.manifest.macros[m].timing)
  <2>2. /\ m \in DOMAIN sram.manifest.macros /\ Compiled(lc.dbs, sram.manifest)
    BY <1>1, LcHas
  <2>3. Compiled(more, sram.manifest)
    <3> DEFINE value == sram.manifest.macros[m].timing
    <3>1. \A k \in DOMAIN lc.dbs : lc.dbs[k] = sram.manifest.macros[k].timing /\ k \in DOMAIN sram.manifest.macros
      BY <2>2 DEF Compiled
    <3>2. more = [k \in DOMAIN lc.dbs \cup {m} |-> IF k \in DOMAIN lc.dbs THEN lc.dbs[k] ELSE value]
      BY DEF Entered
    <3>3. DOMAIN more = DOMAIN lc.dbs \cup {m} /\ more = [k \in DOMAIN more |-> more[k]]
      BY <3>2
    <3>4. \A k \in DOMAIN more : more[k] = sram.manifest.macros[k].timing
      BY <3>1, <3>2, <3>3
    <3> HIDE DEF more
    <3> QED BY <2>2, <3>1, <3>3, <3>4 DEF Compiled
  <2> HIDE DEF more
  <2>4. lc' = [lc EXCEPT !.dbs = more]
    BY <2>1 DEF more
  <2>5. lc' # None /\ DOMAIN lc' = {"dbs", "manifest"} /\ lc'.manifest = None /\ lc'.dbs = more
    BY <1>1, <2>4, LcHas, NotNone
  <2>6. Stocked'
    BY <1>1, <1>5, <2>3, <2>5, LcHas DEF Stocked, At, t, macros, memory_data
  <2>7. Knows(p)'
    BY <1>1, <1>5, LcHas, Unknowing
  <2> QED BY <1>1, <1>2, <1>5, <2>6, <2>7, RestFrame DEF Handed
<1> QED BY <1>3, <1>4, <1>5

LEMMA LcManifestHands ==
  ASSUME NoneIsNoRecord, Fenced, Traced, Handed, NEW p \in Proc, LcManifest(p)
  PROVE  Handed' /\ TimesGrow /\ SealedRuns' = SealedRuns
<1> DEFINE manifest == [handoff |-> sha256(sram.manifest)]
<1>1. /\ proc[p].pc = "lc_tool" /\ Become(p, Idle) /\ lc' = [lc EXCEPT !.manifest = manifest]
      /\ DOMAIN lc.dbs = DOMAIN macros(t)
      /\ UNCHANGED <<tree, sram, dc, pnr, sta, faults>>
  BY DEF LcManifest, At
<1> HIDE DEF manifest
<1>2. DOMAIN lc' = {"dbs", "manifest"} /\ lc'.dbs = lc.dbs
  BY <1>1, LcHas
<1>3. Supplied => Supplied'
  BY <1>1, LcHas, SuppliedStays
<1>4. ASSUME proc'[p] = Idle, \A q \in Proc \ {p} : proc'[q] = proc[q]
      PROVE  Stocked'
  BY <1>1, <1>2, <1>4, IdleFacts, LcHas DEF Stocked, Handed, At
<1> QED BY <1>1, <1>3, <1>4, MacroFrame

-----------------------------------------------------------------------------
(***************************************************************************)
(* The commands start.                                                     *)
(***************************************************************************)

(* A stage that reads macros found those of its checkout.                  *)
LEMMA ReadySupplied ==
  ASSUME tree \in DOMAIN Trees, Stocked, MacrosReady
  PROVE  Supplied
<1>1. Pinned[tree] = IF t.memory_mode = "sram" THEN [m \in DOMAIN macros(t) |-> macros(t)[m].timing] ELSE <<>>
  BY DEF Pinned, t
<1>2. CASE t.memory_mode # "sram"
  BY <1>1, <1>2 DEF Supplied, Databases
<1>3. CASE t.memory_mode = "sram"
  <2>1. load_sram_handoff /\ load_macro_db_manifest
    BY <1>3 DEF MacrosReady
  <2>2. /\ DOMAIN sram.manifest.macros = DOMAIN macros(t)
        /\ \A m \in DOMAIN macros(t) : sram.manifest.macros[m].timing = macros(t)[m].timing
    BY <2>1 DEF load_sram_handoff
  <2>3. lc # None /\ lc.manifest # None
    BY <2>1 DEF load_macro_db_manifest
  <2>4. /\ lc.dbs = [m \in DOMAIN lc.dbs |-> lc.dbs[m]] /\ DOMAIN lc.dbs = DOMAIN sram.manifest.macros
        /\ \A m \in DOMAIN lc.dbs : lc.dbs[m] = sram.manifest.macros[m].timing
    BY <2>3 DEF Stocked, Compiled
  <2>5. lc.dbs = [m \in DOMAIN macros(t) |-> macros(t)[m].timing]
    BY <2>2, <2>4
  <2> QED BY <1>1, <1>3, <2>3, <2>5 DEF Supplied, Databases
<1> QED BY <1>2, <1>3

LEMMA StartFrame ==
  ASSUME Fenced, Traced, Handed, NEW p \in Proc, NEW doing, Become(p, doing),
         UNCHANGED <<tree, sram, lc, dc, pnr, sta, faults>>,
         doing.pc \notin {"sram_views", "lc_tool"},
         (proc'[p] = doing /\ (Supplied => Supplied')) => Knows(p)'
  PROVE  Handed' /\ TimesGrow /\ SealedRuns' = SealedRuns
<1>1. proc'[p] = doing /\ \A q \in Proc \ {p} : proc'[q] = proc[q]
  BY Becomes
<1>2. Stocked' /\ (Supplied => Supplied')
  BY <1>1, StockedStays DEF Handed
<1>3. Knows(p)'
  BY <1>1, <1>2
<1>4. faults' \in 0 .. MaxFaults
  BY DEF Handed
<1> QED BY <1>1, <1>2, <1>3, <1>4, RestFrame

LEMMA DcStartHands ==
  ASSUME Fenced, Traced, Handed, NEW p \in Proc, DcStart(p)
  PROVE  Handed' /\ TimesGrow /\ SealedRuns' = SealedRuns
<1>1. PICK mode \in ModeArgs, list \in FrequencyArgs, timer \in TimerArgs, id \in RunId :
        /\ Builds(mode) /\ MacrosReady
        /\ Become(p, [pc |-> "dc_open", dir |-> [line |-> Line(t, mode), id |-> id], timer |-> timer,
                      frequencies |-> Range(Requested(list, frequencies_mhz(t)))])
  BY DEF DcStart
<1> DEFINE dir == [line |-> Line(t, mode), id |-> id]
<1>2. MatrixDir(dir) /\ dir.line = Line(t, mode)
  BY DEF MatrixDir
<1>3. PICK frequencies : Become(p, [pc |-> "dc_open", dir |-> dir, timer |-> timer, frequencies |-> frequencies])
  BY <1>1
<1> HIDE DEF dir
<1> DEFINE doing == [pc |-> "dc_open", dir |-> dir, timer |-> timer, frequencies |-> frequencies]
<1>4. doing.pc = "dc_open" /\ doing.dir = dir /\ Become(p, doing)
  BY <1>3
<1> HIDE DEF doing
<1>5. Known(Now(dir.line[2]), dir)
  BY <1>1, <1>2, KnownNow DEF Fenced
<1>6. Supplied
  BY <1>1, ReadySupplied DEF Fenced, Handed
<1>7. UNCHANGED <<tree, sram, lc, dc, pnr, sta, faults>>
  BY DEF DcStart
<1>8. ASSUME proc'[p] = doing, Supplied' PROVE Knows(p)'
  <2>1. Dir(p)' = dir /\ Now(Dir(p).line[2])' = Now(dir.line[2]) /\ proc'[p].pc = "dc_open"
    BY <1>4, <1>7, <1>8 DEF Dir, Now
  <2>2. Synthesising(p)'
    BY <1>2, <1>5, <1>8, <2>1 DEF Synthesising, DcSteps
  <2>3. Named(p)' /\ PlacingRouting(p)' /\ Recovering(p)' /\ Timing(p)'
    BY <2>1 DEF Named, PlacingRouting, Recovering, Timing, OpenSteps
  <2> QED BY <2>2, <2>3 DEF Knows
<1> QED BY <1>4, <1>6, <1>7, <1>8, StartFrame

LEMMA RecoverStartHands ==
  ASSUME Fenced, Traced, Handed, NEW p \in Proc, RecoverStart(p)
  PROVE  Handed' /\ TimesGrow /\ SealedRuns' = SealedRuns
<1>1. PICK source \in DOMAIN pnr, id \in RecoveryId :
        /\ pnr[source].orfs # None
        /\ Become(p, [pc |-> "rec_open", dir |-> [source EXCEPT !.id = id], source |-> source])
  BY DEF RecoverStart
<1> DEFINE dir == [source EXCEPT !.id = id]
<1>2. DOMAIN source = {"line", "id", "mhz"}
  BY DEF Handed, RouteSound
<1>3. DOMAIN dir = {"line", "id", "mhz"} /\ dir.line = source.line /\ dir.id = id
  BY <1>2
<1> DEFINE doing == [pc |-> "rec_open", dir |-> dir, source |-> source]
<1>4. Become(p, doing)
  BY <1>1
<1> HIDE DEF dir
<1>5. doing.pc = "rec_open" /\ doing.dir = dir /\ doing.source = source
  OBVIOUS
<1> HIDE DEF doing
<1>6. UNCHANGED <<tree, sram, lc, dc, pnr, sta, faults>>
  BY DEF RecoverStart
<1>7. ASSUME proc'[p] = doing PROVE Knows(p)'
  <2>1. Dir(p)' = dir /\ proc'[p].pc = "rec_open" /\ proc'[p].source = source
    BY <1>5, <1>7 DEF Dir
  <2>2. Named(p)'
    BY <1>3, <2>1 DEF Named, OpenSteps
  <2>3. Recovering(p)'
    BY <1>1, <1>3, <1>6, <2>1 DEF Recovering
  <2>4. Synthesising(p)' /\ PlacingRouting(p)' /\ Timing(p)'
    BY <2>1 DEF Synthesising, PlacingRouting, Timing, DcSteps
  <2> QED BY <2>2, <2>3, <2>4 DEF Knows
<1> QED BY <1>4, <1>5, <1>6, <1>7, StartFrame

LEMMA StaStartHands ==
  ASSUME Fenced, Traced, Handed, NEW p \in Proc, StaStart(p)
  PROVE  Handed' /\ TimesGrow /\ SealedRuns' = SealedRuns
<1>1. PICK mode \in ModeArgs, source \in DOMAIN pnr, id \in RunId :
        /\ Builds(mode) /\ pnr[source].input # None
        /\ require_handoff_identity(Fields(pnr[source].input.identity), IdentityOf[tree][mode])
        /\ pnr[source].ledger.routed = sha256(pnr[source].handoff)
        /\ Become(p, [pc |-> "sta_open",
                      dir |-> [line |-> Line(t, mode), id |-> id, mhz |-> pnr[source].input.mhz],
                      source |-> source, routed |-> sha256(pnr[source].handoff)])
  BY DEF StaStart
<1> DEFINE dir == [line |-> Line(t, mode), id |-> id, mhz |-> pnr[source].input.mhz]
           doing == [pc |-> "sta_open", dir |-> dir, source |-> source, routed |-> sha256(pnr[source].handoff)]
<1>2. dir.line = Line(t, mode) /\ Become(p, doing)
  BY <1>1
<1> HIDE DEF dir
<1>3. /\ doing.pc = "sta_open" /\ doing.dir = dir /\ doing.source = source
      /\ doing.routed = pnr[source].ledger.routed
  BY <1>1
<1> HIDE DEF doing
<1>4. UNCHANGED <<tree, sram, lc, dc, pnr, sta, faults>>
  BY DEF StaStart
<1> DEFINE identity == Now(dir.line[2])
<1>5. Known(identity, dir) /\ Fields(identity) = IdentityOf[tree][mode]
  BY <1>1, <1>2, KnownNow DEF Fenced
<1>6. Fields(pnr[source].input.identity) = Fields(identity)
  <2>1. Known(pnr[source].input.identity, source)
    BY <1>1 DEF Handed, RouteSound, Accepted
  <2>2. mode \in DOMAIN IdentityOf[tree] /\ tree \in DOMAIN Trees
    BY <1>1 DEF Builds, Fenced
  <2> HIDE DEF identity
  <2> QED BY <1>1, <1>5, <2>1, <2>2, SameFields DEF Known, Fields
<1>7. ASSUME proc'[p] = doing PROVE Knows(p)'
  <2>1. /\ Dir(p)' = dir /\ Now(Dir(p).line[2])' = identity
        /\ proc'[p].pc = "sta_open" /\ proc'[p].source = source /\ proc'[p].routed = pnr[source].ledger.routed
    BY <1>3, <1>4, <1>7 DEF Dir, Now
  <2> HIDE DEF identity
  <2>2. Timing(p)'
    BY <1>4, <1>5, <1>6, <2>1 DEF Timing
  <2>3. Named(p)' /\ PlacingRouting(p)' /\ Recovering(p)' /\ Synthesising(p)'
    BY <2>1 DEF Named, PlacingRouting, Recovering, Synthesising, OpenSteps, DcSteps
  <2> QED BY <2>2, <2>3 DEF Knows
<1> QED BY <1>2, <1>3, <1>4, <1>7, StartFrame

LEMMA PnrStartHands ==
  ASSUME Fenced, Traced, Handed, NEW p \in Proc, PnrStart(p)
  PROVE  Handed' /\ TimesGrow /\ SealedRuns' = SealedRuns
<1>1. PICK mode \in ModeArgs, point \in DOMAIN dc, arg \in PnrArgs, id \in RunId :
        /\ Builds(mode)
        /\ \E f \in DOMAIN dc[point].points :
             /\ Closed(Point(point, f)) /\ Point(point, f).output # None
             /\ require_handoff_identity(Fields(Point(point, f).output.identity), IdentityOf[tree][mode])
             /\ Become(p, [pc |-> "pnr_open",
                           dir |-> [line |-> Line(t, mode), id |-> id, mhz |-> pnr_mhz(arg, f)],
                           from |-> [dir |-> point, mhz |-> f], mapped |-> Point(point, f).output.mapped])
  BY SMTT(30) DEF PnrStart, validate_dc_output_record
<1>2. PICK f \in DOMAIN dc[point].points :
        /\ Closed(Point(point, f)) /\ Point(point, f).output # None
        /\ require_handoff_identity(Fields(Point(point, f).output.identity), IdentityOf[tree][mode])
        /\ Become(p, [pc |-> "pnr_open",
                      dir |-> [line |-> Line(t, mode), id |-> id, mhz |-> pnr_mhz(arg, f)],
                      from |-> [dir |-> point, mhz |-> f], mapped |-> Point(point, f).output.mapped])
  BY <1>1
<1> DEFINE dir == [line |-> Line(t, mode), id |-> id, mhz |-> pnr_mhz(arg, f)]
           from == [dir |-> point, mhz |-> f]
           output == dc[point].points[f].output
           doing == [pc |-> "pnr_open", dir |-> dir, from |-> from, mapped |-> output.mapped]
<1>3. /\ dir.line = Line(t, mode) /\ DOMAIN dir = {"line", "id", "mhz"} /\ dir.id \in RunId
      /\ from.dir = point /\ from.mhz = f
  OBVIOUS
<1>4. Become(p, doing) /\ doing.pc = "pnr_open" /\ doing.dir = dir /\ doing.from = from
  BY <1>2 DEF Point
<1> HIDE DEF dir, from, doing
<1> DEFINE identity == Now(dir.line[2])
<1>5. Known(identity, dir) /\ Fields(identity) = IdentityOf[tree][mode]
  BY <1>1, <1>3, KnownNow DEF Fenced
<1>6. output # None /\ Known(output.identity, point)
  BY <1>2 DEF Handed, MatrixSound, Certified, Point
<1>7. Fields(output.identity) = Fields(identity)
  <2>1. mode \in DOMAIN IdentityOf[tree] /\ tree \in DOMAIN Trees
    BY <1>1 DEF Builds, Fenced
  <2>2. require_handoff_identity(Fields(output.identity), IdentityOf[tree][mode])
    BY <1>2 DEF Point
  <2> HIDE DEF identity, output
  <2> QED BY <1>5, <1>6, <2>1, <2>2, SameFields DEF Known, Fields
<1>8. dc[point].points[f].ok
  BY <1>2 DEF Closed, setup_closed, completed, Point
<1>9. Accepted(identity, from, dir, dc)
  <2> HIDE DEF identity
  <2> QED BY <1>3, <1>5, <1>6, <1>7, <1>8 DEF Accepted, Sealed
<1>10. UNCHANGED <<tree, sram, lc, dc, pnr, sta, faults>>
  BY DEF PnrStart
<1>11. ASSUME proc'[p] = doing PROVE Knows(p)'
  <2>1. Dir(p)' = dir /\ Now(Dir(p).line[2])' = identity /\ proc'[p].pc = "pnr_open" /\ proc'[p].from = from
    BY <1>4, <1>10, <1>11 DEF Dir, Now
  <2> HIDE DEF identity
  <2>2. PlacingRouting(p)'
    BY <1>9, <1>10, <2>1 DEF PlacingRouting
  <2>3. Named(p)' /\ Timing(p)' /\ Recovering(p)' /\ Synthesising(p)'
    BY <1>3, <2>1 DEF Named, Timing, Recovering, Synthesising, OpenSteps, DcSteps
  <2> QED BY <2>2, <2>3 DEF Knows
<1> QED BY <1>4, <1>10, <1>11, StartFrame

-----------------------------------------------------------------------------
(***************************************************************************)
(* Synthesis.                                                              *)
(***************************************************************************)

(* What a process in a step of synthesis knows next.                       *)
LEMMA SynthesisKnows ==
  ASSUME Fenced, NEW p \in Proc, NEW doing, proc'[p] = doing, doing.pc \in DcSteps, UNCHANGED <<tree, lc>>,
         NEW dir, doing.dir = dir, MatrixDir(dir), Known(Now(dir.line[2]), dir), Supplied,
         NEW d, dc'[dir] = d,
         Lowest(d.input.frequencies) <= doing.mhz, doing.mhz <= Highest(d.input.frequencies),
         doing.pc = "dc_seal" => Genuine(d.points[doing.mhz].mapped, Now(dir.line[2])),
         doing.pc = "dc_mark" => d.points[doing.mhz].output # None
  PROVE  Knows(p)'
<1> DEFINE identity == Now(dir.line[2])
<1>1. Dir(p)' = dir /\ Now(Dir(p).line[2])' = identity
  BY DEF Dir, Now
<1>2. Supplied'
  BY DEF Supplied, Databases, t
<1> HIDE DEF identity
<1>3. Synthesising(p)'
  BY <1>1, <1>2 DEF Synthesising, identity
<1>4. Named(p)' /\ PlacingRouting(p)' /\ Recovering(p)' /\ Timing(p)'
  BY DEF Named, PlacingRouting, Recovering, Timing, Working, DcSteps
<1> QED BY <1>3, <1>4 DEF Knows

LEMMA DcOpenHands ==
  ASSUME Fenced, Traced, Handed, NEW p \in Proc, DcOpen(p), DcGrows
  PROVE  Handed' /\ TimesGrow /\ SealedRuns' = SealedRuns
<1> DEFINE dir == Dir(p)
<1>1. UNCHANGED <<tree, sram, lc, pnr, sta, faults>> /\ proc[p].pc = "dc_open"
  BY DEF DcOpen, At
<1>2. CASE Become(p, Idle) /\ UNCHANGED dc
  BY <1>1, <1>2, IdleFacts, IdleKnows, StartFrame
<1>3. CASE ~(Become(p, Idle) /\ UNCHANGED dc)
  <2>1. PICK input : /\ input.frequencies = proc[p].frequencies
                     /\ dir \notin DOMAIN dc
                     /\ dc' = Entered(dc, dir, [input |-> input, points |-> <<>>, decisions |-> <<>>, verdict |-> None])
                     /\ Become(p, [pc |-> "dc_tool", dir |-> Dir(p), mhz |-> Highest(proc[p].frequencies)])
    <3> DEFINE input == [identity |-> Now(Dir(p).line[2]), libraries |-> disk, timer |-> proc[p].timer,
                         frequencies |-> proc[p].frequencies,
                         constraint |-> t.files["internal_clock.sdc"],
                         handoff |-> IF t.memory_mode = "sram" THEN sha256(sram.manifest) ELSE None]
    <3>1. input.frequencies = proc[p].frequencies
      OBVIOUS
    <3>2. /\ dir \notin DOMAIN dc
          /\ dc' = Entered(dc, dir, [input |-> input, points |-> <<>>, decisions |-> <<>>, verdict |-> None])
          /\ Become(p, [pc |-> "dc_tool", dir |-> Dir(p), mhz |-> Highest(proc[p].frequencies)])
      BY <1>3 DEF DcOpen
    <3> HIDE DEF input
    <3> QED BY <3>1, <3>2
  <2> DEFINE d == [input |-> input, points |-> <<>>, decisions |-> <<>>, verdict |-> None]
             doing == [pc |-> "dc_tool", dir |-> dir, mhz |-> Highest(proc[p].frequencies)]
  <2>2. d.input = input /\ DOMAIN d.points = {}
    OBVIOUS
  <2>3. dc' = Entered(dc, dir, d) /\ Become(p, doing) /\ dir = Dir(p)
    BY <2>1
  <2>4. doing.pc = "dc_tool" /\ doing.dir = dir /\ doing.mhz = Highest(proc[p].frequencies)
    OBVIOUS
  <2>5. MatrixDir(dir) /\ Known(Now(dir.line[2]), dir) /\ Supplied
    BY <1>1 DEF Handed, Knows, Synthesising
  <2> HIDE DEF d, doing, dir
  <2>6. /\ dc'[dir] = d /\ dir \notin DOMAIN dc
        /\ \A x \in DOMAIN dc' \ {dir} : x \in DOMAIN dc /\ dc'[x] = dc[x]
    BY <2>1, <2>3 DEF Entered
  <2>7. MatrixSound(dir, d)
    BY <2>2, <2>5 DEF MatrixSound
  <2>8. Lowest(d.input.frequencies) <= doing.mhz /\ doing.mhz <= Highest(d.input.frequencies)
    <3>1. Frequencies(proc[p].frequencies)
      BY <1>1 DEF Fenced, Waits
    <3>2. d.input.frequencies = proc[p].frequencies
      BY <2>1, <2>2
    <3>3. Highest(proc[p].frequencies) \in proc[p].frequencies /\ Highest(proc[p].frequencies) \in Nat
      BY <3>1, HighestIs
    <3> QED BY <2>4, <3>1, <3>2, <3>3, LowestIs
  <2>9. proc'[p] = doing /\ \A q \in Proc \ {p} : proc'[q] = proc[q]
    BY <2>3, Becomes
  <2>10. Knows(p)'
    BY <1>1, <2>4, <2>5, <2>6, <2>8, <2>9, SynthesisKnows DEF DcSteps
  <2> QED BY <1>1, <2>2, <2>4, <2>6, <2>7, <2>9, <2>10, DcFrame
<1> QED BY <1>2, <1>3

(* What a process in a step of synthesis starts from.                      *)
LEMMA SynthesisHas ==
  ASSUME Fenced, Handed, NEW p \in Proc, proc[p].pc \in DcSteps, NEW dir, dir = Dir(p)
  PROVE  LET d == dc[dir]
             f == proc[p].mhz
         IN  /\ dir \in DOMAIN dc /\ MatrixRecord(d) /\ DcOwn(proc[p], d) /\ MatrixSound(dir, d)
             /\ f \in Nat \ {0} /\ Lowest(d.input.frequencies) <= f /\ f <= Highest(d.input.frequencies)
             /\ MatrixDir(dir) /\ Known(Now(dir.line[2]), dir) /\ Supplied
             /\ proc[p].pc = "dc_seal" => Genuine(d.points[f].mapped, Now(dir.line[2]))
             /\ proc[p].pc = "dc_mark" => d.points[f].output # None
<1>1. Synthesising(p) /\ \A x \in DOMAIN dc : MatrixSound(x, dc[x])
  BY DEF Handed, Knows
<1>2. dir \in DOMAIN dc /\ MatrixRecord(dc[dir]) /\ DcOwn(proc[p], dc[dir]) /\ proc[p].mhz \in Nat \ {0}
  BY DcHas
<1> QED BY <1>1, <1>2 DEF Synthesising

LEMMA SynthesisFrame ==
  ASSUME Fenced, Traced, Handed, NEW p \in Proc, proc[p].pc \in DcSteps, NEW doing, Become(p, doing),
         UNCHANGED <<tree, sram, lc, pnr, sta, faults>>, DcGrows,
         NEW dir, dir = Dir(p), NEW e, dc' = [dc EXCEPT ![dir] = e],
         e.input = dc[dir].input, MatrixSound(dir, e),
         doing.pc \in DcSteps \cup {"idle"}, doing.pc = "idle" => doing = Idle,
         doing.pc \in DcSteps =>
            /\ doing.dir = dir
            /\ Lowest(e.input.frequencies) <= doing.mhz /\ doing.mhz <= Highest(e.input.frequencies)
            /\ doing.pc = "dc_seal" => Genuine(e.points[doing.mhz].mapped, Now(dir.line[2]))
            /\ doing.pc = "dc_mark" => e.points[doing.mhz].output # None
  PROVE  /\ Handed' /\ TimesGrow
         /\ (\A f \in DOMAIN e.points : e.points[f].ok => f \in DOMAIN dc[dir].points /\ dc[dir].points[f].ok)
            => SealedRuns' = SealedRuns
<1>1. dir \in DOMAIN dc /\ MatrixDir(dir) /\ Known(Now(dir.line[2]), dir) /\ Supplied
  BY SynthesisHas
<1>2. /\ DOMAIN dc' = DOMAIN dc /\ dc'[dir] = e
      /\ \A x \in DOMAIN dc' \ {dir} : x \in DOMAIN dc /\ dc'[x] = dc[x]
  BY <1>1
<1>3. proc'[p] = doing /\ \A q \in Proc \ {p} : proc'[q] = proc[q]
  BY Becomes
<1>4. Knows(p)' /\ proc'[p].pc \notin {"sram_views", "lc_tool"}
  <2>1. CASE doing.pc = "idle"
    BY <2>1, IdleKnows
  <2>2. CASE doing.pc \in DcSteps
    BY <1>1, <1>2, <1>3, <2>2, SynthesisKnows, IdleFacts DEF DcSteps
  <2> QED BY <2>1, <2>2
<1>5. MatrixSound(dir, dc'[dir])
  BY <1>2
<1>6. /\ Handed' /\ TimesGrow
      /\ (\A f \in DOMAIN dc'[dir].points : dc'[dir].points[f].ok =>
            dir \in DOMAIN dc /\ f \in DOMAIN dc[dir].points /\ dc[dir].points[f].ok)
         => SealedRuns' = SealedRuns
  BY <1>2, <1>3, <1>4, <1>5, DcFrame
<1> QED BY <1>1, <1>2, <1>6

(* Design Compiler reads the sources of this checkout and its databases.   *)
LEMMA MadeHere ==
  ASSUME NoneIsNoRecord, tree \in DOMAIN Trees, Supplied, NEW f, NEW mode
  PROVE  Genuine(Product(tree, f, Databases), Now(mode))
<1>1. tree # 0
  BY FlowConstants DEF Trees
<1>2. Altered.tree = 0
  BY DEF Altered, Product
<1> DEFINE dbs == Databases
           mapped == Product(tree, f, dbs)
<1>3. mapped.tree = tree /\ mapped.dbs = dbs /\ dbs = Pinned[tree]
  BY DEF Product, Supplied
<1>7. mapped # None
  BY NotNone DEF Product
<1>4. Now(mode).tree = tree
  BY DEF Now
<1> HIDE DEF mapped
<1>5. mapped # Altered
  BY <1>1, <1>2, <1>3
<1>6. Genuine(mapped, Now(mode))
  BY <1>3, <1>4, <1>5, <1>7 DEF Genuine
<1> QED BY <1>6 DEF mapped

LEMMA DcToolHands ==
  ASSUME NoneIsNoRecord, Fenced, Traced, Handed, NEW p \in Proc, DcTool(p), DcGrows
  PROVE  Handed' /\ TimesGrow /\ SealedRuns' = SealedRuns
<1> DEFINE dir == Dir(p)
           f == proc[p].mhz
           d == dc[dir]
<1>1. UNCHANGED <<tree, sram, lc, pnr, sta, faults>> /\ proc[p].pc = "dc_tool" /\ proc[p].pc \in DcSteps
  BY DEF DcTool, At, DcSteps
<1>2. PICK report \in DOMAIN DcReports :
        /\ dc' = [dc EXCEPT ![Dir(p)].points = Entered(@, f,
               [report |-> report, output |-> None, ok |-> FALSE,
                mapped |-> IF DcReports[report].netlist THEN Product(tree, f, Databases) ELSE None])]
        /\ Become(p, [pc |-> IF DcReports[report].exit_status = 0
                                /\ (IF DcReports[report].netlist THEN Product(tree, f, Databases) ELSE None) # None
                             THEN "dc_seal" ELSE "dc_decide", dir |-> Dir(p), mhz |-> f])
  BY DEF DcTool
<1> DEFINE mapped == IF DcReports[report].netlist THEN Product(tree, f, Databases) ELSE None
           point == [report |-> report, output |-> None, ok |-> FALSE, mapped |-> mapped]
           step == IF DcReports[report].exit_status = 0 /\ mapped # None THEN "dc_seal" ELSE "dc_decide"
           doing == [pc |-> step, dir |-> dir, mhz |-> f]
           points == Entered(d.points, f, point)
           e == [d EXCEPT !.points = points]
<1>3. dc' = [dc EXCEPT ![dir] = e] /\ Become(p, doing)
  BY <1>2
<1>4. /\ MatrixRecord(d) /\ DcOwn(proc[p], d) /\ MatrixSound(dir, d) /\ Supplied
      /\ f \in Nat \ {0} /\ Lowest(d.input.frequencies) <= f /\ f <= Highest(d.input.frequencies)
  BY <1>1, SynthesisHas
<1>5. point.output = None /\ point.ok = FALSE /\ point.mapped = mapped
  OBVIOUS
<1>6. step = "dc_seal" => Genuine(mapped, Now(dir.line[2]))
  BY <1>4, MadeHere DEF Fenced
<1>7. step \in {"dc_seal", "dc_decide"}
  OBVIOUS
<1> HIDE DEF point, step, mapped
<1>8. doing.pc = step /\ doing.dir = dir /\ doing.mhz = f
  OBVIOUS
<1> HIDE DEF doing
<1>9. f \notin DOMAIN d.points
  BY <1>1, <1>4 DEF DcOwn, MatrixRecord
<1>10. /\ DOMAIN points = DOMAIN d.points \cup {f} /\ points[f] = point
       /\ \A g \in DOMAIN d.points : points[g] = d.points[g]
  BY <1>9 DEF Entered
<1> HIDE DEF points
<1>11. e.points = points /\ e.input = d.input
  <2> HIDE DEF d
  <2> QED BY <1>4 DEF MatrixRecord
<1> HIDE DEF e
<1>12. MatrixSound(dir, e)
  <2> HIDE DEF d, f, dir
  <2> QED BY <1>4, <1>5, <1>10, <1>11 DEF MatrixSound
<1>13. \A g \in DOMAIN e.points : e.points[g].ok => g \in DOMAIN d.points /\ d.points[g].ok
  BY <1>5, <1>10, <1>11
<1>14. doing.pc = "dc_seal" => Genuine(e.points[doing.mhz].mapped, Now(dir.line[2]))
  BY <1>5, <1>6, <1>8, <1>10, <1>11
<1>15. doing.pc \in DcSteps /\ doing.pc # "dc_mark"
  BY <1>7, <1>8 DEF DcSteps
<1>16. dir = Dir(p) /\ d = dc[dir]
  OBVIOUS
<1> HIDE DEF d, dir, f
<1>17. /\ doing.dir = dir
       /\ Lowest(e.input.frequencies) <= doing.mhz /\ doing.mhz <= Highest(e.input.frequencies)
       /\ doing.pc = "dc_seal" => Genuine(e.points[doing.mhz].mapped, Now(dir.line[2]))
       /\ doing.pc = "dc_mark" => e.points[doing.mhz].output # None
       /\ doing.pc # "idle" /\ e.input = dc[dir].input
  BY <1>4, <1>8, <1>11, <1>14, <1>15, <1>16 DEF DcSteps
<1> QED BY <1>1, <1>3, <1>12, <1>13, <1>15, <1>16, <1>17, SynthesisFrame

(* One point changes.                                                      *)
LEMMA MatrixSoundAt ==
  ASSUME NEW dir, NEW d, MatrixSound(dir, d), NEW f \in DOMAIN d.points, NEW e, e.input = d.input,
         DOMAIN e.points = DOMAIN d.points, \A g \in DOMAIN d.points \ {f} : e.points[g] = d.points[g],
         e.points[f].output # None => Certified(e.points[f].output, dir),
         e.points[f].ok => e.points[f].output # None
  PROVE  MatrixSound(dir, e)
<1>1. ASSUME NEW g \in DOMAIN e.points
      PROVE  /\ Lowest(e.input.frequencies) <= g /\ g <= Highest(e.input.frequencies)
             /\ e.points[g].output # None => Certified(e.points[g].output, dir)
             /\ e.points[g].ok => e.points[g].output # None
  <2>1. CASE g = f
    BY <2>1 DEF MatrixSound
  <2>2. CASE g # f
    BY <2>2 DEF MatrixSound
  <2> QED BY <2>1, <2>2
<1> QED BY <1>1 DEF MatrixSound

LEMMA DcSealHands ==
  ASSUME NoneIsNoRecord, Fenced, Traced, Handed, NEW p \in Proc, DcSeal(p), DcGrows
  PROVE  Handed' /\ TimesGrow /\ SealedRuns' = SealedRuns
<1> DEFINE dir == Dir(p)
           f == proc[p].mhz
           d == dc[dir]
           record == dc_output_manifest_record(p, Point(Dir(p), f))
<1>1. UNCHANGED <<tree, sram, lc, pnr, sta, faults>> /\ proc[p].pc = "dc_seal" /\ proc[p].pc \in DcSteps
  BY DEF DcSeal, At, DcSteps
<1>2. \/ /\ dc' = [dc EXCEPT ![Dir(p)].points[f].output = record]
         /\ Become(p, [proc[p] EXCEPT !.pc = "dc_mark"])
      \/ Become(p, [proc[p] EXCEPT !.pc = "dc_decide"]) /\ UNCHANGED dc
  BY DEF DcSeal
<1>3. /\ dir \in DOMAIN dc /\ MatrixRecord(d) /\ DcOwn(proc[p], d) /\ MatrixSound(dir, d) /\ Supplied
      /\ f \in Nat \ {0} /\ Lowest(d.input.frequencies) <= f /\ f <= Highest(d.input.frequencies)
      /\ MatrixDir(dir) /\ Known(Now(dir.line[2]), dir)
      /\ Genuine(d.points[f].mapped, Now(dir.line[2]))
  BY <1>1, SynthesisHas
<1>4. f \in DOMAIN d.points /\ d.points[f].ok = FALSE
  BY <1>1, <1>3 DEF DcOwn
<1>5. record # None /\ record.identity = Now(dir.line[2]) /\ record.mapped = d.points[f].mapped
  <2>1. record # None
    BY NotNone DEF dc_output_manifest_record
  <2> QED BY <2>1 DEF dc_output_manifest_record, sha256, Point
<1>6. dir = Dir(p) /\ d = dc[dir] /\ f = proc[p].mhz
  OBVIOUS
<1> HIDE DEF record
<1>7. CASE /\ dc' = [dc EXCEPT ![Dir(p)].points[f].output = record]
           /\ Become(p, [proc[p] EXCEPT !.pc = "dc_mark"])
  <2> DEFINE point == [d.points[f] EXCEPT !.output = record]
             e == [d EXCEPT !.points = [d.points EXCEPT ![f] = point]]
             doing == [proc[p] EXCEPT !.pc = "dc_mark"]
  <2>1. dc' = [dc EXCEPT ![dir] = e] /\ Become(p, doing)
    BY <1>7
  <2>2. DOMAIN d.points[f] = {"report", "output", "ok", "mapped"}
    BY <1>3, <1>4 DEF MatrixRecord
  <2>3. /\ DOMAIN point = {"report", "output", "ok", "mapped"} /\ point.report = d.points[f].report
        /\ point.ok = FALSE /\ point.output = record
    BY <1>4, <2>2
  <2>4. e = [d EXCEPT !.points = [d.points EXCEPT ![f] = point]]
    OBVIOUS
  <2>5. doing.pc = "dc_mark" /\ doing.dir = dir /\ doing.mhz = f
    BY <1>1, DcNextStep, ZenonT(60) DEF DcSteps
  <2> HIDE DEF point, e, doing
  <2>6. /\ DOMAIN e.points = DOMAIN d.points /\ e.points[f] = point /\ e.input = d.input
        /\ \A g \in DOMAIN d.points \ {f} : e.points[g] = d.points[g]
    <3> HIDE DEF f, d
    <3> QED BY <1>3, <1>4, <2>3, <2>4, PointUpdate
  <2> HIDE DEF d, dir, f
  <2>7. MatrixSound(dir, e)
    BY <1>3, <1>4, <1>5, <2>3, <2>6, MatrixSoundAt DEF Certified
  <2>8. \A g \in DOMAIN e.points : e.points[g].ok => g \in DOMAIN d.points /\ d.points[g].ok
    BY <2>3, <2>6
  <2>9. e.input = dc[dir].input /\ doing.pc \in DcSteps /\ e.points[doing.mhz].output # None
    BY <1>5, <1>6, <2>3, <2>5, <2>6 DEF DcSteps
  <2>10. Lowest(e.input.frequencies) <= doing.mhz /\ doing.mhz <= Highest(e.input.frequencies)
    BY <1>3, <2>5, <2>6
  <2> QED BY <1>1, <1>6, <2>1, <2>5, <2>7, <2>8, <2>9, <2>10, SynthesisFrame
<1>8. CASE Become(p, [proc[p] EXCEPT !.pc = "dc_decide"]) /\ UNCHANGED dc
  <2> DEFINE doing == [proc[p] EXCEPT !.pc = "dc_decide"]
  <2>1. doing.pc = "dc_decide" /\ doing.dir = dir /\ doing.mhz = f
    BY <1>1, DcNextStep DEF DcSteps
  <2>2. Become(p, doing)
    BY <1>8
  <2> HIDE DEF doing, d, dir, f
  <2>3. ASSUME proc'[p] = doing PROVE Knows(p)'
    BY <1>1, <1>3, <1>6, <1>8, <2>1, <2>3, SynthesisKnows DEF DcSteps
  <2> QED BY <1>1, <1>8, <2>1, <2>2, <2>3, StartFrame
<1> QED BY <1>2, <1>7, <1>8

LEMMA DcMarkHands ==
  ASSUME Fenced, Traced, Handed, NEW p \in Proc, DcMark(p), DcGrows
  PROVE  Handed' /\ TimesGrow
<1> DEFINE dir == Dir(p)
           f == proc[p].mhz
           d == dc[dir]
           point == [d.points[f] EXCEPT !.ok = TRUE]
           e == [d EXCEPT !.points = [d.points EXCEPT ![f] = point]]
           doing == [proc[p] EXCEPT !.pc = "dc_decide"]
<1>1. UNCHANGED <<tree, sram, lc, pnr, sta, faults>> /\ proc[p].pc = "dc_mark" /\ proc[p].pc \in DcSteps
  BY DEF DcMark, At, DcSteps
<1>2. dc' = [dc EXCEPT ![dir] = e] /\ Become(p, doing)
  BY DEF DcMark
<1>3. /\ dir \in DOMAIN dc /\ MatrixRecord(d) /\ DcOwn(proc[p], d) /\ MatrixSound(dir, d) /\ Supplied
      /\ f \in Nat \ {0} /\ Lowest(d.input.frequencies) <= f /\ f <= Highest(d.input.frequencies)
      /\ d.points[f].output # None
  BY <1>1, SynthesisHas
<1>4. f \in DOMAIN d.points
  BY <1>1, <1>3 DEF DcOwn
<1>5. DOMAIN d.points[f] = {"report", "output", "ok", "mapped"}
  BY <1>3, <1>4 DEF MatrixRecord
<1>6. /\ DOMAIN point = {"report", "output", "ok", "mapped"} /\ point.report = d.points[f].report
      /\ point.output = d.points[f].output
  BY <1>5
<1>7. e = [d EXCEPT !.points = [d.points EXCEPT ![f] = point]]
  OBVIOUS
<1>8. doing.pc = "dc_decide" /\ doing.dir = dir /\ doing.mhz = f
  BY <1>1, DcNextStep DEF DcSteps
<1> HIDE DEF point, e, doing
<1>9. /\ DOMAIN e.points = DOMAIN d.points /\ e.points[f] = point /\ e.input = d.input
      /\ \A g \in DOMAIN d.points \ {f} : e.points[g] = d.points[g]
  <2> HIDE DEF f, d
  <2> QED BY <1>3, <1>4, <1>6, <1>7, PointUpdate
<1>10. dir = Dir(p) /\ d = dc[dir]
  OBVIOUS
<1> HIDE DEF d, dir, f
<1>11. MatrixSound(dir, e)
  <2>1. Certified(d.points[f].output, dir)
    BY <1>3, <1>4 DEF MatrixSound
  <2> QED BY <1>3, <1>4, <1>6, <1>9, <2>1, MatrixSoundAt
<1>12. /\ e.input = dc[dir].input /\ doing.pc \in DcSteps
       /\ Lowest(e.input.frequencies) <= doing.mhz /\ doing.mhz <= Highest(e.input.frequencies)
  BY <1>3, <1>8, <1>9, <1>10 DEF DcSteps
<1> QED BY <1>1, <1>2, <1>8, <1>10, <1>11, <1>12, SynthesisFrame

(* The next point lies between the bounds of the scan.                     *)
LEMMA DecisionBounds ==
  ASSUME Fenced, NEW p \in Proc, proc[p].pc = "dc_decide", NEW d, d = dc[Dir(p)], NEW f, f = proc[p].mhz,
         f <= Highest(d.input.frequencies), NEW done, NEW decision,
         decision = Budgeted(dc_frequency_decision(d.input.frequencies, f, Report(d.points[f]), done, quantum(t)),
                             Len(d.decisions) + 1, max_points(t)),
         decision.next # 0
  PROVE  /\ Lowest(d.input.frequencies) <= decision.next
         /\ decision.next <= Highest(d.input.frequencies)
<1> DEFINE F == d.input.frequencies
           row == Report(d.points[f])
           q == quantum(t)
           budget == max_points(t)
           executed == Len(d.decisions) + 1
<1>1. MatrixRecord(d) /\ DcOwn(proc[p], d) /\ f \in Nat \ {0}
  BY DcHas DEF DcSteps
<1>2. f \in DOMAIN d.points
  BY <1>1 DEF DcOwn
<1>3. Frequencies(F) /\ executed \in Nat
  BY <1>1, Appended DEF MatrixRecord
<1>4. row.wns \in Int
  <2>1. d.points[f].report \in DOMAIN DcReports
    BY <1>1, <1>2 DEF MatrixRecord
  <2> QED BY <2>1, FlowConstants DEF Report
<1>5. q \in Int /\ q > 0 /\ budget \in Int
  <2>1. Scannable /\ tree \in DOMAIN Trees
    BY DEF Fenced, DcSteps
  <2> QED BY <2>1, FlowConstants DEF Scannable, t, Trees
<1>6. decision = Budgeted(dc_frequency_decision(F, f, row, done, q), executed, budget)
  OBVIOUS
<1>7. Lowest(F) \in Nat /\ Highest(F) \in Nat
  BY <1>3, LowestIs, HighestIs
<1> HIDE DEF F, row, q, budget, executed
<1>8. decision.next \in Nat \ {0} /\ decision.next < f
  BY <1>1, <1>3, <1>4, <1>5, <1>6, DecisionIsLower, SMTT(30)
<1>9. ~(decision.next < Lowest(F))
  BY <1>3, <1>5, <1>6, DecisionSays
<1>10. f <= Highest(F)
  BY DEF F
<1>11. Lowest(F) <= decision.next /\ decision.next <= Highest(F)
  BY <1>1, <1>7, <1>8, <1>9, <1>10, SMTT(30)
<1> QED BY <1>11 DEF F

LEMMA DcDecideHands ==
  ASSUME Fenced, Traced, Handed, NEW p \in Proc, DcDecide(p), DcGrows
  PROVE  Handed' /\ TimesGrow /\ SealedRuns' = SealedRuns
<1> DEFINE dir == Dir(p)
           f == proc[p].mhz
           d == dc[dir]
           raw == dc_frequency_decision(d.input.frequencies, f, Report(d.points[f]),
                                        completed(d.points[f]), quantum(t))
           decision == Budgeted(raw, Len(d.decisions) + 1, max_points(t))
           doing == IF decision.next = 0 THEN Idle
                    ELSE [pc |-> "dc_tool", dir |-> dir, mhz |-> decision.next]
<1>1. UNCHANGED <<tree, sram, lc, pnr, sta, faults>> /\ proc[p].pc = "dc_decide" /\ proc[p].pc \in DcSteps
  BY DEF DcDecide, At, DcSteps
<1>2. PICK decisions, verdict :
        /\ dc' = [dc EXCEPT ![dir] = [d EXCEPT !.decisions = decisions, !.verdict = verdict]]
        /\ Become(p, doing)
  BY DEF DcDecide
<1> DEFINE e == [d EXCEPT !.decisions = decisions, !.verdict = verdict]
<1>3. MatrixRecord(d) /\ MatrixSound(dir, d) /\ f <= Highest(d.input.frequencies)
  BY <1>1, SynthesisHas
<1>4. dc' = [dc EXCEPT ![dir] = e]
  BY <1>2
<1>5. e.points = d.points /\ e.input = d.input
  <2> HIDE DEF d
  <2> QED BY <1>3 DEF MatrixRecord
<1> HIDE DEF e
<1>6. decision.next # 0 => /\ Lowest(d.input.frequencies) <= decision.next
                           /\ decision.next <= Highest(d.input.frequencies)
  BY <1>1, <1>3, DecisionBounds
<1> HIDE DEF decision
<1>7. \/ doing.pc = "idle" /\ doing = Idle
      \/ doing.pc = "dc_tool" /\ decision.next # 0 /\ doing.dir = dir /\ doing.mhz = decision.next
  BY IdleFacts
<1> HIDE DEF doing
<1>8. dir = Dir(p) /\ d = dc[dir]
  OBVIOUS
<1> HIDE DEF d, dir
<1>9. MatrixSound(dir, e)
  BY <1>3, <1>5 DEF MatrixSound
<1>10. /\ doing.pc \in DcSteps \cup {"idle"} /\ e.input = dc[dir].input
       /\ doing.pc = "idle" => doing = Idle
       /\ doing.pc \in DcSteps => /\ doing.pc = "dc_tool" /\ doing.dir = dir
                                  /\ Lowest(e.input.frequencies) <= doing.mhz
                                  /\ doing.mhz <= Highest(e.input.frequencies)
  BY <1>5, <1>6, <1>7, <1>8 DEF DcSteps
<1>11. \A g \in DOMAIN e.points : e.points[g].ok => g \in DOMAIN dc[dir].points /\ dc[dir].points[g].ok
  BY <1>5, <1>8
<1> QED BY <1>1, <1>2, <1>4, <1>8, <1>9, <1>10, <1>11, SynthesisFrame

-----------------------------------------------------------------------------
(***************************************************************************)
(* Place and route, and recovery.                                          *)
(***************************************************************************)

(* What a process in a step of P&R starts from.                            *)
LEMMA RoutingHas ==
  ASSUME Fenced, Traced, Handed, NEW p \in Proc, proc[p].pc \in PnrSteps, NEW dir, dir = Dir(p)
  PROVE  LET run == pnr[dir]
         IN  /\ dir \in DOMAIN pnr /\ RouteRecord(run) /\ PnrOwn(proc[p], run) /\ RouteSound(dir, run, dc)
             /\ run.ok = FALSE
             /\ PlacingRouting(p) /\ Recovering(p)
<1>1. dir \in DOMAIN pnr /\ RouteRecord(pnr[dir]) /\ PnrOwn(proc[p], pnr[dir]) /\ Routing(proc[p], pnr[dir], dc)
  BY RouteHas
<1> QED BY <1>1 DEF Handed, Knows, Routing

(* What it knows next.                                                     *)
Informed(doing, dir, run, runs) ==
  /\ doing.dir = dir
  /\ doing.pc = "pnr_stage" => Accepted(Now(dir.line[2]), doing.from, dir, dc)
  /\ doing.pc = "pnr_record" => /\ doing.exit_status \in {0, 1}
                                /\ doing.exit_status = 0 => run.handoff = run.orfs.import
  /\ doing.pc = "pnr_mark" => Routed(run)
  /\ doing.pc = "rec_record" => /\ doing.source \in DOMAIN runs /\ runs[doing.source].orfs # None
                                /\ run.orfs = runs[doing.source].orfs

LEMMA RoutingKnows ==
  ASSUME NEW p \in Proc, NEW doing, proc'[p] = doing, doing.pc \in PnrSteps, UNCHANGED <<tree, dc>>,
         NEW dir, NEW run, pnr'[dir] = run, Informed(doing, dir, run, pnr')
  PROVE  Knows(p)'
<1> DEFINE identity == Now(dir.line[2])
<1>1. Dir(p)' = dir /\ Now(Dir(p).line[2])' = identity
  BY DEF Dir, Now, Informed
<1> HIDE DEF identity
<1>2. PlacingRouting(p)'
  BY <1>1 DEF PlacingRouting, Informed, identity, PnrSteps
<1>3. Recovering(p)'
  BY <1>1 DEF Recovering, Informed, PnrSteps
<1>4. Named(p)' /\ Synthesising(p)' /\ Timing(p)'
  BY DEF Named, Synthesising, Timing, Working, DcSteps, PnrSteps
<1> QED BY <1>2, <1>3, <1>4 DEF Knows

LEMMA RoutingFrame ==
  ASSUME Fenced, Traced, Handed, NEW p \in Proc, NEW doing, Become(p, doing),
         UNCHANGED <<tree, sram, lc, dc, sta, faults>>, RoutesGrow,
         NEW dir, dir = Dir(p), dir \notin DOMAIN pnr \/ proc[p].pc \in PnrSteps,
         NEW run, pnr'[dir] = run, \A x \in DOMAIN pnr' \ {dir} : x \in DOMAIN pnr /\ pnr'[x] = pnr[x],
         RouteSound(dir, run, dc),
         doing.pc \in PnrSteps \cup {"idle"}, doing.pc = "idle" => doing = Idle,
         doing.pc \in PnrSteps => Informed(doing, dir, run, pnr')
  PROVE  /\ Handed' /\ TimesGrow
         /\ run.ok = FALSE => SealedRuns' = SealedRuns
<1>1. proc'[p] = doing /\ \A q \in Proc \ {p} : proc'[q] = proc[q]
  BY Becomes
<1>2. Knows(p)' /\ proc'[p].pc \notin {"sram_views", "lc_tool"}
  <2>1. CASE doing.pc = "idle"
    BY <2>1, IdleKnows
  <2>2. CASE doing.pc \in PnrSteps
    <3>1. Knows(p)'
      BY <1>1, <2>2, RoutingKnows
    <3> QED BY <1>1, <2>2, <3>1 DEF PnrSteps
  <2> QED BY <2>1, <2>2
<1>3. dir \notin DOMAIN pnr \/ (proc[p].pc \in PnrSteps /\ Dir(p) = dir)
  OBVIOUS
<1>4. /\ Handed' /\ TimesGrow
      /\ pnr'[dir].ok = FALSE => SealedRuns' = SealedRuns
  BY <1>1, <1>2, <1>3, RouteFrame
<1> QED BY <1>4

LEMMA RoutingUpdate ==
  ASSUME Fenced, Traced, Handed, NEW p \in Proc, proc[p].pc \in PnrSteps, NEW doing, Become(p, doing),
         UNCHANGED <<tree, sram, lc, dc, sta, faults>>, RoutesGrow,
         NEW dir, dir = Dir(p), NEW run, pnr' = [pnr EXCEPT ![dir] = run], RouteSound(dir, run, dc),
         doing.pc \in PnrSteps \cup {"idle"}, doing.pc = "idle" => doing = Idle,
         doing.pc \in PnrSteps => Informed(doing, dir, run, pnr')
  PROVE  /\ Handed' /\ TimesGrow
         /\ run.ok = FALSE => SealedRuns' = SealedRuns
<1>1. dir \in DOMAIN pnr
  BY RoutingHas
<1>2. pnr'[dir] = run /\ \A x \in DOMAIN pnr' \ {dir} : x \in DOMAIN pnr /\ pnr'[x] = pnr[x]
  BY <1>1
<1> QED BY <1>2, RoutingFrame, ZenonT(60)

LEMMA RoutingCreates ==
  ASSUME NEW dir, dir \notin DOMAIN pnr, NEW run, pnr' = Entered(pnr, dir, run)
  PROVE  pnr'[dir] = run /\ \A x \in DOMAIN pnr' \ {dir} : x \in DOMAIN pnr /\ pnr'[x] = pnr[x]
  BY DEF Entered

(* A directory that was just made, with the netlist copied into it.        *)
LEMMA EmptySound ==
  ASSUME NEW dir, DOMAIN dir = {"line", "id", "mhz"}, dir.id \in RunId \cup RecoveryId, NEW copy
  PROVE  RouteSound(dir, EmptyRun(copy), dc) /\ EmptyRun(copy).ok = FALSE
  BY DEF EmptyRun, RouteSound

LEMMA PnrOpenHands ==
  ASSUME Fenced, Traced, Handed, NEW p \in Proc, PnrOpen(p), RoutesGrow
  PROVE  Handed' /\ TimesGrow /\ SealedRuns' = SealedRuns
<1> DEFINE dir == Dir(p)
<1>1. UNCHANGED <<tree, sram, lc, dc, sta, faults>> /\ proc[p].pc = "pnr_open"
  BY DEF PnrOpen, At
<1>2. CASE dir \in DOMAIN pnr
  <2>1. Become(p, Idle) /\ UNCHANGED pnr
    BY <1>2 DEF PnrOpen
  <2> QED BY <1>1, <2>1, IdleFacts, IdleKnows, StartFrame
<1>3. CASE dir \notin DOMAIN pnr
  <2>1. PICK copy : /\ pnr' = Entered(pnr, dir, EmptyRun(copy))
                    /\ Become(p, [proc[p] EXCEPT !.pc = "pnr_stage"]) \/ Become(p, Idle)
    BY <1>3 DEF PnrOpen
  <2> DEFINE run == EmptyRun(copy)
             doing == [proc[p] EXCEPT !.pc = "pnr_stage"]
  <2>2. DOMAIN dir = {"line", "id", "mhz"} /\ dir.id \in RunId \cup RecoveryId
    BY <1>1 DEF Handed, Knows, Named
  <2>3. Accepted(Now(dir.line[2]), proc[p].from, dir, dc)
    BY <1>1 DEF Handed, Knows, PlacingRouting
  <2>4. DOMAIN proc[p] = {"pc", "dir", "from", "mapped"}
    BY <1>1 DEF Fenced, Waits
  <2>5. doing.pc = "pnr_stage" /\ doing.dir = dir /\ doing.from = proc[p].from
    BY <2>4 DEF Dir
  <2>6. dir = Dir(p)
    OBVIOUS
  <2> HIDE DEF dir, doing
  <2>7. RouteSound(dir, run, dc) /\ run.ok = FALSE
    BY <2>2, EmptySound
  <2> HIDE DEF run
  <2>8. pnr' = Entered(pnr, dir, run) /\ (Become(p, doing) \/ Become(p, Idle))
    BY <2>1 DEF run, doing
  <2>9. Informed(doing, dir, run, pnr') /\ doing.pc \in PnrSteps /\ doing.pc # "idle"
    BY <2>3, <2>5 DEF Informed, PnrSteps
  <2>10. pnr'[dir] = run /\ \A x \in DOMAIN pnr' \ {dir} : x \in DOMAIN pnr /\ pnr'[x] = pnr[x]
    BY <1>3, <2>8, RoutingCreates
  <2>11. dir \notin DOMAIN pnr \/ proc[p].pc \in PnrSteps
    BY <1>3
  <2>12. CASE Become(p, doing)
    <3>1. Handed' /\ TimesGrow /\ (run.ok = FALSE => SealedRuns' = SealedRuns)
      BY <1>1, <2>6, <2>7, <2>9, <2>10, <2>11, <2>12, RoutingFrame
    <3> QED BY <2>7, <3>1
  <2>13. CASE Become(p, Idle)
    <3>1. Handed' /\ TimesGrow /\ (run.ok = FALSE => SealedRuns' = SealedRuns)
      BY <1>1, <2>6, <2>7, <2>10, <2>11, <2>13, IdleFacts, RoutingFrame
    <3> QED BY <2>7, <3>1
  <2> QED BY <2>8, <2>12, <2>13
<1> QED BY <1>2, <1>3

LEMMA PnrStageHands ==
  ASSUME NoneIsNoRecord, Fenced, Traced, Handed, NEW p \in Proc, PnrStage(p), RoutesGrow
  PROVE  Handed' /\ TimesGrow /\ SealedRuns' = SealedRuns
<1> DEFINE dir == Dir(p)
           run == pnr[dir]
           input == PnrManifest(p)
           staged == [run EXCEPT !.input = input]
           contract == [mapped |-> sha256(run.copy), import |-> None, orfs |-> t.matrix.orfs]
           begun == [staged EXCEPT !.contract = contract]
           doing == [proc[p] EXCEPT !.pc = "pnr_tool"]
<1>1. UNCHANGED <<tree, sram, lc, dc, sta, faults>> /\ proc[p].pc = "pnr_stage" /\ proc[p].pc \in PnrSteps
  BY DEF PnrStage, At, PnrSteps
<1>2. \/ Become(p, Idle) /\ UNCHANGED pnr
      \/ Become(p, Idle) /\ pnr' = [pnr EXCEPT ![dir] = staged]
      \/ Become(p, doing) /\ pnr' = [pnr EXCEPT ![dir] = begun]
  BY DEF PnrStage
<1>3. RouteRecord(run) /\ PnrOwn(proc[p], run) /\ RouteSound(dir, run, dc) /\ run.ok = FALSE
  BY <1>1, RoutingHas
<1>4. /\ DOMAIN proc[p] = {"pc", "dir", "from", "mapped"} /\ run.orfs = None
      /\ Accepted(Now(dir.line[2]), proc[p].from, dir, dc)
  BY <1>1, <1>3 DEF PnrOwn, Handed, Knows, PlacingRouting
<1>5. input.from = proc[p].from /\ input.identity = Now(dir.line[2])
  BY DEF PnrManifest
<1>6. doing.pc = "pnr_tool" /\ doing.dir = dir
  BY <1>4 DEF Dir
<1>7. dir = Dir(p)
  OBVIOUS
<1> HIDE DEF input, contract, run, doing, dir
<1>8. /\ staged.input = input /\ staged.ok = FALSE /\ staged.orfs = None /\ staged.exit_status = run.exit_status
      /\ begun.input = input /\ begun.ok = FALSE /\ begun.orfs = None /\ begun.exit_status = run.exit_status
  BY <1>3, <1>4 DEF RouteRecord
<1> HIDE DEF staged, begun
<1>9. ASSUME NEW now \in {staged, begun}
      PROVE  RouteSound(dir, now, dc) /\ now.ok = FALSE
  BY <1>3, <1>4, <1>5, <1>8 DEF RouteSound
<1>10. Informed(doing, dir, begun, pnr') /\ doing.pc \in PnrSteps /\ doing.pc # "idle"
  BY <1>6 DEF Informed, PnrSteps
<1>11. CASE Become(p, Idle) /\ UNCHANGED pnr
  BY <1>1, <1>11, IdleFacts, IdleKnows, StartFrame
<1>12. CASE Become(p, Idle) /\ pnr' = [pnr EXCEPT ![dir] = staged]
  BY <1>1, <1>7, <1>9, <1>12, IdleFacts, RoutingUpdate
<1>13. CASE Become(p, doing) /\ pnr' = [pnr EXCEPT ![dir] = begun]
  BY <1>1, <1>7, <1>9, <1>10, <1>13, RoutingUpdate
<1> QED BY <1>2, <1>11, <1>12, <1>13

LEMMA PnrToolHands ==
  ASSUME NoneIsNoRecord, Fenced, Traced, Handed, NEW p \in Proc, PnrTool(p), RoutesGrow
  PROVE  Handed' /\ TimesGrow /\ SealedRuns' = SealedRuns
<1> DEFINE dir == Dir(p)
           run == pnr[dir]
           ended(status) == [pc |-> "pnr_record", dir |-> dir, mapped |-> proc[p].mapped,
                             exit_status |-> status]
           orfs(report) == [import |-> run.copy, final |-> run.copy, report |-> report]
           routed(report) == [run EXCEPT !.orfs = orfs(report)]
           gathered(report) == [routed(report) EXCEPT !.handoff = run.copy,
                                                      !.contract.import = sha256(run.copy)]
<1>1. UNCHANGED <<tree, sram, lc, dc, sta, faults>> /\ proc[p].pc = "pnr_tool" /\ proc[p].pc \in PnrSteps
  BY DEF PnrTool, At, PnrSteps
<1>2. RouteRecord(run) /\ RouteSound(dir, run, dc) /\ run.ok = FALSE
  BY <1>1, RoutingHas
<1>3. \/ Become(p, ended(1)) /\ UNCHANGED pnr
      \/ \E report : \/ pnr' = [pnr EXCEPT ![dir] = routed(report)] /\ Become(p, ended(1))
                     \/ pnr' = [pnr EXCEPT ![dir] = gathered(report)] /\ Become(p, ended(0))
  BY DEF PnrTool
<1>4. ASSUME NEW report
      PROVE  orfs(report).import = run.copy /\ orfs(report).import = orfs(report).final
  OBVIOUS
<1>5. dir = Dir(p)
  OBVIOUS
<1>6. ASSUME NEW status
      PROVE  /\ ended(status).pc = "pnr_record" /\ ended(status).dir = dir
             /\ ended(status).exit_status = status
  OBVIOUS
<1> HIDE DEF orfs, run, dir, ended
<1>7. ASSUME NEW report
      PROVE  /\ routed(report).input = run.input /\ routed(report).ok = FALSE
             /\ routed(report).exit_status = run.exit_status /\ routed(report).orfs = orfs(report)
             /\ gathered(report).input = run.input /\ gathered(report).ok = FALSE
             /\ gathered(report).exit_status = run.exit_status /\ gathered(report).orfs = orfs(report)
             /\ gathered(report).handoff = run.copy
  BY <1>2 DEF RouteRecord
<1> HIDE DEF routed, gathered
<1>8. ASSUME NEW report, NEW now \in {routed(report), gathered(report)}
      PROVE  RouteSound(dir, now, dc) /\ now.ok = FALSE
  <2>1. /\ now.input = run.input /\ now.ok = FALSE /\ now.exit_status = run.exit_status
        /\ now.orfs = orfs(report)
    BY <1>7, <1>8
  <2>2. now.orfs.import = now.orfs.final
    BY <1>4, <2>1
  <2> QED BY <1>2, <2>1, <2>2 DEF RouteSound
<1>9. ASSUME NEW now, NEW status \in {0, 1}, status = 0 => now.handoff = now.orfs.import
      PROVE  /\ Informed(ended(status), dir, now, pnr')
             /\ ended(status).pc \in PnrSteps /\ ended(status).pc # "idle"
  BY <1>6, <1>9 DEF Informed, PnrSteps
<1>10. CASE Become(p, ended(1)) /\ UNCHANGED pnr
  <2> DEFINE doing == ended(1)
  <2>1. Informed(doing, dir, run, pnr') /\ doing.pc \in PnrSteps /\ Become(p, doing) /\ UNCHANGED pnr
    BY <1>9, <1>10
  <2>2. doing.pc = "pnr_record"
    BY <1>6
  <2> HIDE DEF doing
  <2>3. pnr'[dir] = run
    BY <1>10 DEF run
  <2>4. ASSUME proc'[p] = doing PROVE Knows(p)'
    BY <1>1, <2>1, <2>3, <2>4, RoutingKnows
  <2> QED BY <1>1, <2>1, <2>2, <2>4, StartFrame
<1>11. ASSUME NEW report, pnr' = [pnr EXCEPT ![dir] = routed(report)], Become(p, ended(1))
       PROVE  Handed' /\ TimesGrow /\ SealedRuns' = SealedRuns
  <2> DEFINE doing == ended(1)
             now == routed(report)
  <2>1. RouteSound(dir, now, dc) /\ now.ok = FALSE
    BY <1>8
  <2>2. Informed(doing, dir, now, pnr') /\ doing.pc \in PnrSteps /\ doing.pc # "idle"
    BY <1>9
  <2>3. Become(p, doing) /\ pnr' = [pnr EXCEPT ![dir] = now]
    BY <1>11
  <2> HIDE DEF doing, now
  <2> QED BY <1>1, <1>5, <2>1, <2>2, <2>3, RoutingUpdate
<1>12. ASSUME NEW report, pnr' = [pnr EXCEPT ![dir] = gathered(report)], Become(p, ended(0))
       PROVE  Handed' /\ TimesGrow /\ SealedRuns' = SealedRuns
  <2> DEFINE doing == ended(0)
             now == gathered(report)
  <2>1. RouteSound(dir, now, dc) /\ now.ok = FALSE
    BY <1>8
  <2>2. Informed(doing, dir, now, pnr') /\ doing.pc \in PnrSteps /\ doing.pc # "idle"
    <3>1. now.handoff = now.orfs.import
      BY <1>4, <1>7
    <3> QED BY <1>9, <3>1
  <2>3. Become(p, doing) /\ pnr' = [pnr EXCEPT ![dir] = now]
    BY <1>12
  <2> HIDE DEF doing, now
  <2> QED BY <1>1, <1>5, <2>1, <2>2, <2>3, RoutingUpdate
<1> QED BY <1>3, <1>10, <1>11, <1>12

LEMMA PnrRecordHands ==
  ASSUME NoneIsNoRecord, Fenced, Traced, Handed, NEW p \in Proc, PnrRecord(p), RoutesGrow
  PROVE  Handed' /\ TimesGrow /\ SealedRuns' = SealedRuns
<1> DEFINE dir == Dir(p)
           run == pnr[dir]
           status == proc[p].exit_status
           ledger == Ledger(proc[p].mapped, run.copy, run.orfs.import, run.handoff)
           exited == [run EXCEPT !.exit_status = status]
           partial == [exited EXCEPT !.summary = "PNR_RCX_PARTIAL"]
           tied == [exited EXCEPT !.ledger = ledger]
           doing == [proc[p] EXCEPT !.pc = "pnr_mark"]
<1>1. UNCHANGED <<tree, sram, lc, dc, sta, faults>> /\ proc[p].pc = "pnr_record" /\ proc[p].pc \in PnrSteps
  BY DEF PnrRecord, At, PnrSteps
<1>2. \/ pnr' = [pnr EXCEPT ![dir] = partial] /\ Become(p, Idle)
      \/ /\ status = 0 /\ SameMapped(ledger)
         /\ pnr' = [pnr EXCEPT ![dir] = tied] /\ Become(p, doing)
      \/ pnr' = [pnr EXCEPT ![dir] = exited] /\ Become(p, Idle)
  BY DEF PnrRecord
<1>3. RouteRecord(run) /\ PnrOwn(proc[p], run) /\ RouteSound(dir, run, dc) /\ run.ok = FALSE
  BY <1>1, RoutingHas
<1>4. /\ DOMAIN proc[p] = {"pc", "dir", "mapped", "exit_status"} /\ status \in {0, 1}
      /\ status = 0 => run.handoff = run.orfs.import
  BY <1>1, <1>3 DEF PnrOwn, Handed, Knows, PlacingRouting
<1>5. ledger # None
  BY NotNone DEF Ledger
<1>6. status = 0 /\ SameMapped(ledger) => ledger.routed = ledger.dc_output
  BY <1>4 DEF Ledger, SameMapped, sha256
<1>7. doing.pc = "pnr_mark" /\ doing.dir = dir
  BY <1>4 DEF Dir
<1>8. dir = Dir(p)
  OBVIOUS
<1> HIDE DEF ledger, status, run, dir, doing
<1>9. /\ partial.input = run.input /\ partial.ok = FALSE /\ partial.exit_status = status /\ partial.orfs = run.orfs
      /\ exited.input = run.input /\ exited.ok = FALSE /\ exited.exit_status = status /\ exited.orfs = run.orfs
      /\ tied.input = run.input /\ tied.ok = FALSE /\ tied.exit_status = status /\ tied.orfs = run.orfs
      /\ tied.ledger = ledger
  BY <1>3 DEF RouteRecord
<1> HIDE DEF exited, partial, tied
<1>10. ASSUME NEW now \in {partial, exited, tied}
       PROVE  RouteSound(dir, now, dc) /\ now.ok = FALSE
  BY <1>3, <1>4, <1>9 DEF RouteSound
<1>11. CASE pnr' = [pnr EXCEPT ![dir] = partial] /\ Become(p, Idle)
  BY <1>1, <1>8, <1>10, <1>11, IdleFacts, RoutingUpdate
<1>12. CASE /\ status = 0 /\ SameMapped(ledger)
            /\ pnr' = [pnr EXCEPT ![dir] = tied] /\ Become(p, doing)
  <2>1. Informed(doing, dir, tied, pnr') /\ doing.pc \in PnrSteps /\ doing.pc # "idle"
    BY <1>5, <1>6, <1>7, <1>9, <1>12 DEF Informed, Routed, PnrSteps
  <2> QED BY <1>1, <1>8, <1>10, <1>12, <2>1, RoutingUpdate
<1>13. CASE pnr' = [pnr EXCEPT ![dir] = exited] /\ Become(p, Idle)
  BY <1>1, <1>8, <1>10, <1>13, IdleFacts, RoutingUpdate
<1> QED BY <1>2, <1>11, <1>12, <1>13

LEMMA PnrMarkHands ==
  ASSUME Fenced, Traced, Handed, NEW p \in Proc, PnrMark(p), RoutesGrow
  PROVE  Handed' /\ TimesGrow
<1> DEFINE dir == Dir(p)
           run == pnr[dir]
<1>1. UNCHANGED <<tree, sram, lc, dc, sta, faults>> /\ proc[p].pc = "pnr_mark" /\ proc[p].pc \in PnrSteps
  BY DEF PnrMark, At, PnrSteps
<1>2. PICK complete, summary : /\ pnr' = [pnr EXCEPT ![dir] = [run EXCEPT !.ok = complete, !.summary = summary]]
                               /\ Become(p, Idle)
  BY DEF PnrMark
<1> DEFINE marked == [run EXCEPT !.ok = complete, !.summary = summary]
<1>3. RouteRecord(run) /\ RouteSound(dir, run, dc) /\ Routed(run)
  BY <1>1, RoutingHas DEF PlacingRouting
<1>4. dir = Dir(p) /\ pnr' = [pnr EXCEPT ![dir] = marked]
  BY <1>2
<1> HIDE DEF run, dir
<1>5. /\ marked.input = run.input /\ marked.ledger = run.ledger /\ marked.exit_status = run.exit_status
      /\ marked.orfs = run.orfs
  BY <1>3 DEF RouteRecord
<1> HIDE DEF marked
<1>6. RouteSound(dir, marked, dc)
  BY <1>3, <1>5 DEF RouteSound, Routed
<1> QED BY <1>1, <1>2, <1>4, <1>6, IdleFacts, RoutingUpdate

LEMMA RecoverOpenHands ==
  ASSUME NoneIsNoRecord, Fenced, Traced, Handed, NEW p \in Proc, RecoverOpen(p), RoutesGrow
  PROVE  Handed' /\ TimesGrow /\ SealedRuns' = SealedRuns
<1> DEFINE dir == Dir(p)
           source == pnr[proc[p].source]
           copied == copy_input_manifest(source)
           begun == [copied EXCEPT !.contract = source.contract, !.orfs = source.orfs]
           empty == EmptyRun(source.copy)
           doing == [proc[p] EXCEPT !.pc = "rec_record"]
<1>1. UNCHANGED <<tree, sram, lc, dc, sta, faults>> /\ proc[p].pc = "rec_open"
  BY DEF RecoverOpen, At
<1>2. \/ Become(p, Idle) /\ UNCHANGED pnr
      \/ dir \notin DOMAIN pnr /\ pnr' = Entered(pnr, dir, begun) /\ Become(p, doing)
      \/ dir \notin DOMAIN pnr /\ pnr' = Entered(pnr, dir, empty) /\ Become(p, Idle)
  BY DEF RecoverOpen
<1>3. /\ DOMAIN dir = {"line", "id", "mhz"} /\ dir.id \in RunId \cup RecoveryId
      /\ dir.line = proc[p].source.line /\ source.orfs # None
  BY <1>1 DEF Handed, Knows, Named, Recovering
<1>4. /\ proc[p].source \in DOMAIN pnr /\ source.input # None
      /\ RouteSound(proc[p].source, source, dc)
  BY <1>1 DEF Traced, Doing, Awaiting, Handed
<1>5. Accepted(source.input.identity, source.input.from, dir, dc)
  BY <1>3, <1>4 DEF RouteSound, Accepted, Known
<1>6. RouteSound(dir, empty, dc) /\ RouteRecord(empty) /\ empty.ok = FALSE /\ empty.exit_status = None
  BY <1>3, EmptySound, EmptyFacts DEF EmptyRun
<1>7. copied = [empty EXCEPT !.input = source.input]
  BY DEF copy_input_manifest
<1>8. DOMAIN proc[p] = {"pc", "dir", "source"}
  BY <1>1 DEF Fenced, Waits
<1>9. doing.pc = "rec_record" /\ doing.dir = dir /\ doing.source = proc[p].source
  BY <1>8 DEF Dir
<1>10. source.orfs.import = source.orfs.final
  BY <1>3, <1>4 DEF RouteSound
<1>11. dir = Dir(p) /\ source = pnr[proc[p].source]
  OBVIOUS
<1> HIDE DEF source, empty, copied, doing, dir
<1>12. begun.input = source.input /\ begun.ok = FALSE /\ begun.orfs = source.orfs /\ begun.exit_status = None
  BY <1>6, <1>7 DEF RouteRecord
<1> HIDE DEF begun
<1>13. RouteSound(dir, begun, dc) /\ begun.ok = FALSE
  BY <1>3, <1>5, <1>10, <1>12 DEF RouteSound
<1>14. CASE Become(p, Idle) /\ UNCHANGED pnr
  BY <1>1, <1>14, IdleFacts, IdleKnows, StartFrame
<1>15. CASE dir \notin DOMAIN pnr /\ pnr' = Entered(pnr, dir, begun) /\ Become(p, doing)
  <2>1. pnr'[dir] = begun /\ \A x \in DOMAIN pnr' \ {dir} : x \in DOMAIN pnr /\ pnr'[x] = pnr[x]
    BY <1>15, RoutingCreates
  <2>2. dir \notin DOMAIN pnr \/ proc[p].pc \in PnrSteps
    BY <1>15
  <2>3. proc[p].source \in DOMAIN pnr' /\ pnr'[proc[p].source].orfs = source.orfs
    BY <1>3, <1>4, <1>11 DEF RoutesGrow
  <2>4. Informed(doing, dir, begun, pnr') /\ doing.pc \in PnrSteps /\ doing.pc # "idle"
    BY <1>3, <1>9, <1>12, <2>3 DEF Informed, PnrSteps
  <2>5. Handed' /\ TimesGrow /\ (begun.ok = FALSE => SealedRuns' = SealedRuns)
    BY <1>1, <1>11, <1>13, <1>15, <2>1, <2>2, <2>4, RoutingFrame, ZenonT(60)
  <2> QED BY <1>13, <2>5
<1>16. CASE dir \notin DOMAIN pnr /\ pnr' = Entered(pnr, dir, empty) /\ Become(p, Idle)
  <2>1. pnr'[dir] = empty /\ \A x \in DOMAIN pnr' \ {dir} : x \in DOMAIN pnr /\ pnr'[x] = pnr[x]
    BY <1>16, RoutingCreates
  <2>2. dir \notin DOMAIN pnr \/ proc[p].pc \in PnrSteps
    BY <1>16
  <2>3. Become(p, Idle)
    BY <1>16
  <2>4. Handed' /\ TimesGrow /\ (empty.ok = FALSE => SealedRuns' = SealedRuns)
    BY <1>1, <1>6, <1>11, <2>1, <2>2, <2>3, IdleFacts, RoutingFrame
  <2> QED BY <1>6, <2>4
<1> QED BY <1>2, <1>14, <1>15, <1>16

LEMMA RecoverRecordHands ==
  ASSUME NoneIsNoRecord, Fenced, Traced, Handed, NEW p \in Proc, RecoverRecord(p), RoutesGrow
  PROVE  Handed' /\ TimesGrow /\ SealedRuns' = SealedRuns
<1> DEFINE dir == Dir(p)
           run == pnr[dir]
           source == pnr[proc[p].source]
           ledger == same_run_artifacts(run, source.orfs.final)
           gathered == [run EXCEPT !.handoff = source.orfs.final]
           recorded == [gathered EXCEPT !.ledger = ledger, !.contract.mapped = ledger.pnr_input,
                                        !.contract.import = ledger.orfs_import]
           exited == [recorded EXCEPT !.exit_status = 0]
           doing == [pc |-> "pnr_mark", dir |-> dir]
<1>1. UNCHANGED <<tree, sram, lc, dc, sta, faults>> /\ proc[p].pc = "rec_record" /\ proc[p].pc \in PnrSteps
  BY DEF RecoverRecord, At, PnrSteps
<1>2. \/ pnr' = [pnr EXCEPT ![dir] = gathered] /\ Become(p, Idle)
      \/ pnr' = [pnr EXCEPT ![dir] = recorded] /\ Become(p, Idle)
      \/ SameMapped(ledger) /\ pnr' = [pnr EXCEPT ![dir] = exited] /\ Become(p, doing)
  BY DEF RecoverRecord
<1>3. RouteRecord(run) /\ RouteSound(dir, run, dc) /\ run.ok = FALSE
  BY <1>1, RoutingHas
<1>4. proc[p].source \in DOMAIN pnr /\ source.orfs # None /\ run.orfs = source.orfs
  BY <1>1, RoutingHas DEF Recovering
<1>5. source.orfs.import = source.orfs.final
  BY <1>4 DEF Handed, RouteSound
<1>6. ledger # None
  BY NotNone DEF same_run_artifacts, Ledger
<1>7. SameMapped(ledger) => ledger.routed = ledger.dc_output
  BY <1>4, <1>5 DEF same_run_artifacts, Ledger, SameMapped, sha256
<1>8. doing.pc = "pnr_mark" /\ doing.dir = dir /\ doing.pc \in PnrSteps /\ doing.pc # "idle"
  BY DEF PnrSteps
<1>9. dir = Dir(p)
  OBVIOUS
<1> HIDE DEF ledger, source, run, dir, doing
<1>10. /\ RouteRecord(gathered) /\ gathered.input = run.input /\ gathered.ok = FALSE
       /\ gathered.orfs = run.orfs /\ gathered.exit_status = run.exit_status
  BY <1>3 DEF RouteRecord
<1> HIDE DEF gathered
<1>11. /\ RouteRecord(recorded) /\ recorded.ledger = ledger
       /\ recorded.input = run.input /\ recorded.ok = FALSE
       /\ recorded.orfs = run.orfs /\ recorded.exit_status = run.exit_status
  BY <1>10 DEF RouteRecord
<1> HIDE DEF recorded
<1>12. /\ exited.ledger = ledger /\ exited.input = run.input /\ exited.ok = FALSE
       /\ exited.orfs = run.orfs /\ exited.exit_status = 0
  BY <1>11 DEF RouteRecord
<1> HIDE DEF exited
<1>13. ASSUME NEW now \in {gathered, recorded, exited}
       PROVE  RouteSound(dir, now, dc) /\ now.ok = FALSE
  BY <1>3, <1>10, <1>11, <1>12 DEF RouteSound
<1>14. CASE pnr' = [pnr EXCEPT ![dir] = gathered] /\ Become(p, Idle)
  BY <1>1, <1>9, <1>13, <1>14, IdleFacts, RoutingUpdate
<1>15. CASE pnr' = [pnr EXCEPT ![dir] = recorded] /\ Become(p, Idle)
  BY <1>1, <1>9, <1>13, <1>15, IdleFacts, RoutingUpdate
<1>16. CASE SameMapped(ledger) /\ pnr' = [pnr EXCEPT ![dir] = exited] /\ Become(p, doing)
  <2>1. Informed(doing, dir, exited, pnr')
    BY <1>6, <1>7, <1>8, <1>12, <1>16 DEF Informed, Routed
  <2> QED BY <1>1, <1>8, <1>9, <1>13, <1>16, <2>1, RoutingUpdate
<1> QED BY <1>2, <1>14, <1>15, <1>16

-----------------------------------------------------------------------------
(***************************************************************************)
(* The timing analysis.                                                    *)
(***************************************************************************)

LEMMA TimingKnows ==
  ASSUME NEW p \in Proc, proc'[p].pc \in StaSteps
  PROVE  Knows(p)'
<1>1. Named(p)'
  BY DEF Named, Working, StaSteps
<1>2. Synthesising(p)' /\ PlacingRouting(p)' /\ Recovering(p)' /\ Timing(p)'
  BY DEF Synthesising, PlacingRouting, Recovering, Timing, DcSteps, StaSteps
<1> QED BY <1>1, <1>2 DEF Knows

LEMMA TimingFrame ==
  ASSUME Fenced, Traced, Handed, NEW p \in Proc, NEW doing, Become(p, doing),
         UNCHANGED <<tree, sram, lc, dc, pnr, faults>>,
         NEW dir, NEW run, DOMAIN sta' = DOMAIN sta \cup {dir}, sta'[dir] = run,
         \A x \in DOMAIN sta \ {dir} : sta'[x] = sta[x],
         dir \in DOMAIN sta => run.input = sta[dir].input /\ sta[dir].ok = FALSE,
         TimeSound(dir, run, pnr),
         doing.pc \in StaSteps \cup {"idle"}, doing.pc = "idle" => doing = Idle
  PROVE  /\ Handed' /\ TimesGrow
         /\ run.ok = FALSE => SealedRuns' = SealedRuns
<1>1. proc'[p] = doing /\ \A q \in Proc \ {p} : proc'[q] = proc[q]
  BY Becomes
<1>2. Knows(p)' /\ proc'[p].pc \notin {"sram_views", "lc_tool"}
  <2>1. CASE doing.pc = "idle"
    BY <2>1, IdleKnows
  <2>2. CASE doing.pc \in StaSteps
    BY <1>1, <2>2, TimingKnows DEF StaSteps
  <2> QED BY <2>1, <2>2
<1>3. /\ Handed' /\ TimesGrow
      /\ (sta'[dir].ok => dir \in DOMAIN sta /\ sta[dir].ok) => SealedRuns' = SealedRuns
  BY <1>1, <1>2, TimeFrame
<1> QED BY <1>3

LEMMA StaOpenHands ==
  ASSUME Fenced, Traced, Handed, NEW p \in Proc, StaOpen(p)
  PROVE  Handed' /\ TimesGrow /\ SealedRuns' = SealedRuns
<1> DEFINE dir == Dir(p)
           source == pnr[proc[p].source]
           input == [identity |-> Now(dir.line[2]), source |-> proc[p].source, db |-> disk.db,
                     pnr_output |-> source.ledger.routed, sta_input |-> proc[p].routed]
           run == [input |-> input, report |-> None, analysed |-> None, summary |-> None, ok |-> FALSE]
           doing == [proc[p] EXCEPT !.pc = "sta_tool"]
<1>1. UNCHANGED <<tree, sram, lc, dc, pnr, faults>> /\ proc[p].pc = "sta_open"
  BY DEF StaOpen, At
<1>2. \/ Become(p, Idle) /\ UNCHANGED sta
      \/ dir \notin DOMAIN sta /\ sta' = Entered(sta, dir, run) /\ Become(p, doing)
  BY DEF StaOpen
<1>3. /\ Known(Now(dir.line[2]), dir) /\ Fields(source.input.identity) = Fields(Now(dir.line[2]))
      /\ proc[p].routed = source.ledger.routed
  BY <1>1 DEF Handed, Knows, Timing
<1>4. /\ input.identity = Now(dir.line[2]) /\ input.source = proc[p].source
      /\ input.pnr_output = source.ledger.routed /\ input.sta_input = proc[p].routed
  OBVIOUS
<1> HIDE DEF input
<1>5. run.input = input /\ run.ok = FALSE
  OBVIOUS
<1>6. DOMAIN proc[p] = {"pc", "dir", "source", "routed"}
  BY <1>1 DEF Fenced, Waits
<1>7. doing.pc = "sta_tool" /\ doing.pc \in StaSteps /\ doing.pc # "idle"
  BY <1>6 DEF StaSteps
<1> HIDE DEF run, doing, dir
<1>8. TimeSound(dir, run, pnr)
  BY <1>3, <1>4, <1>5 DEF TimeSound
<1>9. CASE Become(p, Idle) /\ UNCHANGED sta
  BY <1>1, <1>9, IdleFacts, IdleKnows, StartFrame
<1>10. CASE dir \notin DOMAIN sta /\ sta' = Entered(sta, dir, run) /\ Become(p, doing)
  <2>1. /\ DOMAIN sta' = DOMAIN sta \cup {dir} /\ sta'[dir] = run
        /\ \A x \in DOMAIN sta \ {dir} : sta'[x] = sta[x]
    BY <1>10 DEF Entered
  <2>2. Become(p, doing) /\ dir \notin DOMAIN sta
    BY <1>10
  <2>3. dir \in DOMAIN sta => run.input = sta[dir].input /\ sta[dir].ok = FALSE
    BY <2>2
  <2>4. Handed' /\ TimesGrow /\ (run.ok = FALSE => SealedRuns' = SealedRuns)
    BY <1>1, <1>7, <1>8, <2>1, <2>2, <2>3, TimingFrame
  <2> QED BY <1>5, <2>4
<1> QED BY <1>2, <1>9, <1>10

LEMMA TimingUpdate ==
  ASSUME Fenced, Traced, Handed, NEW p \in Proc, proc[p].pc \in StaSteps, NEW doing, Become(p, doing),
         UNCHANGED <<tree, sram, lc, dc, pnr, faults>>,
         NEW dir, dir = Dir(p), NEW run, DOMAIN sta' = DOMAIN sta, sta'[dir] = run,
         \A x \in DOMAIN sta \ {dir} : sta'[x] = sta[x], run.input = sta[dir].input,
         doing.pc \in StaSteps \cup {"idle"}, doing.pc = "idle" => doing = Idle
  PROVE  /\ Handed' /\ TimesGrow
         /\ run.ok = FALSE => SealedRuns' = SealedRuns
<1>1. dir \in DOMAIN sta /\ sta[dir].ok = FALSE
  BY StaHas DEF StaOwn
<1>2. DOMAIN sta' = DOMAIN sta \cup {dir}
  BY <1>1
<1>3. TimeSound(dir, run, pnr)
  BY <1>1 DEF Handed, TimeSound
<1>4. dir \in DOMAIN sta => run.input = sta[dir].input /\ sta[dir].ok = FALSE
  BY <1>1
<1> QED BY <1>2, <1>3, <1>4, TimingFrame, ZenonT(60)

LEMMA StaToolHands ==
  ASSUME Fenced, Traced, Handed, NEW p \in Proc, StaTool(p)
  PROVE  Handed' /\ TimesGrow /\ SealedRuns' = SealedRuns
<1> DEFINE dir == Dir(p)
           run == sta[dir]
           doing == [proc[p] EXCEPT !.pc = "sta_mark"]
<1>1. UNCHANGED <<tree, sram, lc, dc, pnr, faults>> /\ proc[p].pc = "sta_tool" /\ proc[p].pc \in StaSteps
  BY DEF StaTool, At, StaSteps
<1>2. dir \in DOMAIN sta /\ TimingRecord(run) /\ StaOwn(proc[p], run)
  BY <1>1, StaHas
<1>3. CASE Become(p, Idle) /\ UNCHANGED sta
  BY <1>1, <1>3, IdleFacts, IdleKnows, StartFrame
<1>4. ASSUME NEW report, NEW handoff, Become(p, doing),
             sta' = [sta EXCEPT ![dir].report = report, ![dir].analysed = handoff]
      PROVE  Handed' /\ TimesGrow /\ SealedRuns' = SealedRuns
  <2> DEFINE now == [run EXCEPT !.report = report, !.analysed = handoff]
  <2>1. DOMAIN sta' = DOMAIN sta /\ sta'[dir] = now /\ \A x \in DOMAIN sta \ {dir} : sta'[x] = sta[x]
    BY <1>2, <1>4
  <2>2. dir = Dir(p) /\ run = sta[dir] /\ Become(p, doing)
    BY <1>4
  <2>3. doing.pc = "sta_mark" /\ doing.pc \in StaSteps /\ doing.pc # "idle" /\ run.ok = FALSE
    BY <1>2 DEF StaOwn, StaSteps
  <2> HIDE DEF run, dir, doing
  <2>4. now.input = run.input /\ now.ok = FALSE
    BY <1>2, <2>3 DEF TimingRecord
  <2> HIDE DEF now
  <2>5. Handed' /\ TimesGrow /\ (now.ok = FALSE => SealedRuns' = SealedRuns)
    BY <1>1, <2>1, <2>2, <2>3, <2>4, TimingUpdate, ZenonT(60)
  <2> QED BY <2>4, <2>5
<1> QED BY <1>3, <1>4 DEF StaTool

LEMMA StaMarkHands ==
  ASSUME Fenced, Traced, Handed, NEW p \in Proc, StaMark(p)
  PROVE  Handed' /\ TimesGrow
<1> DEFINE dir == Dir(p)
           run == sta[dir]
<1>1. UNCHANGED <<tree, sram, lc, dc, pnr, faults>> /\ proc[p].pc = "sta_mark" /\ proc[p].pc \in StaSteps
  BY DEF StaMark, At, StaSteps
<1>2. PICK closed, summary : /\ sta' = [sta EXCEPT ![dir].ok = closed, ![dir].summary = summary]
                             /\ Become(p, Idle)
  BY DEF StaMark
<1> DEFINE marked == [run EXCEPT !.ok = closed, !.summary = summary]
<1>3. TimingRecord(run) /\ dir \in DOMAIN sta
  BY <1>1, StaHas
<1>4. /\ dir = Dir(p) /\ run = sta[dir] /\ Become(p, Idle)
      /\ DOMAIN sta' = DOMAIN sta /\ sta'[dir] = marked /\ \A x \in DOMAIN sta \ {dir} : sta'[x] = sta[x]
  BY <1>2, <1>3
<1> HIDE DEF run, dir
<1>5. marked.input = run.input
  BY <1>3 DEF TimingRecord
<1> HIDE DEF marked
<1>6. Idle.pc \in StaSteps \cup {"idle"} /\ marked.input = sta[dir].input
  BY <1>4, <1>5, IdleFacts
<1>7. /\ Handed' /\ TimesGrow
      /\ marked.ok = FALSE => SealedRuns' = SealedRuns
  BY <1>1, <1>4, <1>6, TimingUpdate, ZenonT(60)
<1> QED BY <1>7

-----------------------------------------------------------------------------
(***************************************************************************)
(* Faults.                                                                 *)
(***************************************************************************)

LEMMA FaultFrame ==
  ASSUME Fenced, Traced, Handed, UNCHANGED <<tree, sram, lc, sta, proc>>, faults' \in 0 .. MaxFaults,
         DcGrows, RoutesGrow,
         \A dir \in DOMAIN dc' : MatrixSound(dir, dc'[dir]),
         \A dir \in DOMAIN pnr' : RouteSound(dir, pnr'[dir], dc'),
         \A p \in Proc :
           /\ proc[p].pc \in DcSteps => dc'[Dir(p)].input = dc[Dir(p)].input
           /\ proc[p].pc = "dc_seal" =>
                dc'[Dir(p)].points[proc[p].mhz].mapped = dc[Dir(p)].points[proc[p].mhz].mapped
           /\ proc[p].pc \in PnrSteps => /\ pnr'[Dir(p)].orfs = pnr[Dir(p)].orfs
                                         /\ pnr'[Dir(p)].ledger = pnr[Dir(p)].ledger
           /\ proc[p].pc = "pnr_record" => pnr'[Dir(p)].handoff = pnr[Dir(p)].handoff,
         DcSteady({}), RoutesSteady({})
  PROVE  Handed' /\ TimesGrow /\ SealedRuns' = SealedRuns
<1>1. Stocked' /\ (Supplied => Supplied')
  BY DEF Handed, Stocked, Supplied, Databases, At, t, macros, memory_data
<1>2. \A p \in Proc : Knows(p)'
  <2> TAKE p \in Proc
  <2>1. Knows(p) /\ proc'[p] = proc[p]
    BY DEF Handed
  <2> QED BY <1>1, <2>1, KnowsStays
<1>3. \A dir \in DOMAIN sta' : TimeSound(dir, sta'[dir], pnr')
  BY TimeSoundStays DEF Handed, Traced
<1>4. Handed'
  BY <1>1, <1>2, <1>3 DEF Handed
<1>5. TimesGrow /\ TimesSteady({})
  BY DEF TimesGrow, TimesSteady
<1> QED BY <1>4, <1>5, NothingSealed

LEMMA FaultCounts ==
  ASSUME Handed, Fault
  PROVE  faults' \in 0 .. MaxFaults
  BY FlowConstants DEF Handed, Fault

LEMMA CrashHands ==
  ASSUME Fenced, Traced, Handed, NEW p \in Proc, Crash(p)
  PROVE  Handed' /\ TimesGrow /\ SealedRuns' = SealedRuns
<1>1. Become(p, Idle) /\ UNCHANGED <<tree, sram, lc, dc, pnr, sta>> /\ faults' \in 0 .. MaxFaults
  BY FaultCounts DEF Crash
<1>2. /\ Knows(p)' /\ proc'[p].pc \notin {"sram_views", "lc_tool"}
      /\ \A q \in Proc \ {p} : proc'[q] = proc[q]
  BY <1>1, IdleKnows
<1>3. Stocked' /\ (Supplied => Supplied')
  BY <1>1, <1>2, StockedStays DEF Handed
<1> QED BY <1>1, <1>2, <1>3, RestFrame

(* A checkout is taken when no process runs: none knows anything.          *)
LEMMA CheckoutHands ==
  ASSUME Fenced, Traced, Handed, Checkout
  PROVE  Handed' /\ TimesGrow /\ SealedRuns' = SealedRuns
<1>1. /\ UNCHANGED <<sram, lc, dc, pnr, sta, proc>> /\ faults' \in 0 .. MaxFaults
      /\ \A p \in Proc : proc[p].pc = "idle"
  BY FaultCounts DEF Checkout, AllIdle, At
<1>2. \A p \in Proc : Knows(p)'
  <2> TAKE p \in Proc
  <2>1. "dir" \notin DOMAIN proc[p] /\ proc[p].pc \notin OpenSteps \cup Working
    BY <1>1 DEF Handed, Knows, Named, OpenSteps, Working, DcSteps, PnrSteps, StaSteps
  <2> QED BY <1>1, <2>1, Unknowing
<1>3. Stocked'
  BY <1>1 DEF Handed, Stocked, At
<1>4. DcGrows /\ RoutesGrow /\ TimesGrow
  BY <1>1, SameDc, SameRoutes DEF TimesGrow
<1>5. DcSteady({}) /\ RoutesSteady({}) /\ TimesSteady({})
  BY <1>1 DEF DcSteady, RoutesSteady, TimesSteady, Point
<1>6. Handed'
  BY <1>1, <1>2, <1>3 DEF Handed
<1> QED BY <1>4, <1>5, <1>6, NothingSealed

LEMMA RestHands ==
  ASSUME Fenced, Traced, Handed, ReplaceLibrary \/ UNCHANGED vars
  PROVE  Handed' /\ TimesGrow /\ SealedRuns' = SealedRuns
<1>1. UNCHANGED <<tree, sram, lc, dc, pnr, sta, proc>> /\ faults' \in 0 .. MaxFaults
  <2>1. CASE ReplaceLibrary
    BY <2>1, FaultCounts DEF ReplaceLibrary
  <2>2. CASE UNCHANGED vars
    BY <2>2 DEF vars, Handed
  <2> QED BY <2>1, <2>2
<1>2. DcGrows /\ RoutesGrow
  BY <1>1, SameDc, SameRoutes
<1>3. DcSteady({}) /\ RoutesSteady({})
  BY <1>1 DEF DcSteady, RoutesSteady, Point
<1>4. /\ \A dir \in DOMAIN dc' : MatrixSound(dir, dc'[dir])
      /\ \A dir \in DOMAIN pnr' : RouteSound(dir, pnr'[dir], dc')
  BY <1>1 DEF Handed
<1> QED BY <1>1, <1>2, <1>3, <1>4, FaultFrame

LEMMA AlterMappedHands ==
  ASSUME Fenced, Traced, Handed, AlterMapped, DcGrows
  PROVE  Handed' /\ TimesGrow /\ SealedRuns' = SealedRuns
<1>1. UNCHANGED <<tree, sram, lc, pnr, sta, proc>> /\ faults' \in 0 .. MaxFaults
  BY FaultCounts DEF AlterMapped
<1>2. PICK dir \in DOMAIN dc : \E f \in DOMAIN dc[dir].points :
        /\ dc[dir].points[f].output # None /\ dc' = [dc EXCEPT ![dir].points[f].mapped = Altered]
  BY DEF AlterMapped, Point
<1>3. PICK f \in DOMAIN dc[dir].points :
        /\ dc[dir].points[f].output # None /\ dc' = [dc EXCEPT ![dir].points[f].mapped = Altered]
  BY <1>2
<1> DEFINE d == dc[dir]
           point == [d.points[f] EXCEPT !.mapped = Altered]
           e == [d EXCEPT !.points = [d.points EXCEPT ![f] = point]]
<1>4. MatrixRecord(d) /\ f \in DOMAIN d.points /\ d = dc[dir] /\ d.points[f].output # None
  BY <1>3 DEF Fenced
<1>5. DOMAIN dc' = DOMAIN dc /\ dc'[dir] = e /\ \A x \in DOMAIN dc \ {dir} : dc'[x] = dc[x]
  BY <1>3
<1> HIDE DEF d
<1>6. DOMAIN d.points[f] = {"report", "output", "ok", "mapped"}
  BY <1>4 DEF MatrixRecord
<1>7. /\ DOMAIN point = {"report", "output", "ok", "mapped"} /\ point.report = d.points[f].report
      /\ point.ok = d.points[f].ok /\ point.output = d.points[f].output
  BY <1>6
<1>8. e = [d EXCEPT !.points = [d.points EXCEPT ![f] = point]]
  OBVIOUS
<1> HIDE DEF point, e
<1>9. /\ DOMAIN e.points = DOMAIN d.points /\ e.points[f] = point /\ e.input = d.input
      /\ \A g \in DOMAIN d.points \ {f} : e.points[g] = d.points[g]
  BY <1>4, <1>7, <1>8, PointUpdate
<1>10. \A g \in DOMAIN d.points : e.points[g].output = d.points[g].output /\ e.points[g].ok = d.points[g].ok
  BY <1>7, <1>9
<1>11. MatrixSound(dir, d)
  BY <1>4 DEF Handed
<1>12. MatrixSound(dir, e)
  BY <1>9, <1>10, <1>11 DEF MatrixSound
<1>13. \A x \in DOMAIN dc' : MatrixSound(x, dc'[x])
  BY <1>5, <1>12 DEF Handed
<1>14. \A x \in DOMAIN pnr' : RouteSound(x, pnr'[x], dc')
  BY <1>1, RouteSoundStays DEF Handed
<1>15. ASSUME NEW p \in Proc, proc[p].pc \in DcSteps
       PROVE  /\ dc'[Dir(p)].input = dc[Dir(p)].input
              /\ proc[p].pc = "dc_seal" =>
                   dc'[Dir(p)].points[proc[p].mhz].mapped = dc[Dir(p)].points[proc[p].mhz].mapped
  <2>1. Dir(p) \in DOMAIN dc /\ DcOwn(proc[p], dc[Dir(p)])
    BY <1>15, DcHas
  <2>2. CASE Dir(p) # dir
    BY <1>5, <2>1, <2>2
  <2>3. CASE Dir(p) = dir
    <3>1. dc'[Dir(p)].input = dc[Dir(p)].input
      BY <1>4, <1>5, <1>9, <2>3
    <3>2. proc[p].pc = "dc_seal" => proc[p].mhz \in DOMAIN d.points \ {f}
      BY <1>4, <2>1, <2>3 DEF DcOwn
    <3>3. proc[p].pc = "dc_seal" => e.points[proc[p].mhz] = d.points[proc[p].mhz]
      BY <1>9, <3>2
    <3> QED BY <1>4, <1>5, <2>3, <3>1, <3>3
  <2> QED BY <2>2, <2>3
<1>16. DcSteady({})
  <2> SUFFICES ASSUME NEW x \in DOMAIN dc', NEW g \in DOMAIN dc'[x].points, dc'[x].points[g].ok
               PROVE  x \in DOMAIN dc /\ g \in DOMAIN dc[x].points /\ dc[x].points[g].ok
    BY DEF DcSteady, Point
  <2>1. CASE x = dir
    BY <1>4, <1>5, <1>9, <1>10, <2>1
  <2>2. CASE x # dir
    BY <1>5, <2>2
  <2> QED BY <2>1, <2>2
<1>17. RoutesGrow /\ RoutesSteady({})
  BY <1>1, SameRoutes DEF RoutesSteady
<1>18. \A p \in Proc :
         /\ proc[p].pc \in DcSteps => dc'[Dir(p)].input = dc[Dir(p)].input
         /\ proc[p].pc = "dc_seal" =>
              dc'[Dir(p)].points[proc[p].mhz].mapped = dc[Dir(p)].points[proc[p].mhz].mapped
  BY <1>15 DEF DcSteps
<1> QED BY <1>1, <1>13, <1>14, <1>16, <1>17, <1>18, FaultFrame

LEMMA AlterRouteHands ==
  ASSUME Fenced, Traced, Handed, AlterCopy \/ AlterHandoff, RoutesGrow
  PROVE  Handed' /\ TimesGrow /\ SealedRuns' = SealedRuns
<1>1. UNCHANGED <<tree, sram, lc, dc, sta, proc>> /\ faults' \in 0 .. MaxFaults
  BY FaultCounts DEF AlterCopy, AlterHandoff
<1>2. PICK dir \in DOMAIN pnr :
        \/ pnr' = [pnr EXCEPT ![dir].copy = Altered]
        \/ pnr[dir].ledger # None /\ pnr' = [pnr EXCEPT ![dir].handoff = Altered]
  BY DEF AlterCopy, AlterHandoff
<1> DEFINE run == pnr[dir]
<1>3. PICK now : /\ pnr' = [pnr EXCEPT ![dir] = now]
                 /\ \/ now = [run EXCEPT !.copy = Altered]
                    \/ run.ledger # None /\ now = [run EXCEPT !.handoff = Altered]
  BY <1>2
<1>4. RouteRecord(run) /\ run = pnr[dir]
  BY DEF Fenced
<1>5. DOMAIN pnr' = DOMAIN pnr /\ pnr'[dir] = now /\ \A x \in DOMAIN pnr \ {dir} : pnr'[x] = pnr[x]
  BY <1>3
<1> HIDE DEF run
<1>6. /\ now.input = run.input /\ now.ledger = run.ledger /\ now.ok = run.ok /\ now.orfs = run.orfs
      /\ now.exit_status = run.exit_status
      /\ run.ledger = None => now.handoff = run.handoff
  BY <1>3, <1>4 DEF RouteRecord
<1>7. RouteSound(dir, run, dc)
  BY <1>4 DEF Handed
<1>8. RouteSound(dir, now, dc)
  BY <1>6, <1>7 DEF RouteSound, Routed
<1>9. \A x \in DOMAIN pnr' : RouteSound(x, pnr'[x], dc')
  BY <1>1, <1>5, <1>8 DEF Handed
<1>10. \A x \in DOMAIN dc' : MatrixSound(x, dc'[x])
  BY <1>1 DEF Handed
<1>11. DcGrows /\ DcSteady({}) /\ RoutesSteady({})
  BY <1>1, <1>4, <1>5, <1>6, SameDc DEF DcSteady, RoutesSteady, Point
<1>12. ASSUME NEW p \in Proc, proc[p].pc \in PnrSteps
       PROVE  /\ pnr'[Dir(p)].orfs = pnr[Dir(p)].orfs /\ pnr'[Dir(p)].ledger = pnr[Dir(p)].ledger
              /\ proc[p].pc = "pnr_record" => pnr'[Dir(p)].handoff = pnr[Dir(p)].handoff
  <2>1. Dir(p) \in DOMAIN pnr /\ PnrOwn(proc[p], pnr[Dir(p)])
    BY <1>12, PnrHas
  <2>2. CASE Dir(p) # dir
    BY <1>5, <2>1, <2>2
  <2>3. CASE Dir(p) = dir
    BY <1>4, <1>5, <1>6, <2>1, <2>3 DEF PnrOwn
  <2> QED BY <2>2, <2>3
<1>13. \A p \in Proc :
         /\ proc[p].pc \in PnrSteps => /\ pnr'[Dir(p)].orfs = pnr[Dir(p)].orfs
                                       /\ pnr'[Dir(p)].ledger = pnr[Dir(p)].ledger
         /\ proc[p].pc = "pnr_record" => pnr'[Dir(p)].handoff = pnr[Dir(p)].handoff
  BY <1>12 DEF PnrSteps
<1> QED BY <1>1, <1>9, <1>10, <1>11, <1>13, FaultFrame

-----------------------------------------------------------------------------
(***************************************************************************)
(* A run is sealed.                                                        *)
(***************************************************************************)

Fresh(run) == \A other \in SealedRuns : <<other.stage, other.dir>> # <<run.stage, run.dir>>

LEMMA Seals ==
  ASSUME NEW run, SealedRuns' = SealedRuns \cup {run}, Fresh(run), run.made = run.identity,
         \/ run.stage = "dc"
         \/ \E parent \in SealedRuns : /\ parent.stage = [pnr |-> "dc", sta |-> "pnr"][run.stage]
                                       /\ parent.identity = run.identity /\ parent.product = run.input
  PROVE  Chain!Next
<1>1. run \in SealedRuns' \ SealedRuns
  BY DEF Fresh
<1>2. Chain!Seal(run)
  BY DEF Chain!Seal, Chain!Linked, Chain!Previous, Fresh
<1> QED BY <1>1, <1>2 DEF Chain!Next

LEMMA DcRunIs ==
  ASSUME NEW dir, NEW f, NEW output
  PROVE  /\ DcRun(dir, f, output).stage = "dc"
         /\ DcRun(dir, f, output).dir = [line |-> dir.line, id |-> dir.id, mhz |-> f]
         /\ DcRun(dir, f, output).identity = Class(output.identity)
         /\ DcRun(dir, f, output).product = output.mapped
         /\ DcRun(dir, f, output).made = Made(output.mapped, dir.line)
  BY DEF DcRun

LEMMA PnrRunIs ==
  ASSUME NEW dir, NEW run
  PROVE  /\ PnrRun(dir, run).stage = "pnr" /\ PnrRun(dir, run).dir = dir
         /\ PnrRun(dir, run).identity = Class(run.input.identity)
         /\ PnrRun(dir, run).input = run.ledger.dc_output /\ PnrRun(dir, run).product = run.ledger.routed
         /\ PnrRun(dir, run).made = Made(run.ledger.routed, dir.line)
  BY DEF PnrRun

LEMMA StaRunIs ==
  ASSUME NEW dir, NEW run
  PROVE  /\ StaRun(dir, run).stage = "sta" /\ StaRun(dir, run).dir = dir
         /\ StaRun(dir, run).identity = Class(run.input.identity)
         /\ StaRun(dir, run).input = run.input.pnr_output
         /\ StaRun(dir, run).made = Made(run.input.sta_input, dir.line)
  BY DEF StaRun

(* What is sealed is one of these.                                         *)
LEMMA SealedIs ==
  ASSUME NEW x \in SealedRuns
  PROVE  \/ \E dir \in DOMAIN dc : \E f \in DOMAIN dc[dir].points :
              Point(dir, f).ok /\ x = DcRun(dir, f, Point(dir, f).output)
         \/ \E dir \in DOMAIN pnr : pnr[dir].ok /\ x = PnrRun(dir, pnr[dir])
         \/ \E dir \in DOMAIN sta : sta[dir].ok /\ x = StaRun(dir, sta[dir])
<1>1. CASE x \in DcRuns
  BY <1>1 DEF DcRuns, DcDone
<1>2. CASE x \in PnrRuns
  BY <1>2 DEF PnrRuns
<1>3. CASE x \in StaRuns
  BY <1>3 DEF StaRuns
<1> QED BY <1>1, <1>2, <1>3 DEF SealedRuns

LEMMA DcFresh ==
  ASSUME Handed, NEW dir \in DOMAIN dc, NEW f \in DOMAIN dc[dir].points, dc[dir].points[f].ok = FALSE, NEW output
  PROVE  Fresh(DcRun(dir, f, output))
<1> SUFFICES ASSUME NEW other \in SealedRuns,
                    other.stage = "dc", other.dir = [line |-> dir.line, id |-> dir.id, mhz |-> f]
             PROVE  FALSE
  BY DcRunIs DEF Fresh
<1>1. PICK x \in DOMAIN dc : \E g \in DOMAIN dc[x].points :
        Point(x, g).ok /\ other = DcRun(x, g, Point(x, g).output)
  BY SealedIs, PnrRunIs, StaRunIs
<1>2. PICK g \in DOMAIN dc[x].points : Point(x, g).ok /\ other = DcRun(x, g, Point(x, g).output)
  BY <1>1
<1>3. other.dir = [line |-> x.line, id |-> x.id, mhz |-> g]
  BY <1>2, DcRunIs
<1>4. x.line = dir.line /\ x.id = dir.id /\ g = f
  BY <1>3
<1>5. x = dir
  BY <1>4 DEF Handed, MatrixSound, MatrixDir
<1> QED BY <1>2, <1>4, <1>5 DEF Point

LEMMA PnrFresh ==
  ASSUME NEW dir, NEW run, dir \in DOMAIN pnr => pnr[dir].ok = FALSE
  PROVE  Fresh(PnrRun(dir, run))
<1> SUFFICES ASSUME NEW other \in SealedRuns, other.stage = "pnr", other.dir = dir
             PROVE  FALSE
  BY PnrRunIs DEF Fresh
<1>1. PICK x \in DOMAIN pnr : pnr[x].ok /\ other = PnrRun(x, pnr[x])
  <2>1. \A x, f, output : DcRun(x, f, output).stage # "pnr"
    BY DcRunIs
  <2>2. \A x, y : StaRun(x, y).stage # "pnr"
    BY StaRunIs
  <2> QED BY <2>1, <2>2, SealedIs
<1> QED BY <1>1, PnrRunIs

LEMMA StaFresh ==
  ASSUME NEW dir, NEW run, dir \in DOMAIN sta => sta[dir].ok = FALSE
  PROVE  Fresh(StaRun(dir, run))
<1> SUFFICES ASSUME NEW other \in SealedRuns, other.stage = "sta", other.dir = dir
             PROVE  FALSE
  BY StaRunIs DEF Fresh
<1>1. PICK x \in DOMAIN sta : sta[x].ok /\ other = StaRun(x, sta[x])
  <2>1. \A x, f, output : DcRun(x, f, output).stage # "sta"
    BY DcRunIs
  <2>2. \A x, y : PnrRun(x, y).stage # "sta"
    BY PnrRunIs
  <2> QED BY <2>1, <2>2, SealedIs
<1> QED BY <1>1, StaRunIs

(* Where a finished run of P&R comes from.                                 *)
Traceable(dir, run, from, identity, output) ==
  /\ from.dir \in DOMAIN dc /\ from.mhz \in DOMAIN dc[from.dir].points
  /\ dc[from.dir].points[from.mhz].ok
  /\ Known(identity, dir) /\ Class(output.identity) = Class(identity)
  /\ run.ledger.dc_output = output.mapped /\ run.ledger.routed = output.mapped
  /\ output.mapped # None
  /\ \A line : line[2] = identity.mode => Made(output.mapped, line) = Class(identity)

LEMMA RoutedFrom ==
  ASSUME Handed, NEW dir, NEW run, RouteSound(dir, run, dc), Tied(run, dc), Routed(run),
         NEW from, from = run.input.from
  PROVE  Traceable(dir, run, from, run.input.identity, dc[from.dir].points[from.mhz].output)
<1> DEFINE identity == run.input.identity
           output == dc[from.dir].points[from.mhz].output
<1>1. Accepted(identity, from, dir, dc)
  BY DEF RouteSound, Tied, Imported
<1>2. /\ from.dir \in DOMAIN dc /\ from.mhz \in DOMAIN dc[from.dir].points
      /\ dc[from.dir].points[from.mhz].ok /\ output # None
      /\ Known(identity, dir) /\ Fields(output.identity) = Fields(identity)
  BY <1>1 DEF Accepted, Sealed
<1>3. Known(output.identity, from.dir) /\ Genuine(output.mapped, output.identity)
  BY <1>2 DEF Handed, MatrixSound, Certified
<1>4. output.identity.mode = identity.mode /\ Class(output.identity) = Class(identity)
  BY <1>2, <1>3, SameClass
<1>5. run.ledger.dc_output = output.mapped /\ run.ledger.routed = output.mapped
  BY DEF Tied, Routed, Output
<1>6. ASSUME NEW line, line[2] = identity.mode
      PROVE  Made(output.mapped, line) = Class(identity)
  <2>1. line[2] = output.identity.mode
    BY <1>4, <1>6
  <2>2. Made(output.mapped, line) = Class(output.identity)
    BY ONLY <1>3, <2>1, GenuineMade
  <2> QED BY <1>4, <2>2
<1>7. output.mapped # None
  BY <1>3 DEF Genuine
<1> QED BY <1>2, <1>4, <1>5, <1>6, <1>7 DEF Traceable

(* A point of synthesis is marked.                                         *)
LEMMA PointMarked ==
  ASSUME NEW dir \in DOMAIN dc, NEW f \in DOMAIN dc[dir].points, DOMAIN dc[dir] = DOMAIN dc[dir] \cup {"points"},
         DOMAIN dc[dir].points[f] = {"report", "output", "ok", "mapped"},
         dc' = [dc EXCEPT ![dir].points[f].ok = TRUE]
  PROVE  /\ DOMAIN dc' = DOMAIN dc /\ \A x \in DOMAIN dc \ {dir} : dc'[x] = dc[x]
         /\ DOMAIN dc'[dir].points = DOMAIN dc[dir].points
         /\ \A g \in DOMAIN dc[dir].points \ {f} : dc'[dir].points[g] = dc[dir].points[g]
         /\ dc'[dir].points[f].ok = TRUE /\ dc'[dir].points[f].output = dc[dir].points[f].output
<1> DEFINE point == [dc[dir].points[f] EXCEPT !.ok = TRUE]
           points == [dc[dir].points EXCEPT ![f] = point]
           d == [dc[dir] EXCEPT !.points = points]
<1>1. dc' = [dc EXCEPT ![dir] = d]
  OBVIOUS
<1>2. point.ok = TRUE /\ point.output = dc[dir].points[f].output
  OBVIOUS
<1> HIDE DEF point
<1>3. /\ DOMAIN points = DOMAIN dc[dir].points /\ points[f] = point
      /\ \A g \in DOMAIN dc[dir].points \ {f} : points[g] = dc[dir].points[g]
  OBVIOUS
<1> HIDE DEF points
<1>4. d.points = points
  OBVIOUS
<1> HIDE DEF d
<1>5. DOMAIN dc' = DOMAIN dc /\ dc'[dir] = d /\ \A x \in DOMAIN dc \ {dir} : dc'[x] = dc[x]
  BY <1>1
<1> QED BY <1>2, <1>3, <1>4, <1>5

LEMMA DcMarkSeals ==
  ASSUME Fenced, Traced, Handed, NEW p \in Proc, DcMark(p), DcGrows,
         NEW dir, dir = Dir(p), NEW f, f = proc[p].mhz
  PROVE  Chain!Next
<1> DEFINE output == dc[dir].points[f].output
           run == DcRun(dir, f, output)
<1>1. /\ proc[p].pc = "dc_mark" /\ proc[p].pc \in DcSteps /\ UNCHANGED <<pnr, sta>>
      /\ dc' = [dc EXCEPT ![dir].points[f].ok = TRUE]
  BY DEF DcMark, At, DcSteps
<1>2. /\ dir \in DOMAIN dc /\ MatrixRecord(dc[dir]) /\ DcOwn(proc[p], dc[dir]) /\ MatrixSound(dir, dc[dir])
      /\ output # None
  BY <1>1, SynthesisHas
<1>3. f \in DOMAIN dc[dir].points /\ dc[dir].points[f].ok = FALSE
  BY <1>1, <1>2 DEF DcOwn
<1>4. Certified(output, dir)
  BY <1>2, <1>3 DEF MatrixSound
<1>5. /\ DOMAIN dc[dir] = DOMAIN dc[dir] \cup {"points"}
      /\ DOMAIN dc[dir].points[f] = {"report", "output", "ok", "mapped"}
  BY <1>2, <1>3 DEF MatrixRecord
<1>6. /\ DOMAIN dc' = DOMAIN dc /\ \A x \in DOMAIN dc \ {dir} : dc'[x] = dc[x]
      /\ DOMAIN dc'[dir].points = DOMAIN dc[dir].points
      /\ \A g \in DOMAIN dc[dir].points \ {f} : dc'[dir].points[g] = dc[dir].points[g]
      /\ dc'[dir].points[f].ok = TRUE /\ dc'[dir].points[f].output = output
  BY <1>1, <1>2, <1>3, <1>5, PointMarked
<1>7. DcSteady({<<dir, f>>})
  <2> SUFFICES ASSUME NEW x \in DOMAIN dc', NEW g \in DOMAIN dc'[x].points, dc'[x].points[g].ok,
                      <<x, g>> # <<dir, f>>
               PROVE  x \in DOMAIN dc /\ g \in DOMAIN dc[x].points /\ dc[x].points[g].ok
    BY DEF DcSteady, Point
  <2>1. CASE x = dir
    <3>1. g # f
      BY <2>1
    <3> QED BY <1>2, <1>6, <2>1, <3>1
  <2>2. CASE x # dir
    BY <1>6, <2>2
  <2> QED BY <2>1, <2>2
<1>8. DcRuns' = DcRuns \cup {run}
  <2>1. ASSUME NEW x
        PROVE  x \in {run} <=> \E y \in {<<dir, f>>} :
                 /\ y[1] \in DOMAIN dc' /\ y[2] \in DOMAIN dc'[y[1]].points /\ Point(y[1], y[2])'.ok
                 /\ x = DcRun(y[1], y[2], Point(y[1], y[2])'.output)
    <3>1. dir \in DOMAIN dc' /\ f \in DOMAIN dc'[dir].points /\ Point(dir, f)'.ok /\ Point(dir, f)'.output = output
      BY <1>2, <1>3, <1>6 DEF Point
    <3>2. run = DcRun(dir, f, output)
      OBVIOUS
    <3> HIDE DEF output, run
    <3> QED BY <3>1, <3>2
  <2> HIDE DEF run
  <2> QED BY <1>7, <2>1, DcRunsGrow
<1>9. PnrRuns' = PnrRuns /\ StaRuns' = StaRuns
  BY <1>1 DEF PnrRuns, StaRuns
<1>10. SealedRuns' = SealedRuns \cup {run}
  BY <1>8, <1>9 DEF SealedRuns
<1>11. Fresh(run)
  <2> HIDE DEF output
  <2> QED BY <1>2, <1>3, DcFresh
<1>12. run.stage = "dc" /\ run.made = run.identity
  <2>1. /\ run.stage = "dc" /\ run.made = Made(output.mapped, dir.line)
        /\ run.identity = Class(output.identity)
    <3> HIDE DEF output
    <3> QED BY DEF DcRun
  <2>2. dir.line[2] = output.identity.mode /\ Known(output.identity, dir) /\ Genuine(output.mapped, output.identity)
    BY <1>4 DEF Certified, Known
  <2>3. Made(output.mapped, dir.line) = Class(output.identity)
    BY <2>2, GenuineMade
  <2> QED BY <2>1, <2>3
<1> HIDE DEF run
<1> QED BY <1>10, <1>11, <1>12, Seals

LEMMA PnrMarkSeals ==
  ASSUME Fenced, Traced, Handed, NEW p \in Proc, PnrMark(p), RoutesGrow, NEW dir, dir = Dir(p)
  PROVE  [Chain!Next]_SealedRuns
<1> DEFINE run == pnr[dir]
<1>1. UNCHANGED <<dc, sta>> /\ proc[p].pc = "pnr_mark" /\ proc[p].pc \in PnrSteps
  BY DEF PnrMark, At, PnrSteps
<1>2. PICK complete, summary : pnr' = [pnr EXCEPT ![dir] = [run EXCEPT !.ok = complete, !.summary = summary]]
  BY DEF PnrMark
<1> DEFINE marked == [run EXCEPT !.ok = complete, !.summary = summary]
           sealed == PnrRun(dir, marked)
<1>3. RouteRecord(run) /\ RouteSound(dir, run, dc) /\ Routed(run) /\ dir \in DOMAIN pnr /\ run.ok = FALSE
  BY <1>1, RoutingHas DEF PlacingRouting
<1>4. Tied(run, dc)
  BY <1>1 DEF Traced, Doing, Routing, Dir
<1>5. DOMAIN pnr' = DOMAIN pnr /\ pnr'[dir] = marked /\ \A x \in DOMAIN pnr \ {dir} : pnr'[x] = pnr[x]
  BY <1>2, <1>3
<1>6. marked.input = run.input /\ marked.ledger = run.ledger
  BY <1>3 DEF RouteRecord
<1> HIDE DEF marked
<1>7. RoutesSteady({dir})
  BY <1>5 DEF RoutesSteady
<1>8. DcRuns' = DcRuns /\ StaRuns' = StaRuns
  BY <1>1 DEF DcRuns, DcDone, StaRuns, Point
<1>9. CASE ~marked.ok
  <2> DEFINE none == {}
  <2>1. \A x : x \in none <=> \E y \in {dir} : y \in DOMAIN pnr' /\ pnr'[y].ok /\ x = PnrRun(y, pnr'[y])
    BY <1>5, <1>9
  <2>2. PnrRuns' = PnrRuns \cup none
    <3> HIDE DEF none
    <3> QED BY <1>7, <2>1, PnrRunsGrow
  <2> QED BY <1>8, <2>2 DEF SealedRuns
<1>10. CASE marked.ok
  <2>1. \A x : x \in {sealed} <=> \E y \in {dir} : y \in DOMAIN pnr' /\ pnr'[y].ok /\ x = PnrRun(y, pnr'[y])
    BY <1>3, <1>5, <1>10
  <2>2. PnrRuns' = PnrRuns \cup {sealed}
    <3> HIDE DEF sealed
    <3> QED BY <1>7, <2>1, PnrRunsGrow
  <2>3. SealedRuns' = SealedRuns \cup {sealed}
    BY <1>8, <2>2 DEF SealedRuns
  <2>4. Fresh(sealed)
    BY <1>3, PnrFresh
  <2>5. /\ sealed.stage = "pnr" /\ sealed.identity = Class(run.input.identity)
        /\ sealed.input = run.ledger.dc_output /\ sealed.made = Made(run.ledger.routed, dir.line)
    BY <1>6, PnrRunIs
  <2> DEFINE from == run.input.from
             output == dc[from.dir].points[from.mhz].output
             identity == run.input.identity
             parent == DcRun(from.dir, from.mhz, output)
  <2> HIDE DEF sealed, run
  <2>6. Traceable(dir, run, from, identity, output)
    BY <1>3, <1>4, RoutedFrom
  <2>7. Made(output.mapped, dir.line) = Class(identity)
    BY <2>6 DEF Traceable, Known
  <2>8. parent \in DcRuns
    <3>1. from.mhz \in DcDone(from.dir) /\ parent = DcRun(from.dir, from.mhz, Point(from.dir, from.mhz).output)
      BY <2>6 DEF DcDone, Point, Traceable
    <3> HIDE DEF from, parent
    <3> QED BY <2>6, <3>1 DEF DcRuns, Traceable
  <2>9. parent.stage = "dc" /\ parent.identity = Class(output.identity) /\ parent.product = output.mapped
    <3> HIDE DEF from, output
    <3> QED BY DEF DcRun
  <2> HIDE DEF parent, output, identity
  <2>10. parent \in SealedRuns
    BY <2>8 DEF SealedRuns
  <2>11. sealed.made = sealed.identity /\ parent.identity = sealed.identity /\ parent.product = sealed.input
    BY <2>5, <2>6, <2>7, <2>9 DEF identity, Traceable
  <2>12. parent.stage = [pnr |-> "dc", sta |-> "pnr"][sealed.stage]
    BY <2>5, <2>9
  <2> QED BY <2>3, <2>4, <2>10, <2>11, <2>12, Seals
<1> QED BY <1>9, <1>10

LEMMA StaMarkSeals ==
  ASSUME Fenced, Traced, Handed, NEW p \in Proc, StaMark(p), TimesGrow, NEW dir, dir = Dir(p)
  PROVE  [Chain!Next]_SealedRuns
<1> DEFINE run == sta[dir]
<1>1. UNCHANGED <<dc, pnr>> /\ proc[p].pc = "sta_mark" /\ proc[p].pc \in StaSteps
  BY DEF StaMark, At, StaSteps
<1>2. PICK closed, summary : sta' = [sta EXCEPT ![dir].ok = closed, ![dir].summary = summary]
  BY DEF StaMark
<1> DEFINE marked == [run EXCEPT !.ok = closed, !.summary = summary]
           sealed == StaRun(dir, marked)
<1>3. dir \in DOMAIN sta /\ TimingRecord(run) /\ run.ok = FALSE
  BY <1>1, StaHas DEF StaOwn
<1>4. TimeSound(dir, run, pnr) /\ TimeTraced(run, pnr)
  BY <1>3 DEF Handed, Traced
<1>5. DOMAIN sta' = DOMAIN sta /\ sta'[dir] = marked /\ \A x \in DOMAIN sta \ {dir} : sta'[x] = sta[x]
  BY <1>2, <1>3
<1>6. marked.input = run.input
  BY <1>3 DEF TimingRecord
<1> HIDE DEF marked
<1>7. TimesSteady({dir})
  BY <1>5 DEF TimesSteady
<1>8. DcRuns' = DcRuns /\ PnrRuns' = PnrRuns
  BY <1>1 DEF DcRuns, DcDone, PnrRuns, Point
<1>9. CASE ~marked.ok
  <2> DEFINE none == {}
  <2>1. \A x : x \in none <=> \E y \in {dir} : y \in DOMAIN sta' /\ sta'[y].ok /\ x = StaRun(y, sta'[y])
    BY <1>5, <1>9
  <2>2. StaRuns' = StaRuns \cup none
    <3> HIDE DEF none
    <3> QED BY <1>7, <2>1, StaRunsGrow
  <2> QED BY <1>8, <2>2 DEF SealedRuns
<1>10. CASE marked.ok
  <2>1. \A x : x \in {sealed} <=> \E y \in {dir} : y \in DOMAIN sta' /\ sta'[y].ok /\ x = StaRun(y, sta'[y])
    BY <1>3, <1>5, <1>10
  <2>2. StaRuns' = StaRuns \cup {sealed}
    <3> HIDE DEF sealed
    <3> QED BY <1>7, <2>1, StaRunsGrow
  <2>3. SealedRuns' = SealedRuns \cup {sealed}
    BY <1>8, <2>2 DEF SealedRuns
  <2>4. Fresh(sealed)
    BY <1>3, StaFresh
  <2>5. /\ sealed.stage = "sta" /\ sealed.identity = Class(run.input.identity)
        /\ sealed.input = run.input.pnr_output /\ sealed.made = Made(run.input.sta_input, dir.line)
    BY <1>6, StaRunIs
  <2> DEFINE source == run.input.source
             from == pnr[source].input.from
             output == dc[from.dir].points[from.mhz].output
             identity == pnr[source].input.identity
             parent == PnrRun(source, pnr[source])
  <2> HIDE DEF sealed, run
  <2>6. source \in DOMAIN pnr /\ pnr[source].ok
    BY <1>4 DEF TimeTraced
  <2>7. RouteSound(source, pnr[source], dc) /\ Tied(pnr[source], dc) /\ Routed(pnr[source])
    BY <2>6 DEF Handed, Traced, RouteTraced, RouteSound
  <2>8. Traceable(source, pnr[source], from, identity, output)
    BY <2>7, RoutedFrom
  <2>9. /\ Known(run.input.identity, dir) /\ Fields(identity) = Fields(run.input.identity)
        /\ run.input.sta_input = output.mapped /\ run.input.pnr_output = output.mapped
    BY <1>4, <2>8 DEF TimeSound, Traceable
  <2>10. parent \in PnrRuns
    BY <2>6 DEF PnrRuns
  <2>11. /\ parent.stage = "pnr" /\ parent.identity = Class(identity)
         /\ parent.product = pnr[source].ledger.routed
    BY PnrRunIs
  <2> HIDE DEF parent, output, identity, source, from
  <2>12. identity.mode = run.input.identity.mode /\ Class(identity) = Class(run.input.identity)
    BY <2>8, <2>9, SameClass DEF Traceable
  <2>13. Made(output.mapped, dir.line) = Class(identity)
    BY <2>8, <2>9, <2>12 DEF Traceable, Known
  <2>14. sealed.made = sealed.identity /\ parent.identity = sealed.identity /\ parent.product = sealed.input
    BY <2>5, <2>8, <2>9, <2>11, <2>12, <2>13 DEF Traceable
  <2>15. parent.stage = [pnr |-> "dc", sta |-> "pnr"][sealed.stage] /\ parent \in SealedRuns
    BY <2>5, <2>10, <2>11 DEF SealedRuns
  <2> QED BY <2>3, <2>4, <2>14, <2>15, Seals
<1> QED BY <1>9, <1>10

-----------------------------------------------------------------------------
(***************************************************************************)
(* The theorems about the chain.                                           *)
(***************************************************************************)

LEMMA StepHands ==
  ASSUME NoneIsNoRecord, Fenced, Traced, Handed, [Next]_vars
  PROVE  Handed' /\ [Chain!Next]_SealedRuns
<1>1. DcGrows /\ RoutesGrow
  BY StepTraced
<1>2. ASSUME NEW p \in Proc, Command(p)
      PROVE  Handed' /\ [Chain!Next]_SealedRuns
  <2>1. CASE SramOpen(p) \/ SramView(p) \/ SramSeal(p)
    BY <2>1, SramOpenHands, SramViewHands, SramSealHands
  <2>2. CASE LcOpen(p) \/ LcTool(p) \/ LcManifest(p)
    BY <2>2, LcOpenHands, LcToolHands, LcManifestHands
  <2>3. CASE DcStart(p) \/ PnrStart(p) \/ RecoverStart(p) \/ StaStart(p)
    BY <2>3, DcStartHands, PnrStartHands, RecoverStartHands, StaStartHands
  <2>4. CASE DcOpen(p) \/ DcTool(p) \/ DcSeal(p) \/ DcDecide(p)
    BY <1>1, <2>4, DcOpenHands, DcToolHands, DcSealHands, DcDecideHands
  <2>5. CASE PnrOpen(p) \/ PnrStage(p) \/ PnrTool(p) \/ PnrRecord(p)
    BY <1>1, <2>5, PnrOpenHands, PnrStageHands, PnrToolHands, PnrRecordHands
  <2>6. CASE RecoverOpen(p) \/ RecoverRecord(p)
    BY <1>1, <2>6, RecoverOpenHands, RecoverRecordHands
  <2>7. CASE StaOpen(p) \/ StaTool(p)
    BY <2>7, StaOpenHands, StaToolHands
  <2>8. CASE DcMark(p)
    BY <1>1, <2>8, DcMarkHands, DcMarkSeals
  <2>9. CASE PnrMark(p)
    BY <1>1, <2>9, PnrMarkHands, PnrMarkSeals
  <2>10. CASE StaMark(p)
    BY <1>1, <2>10, StaMarkHands, StaMarkSeals
  <2> QED BY <1>2, <2>1, <2>2, <2>3, <2>4, <2>5, <2>6, <2>7, <2>8, <2>9, <2>10 DEF Command
<1>3. ASSUME NEW p \in Proc, Crash(p)
      PROVE  Handed' /\ [Chain!Next]_SealedRuns
  BY <1>3, CrashHands
<1>4. CASE Checkout
  BY <1>4, CheckoutHands
<1>5. CASE ReplaceLibrary \/ UNCHANGED vars
  BY <1>5, RestHands
<1>6. CASE AlterMapped
  BY <1>1, <1>6, AlterMappedHands
<1>7. CASE AlterCopy \/ AlterHandoff
  BY <1>1, <1>7, AlterRouteHands
<1> QED BY <1>2, <1>3, <1>4, <1>5, <1>6, <1>7 DEF Next

LEMMA InitHands ==
  ASSUME Init
  PROVE  Handed /\ SealedRuns = {}
<1>1. /\ DOMAIN dc = {} /\ DOMAIN pnr = {} /\ DOMAIN sta = {} /\ sram = None /\ lc = None
      /\ \A p \in Proc : proc[p] = Idle
  BY DEF Init
<1>2. Stocked /\ faults \in 0 .. MaxFaults
  BY <1>1, IdleFacts, FlowConstants DEF Stocked, At, Init
<1>3. \A p \in Proc : Knows(p)
  <2> SUFFICES ASSUME NEW p \in Proc PROVE Knows(p)
    OBVIOUS
  <2>1. proc[p].pc = "idle" /\ "dir" \notin DOMAIN proc[p]
    BY <1>1 DEF Idle
  <2> QED BY <2>1 DEF Knows, Named, Synthesising, PlacingRouting, Recovering, Timing, DcSteps
<1>4. SealedRuns = {}
  BY <1>1 DEF SealedRuns, DcRuns, PnrRuns, StaRuns
<1> QED BY <1>1, <1>2, <1>3, <1>4 DEF Handed

(* What each stage may take for granted of the stage before, and each      *)
(* process of the files it works on, in every reachable state: identities, *)
(* macro databases, handoffs (asicctl.py require_handoff_identity, the     *)
(* start of every command and what it keeps in memory while it runs).      *)
THEOREM Hands ==
  ASSUME NoneIsNoRecord
  PROVE  Spec => []Handed
<1>1. Init => Handed
  BY InitHands
<1>2. Fenced /\ Traced /\ Handed /\ [Next]_vars => Handed'
  BY StepHands
<1> QED BY <1>1, <1>2, Fences, Traces, PTL DEF Spec

(* The sealed runs of the build tree are a chain: a run is sealed once, in *)
(* a directory of its own, stays as it is, was made from the sources its   *)
(* identity names, and started from the product of a sealed run of the     *)
(* stage before it with the same identity; for any checkouts, any number   *)
(* of processes, crashes, altered files and replaced libraries             *)
(* (asicctl.py require_handoff_identity, validate_dc_output_record, the    *)
(* ledger of P&R and recover_pnr_handoff.py).                              *)
THEOREM ChainHolds ==
  ASSUME NoneIsNoRecord
  PROVE  Spec => ImplementsChain
<1>1. Init => Chain!Init
  BY InitHands DEF Chain!Init
<1>2. Fenced /\ Traced /\ Handed /\ [Next]_vars => [Chain!Next]_SealedRuns
  BY StepHands
<1> QED BY <1>1, <1>2, Fences, Traces, Hands, PTL DEF Spec, ImplementsChain, Chain!Spec

LEMMA HandedTypes ==
  ASSUME Fenced, Traced, Scanning, Handed
  PROVE  TypeOK
<1>1. tree \in DOMAIN Trees /\ faults \in 0 .. MaxFaults
  BY DEF Fenced, Handed
<1>2. ASSUME NEW p \in Proc, "dir" \in DOMAIN proc[p],
             proc[p].pc \notin {"dc_open", "pnr_open", "rec_open", "sta_open"}
      PROVE  Dir(p) \in DOMAIN dc \cup DOMAIN pnr \cup DOMAIN sta
  <2>1. proc[p].pc \in Working
    BY <1>2 DEF Handed, Knows, Named, OpenSteps
  <2> QED BY <2>1 DEF Working, Fenced, DcOwned, PnrOwned, StaOwned
<1>3. ASSUME NEW dir \in DOMAIN dc
      PROVE  /\ DOMAIN dc[dir].points \subseteq Lowest(dc[dir].input.frequencies)..Highest(dc[dir].input.frequencies)
             /\ \A f \in DOMAIN dc[dir].points : Point(dir, f).ok => Point(dir, f).output # None
             /\ dc[dir].verdict \in {None, 0} \cup DOMAIN dc[dir].points
  <2>1. MatrixRecord(dc[dir]) /\ MatrixSound(dir, dc[dir]) /\ Judged(dc[dir])
    BY DEF Fenced, Handed, Scanning, ScanRecord
  <2>2. DOMAIN dc[dir].points \subseteq Nat \ {0} /\ Frequencies(dc[dir].input.frequencies)
    BY <2>1 DEF MatrixRecord
  <2>3. Lowest(dc[dir].input.frequencies) \in Nat /\ Highest(dc[dir].input.frequencies) \in Nat
    BY <2>2, LowestIs, HighestIs
  <2>4. \A f \in DOMAIN dc[dir].points :
          /\ Lowest(dc[dir].input.frequencies) <= f /\ f <= Highest(dc[dir].input.frequencies)
          /\ dc[dir].points[f].ok => dc[dir].points[f].output # None
    BY <2>1 DEF MatrixSound
  <2>5. dc[dir].verdict \in {None, 0} \cup DOMAIN dc[dir].points
    BY <2>1 DEF Judged
  <2> QED BY <2>2, <2>3, <2>4, <2>5 DEF Point
<1>4. ASSUME NEW dir \in DOMAIN pnr
      PROVE  /\ dir.id \in RunId \cup RecoveryId /\ pnr[dir].exit_status \in {None, 0, 1}
             /\ pnr[dir].ok => pnr[dir].ledger # None /\ pnr[dir].input # None
  BY DEF Handed, RouteSound, Routed, Traced, RouteTraced, Tied, Imported
<1>5. \A p \in Proc : At(p, "pnr_mark") => pnr[Dir(p)].ledger # None
  BY DEF At, Handed, Knows, PlacingRouting, Routed
<1>6. ASSUME NEW dir \in DOMAIN sta, sta[dir].ok PROVE sta[dir].analysed # None
  <2> DEFINE run == sta[dir]
             source == run.input.source
             from == pnr[source].input.from
  <2>1. TimeSound(dir, run, pnr) /\ TimeTraced(run, pnr) /\ Analysed(run, pnr)
    BY <1>6 DEF Handed, Traced, TimeTraced
  <2>2. source \in DOMAIN pnr /\ pnr[source].ok /\ run.input.sta_input = pnr[source].ledger.routed
    BY <2>1 DEF TimeTraced, TimeSound
  <2>3. RouteSound(source, pnr[source], dc) /\ Tied(pnr[source], dc) /\ Routed(pnr[source])
    BY <2>2 DEF Handed, Traced, RouteTraced, RouteSound
  <2>4. Traceable(source, pnr[source], from, pnr[source].input.identity, dc[from.dir].points[from.mhz].output)
    BY <2>3, RoutedFrom
  <2>5. run.input.sta_input # None
    BY <2>2, <2>4 DEF Traceable
  <2>6. run.analysed = run.input.sta_input \/ run.analysed = Altered
    BY <2>1 DEF Analysed, Later
  <2> QED BY <2>5, <2>6, NoneIsNothing
<1> QED BY <1>1, <1>2, <1>3, <1>4, <1>5, <1>6 DEF TypeOK

(* Every directory holds records of the shape its stage writes, points of  *)
(* a scan lie between its bounds, a marker stands only where the record it *)
(* vouches for is, and a process works only where a directory was made     *)
(* (asicctl.py, the writers of every stage's files).                       *)
THEOREM TypesHold ==
  ASSUME NoneIsNoRecord
  PROVE  Spec => []TypeOK
<1>1. Fenced /\ Traced /\ Scanning /\ Handed => TypeOK
  BY HandedTypes
<1> QED BY <1>1, Fences, Traces, Scans, Hands, PTL
=============================================================================
