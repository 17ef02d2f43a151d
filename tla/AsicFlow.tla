----------------------------- MODULE AsicFlow ------------------------------
(***************************************************************************)
(* The staged ASIC flow: the commands prepare_sram_handoff, lc-macros,     *)
(* dc-matrix, pnr, sta and recover_pnr_handoff, run by several processes   *)
(* over one checkout and one build tree.  A command checks its inputs,     *)
(* makes its own output directory and fills it; it may fail or be killed   *)
(* between any two of the steps below and leaves what it has written.      *)
(* The state is the files:                                                 *)
(*   tree   the checkout, an index into Trees                              *)
(*   disk   the standard-cell views on disk                                *)
(*   sram   the SRAM handoff directory, lc the macro databases             *)
(*   dc, pnr, sta   [directory -> what is in it], a directory being named  *)
(*          by line (profile, mode, memory mode) and run id, those of pnr  *)
(*          and sta by the frequency as well                               *)
(*   proc   what each process is doing                                     *)
(*   faults the faults that may still happen, at most MaxFaults            *)
(*                                                                         *)
(* A netlist is modelled by its origin: the checkout, the frequency and    *)
(* the macro databases it was synthesised from; a netlist and its          *)
(* constraints are one artifact.  A manifest is written once and stays, so *)
(* its digest is modelled by the directory it is in.  The identity fields  *)
(* in a manifest are modelled by the checkout and mode they were computed  *)
(* for, and compared by their values; a tool's report is kept by name.     *)
(***************************************************************************)
EXTENDS AsicContract, DcScan, StageReports

CONSTANTS
    Proc, RunId, RecoveryId, None,
    Checkouts,      \* the checkouts, a sequence
    ModeArgs,       \* elaboration modes a command may ask for
    StartTrees,     \* those a behaviour may start from
    Switches,       \* the pairs of checkouts it may go from and to
    MacroViews,     \* the canonical macro views and timing libraries on disk
    FrequencyArgs,  \* lists given to dc-matrix, <<>> for the default
    TimerArgs,      \* timer clocks given to dc-matrix in MHz, 0 for none
    PnrArgs,        \* frequencies given to pnr in MHz, 0 for none
    DcReports, RouteReports, StaReports,   \* what the tools may report, by name
    MaxFaults

VARIABLES tree, disk, sram, lc, dc, pnr, sta, proc, faults

vars == <<tree, disk, sram, lc, dc, pnr, sta, proc, faults>>

Trees == Checkouts      \* a definition: TLC evaluates it once

t == Trees[tree]

(* The identity fields of every contract that a checkout can build.        *)
IdentityOf ==
    [c \in DOMAIN Trees |->
        [mode \in {m \in {"auto", "default"} \cup DOMAIN ParameterLock : Buildable(Trees[c], m, "auto")} |->
            Identity(Trees[c], mode)]]

Builds(mode) == mode \in DOMAIN IdentityOf[tree]

Now(mode) == [tree |-> tree, mode |-> mode]

Fields(identity) == IdentityOf[identity.tree][identity.mode]

Line(c, mode) == <<c.profile_id, Mode(c, mode), c.memory_mode>>

Product(origin, mhz, dbs) == [tree |-> origin, mhz |-> mhz, dbs |-> dbs]

Altered == Product(0, 0, <<>>)

Idle == [pc |-> "idle"]

Become(p, doing) == proc' = [proc EXCEPT ![p] = doing]

At(p, pc) == proc[p].pc = pc

Dir(p) == proc[p].dir

(* A table with one more entry; one that is there already stays.           *)
Entered(table, key, value) ==
    [k \in DOMAIN table \cup {key} |-> IF k \in DOMAIN table THEN table[k] ELSE value]

(*--------------------------- SRAM handoff --------------------------------*)

normalize(lef) == <<"on the 5 nm grid", lef>>

macros(c) == memory_data(c).macros

SramMatrix == t.matrix.memory_modes["sram"]

(* The output must be empty, and the first mkdir fails if another command  *)
(* was faster.                                                             *)
SramOpen(p) ==
    /\ At(p, "idle")
    /\ "sram" \in DOMAIN t.matrix.memory_modes
    /\ sram = None
    /\ sram' = [views |-> <<>>, manifest |-> None]
    /\ Become(p, [pc |-> "sram_views"])
    /\ UNCHANGED <<tree, disk, lc, dc, pnr, sta, faults>>

(* The timing library given for a macro is the audited one.                *)
audit_liberty_override(m) == MacroViews[m].timing = SramMatrix.macros[m].timing

(* Each macro in turn: its views are those the matrix names, and so is its *)
(* timing library; otherwise give up.                                      *)
SramView(p) ==
    /\ At(p, "sram_views")
    /\ \E m \in DOMAIN SramMatrix.macros \ DOMAIN sram.views :
        LET expected == SramMatrix.macros[m]
            view == MacroViews[m]
        IN  IF view.original = expected.original /\ audit_liberty_override(m)
            THEN /\ sram' = [sram EXCEPT !.views = Entered(@, m,
                       [original |-> view.original, timing |-> view.timing,
                        normalized |-> normalize(view.original), instances |-> expected.instances])]
                 /\ UNCHANGED proc
            ELSE Become(p, Idle) /\ UNCHANGED sram
    /\ UNCHANGED <<tree, disk, lc, dc, pnr, sta, faults>>

(* The manifest is written last; then everything is made read-only.        *)
SramSeal(p) ==
    /\ At(p, "sram_views")
    /\ DOMAIN sram.views = DOMAIN SramMatrix.macros
    /\ sram' = [sram EXCEPT !.manifest = [revision |-> SramMatrix.revision, macros |-> sram.views]]
    /\ Become(p, Idle)
    /\ UNCHANGED <<tree, disk, lc, dc, pnr, sta, faults>>

load_sram_handoff ==
    /\ sram # None /\ sram.manifest # None
    /\ sram.manifest.revision = memory_data(t).revision
    /\ DOMAIN sram.manifest.macros = DOMAIN macros(t)
    /\ \A m \in DOMAIN macros(t) :
        LET record == sram.manifest.macros[m]
        IN  /\ record.instances = macros(t)[m].instances
            /\ record.original = macros(t)[m].original
            /\ record.timing = macros(t)[m].timing
            /\ record.normalized = normalize(record.original)

load_macro_db_manifest ==
    /\ lc # None /\ lc.manifest # None
    /\ lc.manifest.handoff = sha256(sram.manifest)
    /\ \A m \in DOMAIN macros(t) : m \in DOMAIN lc.dbs

MacrosReady == t.memory_mode = "sram" => load_sram_handoff /\ load_macro_db_manifest

(*--------------------------- macro databases -----------------------------*)

LcOpen(p) ==
    /\ At(p, "idle")
    /\ Builds("auto") /\ t.memory_mode = "sram"
    /\ lc = None
    /\ load_sram_handoff
    /\ lc' = [dbs |-> <<>>, manifest |-> None]
    /\ Become(p, [pc |-> "lc_tool"])
    /\ UNCHANGED <<tree, disk, sram, dc, pnr, sta, faults>>

(* One run of Library Compiler for each macro; one that fails ends it all. *)
LcTool(p) ==
    /\ At(p, "lc_tool")
    /\ \E m \in DOMAIN macros(t) \ DOMAIN lc.dbs :
        \/ lc' = [lc EXCEPT !.dbs = Entered(@, m, sram.manifest.macros[m].timing)] /\ UNCHANGED proc
        \/ Become(p, Idle) /\ UNCHANGED lc
    /\ UNCHANGED <<tree, disk, sram, dc, pnr, sta, faults>>

LcManifest(p) ==
    /\ At(p, "lc_tool")
    /\ DOMAIN lc.dbs = DOMAIN macros(t)
    /\ lc' = [lc EXCEPT !.manifest = [handoff |-> sha256(sram.manifest)]]
    /\ Become(p, Idle)
    /\ UNCHANGED <<tree, disk, sram, dc, pnr, sta, faults>>

(*------------------------------ synthesis --------------------------------*)

frequencies_mhz(c) ==
    IF c.memory_mode = "sram" THEN profile_data(c).sram_dc_frequencies_mhz
                              ELSE profile_data(c).dc_frequencies_mhz

quantum(c) == memory_data(c).dc_navigation_quantum_mhz

max_points(c) == memory_data(c).dc_max_points

(* What a checkout that builds declares, and what the tools report, are    *)
(* numbers; the modes it resolves to are those of the command line.        *)
ASSUME FlowConstants ==
    /\ DOMAIN Checkouts \subseteq Nat \ {0} /\ MaxFaults \in Nat
    /\ StartTrees \subseteq DOMAIN Checkouts
    /\ \A c \in DOMAIN Checkouts : \A mode \in DOMAIN IdentityOf[c] :
            Mode(Checkouts[c], mode) \in {"auto", "default"} \cup DOMAIN ParameterLock
    /\ FrequencyArgs \subseteq Seq(Int)
    /\ \A c \in DOMAIN Checkouts : DOMAIN IdentityOf[c] # {} =>
            /\ frequencies_mhz(Checkouts[c]) \in Seq(Int)
            /\ quantum(Checkouts[c]) \in Int /\ max_points(Checkouts[c]) \in Int
    /\ \A r \in DOMAIN DcReports : DcReports[r].wns \in Int

(* None stands for what is not there: no number and no file.               *)
ASSUME NoneIsNothing == None \notin Int /\ None # Altered

DcStart(p) ==
    /\ At(p, "idle")
    /\ \E mode \in ModeArgs, list \in FrequencyArgs, timer \in TimerArgs, id \in RunId :
        LET dir == [line |-> Line(t, mode), id |-> id]
        IN  /\ Builds(mode)
            /\ timer # 0 => t.profile_id = Linux
            /\ quantum(t) > 0
            /\ parse_frequency_list(list, frequencies_mhz(t))
            /\ disk = t.matrix.libraries
            /\ MacrosReady
            /\ dir \notin DOMAIN dc
            /\ Become(p, [pc |-> "dc_open", dir |-> dir, timer |-> timer,
                          frequencies |-> Range(Requested(list, frequencies_mhz(t)))])
    /\ UNCHANGED <<tree, disk, sram, lc, dc, pnr, sta, faults>>

DcOpenExistingBug(p) ==
    /\ At(p, "dc_open")
    /\ dc' = (Dir(p) :>
            [input |-> [identity |-> Now(Dir(p).line[2]), libraries |-> disk, timer |-> proc[p].timer,
                        frequencies |-> proc[p].frequencies,
                        constraint |-> t.files["internal_clock.sdc"],
                        handoff |-> IF t.memory_mode = "sram" THEN sha256(sram.manifest) ELSE None],
             points |-> IF Dir(p) \in DOMAIN dc THEN dc[Dir(p)].points ELSE <<>>,
             decisions |-> <<>>, verdict |-> None]) @@ dc
    /\ Become(p, [pc |-> "dc_tool", dir |-> Dir(p), mhz |-> Highest(proc[p].frequencies)])
    /\ UNCHANGED <<tree, disk, sram, lc, pnr, sta, faults>>

(* The directory is made, or the command fails because another one made    *)
(* it.  The library files are hashed again for the manifest.               *)
DcOpen(p) ==
    /\ At(p, "dc_open")
    /\ IF Dir(p) \in DOMAIN dc
       THEN Become(p, Idle) /\ UNCHANGED dc
       ELSE /\ dc' = Entered(dc, Dir(p),
                [input |-> [identity |-> Now(Dir(p).line[2]), libraries |-> disk, timer |-> proc[p].timer,
                            frequencies |-> proc[p].frequencies,
                            constraint |-> t.files["internal_clock.sdc"],
                            handoff |-> IF t.memory_mode = "sram" THEN sha256(sram.manifest) ELSE None],
                 points |-> <<>>, decisions |-> <<>>, verdict |-> None])
            /\ Become(p, [pc |-> "dc_tool", dir |-> Dir(p), mhz |-> Highest(proc[p].frequencies)])
    /\ UNCHANGED <<tree, disk, sram, lc, pnr, sta, faults>>

Point(dir, f) == dc[dir].points[f]

Report(point) == DcReports[point.report]

Databases == IF t.memory_mode = "sram" THEN lc.dbs ELSE <<>>

(* Design Compiler ends, with or without a netlist.                        *)
DcTool(p) ==
    /\ At(p, "dc_tool")
    /\ \E report \in DOMAIN DcReports :
        LET f == proc[p].mhz
            mapped == IF DcReports[report].netlist THEN Product(tree, f, Databases) ELSE None
        IN  /\ dc' = [dc EXCEPT ![Dir(p)].points = Entered(@, f,
                   [report |-> report, output |-> None, ok |-> FALSE, mapped |-> mapped])]
            /\ Become(p, [pc |-> IF DcReports[report].exit_status = 0 /\ mapped # None
                                 THEN "dc_seal" ELSE "dc_decide", dir |-> Dir(p), mhz |-> f])
    /\ UNCHANGED <<tree, disk, sram, lc, pnr, sta, faults>>

(* validate_dc_output_record: the record is of this identity, of these     *)
(* libraries, of the recipe and counts the contract expects, and its       *)
(* digest is that of the netlist as it is now.                             *)
validate_dc_output_record(record, identity, input, row, libraries, mhz, mapped) ==
    /\ require_handoff_identity(Fields(record.identity), identity)
    /\ record.recipe_ok /\ row.counts = 0
    /\ record.libraries = libraries
    /\ record.mhz = mhz
    /\ record.dc_input = input
    /\ record.mapped = sha256(mapped)

dc_output_manifest_record(p, point) ==
    [identity |-> Now(Dir(p).line[2]), dc_input |-> Dir(p), mhz |-> proc[p].mhz,
     libraries |-> dc[Dir(p)].input.libraries,
     recipe_ok |-> Report(point).recipe_ok, mapped |-> sha256(point.mapped)]

(* The output manifest is built, validated and written; a record that does *)
(* not validate is a tool failure.                                         *)
DcSeal(p) ==
    /\ At(p, "dc_seal")
    /\ LET f == proc[p].mhz
           point == Point(Dir(p), f)
           record == dc_output_manifest_record(p, point)
       IN  IF validate_dc_output_record(record, Fields(Now(Dir(p).line[2])), Dir(p), Report(point),
                                        dc[Dir(p)].input.libraries, f, point.mapped)
           THEN /\ dc' = [dc EXCEPT ![Dir(p)].points[f].output = record]
                /\ Become(p, [proc[p] EXCEPT !.pc = "dc_mark"])
           ELSE Become(p, [proc[p] EXCEPT !.pc = "dc_decide"]) /\ UNCHANGED dc
    /\ UNCHANGED <<tree, disk, sram, lc, pnr, sta, faults>>

DcMark(p) ==
    /\ At(p, "dc_mark")
    /\ dc' = [dc EXCEPT ![Dir(p)].points[proc[p].mhz].ok = TRUE]
    /\ Become(p, [proc[p] EXCEPT !.pc = "dc_decide"])
    /\ UNCHANGED <<tree, disk, sram, lc, pnr, sta, faults>>

(* A point is complete when its marker and its netlist are there.          *)
completed(point) == point.ok /\ point.mapped # None

Closed(point) == setup_closed(Report(point), completed(point))

(* The report is read back, the next point chosen; when there is none, the *)
(* verdict names the best closed point.                                    *)
DcDecide(p) ==
    /\ At(p, "dc_decide")
    /\ LET d == dc[Dir(p)]
           f == proc[p].mhz
           raw == dc_frequency_decision(d.input.frequencies, f, Report(d.points[f]),
                                        completed(d.points[f]), quantum(t))
           decision == Budgeted(raw, Len(d.decisions) + 1, max_points(t))
           closed == {g \in DOMAIN d.points : Closed(d.points[g])}
       IN  /\ dc' = [dc EXCEPT ![Dir(p)] = [d EXCEPT
                  !.decisions = Append(@, decision),
                  !.verdict = IF decision.next # 0 THEN None ELSE IF closed = {} THEN 0 ELSE Highest(closed)]]
           /\ Become(p, IF decision.next = 0 THEN Idle
                        ELSE [pc |-> "dc_tool", dir |-> Dir(p), mhz |-> decision.next])
    /\ UNCHANGED <<tree, disk, sram, lc, pnr, sta, faults>>

(*--------------------------- place and route -----------------------------*)

(* The frequency asked for, or the fixed one of the matrix, or four fifths *)
(* of the synthesised one rounded down to 25 MHz.                          *)
pnr_mhz(arg, f) ==
    LET fixed == profile_data(t).pnr_frequencies_mhz[t.memory_mode]
    IN  CASE arg # 0 -> arg
          [] arg = 0 /\ fixed # 0 -> fixed
          [] OTHER -> ((8 * f) \div 250) * 25

(* What P&R and recovery ask of a synthesised point: its manifest is of    *)
(* this identity and these libraries.                                      *)
DcInputFits(dir, identity) ==
    /\ require_handoff_identity(Fields(dc[dir].input.identity), identity)
    /\ dc[dir].input.libraries = t.matrix.libraries

require_orfs_runtime_identity == t.matrix.orfs # None

(* All checks come before the directory; the digest of the netlist is kept.*)
PnrStart(p) ==
    /\ At(p, "idle")
    /\ \E mode \in ModeArgs, dir \in DOMAIN dc, arg \in PnrArgs, id \in RunId :
        /\ Builds(mode) /\ require_orfs_runtime_identity
        /\ \E f \in DOMAIN dc[dir].points :
            LET point == Point(dir, f)
                mhz == pnr_mhz(arg, f)
                run == [line |-> Line(t, mode), id |-> id, mhz |-> mhz]
                identity == IdentityOf[tree][mode]
            IN  /\ DcInputFits(dir, identity)
                /\ Closed(point)
                /\ Report(point).recipe_ok
                /\ mhz > 0 /\ mhz <= f
                /\ t.profile_id = Linux => dc[dir].input.timer = mhz
                /\ point.output # None
                /\ validate_dc_output_record(point.output, identity, dir, Report(point),
                                             t.matrix.libraries, f, point.mapped)
                /\ run \notin DOMAIN pnr
                /\ Become(p, [pc |-> "pnr_open", dir |-> run, from |-> [dir |-> dir, mhz |-> f],
                              mapped |-> point.output.mapped])
    /\ UNCHANGED <<tree, disk, sram, lc, dc, pnr, sta, faults>>

EmptyRun(copy) ==
    [copy |-> copy, input |-> None, contract |-> None, orfs |-> None, handoff |-> None,
     exit_status |-> None, ledger |-> None, summary |-> None, ok |-> FALSE]

(* The netlist is copied and the copy compared with the digest.            *)
PnrOpen(p) ==
    /\ At(p, "pnr_open")
    /\ IF Dir(p) \in DOMAIN pnr
       THEN Become(p, Idle) /\ UNCHANGED pnr
       ELSE LET copy == Point(proc[p].from.dir, proc[p].from.mhz).mapped
            IN  /\ pnr' = Entered(pnr, Dir(p), EmptyRun(copy))
                /\ Become(p, IF sha256(copy) = proc[p].mapped
                             THEN [proc[p] EXCEPT !.pc = "pnr_stage"] ELSE Idle)
    /\ UNCHANGED <<tree, disk, sram, lc, dc, sta, faults>>

PnrManifest(p) ==
    [identity |-> Now(Dir(p).line[2]), from |-> proc[p].from, mhz |-> Dir(p).mhz,
     mapped |-> sha256(pnr[Dir(p)].copy),
     handoff |-> IF t.memory_mode = "sram" THEN sha256(sram.manifest) ELSE None]

(* The macro views are checked again and staged, which may fail; then the  *)
(* manifest is written.  Without the pinned image or the runner the        *)
(* command ends there.                                                     *)
PnrStage(p) ==
    /\ At(p, "pnr_stage")
    /\ LET staged == [pnr[Dir(p)] EXCEPT !.input = PnrManifest(p)]
           contract == [mapped |-> sha256(pnr[Dir(p)].copy), import |-> None, orfs |-> t.matrix.orfs]
       IN  \/ t.memory_mode = "sram" /\ Become(p, Idle) /\ UNCHANGED pnr
           \/ /\ t.memory_mode = "sram" => load_sram_handoff
              /\ \/ /\ pnr' = [pnr EXCEPT ![Dir(p)] = staged]
                    /\ Become(p, Idle)
                 \/ /\ pnr' = [pnr EXCEPT ![Dir(p)] = [staged EXCEPT !.contract = contract]]
                    /\ Become(p, [proc[p] EXCEPT !.pc = "pnr_tool"])
    /\ UNCHANGED <<tree, disk, sram, lc, dc, sta, faults>>

(* The runner ends.  It imports the copied netlist and routes it; it may   *)
(* fail before that, or after it while it gathers the handoff, or finish.  *)
PnrTool(p) ==
    /\ At(p, "pnr_tool")
    /\ LET run == pnr[Dir(p)]
           ended(status) == [pc |-> "pnr_record", dir |-> Dir(p), mapped |-> proc[p].mapped,
                             exit_status |-> status]
           routed(report) == [run EXCEPT !.orfs = [import |-> run.copy, final |-> run.copy,
                                                   report |-> report]]
       IN  \/ Become(p, ended(1)) /\ UNCHANGED pnr
           \/ \E report \in DOMAIN RouteReports :
                \/ pnr' = [pnr EXCEPT ![Dir(p)] = routed(report)] /\ Become(p, ended(1))
                \/ /\ pnr' = [pnr EXCEPT ![Dir(p)] = [routed(report) EXCEPT
                                 !.handoff = run.copy, !.contract.import = sha256(run.copy)]]
                   /\ Become(p, ended(0))
    /\ UNCHANGED <<tree, disk, sram, lc, dc, sta, faults>>

Ledger(output, copy, import, handoff) ==
    [dc_output |-> output, pnr_input |-> sha256(copy), orfs_import |-> sha256(import),
     routed |-> sha256(handoff)]

SameMapped(ledger) == ledger.dc_output = ledger.pnr_input /\ ledger.pnr_input = ledger.orfs_import

(* The exit status is recorded.  After a failure the run is summarised as  *)
(* partial; otherwise the ledger ties the three netlists, or the command   *)
(* raises FAIL_HANDOFF_IDENTITY.                                           *)
PnrRecord(p) ==
    /\ At(p, "pnr_record")
    /\ LET run == pnr[Dir(p)]
           ledger == Ledger(proc[p].mapped, run.copy, run.orfs.import, run.handoff)
           exited == [run EXCEPT !.exit_status = proc[p].exit_status]
       IN  CASE proc[p].exit_status # 0 ->
                  /\ pnr' = [pnr EXCEPT ![Dir(p)] = [exited EXCEPT !.summary = "PNR_RCX_PARTIAL"]]
                  /\ Become(p, Idle)
             [] proc[p].exit_status = 0 /\ SameMapped(ledger) ->
                  /\ pnr' = [pnr EXCEPT ![Dir(p)] = [exited EXCEPT !.ledger = ledger]]
                  /\ Become(p, [proc[p] EXCEPT !.pc = "pnr_mark"])
             [] OTHER -> pnr' = [pnr EXCEPT ![Dir(p)] = exited] /\ Become(p, Idle)
    /\ UNCHANGED <<tree, disk, sram, lc, dc, sta, faults>>

(* The run is judged, and marked when the route is complete.  Recovery     *)
(* ends the same way.                                                      *)
PnrMark(p) ==
    /\ At(p, "pnr_mark")
    /\ LET run == pnr[Dir(p)]
           complete == route_complete(RouteReports[run.orfs.report], run.exit_status, run.handoff # None)
       IN  pnr' = [pnr EXCEPT ![Dir(p)] = [run EXCEPT !.ok = complete,
                       !.summary = IF complete THEN "PNR_RCX_COMPLETE" ELSE "PNR_RCX_PARTIAL"]]
    /\ Become(p, Idle)
    /\ UNCHANGED <<tree, disk, sram, lc, dc, sta, faults>>

(*------------------------------- recovery --------------------------------*)

(* The checkout as its checked-in ASIC defconfig of a profile and memory   *)
(* mode configures it, whatever the .config says.                          *)
Defconfig(profile, memory) ==
    [t EXCEPT !.symbols = {profile}, !.profile_id = profile, !.register_expanded = TRUE,
              !.memory_mode = memory]

Supported(line) == line[3] = "sram" => line[1] # OoO

(* expected_handoff_contract: the run's manifest and the manifests it came *)
(* from are of the identity that the checkout has now.                     *)
ContractFits(run) ==
    LET line == Fields(run.input.identity)
        c == Defconfig(line.profile, line.memory_mode)
        identity == Identity(c, line.mode)
        fixed == profile_data(c).pnr_frequencies_mhz[c.memory_mode]
        from == run.input.from
        point == Point(from.dir, from.mhz)
    IN  /\ Supported(<<line.profile, line.mode, line.memory_mode>>)
        /\ Buildable(c, line.mode, line.memory_mode)
        /\ require_handoff_identity(line, identity)
        /\ fixed # 0 => run.input.mhz = fixed
        /\ DcInputFits(from.dir, identity)
        /\ validate_dc_output_record(point.output, identity, from.dir, Report(point),
                                     t.matrix.libraries, from.mhz, run.copy)

(* The image that routed the source is the one the matrix pins.            *)
runtime_identity(run) == run.contract # None /\ run.contract.orfs = t.matrix.orfs

load_input_manifest(run) == run.input # None /\ sha256(run.copy) = run.input.mapped

(* The source is a run without its marker whose routing is finished and    *)
(* clean and whose inputs are still those of its manifest.                 *)
RecoverStart(p) ==
    /\ At(p, "idle")
    /\ \E source \in DOMAIN pnr, id \in RecoveryId :
        LET run == pnr[source]
            target == [source EXCEPT !.id = id]
        IN  /\ target \notin DOMAIN pnr
            /\ ~run.ok
            /\ require_orfs_runtime_identity /\ runtime_identity(run)
            /\ load_input_manifest(run)
            /\ run.orfs # None /\ clean_route_gate(RouteReports[run.orfs.report])
            /\ run.contract.mapped = sha256(run.copy)
            /\ run.contract.import \in {None, sha256(run.orfs.import)}
            /\ run.copy = run.orfs.import
            /\ ContractFits(run)
            /\ Become(p, [pc |-> "rec_open", dir |-> target, source |-> source])
    /\ UNCHANGED <<tree, disk, sram, lc, dc, pnr, sta, faults>>

copy_input_manifest(run) == [EmptyRun(run.copy) EXCEPT !.input = run.input]

(* The inputs are copied and compared with the manifest again, then the    *)
(* routed workspace.                                                       *)
RecoverOpen(p) ==
    /\ At(p, "rec_open")
    /\ LET run == pnr[proc[p].source]
       IN  CASE Dir(p) \in DOMAIN pnr -> Become(p, Idle) /\ UNCHANGED pnr
             [] Dir(p) \notin DOMAIN pnr /\ sha256(run.copy) = run.input.mapped ->
                  /\ pnr' = Entered(pnr, Dir(p), [copy_input_manifest(run) EXCEPT
                         !.contract = run.contract, !.orfs = run.orfs])
                  /\ Become(p, [proc[p] EXCEPT !.pc = "rec_record"])
             [] OTHER -> pnr' = Entered(pnr, Dir(p), EmptyRun(run.copy)) /\ Become(p, Idle)
    /\ UNCHANGED <<tree, disk, sram, lc, dc, sta, faults>>

same_run_artifacts(run, handoff) ==
    LET from == run.input.from
    IN  Ledger(Point(from.dir, from.mhz).output.mapped, run.copy, run.orfs.import, handoff)

(* The handoff is gathered from the source's results and the ledger        *)
(* written; a source without exit status and summary is found out here.    *)
RecoverRecord(p) ==
    /\ At(p, "rec_record")
    /\ LET run == pnr[Dir(p)]
           source == pnr[proc[p].source]
           handoff == source.orfs.final
           ledger == same_run_artifacts(run, handoff)
           gathered == [run EXCEPT !.handoff = handoff]
           recorded == [gathered EXCEPT !.ledger = ledger, !.contract.mapped = ledger.pnr_input,
                                        !.contract.import = ledger.orfs_import]
       IN  CASE ~SameMapped(ledger) -> pnr' = [pnr EXCEPT ![Dir(p)] = gathered] /\ Become(p, Idle)
             [] SameMapped(ledger) /\ (source.exit_status = None \/ source.summary = None) ->
                  pnr' = [pnr EXCEPT ![Dir(p)] = recorded] /\ Become(p, Idle)
             [] OTHER -> /\ pnr' = [pnr EXCEPT ![Dir(p)] = [recorded EXCEPT !.exit_status = 0]]
                         /\ Become(p, [pc |-> "pnr_mark", dir |-> Dir(p)])
    /\ UNCHANGED <<tree, disk, sram, lc, dc, sta, faults>>

(*----------------------------- timing signoff ----------------------------*)

StaStart(p) ==
    /\ At(p, "idle")
    /\ \E mode \in ModeArgs, source \in DOMAIN pnr, id \in RunId :
        LET run == pnr[source]
            dir == [line |-> Line(t, mode), id |-> id, mhz |-> run.input.mhz]
        IN  /\ Builds(mode)
            /\ run.input # None
            /\ require_handoff_identity(Fields(run.input.identity), IdentityOf[tree][mode])
            /\ run.ok
            /\ run.ledger.routed = sha256(run.handoff)
            /\ disk.db = t.matrix.libraries.db
            /\ MacrosReady
            /\ dir \notin DOMAIN sta
            /\ Become(p, [pc |-> "sta_open", dir |-> dir, source |-> source,
                          routed |-> sha256(run.handoff)])
    /\ UNCHANGED <<tree, disk, sram, lc, dc, pnr, sta, faults>>

StaOpen(p) ==
    /\ At(p, "sta_open")
    /\ IF Dir(p) \in DOMAIN sta
       THEN Become(p, Idle) /\ UNCHANGED sta
       ELSE /\ sta' = Entered(sta, Dir(p),
                [input |-> [identity |-> Now(Dir(p).line[2]), source |-> proc[p].source, db |-> disk.db,
                            pnr_output |-> pnr[proc[p].source].ledger.routed,
                            sta_input |-> proc[p].routed],
                 report |-> None, analysed |-> None, summary |-> None, ok |-> FALSE])
            /\ Become(p, [proc[p] EXCEPT !.pc = "sta_tool"])
    /\ UNCHANGED <<tree, disk, sram, lc, dc, pnr, faults>>

(* PrimeTime reads the netlist of the P&R run where it is.                 *)
StaTool(p) ==
    /\ At(p, "sta_tool")
    /\ \/ Become(p, Idle) /\ UNCHANGED sta
       \/ \E report \in DOMAIN StaReports :
            /\ sta' = [sta EXCEPT ![Dir(p)].report = report,
                                  ![Dir(p)].analysed = pnr[proc[p].source].handoff]
            /\ Become(p, [proc[p] EXCEPT !.pc = "sta_mark"])
    /\ UNCHANGED <<tree, disk, sram, lc, dc, pnr, faults>>

StaMark(p) ==
    /\ At(p, "sta_mark")
    /\ LET closed == timing_closed(StaReports[sta[Dir(p)].report])
       IN  sta' = [sta EXCEPT ![Dir(p)].ok = closed,
                              ![Dir(p)].summary = IF closed THEN "closed" ELSE "partial"]
    /\ Become(p, Idle)
    /\ UNCHANGED <<tree, disk, sram, lc, dc, pnr, faults>>

(*-------------------------------- faults ---------------------------------*)

Fault == faults > 0 /\ faults' = faults - 1

AllIdle == \A p \in Proc : At(p, "idle")

(* The checkout is edited or another is taken.  The stages do not guard    *)
(* against that while they run: it is assumed to happen between commands.  *)
Checkout ==
    /\ Fault /\ AllIdle
    /\ \E other \in DOMAIN Trees : <<tree, other>> \in Switches /\ tree' = other
    /\ UNCHANGED <<disk, sram, lc, dc, pnr, sta, proc>>

(* A library file is replaced on disk, at any time.                        *)
ReplaceLibrary ==
    /\ Fault
    /\ \E c \in DOMAIN Trees : disk # Trees[c].matrix.libraries /\ disk' = Trees[c].matrix.libraries
    /\ UNCHANGED <<tree, sram, lc, dc, pnr, sta, proc>>

(* A file is altered once something records its digest; before that, an    *)
(* altered file cannot be told from what the tool wrote.                   *)
AlterMapped ==
    /\ Fault
    /\ \E dir \in DOMAIN dc : \E f \in DOMAIN dc[dir].points :
        /\ Point(dir, f).output # None
        /\ dc' = [dc EXCEPT ![dir].points[f].mapped = Altered]
    /\ UNCHANGED <<tree, disk, sram, lc, pnr, sta, proc>>

AlterCopy ==
    /\ Fault
    /\ \E dir \in DOMAIN pnr : pnr' = [pnr EXCEPT ![dir].copy = Altered]
    /\ UNCHANGED <<tree, disk, sram, lc, dc, sta, proc>>

AlterHandoff ==
    /\ Fault
    /\ \E dir \in DOMAIN pnr :
        /\ pnr[dir].ledger # None
        /\ pnr' = [pnr EXCEPT ![dir].handoff = Altered]
    /\ UNCHANGED <<tree, disk, sram, lc, dc, sta, proc>>

(* The process is killed; what it wrote stays.                             *)
Crash(p) ==
    /\ Fault
    /\ ~At(p, "idle")
    /\ Become(p, Idle)
    /\ UNCHANGED <<tree, disk, sram, lc, dc, pnr, sta>>

(*-------------------------------------------------------------------------*)

Init ==
    /\ tree \in StartTrees
    /\ disk = t.matrix.libraries
    /\ sram = None /\ lc = None
    /\ dc = <<>> /\ pnr = <<>> /\ sta = <<>>
    /\ proc = [p \in Proc |-> Idle]
    /\ faults = MaxFaults

Command(p) ==
    \/ SramOpen(p) \/ SramView(p) \/ SramSeal(p)
    \/ LcOpen(p) \/ LcTool(p) \/ LcManifest(p)
    \/ DcStart(p) \/ DcOpen(p) \/ DcTool(p) \/ DcSeal(p) \/ DcMark(p) \/ DcDecide(p)
    \/ PnrStart(p) \/ PnrOpen(p) \/ PnrStage(p) \/ PnrTool(p) \/ PnrRecord(p) \/ PnrMark(p)
    \/ RecoverStart(p) \/ RecoverOpen(p) \/ RecoverRecord(p)
    \/ StaStart(p) \/ StaOpen(p) \/ StaTool(p) \/ StaMark(p)

Next ==
    \/ \E p \in Proc : Command(p) \/ Crash(p)
    \/ Checkout \/ ReplaceLibrary \/ AlterMapped \/ AlterCopy \/ AlterHandoff

Spec == Init /\ [][Next]_vars

(*------------------------- evidence and properties -----------------------*)

ManifestsHoldLedgerOnlyBug ==
    DOMAIN dc # {} /\ \A dir \in DOMAIN pnr : pnr[dir].input # None => pnr[dir].ledger # None

(* evidence_check: every file a manifest names has the digest recorded     *)
(* there, every P&R run with a manifest has its ledger, and the ledgers    *)
(* and the timing inputs agree with themselves and with the files.         *)
ManifestsHold ==
    /\ DOMAIN dc # {}
    /\ \A dir \in DOMAIN dc : /\ dc[dir].input.libraries = disk
                              /\ dc[dir].input.constraint = t.files["internal_clock.sdc"]
    /\ \A dir \in DOMAIN pnr : pnr[dir].input # None =>
            /\ pnr[dir].input.mapped = sha256(pnr[dir].copy)
            /\ pnr[dir].ledger # None
    /\ \A dir \in DOMAIN sta : /\ sta[dir].input.sta_input = sha256(pnr[sta[dir].input.source].handoff)
                               /\ sta[dir].input.db = disk.db

LedgersHold ==
    /\ \A dir \in DOMAIN pnr : pnr[dir].ledger # None =>
            /\ SameMapped(pnr[dir].ledger)
            /\ pnr[dir].ledger.routed = sha256(pnr[dir].handoff)
    /\ \A dir \in DOMAIN sta : sta[dir].input.pnr_output = sta[dir].input.sta_input

evidence_check == ManifestsHold /\ LedgersHold

(* Types: every directory belongs to a line and holds records of the shape *)
(* its stage writes; points of a scan lie between its bounds.              *)
TypeOK ==
    /\ tree \in DOMAIN Trees /\ faults \in 0..MaxFaults
    /\ \A p \in Proc : ("dir" \in DOMAIN proc[p] /\ proc[p].pc \notin {"dc_open", "pnr_open", "rec_open", "sta_open"})
                           => Dir(p) \in DOMAIN dc \cup DOMAIN pnr \cup DOMAIN sta
    /\ \A dir \in DOMAIN dc :
        /\ DOMAIN dc[dir].points \subseteq Lowest(dc[dir].input.frequencies)..Highest(dc[dir].input.frequencies)
        /\ \A f \in DOMAIN dc[dir].points : Point(dir, f).ok => Point(dir, f).output # None
        /\ dc[dir].verdict \in {None, 0} \cup DOMAIN dc[dir].points
    /\ \A dir \in DOMAIN pnr :
        /\ dir.id \in RunId \cup RecoveryId
        /\ pnr[dir].exit_status \in {None, 0, 1}
        /\ pnr[dir].ok => pnr[dir].ledger # None /\ pnr[dir].input # None
    /\ \A p \in Proc : At(p, "pnr_mark") => pnr[Dir(p)].ledger # None
    /\ \A dir \in DOMAIN sta : sta[dir].ok => sta[dir].analysed # None

(* A command works in a directory it made itself: what is there is what it *)
(* has written so far, never what another command, running or killed, left *)
(* (asicctl.py: exists() and mkdir() before every stage's first write).    *)
OwnFilesOnly(p) ==
    LET run == pnr[Dir(p)]
        d == dc[Dir(p)]
        executed == Cardinality(DOMAIN d.points)
    IN  /\ At(p, "dc_tool") => proc[p].mhz \notin DOMAIN d.points /\ Len(d.decisions) = executed /\ d.verdict = None
        /\ At(p, "dc_seal") => Point(Dir(p), proc[p].mhz).output = None /\ Len(d.decisions) + 1 = executed
        /\ At(p, "dc_mark") => ~Point(Dir(p), proc[p].mhz).ok
        /\ At(p, "dc_decide") => Len(d.decisions) + 1 = executed /\ d.verdict = None
        /\ At(p, "pnr_stage") => run.input = None /\ run.orfs = None
        /\ At(p, "pnr_tool") => run.orfs = None /\ run.exit_status = None
        /\ At(p, "pnr_record") => run.exit_status = None /\ run.ledger = None
        /\ At(p, "pnr_mark") => run.summary = None
        /\ At(p, "rec_record") => run.handoff = None /\ run.ledger = None
        /\ At(p, "sta_tool") => sta[Dir(p)].report = None
        /\ At(p, "sta_mark") => sta[Dir(p)].summary = None

Stage(p) == CASE proc[p].pc \in {"dc_tool", "dc_seal", "dc_mark", "dc_decide"} -> "dc"
              [] proc[p].pc \in {"pnr_stage", "pnr_tool", "pnr_record", "pnr_mark", "rec_record"} -> "pnr"
              [] proc[p].pc \in {"sta_tool", "sta_mark"} -> "sta"
              [] OTHER -> "none"

OneWriter ==
    \A p \in Proc :
        /\ OwnFilesOnly(p)
        /\ \A q \in Proc \ {p} : Stage(p) = Stage(q) /\ Stage(p) # "none" => Dir(p) # Dir(q)

(* The scan goes down from the highest frequency; it leaves a point only   *)
(* when setup timing alone failed there, to the highest grid frequency     *)
(* whose period covers the period and the slack it lost; what it ends at   *)
(* is the one closed point or none, within the budget of the mode, if it   *)
(* has one (asicctl.py dc_frequency_decision and the loop of dc_matrix).   *)
Covers(g, f, wns) == g * (1000000 - wns * f) <= 1000000 * f

Descends(d, i, q) ==
    LET f == d.decisions[i].frequency
        next == d.decisions[i].next
        row == Report(d.points[f])
    IN  /\ next < f /\ next >= Lowest(d.input.frequencies)
        /\ d.points[f].ok /\ Clean(row) /\ row.wns < 0
        /\ next % q = 0 /\ Covers(next, f, row.wns)
        /\ \A g \in next + 1..f - 1 : g % q = 0 => ~Covers(g, f, row.wns)

ScanSound ==
    \A dir \in DOMAIN dc :
        LET d == dc[dir]
            scanned == Trees[d.input.identity.tree]
            n == Len(d.decisions)
        IN  /\ n > 0 => d.decisions[1].frequency = Highest(d.input.frequencies)
            /\ \A i \in 1..n - 1 : d.decisions[i + 1].frequency = d.decisions[i].next
            /\ \A i \in 1..n : d.decisions[i].next # 0 => Descends(d, i, quantum(scanned))
            /\ max_points(scanned) # 0 => n <= 1 \/ n <= max_points(scanned)
            /\ \A f \in DOMAIN d.points : Closed(d.points[f]) /\ d.verdict # None => d.verdict = f
            /\ d.verdict \notin {None, 0} => /\ d.verdict \in DOMAIN d.points
                                            /\ Closed(d.points[d.verdict])
                                            /\ d.decisions[n].frequency = d.verdict

(* When the evidence check accepts the build tree, what PrimeTime analysed *)
(* in every sealed timing run is what the ledger of its P&R run records    *)
(* and what is there now, and that run was routed from the netlist the     *)
(* output manifest of synthesis records (asicctl.py evidence_check).       *)
EvidenceSound ==
    evidence_check => \A dir \in {s \in DOMAIN sta : sta[s].ok} :
        LET run == pnr[sta[dir].input.source]
            from == run.input.from
        IN  /\ run.ok
            /\ sha256(sta[dir].analysed) = run.ledger.routed
            /\ sta[dir].analysed = run.handoff
            /\ Point(from.dir, from.mhz).output.mapped = sha256(run.copy)
            /\ run.ledger.orfs_import = sha256(run.copy)

(* The sealed runs of the build tree are a chain: asicctl.py               *)
(* require_handoff_identity, the output manifest of synthesis and the      *)
(* ledger of P&R implement SealedChain, for the runs that P&R completes    *)
(* and for those that recovery completes.                                  *)
(* Identities with equal fields, by the first checkout that has them.      *)
ClassOf ==
    [c \in DOMAIN Trees |-> [mode \in DOMAIN IdentityOf[c] |->
        <<mode, CHOOSE first \in DOMAIN Trees :
                    mode \in DOMAIN IdentityOf[first] /\ IdentityOf[first][mode] = IdentityOf[c][mode]>>]]

Class(identity) == ClassOf[identity.tree][identity.mode]

Pinned ==
    [c \in DOMAIN Trees |->
        IF Trees[c].memory_mode = "sram"
        THEN [m \in DOMAIN macros(Trees[c]) |-> macros(Trees[c])[m].timing] ELSE <<>>]

(* What a netlist was really made from, macro databases included.          *)
Made(product, line) ==
    IF product # Altered /\ line[2] \in DOMAIN ClassOf[product.tree]
       /\ product.dbs = Pinned[product.tree]
    THEN ClassOf[product.tree][line[2]]
    ELSE None

(* A stage's finished work: the directory, the identity it recorded, the   *)
(* digest it says it started from and the one it says it made.             *)
DcRun(dir, f, output) ==
    [stage |-> "dc", dir |-> [line |-> dir.line, id |-> dir.id, mhz |-> f],
     identity |-> Class(output.identity), input |-> None,
     made |-> Made(output.mapped, dir.line), product |-> output.mapped]

PnrRun(dir, run) ==
    [stage |-> "pnr", dir |-> dir, identity |-> Class(run.input.identity), input |-> run.ledger.dc_output,
     made |-> Made(run.ledger.routed, dir.line), product |-> run.ledger.routed]

StaRun(dir, run) ==
    [stage |-> "sta", dir |-> dir, identity |-> Class(run.input.identity), input |-> run.input.pnr_output,
     made |-> Made(run.input.sta_input, dir.line), product |-> run.input.sta_input]

DcDone(dir) == {f \in DOMAIN dc[dir].points : Point(dir, f).ok}

DcRuns == UNION {{DcRun(dir, f, Point(dir, f).output) : f \in DcDone(dir)} : dir \in DOMAIN dc}

PnrRuns == {PnrRun(dir, pnr[dir]) : dir \in {d \in DOMAIN pnr : pnr[d].ok}}

StaRuns == {StaRun(dir, sta[dir]) : dir \in {d \in DOMAIN sta : sta[d].ok}}

SealedRuns == DcRuns \cup PnrRuns \cup StaRuns

Chain == INSTANCE SealedChain WITH sealed <- SealedRuns

ImplementsChain == Chain!Spec
=============================================================================
