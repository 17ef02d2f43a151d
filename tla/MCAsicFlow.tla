----------------------------- MODULE MCAsicFlow ----------------------------
(* Three cores' checkouts, one audited revision each, and the edits that   *)
(* the stages must notice.                                                  *)
EXTENDS AsicFlow

CONSTANTS p1, p2

SingleP == "rv32im_single_perf"

Rtl(v, defined) == [version |-> v, modules |-> defined, memory_ports |-> TRUE, wrapper |-> FALSE]

Sources(memory) == IF memory = "sram" THEN <<"core.sv", "cache_sram.sv", "prims.sv">> ELSE <<"core.sv", "cache.sv", "prims.sv">>

Entry(f) == [roles |-> {"asic"}, source_commit |-> "base", sha256 |-> f]

Overlay(f) == [roles |-> {"asic_sram"}, source_commit |-> "overlay", sha256 |-> f, audited |-> TRUE,
               logical |-> "cache.sv", memory_mode |-> "sram"]

(* The matrix of a checkout without macros has no "sram" mode: preparing   *)
(* macro views that no stage reads only multiplies the states.             *)
MemoryModes(memory, timing) ==
    LET registers == [allowed_profiles |-> {SingleP, Linux, OoO}, extra_defines |-> {}, macros |-> <<>>,
                      revision |-> 0, dc_max_points |-> 0, dc_navigation_quantum_mhz |-> 100]
        withMacros == [allowed_profiles |-> {SingleP}, extra_defines |-> {"NPC_ASIC_SRAM"}, revision |-> 1,
                 macros |-> [icache |-> [original |-> 1, timing |-> timing, instances |-> 1]],
                 dc_max_points |-> 1, dc_navigation_quantum_mhz |-> 100]
    IN  [m \in {"registers", memory} |-> IF m = "sram" THEN withMacros ELSE registers]

(* A checkout: the profile, the memory mode, the version of the support    *)
(* source and whether the matrix was updated with it, the pinned timing    *)
(* library of the macro and the version of the standard-cell library.      *)
Tree(profile, memory, default, prims, pinned, timing, library) ==
    LET file(f) == CASE f = "core.sv"  -> Rtl(1, {"core"})
                     [] f = "prims.sv" -> Rtl(prims, {})
                     [] OTHER          -> Rtl(1, {})
        list == [defines |-> {"NPC_ASIC"}, sources |-> Sources(memory)]
        data == [top |-> "core", source_commit |-> "base",
                 source_variants |-> [base |-> [default_mode |-> default, allowed_modes |-> {"legacy", "a3"}]],
                 elaboration_parameter_files |-> [legacy |-> "legacy.tcl", a3 |-> "a3.tcl"],
                 filelists |-> [m \in {"registers", "sram"} |-> m],
                 support |-> ("prims.sv" :> Rtl(pinned, {})),
                 dc_frequencies_mhz |-> IF profile = OoO THEN <<300>> ELSE <<500, 300>>,
                 sram_dc_frequencies_mhz |-> <<500, 300>>,
                 pnr_frequencies_mhz |-> [m \in {"registers", "sram"} |->
                     IF profile = OoO THEN 0 ELSE 300]]
        base == [f \in {"core.sv", "cache.sv"} |-> Entry(file(f))]
        record == [profile_id |-> profile, source_commit |-> "base", entries |-> base,
                   overlays |-> IF profile = SingleP THEN ("cache_sram.sv" :> Overlay(file("cache_sram.sv"))) ELSE <<>>,
                   source_sets |-> [m \in {"registers", "sram"} |->
                       <<"base", IF m = "sram" THEN ("cache.sv" :> file("cache_sram.sv")) @@ ("core.sv" :> file("core.sv"))
                                               ELSE [f \in DOMAIN base |-> base[f].sha256]>>]]
    IN  [symbols |-> {profile}, profile_id |-> profile, register_expanded |-> TRUE, memory_mode |-> memory,
         matrix |-> [memory_modes |-> MemoryModes(memory, timing), profiles |-> (profile :> data),
                     libraries |-> [liberty |-> library, db |-> library], orfs |-> "image"],
         allowlist |-> {record},
         files |-> [f \in {"core.sv", "cache.sv", "cache_sram.sv", "prims.sv"} |-> file(f)]
                   @@ [m \in {"registers", "sram"} |-> [list EXCEPT !.sources = Sources(m)]]
                   @@ ("legacy.tcl" :> [settings |-> ParameterLock.legacy]) @@ ("a3.tcl" :> [settings |-> ParameterLock.a3])
                   @@ ("internal_clock.sdc" :> 1)]

MCCheckouts == <<
    Tree(Linux, "registers", "legacy", 1, 1, 1, 1),      \* 1: as audited
    Tree(Linux, "registers", "legacy", 2, 2, 1, 1),      \* 2: the support source and its pin changed
    Tree(Linux, "registers", "legacy", 2, 1, 1, 1),      \* 3: the source changed, not its pin
    Tree(SingleP, "sram", "legacy", 1, 1, 1, 1),         \* 4: macros
    Tree(SingleP, "sram", "legacy", 1, 1, 2, 2),         \* 5: other pinned timing and cell libraries
    Tree(OoO, "registers", "legacy", 1, 1, 1, 1),      \* 6: no fixed P&R frequency
    Tree(OoO, "registers", "a3", 1, 1, 1, 1)>>         \* 7: another default mode

MCSwitches == {<<1, 2>>, <<2, 1>>, <<1, 3>>, <<4, 5>>, <<5, 4>>, <<6, 7>>}

MCMacroViews == [icache |-> [original |-> 1, timing |-> 1]]

Good == [exit_status |-> 0, netlist |-> TRUE, missing |-> {}, loops_valid |-> TRUE, nonzero |-> {},
           checks_ok |-> TRUE, counts |-> 0, isolation |-> 0, wns |-> 0, tns |-> 0,
           violating_paths |-> 0, recipe_ok |-> TRUE]

Slow(ps) == [Good EXCEPT !.wns = -ps, !.tns = -ps, !.violating_paths = 1]

MCDcReports ==
    [closed |-> Good, near |-> Slow(1), far |-> Slow(700),
     latch |-> [Slow(1) EXCEPT !.nonzero = {"latch_count"}],
     counts |-> [Good EXCEPT !.counts = 1],
     failed |-> [Good EXCEPT !.exit_status = 1, !.netlist = FALSE]]

Route == [missing |-> {}, drc |-> 0, antenna |-> 0, flow_errors |-> 0, macros |-> 0, placed |-> 0, nets_open |-> 0]

MCRouteReports == [clean |-> Route, drc |-> [Route EXCEPT !.drc = 1]]

Timing == [missing |-> {}, native_errors |-> 0, inputs_read |-> TRUE, macros |-> 0, unannotated |-> 0,
           coverage_clean |-> TRUE, setup_wns |-> 0, setup_violations |-> 0, hold_wns |-> 0, hold_violations |-> 0]

MCStaReports == [closed |-> Timing, hold |-> [Timing EXCEPT !.hold_wns = -10, !.hold_violations = 1]]

MCFrequencyArgs == {<<>>}

Symmetry == Permutations({p1, p2})
=============================================================================
