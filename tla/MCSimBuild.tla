----------------------------- MODULE MCSimBuild ------------------------------
(* Two profiles, each with a wrapper and one audited source that includes   *)
(* a header.                                                                *)
EXTENDS SimBuild

CONSTANTS p1, p2

MCIdentity == <<"npc-riscv-open", "v0.1.0">>

MCProfiles == {Linux, OoO}

Core == [p \in MCProfiles |-> IF p = Linux THEN "linux_core" ELSE "ooo_core"]

MCRequired == [p \in MCProfiles |-> {"NPC_USE_DPI"}]

MCDesign == [rob_entries |-> 8]

Token(kind, value) == [kind |-> kind, value |-> value, line |-> <<kind>>, comment |-> FALSE]

(* A filelist with, at its end, a line "--timescale=... extra".             *)
Filelist(p, source, extra) ==
    LET option(kind, value) == [kind |-> kind, value |-> value, line |-> <<"declared", "source">>, comment |-> FALSE]
    IN  <<Token("include", "rtl"), Token("include", "sim/include"), Token("define", "NPC_USE_DPI"),
          Token("source", PROFILE_WRAPPERS(p)), Token("source", source)>>
        \o (IF extra THEN <<option("declared", "--timescale"), option("source", "extra")>> ELSE <<>>)

(* A checkout: the version of the core and of the header, the version that *)
(* is audited, the commit the reference is built from and the version of   *)
(* its adapter, and where the core's source is found.  The OoO profile may *)
(* list its sources without digests, and an extra one behind an option.    *)
Tree(core, header, audited, commit, adapter, beside, inline, extra) ==
    LET source(p, version) == [version |-> version, suffix |-> ".v", includes |-> {"types.svh"}, modules |-> {Core[p]}]
        wrapper(p) == [version |-> 1, suffix |-> ".sv", includes |-> {}, modules |-> {WRAPPER_TOP},
                       enabled |-> {"TARGET_LINE_HIT_ENABLE"}, disabled |-> {"PARTIAL_PAIR_ORACLE_ENABLE"}, capacities |-> 512]
        extras == "extra" :> [version |-> 1, suffix |-> ".sv", includes |-> {}, modules |-> {"extra"}]
        cores == [path \in {Core[p] : p \in MCProfiles} |->
                     source(CHOOSE p \in MCProfiles : Core[p] = path, core)]
        common(p) == [identity |-> MCIdentity, profile |-> p, commit_sha |-> "sha", source_ref |-> "ref", source_root |-> "."]
    IN  [project |-> [identity |-> MCIdentity, profile_ids |-> MCProfiles], provenance |-> MCIdentity,
         profiles |-> [p \in MCProfiles |-> common(p) @@
            [profile_id |-> p, source_set |-> p, design_config |-> p, target_config |-> "sim", default_run_config |-> p,
             public_filelist |-> PROFILE_FILELISTS(p), wrapper_file |-> PROFILE_WRAPPERS(p), wrapper_top_module |-> WRAPPER_TOP,
             maturity |-> "development", top_module |-> "core", sv32 |-> p = Linux]],
         source_sets |-> [p \in MCProfiles |-> common(p) @@
            [native_top_module |-> "core", public_wrapper |-> PROFILE_WRAPPERS(p), public_filelist |-> PROFILE_FILELISTS(p),
             allowlist |-> IF inline /\ p = OoO THEN {Core[p]} ELSE {}, allowlist_profile_key |-> p,
             verilog_defines |-> <<"NPC_USE_DPI">>, public_include_dirs |-> <<"rtl">>]],
         configs |-> [design |-> [p \in MCProfiles |-> [identity |-> MCIdentity, native_top_module |-> "core", parameters |-> MCDesign]],
                      profile |-> [p \in MCProfiles |-> 0],
                      target |-> [sim |-> [identity |-> MCIdentity, target_kind |-> "simulation"]],
                      run |-> [p \in MCProfiles |-> common(p) @@
                        [design |-> p, target |-> "sim", architectural_overrides_allowed |-> FALSE,
                         latencies |-> [ifetch |-> 2, lsu |-> 3, memory |-> 2]]]],
         snapshot |-> [present |-> TRUE, accepted |-> {"TARGET_LINE_HIT_ENABLE"}, disabled |-> {"PARTIAL_PAIR_ORACLE_ENABLE"},
                       capacities |-> 512],
         filelists |-> [p \in MCProfiles |-> Filelist(p, Core[p], extra /\ p = OoO)],
         files |-> [p \in MCProfiles |-> wrapper(p)] @@ extras @@ (IF beside THEN <<>> ELSE cores),
         beside |-> IF beside THEN cores ELSE <<>>,
         headers |-> ("rtl" :> ("types.svh" :> header) @@ "sim/include" :> <<>>),
         owner |-> [path \in MCProfiles \cup {Core[p] : p \in MCProfiles} \cup {"extra", "rtl", "sim/include"} |->
                      IF \E p \in MCProfiles : Core[p] = path THEN CHOOSE p \in MCProfiles : Core[p] = path ELSE None],
         allowlist |-> [identity |-> MCIdentity, profiles |-> [p \in MCProfiles |->
            (Core[p] :> [roles |-> {"simulation", "asic"}, sha256 |-> audited]) @@ ("synthesis_top" :> [roles |-> {"asic"}, sha256 |-> 1])]],
         harness |-> 1, adapter_source |-> adapter,
         smoke |-> [p \in MCProfiles |-> IF p = Linux THEN "linux.hex" ELSE "ooo.hex"],
         regression |-> [p \in MCProfiles |->
            IF p = Linux THEN <<[image |-> "linux.hex", locked |-> TRUE, sha256 |-> [bytes |-> "linux.hex", code |-> 0]],
                                [image |-> "arch.hex", locked |-> TRUE, sha256 |-> [bytes |-> "arch.hex", code |-> 0]]>>
                         ELSE <<[image |-> "ooo.hex", locked |-> TRUE, sha256 |-> [bytes |-> "ooo.hex", code |-> 0]]>>],
         coremark |-> [iterations |-> 1, contexts |-> 1, variants |->
            [all |-> [profiles |-> MCProfiles, binary_sha256 |-> [bytes |-> "coremark.bin", code |-> 1],
                      elf_sha256 |-> [bytes |-> "coremark.elf", code |-> 0], markers |-> 1]]],
         nemu |-> [build_contract |-> 1,
                   profiles |-> [p \in MCProfiles |-> [commit |-> commit, tree |-> IF commit = "c2" THEN 2 ELSE 1]]]]

MCCheckouts == <<
    Tree(1, 1, 1, "c1", 1, FALSE, FALSE, TRUE),     \* 1: as audited, but for the extra source
    Tree(1, 2, 1, "c2", 1, FALSE, FALSE, FALSE),    \* 2: another header, another reference
    Tree(2, 1, 1, "c1", 2, FALSE, TRUE, FALSE),     \* 3: another source, without a digest for OoO, another adapter
    Tree(2, 1, 1, "lost", 1, TRUE, FALSE, FALSE)>>  \* 4: a source only beside the filelist, no such commit

MCSwitches == {<<1, 2>>, <<1, 3>>, <<1, 4>>}

MCRepository == [c1 |-> 1, c2 |-> 2]

Config(id, vcd, difftest, reference, image) ==
    [selected |-> {id}, profile_id |-> id, identity |-> MCIdentity, watchdog |-> 1, seed |-> 1,
     vcd |-> vcd, difftest |-> difftest, reference |-> reference, image |-> image]

MCConfigs == {
    Config(OoO, FALSE, TRUE, None, None), Config(OoO, TRUE, FALSE, "ext.so", "ooo.hex"), Config(Linux, FALSE, FALSE, None, None)}

MCDisk == [image \in {"linux.hex", "arch.hex", "ooo.hex", "coremark.bin", "coremark.elf", "opensbi"} |->
    [bytes |-> image, code |-> IF image = "coremark.bin" THEN 1 ELSE 0]]

MCImageArgs == {None}

MCReferenceArgs == {None}

MCStartBundles == {{Linux}, {Linux, OoO}}

MCPrepareArgs == {<<<<Linux, OoO>>, FALSE>>, <<<<OoO>>, TRUE>>}

Symmetry == Permutations({p1, p2})
=============================================================================
