----------------------------- MODULE SimContract -----------------------------
(***************************************************************************)
(* What flowctl, the Verilator runner and the benchmark contract check and *)
(* derive before anything is built.  t is a checkout, a record:            *)
(*   project, provenance   the identities declared for the delivery        *)
(*   profiles, source_sets, configs   the delivery manifests               *)
(*   snapshot    the upstream configuration of the OoO core                *)
(*   filelists   [profile -> sequence of tokens], a token a record:        *)
(*     kind      "source", "include", "define", "declared" (--language or  *)
(*               --timescale) or "option" (any other)                      *)
(*     value     its path, its directory or its text                       *)
(*     line      the kinds of the tokens that flowctl sees on its line     *)
(*     comment   whether it stands behind a # or // that flowctl takes for *)
(*               a comment and the runner does not                         *)
(*   files, beside   the RTL files by their path from the root, and those  *)
(*               found only from the directory of the filelist             *)
(*   owner       [path -> the profile whose directory it is in, or None]   *)
(*   headers     [include directory -> [header -> its content]]            *)
(*   allowlist   the manifest of the locked sources                        *)
(*   harness     the C++ sources of the runtime                            *)
(*   regression, coremark, nemu, adapter_source   the locked inputs        *)
(* c is the contents of .config.  A digest is the content itself, or None  *)
(* where a manifest leaves it empty.                                       *)
(***************************************************************************)
EXTENDS Integers, Sequences, FiniteSets, SequencesExt

CONSTANTS
    None,
    IDENTITY,                   \* the project and snapshot identity
    RequiredDefines,            \* [profile -> defines it may not lack]
    ForbiddenDefines,
    OOO_DESIGN,                 \* the design parameters of the OoO profile
    OOO_ACCEPTED, OOO_DISABLED  \* its wrapper parameters locked to 1 and 0

Linux == "rv32ima_sv32_linux"

OoO == "rv32im_ooo_4k"

WRAPPER_TOP == "npc_public_sim_top"

RTL_SUFFIXES == {".v", ".sv", ".vh", ".svh"}

MATURITY_VALUES == {"stable", "development", "experimental", "archived"}

PROFILE_FILELISTS(profile) == <<"filelists", profile>>

PROFILE_WRAPPERS(profile) == profile

sha256(content) == content

(* The content of an RTL file is what its version says.                    *)
Text(file) == file.version

(*------------------------------ .config ----------------------------------*)

(* Exactly one profile symbol is set, the one CONFIG_NPC_PROFILE_ID names. *)
selected_profile(c) == c.selected = {c.profile_id}

profile_manifests(t, p) ==
    /\ p \in DOMAIN t.profiles /\ t.profiles[p].profile_id = p
    /\ t.profiles[p].source_set \in DOMAIN t.source_sets
    /\ t.source_sets[t.profiles[p].source_set].profile = p

source_data(t, p) == t.source_sets[t.profiles[p].source_set]

config_links(t, p) ==
    [design |-> t.profiles[p].design_config, profile |-> p,
     target |-> t.profiles[p].target_config, run |-> t.profiles[p].default_run_config]

linked(t, p, group) == t.configs[group][config_links(t, p)[group]]

(* The five manifests of a profile describe one design.                    *)
profile_info(t, p) ==
    /\ profile_manifests(t, p)
    /\ \A group \in DOMAIN config_links(t, p) : config_links(t, p)[group] \in DOMAIN t.configs[group]
    /\ LET profile == t.profiles[p]
           source == source_data(t, p)
           run == linked(t, p, "run")
       IN  /\ profile.public_filelist = PROFILE_FILELISTS(p)
           /\ profile.wrapper_file = PROFILE_WRAPPERS(p)
           /\ profile.wrapper_top_module = WRAPPER_TOP
           /\ profile.maturity \in MATURITY_VALUES
           /\ \A key \in {"commit_sha", "source_root", "source_ref"} : source[key] = profile[key]
           /\ linked(t, p, "design").native_top_module = profile.top_module
           /\ source.native_top_module = profile.top_module
           /\ source.public_wrapper = profile.wrapper_file
           /\ source.public_filelist = profile.public_filelist
           /\ run.profile = p
           /\ run.design = profile.design_config /\ run.target = profile.target_config
           /\ run.commit_sha = profile.commit_sha /\ run.source_ref = profile.source_ref
           /\ ~run.architectural_overrides_allowed
           /\ linked(t, p, "target").target_kind = "simulation"

validate_compile_contract(t, p) ==
    LET defines == ToSet(source_data(t, p).verilog_defines)
    IN  RequiredDefines[p] \subseteq defines /\ defines \cap ForbiddenDefines = {}

(* The wrapper locks each accepted mechanism on and each oracle off, as    *)
(* the upstream snapshot lists them, when there is one.                    *)
validate_ooo_profile_contract(t, p) ==
    p = OoO =>
        /\ linked(t, p, "design").parameters = OOO_DESIGN
        /\ linked(t, p, "run").latencies = [ifetch |-> 2, lsu |-> 3, memory |-> 2]
        /\ t.snapshot.present =>
            LET wrapper == t.files[PROFILE_WRAPPERS(p)]
            IN  /\ t.snapshot.accepted = OOO_ACCEPTED
                /\ OOO_DISABLED \subseteq t.snapshot.disabled
                /\ OOO_ACCEPTED \subseteq wrapper.enabled
                /\ OOO_DISABLED \subseteq wrapper.disabled
                /\ t.snapshot.capacities = wrapper.capacities

(* Everything but the reference adapter, which SimBuild asks for.          *)
validate_config(t, c) ==
    LET p == c.profile_id
    IN  /\ selected_profile(c)
        /\ c.identity = IDENTITY
        /\ c.watchdog >= 1 /\ c.seed >= 0
        /\ profile_info(t, p)
        /\ t.project.identity = IDENTITY /\ p \in t.project.profile_ids
        /\ t.profiles[p].identity = IDENTITY /\ source_data(t, p).identity = IDENTITY
        /\ \A group \in {"design", "target", "run"} : linked(t, p, group).identity = IDENTITY
        /\ t.provenance = IDENTITY
        /\ validate_compile_contract(t, p)
        /\ validate_ooo_profile_contract(t, p)
        /\ p # Linux => ~t.profiles[p].sv32

(*----------------------------- the sources -------------------------------*)

Entries(t, p, kind) == LET Of(e) == e.kind = kind IN SelectSeq(t.filelists[p], Of)

Values(entries) == [i \in DOMAIN entries |-> entries[i].value]

(* flowctl reads a filelist by lines.  It passes over a line that begins   *)
(* with --language or --timescale, whatever else is on it.                 *)
Skipped(e) == e.comment \/ Head(e.line) = "declared"

(* It refuses any other option; and a line of several tokens is to it one  *)
(* path or define with a blank in it, which no file and no manifest has.   *)
filelist_entries(t, p) ==
    \A e \in ToSet(t.filelists[p]) :
        Skipped(e) \/ (e.line = <<e.kind>> /\ e.kind \in {"source", "include", "define"})

Taken(entries) == LET Of(e) == ~Skipped(e) IN SelectSeq(entries, Of)

(* The sources that flowctl reads, and those that only the runner does.    *)
TakenSources(t, p) == {e.value : e \in {o \in ToSet(Entries(t, p, "source")) : ~Skipped(o)}}

SkippedSources(t, p) == {e.value : e \in {o \in ToSet(Entries(t, p, "source")) : Skipped(o)}}

(* The source set lists paths itself, without digests, or names a profile  *)
(* of the manifest, whose simulation entries count.                        *)
allowlist_entries(t, p) == t.allowlist.profiles[source_data(t, p).allowlist_profile_key]

declares_allowlist(t, p) ==
    \/ source_data(t, p).allowlist # {}
    \/ /\ t.allowlist.identity = IDENTITY
       /\ source_data(t, p).allowlist_profile_key \in DOMAIN t.allowlist.profiles

declared_allowlist(t, p) ==
    IF source_data(t, p).allowlist # {} THEN [path \in source_data(t, p).allowlist |-> None]
    ELSE LET entries == allowlist_entries(t, p)
         IN  [path \in {d \in DOMAIN entries : "simulation" \in entries[d].roles} |-> entries[path].sha256]

(* The audit behind source-check and lint.                                 *)
check_source_closure(t, p) ==
    LET sources == TakenSources(t, p)
        includes == Values(Taken(Entries(t, p, "include")))
        wrapper == t.profiles[p].wrapper_file
    IN  /\ filelist_entries(t, p)
        /\ includes = source_data(t, p).public_include_dirs \o <<"sim/include">>
        /\ Values(Taken(Entries(t, p, "define"))) = source_data(t, p).verilog_defines
        /\ wrapper \in sources
        /\ sources \subseteq DOMAIN t.files /\ ToSet(includes) \subseteq DOMAIN t.headers
        /\ \A path \in sources \cup ToSet(includes) : t.owner[path] \in {p, None}
        /\ \A s \in sources : t.files[s].suffix \in RTL_SUFFIXES
        /\ \A s \in sources : \A h \in t.files[s].includes : \E d \in ToSet(includes) : h \in DOMAIN t.headers[d]
        /\ \A s, o \in sources : s # o => t.files[s].modules \cap t.files[o].modules = {}
        /\ \E s \in sources : WRAPPER_TOP \in t.files[s].modules
        /\ declares_allowlist(t, p)
        /\ LET locked == declared_allowlist(t, p)
           IN  /\ DOMAIN locked # {}
               /\ sources \ {wrapper} = DOMAIN locked
               /\ \A s \in sources \ {wrapper} : locked[s] \in {None, sha256(Text(t.files[s]))}

(* The runner reads the same filelist token by token, by rules of its own: *)
(* a path that is not found from the root is looked for beside the         *)
(* filelist, options are kept, and what flowctl skips counts.              *)
Resolved(t, path) == IF path \in DOMAIN t.files THEN t.files[path] ELSE t.beside[path]

RunnerSources(t, p) == Values(Entries(t, p, "source"))

RunnerOptions(t, p) ==
    LET Of(e) == e.kind # "source"
        kept == SelectSeq(t.filelists[p], Of)
    IN  [i \in DOMAIN kept |-> <<kept[i].kind, kept[i].value>>]

read_filelist(t, p) ==
    /\ RunnerSources(t, p) # <<>>
    /\ ToSet(RunnerSources(t, p)) \subseteq DOMAIN t.files \cup DOMAIN t.beside

Inventory(t, p) ==
    LET s == RunnerSources(t, p) IN [i \in DOMAIN s |-> <<s[i], sha256(Text(Resolved(t, s[i])))>>]

(* The name of a build directory.  Headers are not part of it.             *)
signature(t, p, args) ==
    [profile |-> p, seed |-> args.seed, trace |-> args.trace, options |-> RunnerOptions(t, p),
     sources |-> Inventory(t, p), harness |-> t.harness]

(* What `verilator --build` makes of the same command.                     *)
Product(t, p, args) ==
    [trace |-> args.trace \/ args.vcd, options |-> RunnerOptions(t, p), sources |-> Inventory(t, p),
     headers |-> [d \in ToSet(Values(Entries(t, p, "include"))) \cap DOMAIN t.headers |-> t.headers[d]], harness |-> t.harness]

(*------------------------- the locked programs ---------------------------*)

variants(m, p) == {v \in DOMAIN m.variants : p \in m.variants[v].profiles}

(* An image is [bytes, code], code the instruction at each marker.         *)
load_contract(m, p, image, elf) ==
    /\ m.iterations > 0 /\ m.contexts = 1
    /\ Cardinality(variants(m, p)) = 1
    /\ \A v \in variants(m, p) :
        /\ m.variants[v].binary_sha256 = sha256(image)
        /\ m.variants[v].elf_sha256 = sha256(elf)
        /\ m.variants[v].markers = image.code

(* The images of a regression; each that has a digest has it now.          *)
regression_cases(t, p, disk) ==
    \A i \in DOMAIN t.regression[p] :
        LET case == t.regression[p][i]
        IN  case.locked /\ case.image \in DOMAIN disk => sha256(disk[case.image]) = case.sha256

RegressionImages(t, p) == [i \in DOMAIN t.regression[p] |-> t.regression[p][i].image]
=============================================================================
