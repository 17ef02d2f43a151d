------------------------------ MODULE SimBuild -------------------------------
(***************************************************************************)
(* The simulation flow: `make sim`, smoke, regression, difftest, coremark, *)
(* opensbi-smoke, source-check and difftest-prepare, run by several        *)
(* processes over one checkout.  flowctl reads .config, validates it and   *)
(* starts the Verilator runner for each image; the runner hashes its       *)
(* inputs, builds the simulator in the directory that the hash names and   *)
(* runs it.  difftest-prepare builds the reference adapter of a profile.   *)
(* The state is the files:                                                 *)
(*   tree    the checkout, an index into Trees                             *)
(*   config  .config, which another command may replace meanwhile          *)
(*   disk    [program image -> its content]                                *)
(*   built   [profile -> [signature -> the simulator in that directory]]   *)
(*   bundle  [profile -> the files of the local reference adapter, by name]*)
(*   perf    [profile and suffix -> the CoreMark summary written last]     *)
(* and what the commands have told the user:                               *)
(*   reported   the passes printed for this checkout                       *)
(*   proc    what each process is doing                                    *)
(*   commands, faults   those that may still come, at most MaxCommands and *)
(*           MaxFaults                                                     *)
(*                                                                         *)
(* A process that has started remembers in "disturbed" whether an image or *)
(* an adapter was replaced on disk after its command had checked it: each  *)
(* is hashed once and read again when the simulator starts.  "ready" says  *)
(* whether a preparation had reported its adapter before it started.       *)
(***************************************************************************)
EXTENDS SimContract

CONSTANTS
    Proc, Profiles,
    Checkouts,      \* the checkouts, a sequence
    Switches,       \* the pairs of checkouts a user may go from and to
    Configs,        \* the contents a .config may be given
    StartDisk,      \* the images on disk
    ImageArgs,      \* NPC_OPEN_IMAGE, None when it is not set
    ReferenceArgs,  \* NPC_OPEN_REFERENCE_SO, None when it is not set
    StartBundles,   \* the sets of profiles whose adapter may be prepared at first
    PrepareArgs,    \* of difftest-prepare: the profiles, a sequence, and --force
    Repository,     \* [commit -> its NEMU tree] of the workbench repository
    Alterable,      \* the images that may be replaced on disk
    MaxCommands,    \* the commands that may start in a behaviour
    MaxFaults

(* There is a checkout, and a user takes others; a checkout has profiles    *)
(* and their regressions; tracing is on or off; "no-difftest" is what the   *)
(* runner records instead of the digest of a reference; preparations name   *)
(* at least one profile.                                                    *)
ASSUME SimConstants ==
    /\ 1 \in DOMAIN Checkouts /\ \A s \in Switches : s[2] \in DOMAIN Checkouts
    /\ \A i \in DOMAIN Checkouts : LET checkout == Checkouts[i] IN
        /\ checkout.project.profile_ids \subseteq Profiles
        /\ \A p \in checkout.project.profile_ids : checkout.regression[p] \in Seq(ToSet(checkout.regression[p]))
    /\ \A c \in Configs : c.vcd \in BOOLEAN /\ c.reference # "no-difftest"
    /\ "no-difftest" \notin ReferenceArgs
    /\ \A args \in PrepareArgs : args[1] \in Seq(Profiles) /\ args[1] # <<>>
    /\ MaxCommands \in Nat /\ MaxFaults \in Nat

ASSUME NoneIsNothing == None \notin Profiles \cup {"local", "no-difftest"}

VARIABLES tree, config, disk, built, bundle, perf, reported, proc, commands, faults

vars == <<tree, config, disk, built, bundle, perf, reported, proc, commands, faults>>

Trees == Checkouts      \* a definition: TLC evaluates it once

t == Trees[tree]

(* What a checkout accepts and what a run of it builds: tables, so that    *)
(* TLC works them out once.                                                *)
Accepted == [i \in DOMAIN Trees |-> {c \in Configs : validate_config(Trees[i], c)}]

(* runner_command: tracing and the waveform go together.                   *)
runner_command(c) == [trace |-> c.vcd, vcd |-> c.vcd, seed |-> c.seed]

Signatures ==
    [i \in DOMAIN Trees |-> [c \in Accepted[i] |-> signature(Trees[i], c.profile_id, runner_command(c))]]

Products ==
    [i \in DOMAIN Trees |-> [c \in Accepted[i] |-> Product(Trees[i], c.profile_id, runner_command(c))]]

Idle == [pc |-> "idle"]

At(p, pc) == proc[p].pc = pc

(* It waits for a command; the result of its last one is still there.      *)
Ready(p) == proc[p].pc \in {"idle", "ended"}

Become(p, doing) == proc' = [proc EXCEPT ![p] = doing]

Goto(p, pc) == Become(p, [proc[p] EXCEPT !.pc = pc])

mainThroughBug(status) == status

(* A command fails: flowctl and the preparation exit with a status of      *)
(* their own, whatever the tool under them returned.                       *)
main(status) == IF status = 0 THEN 0 ELSE 2

Ended(doing, status) == [doing EXCEPT !.pc = "ended", !.status = main(status)]

Fail(p) == Become(p, Ended(proc[p], 1))

(*--------------------- the default reference adapter ---------------------*)

Has(profile, file) == bundle[profile] # None /\ file \in DOMAIN bundle[profile]

(* A manifest cut short does not parse.                                    *)
Candidate(profile) ==
    /\ Has(profile, "manifest") /\ bundle[profile]["manifest"] # None
    /\ bundle[profile]["manifest"].profile = profile
    /\ Has(profile, "adapter") /\ Has(profile, "raw")

Recorded(profile) ==
    LET b == bundle[profile]
    IN  /\ sha256(b["adapter"]) = b["manifest"].adapter_sha256
        /\ sha256(b["raw"]) = b["manifest"].raw_sha256

default_reference_adapter(profile) == Candidate(profile) /\ Recorded(profile)

(* The environment's, else that of .config, else the local bundle.         *)
Reference(c, given) ==
    IF given # None THEN given ELSE IF c.reference # None THEN c.reference ELSE "local"

HasReference(c, given) == Reference(c, given) # "local" \/ default_reference_adapter(c.profile_id)

Valid == config \in Accepted[tree] /\ (config.difftest => HasReference(config, None))

(*-------------------------------- flowctl --------------------------------*)

Begin == commands > 0 /\ commands' = commands - 1

(* Replaced while a command may still come that reads it.                  *)
Defconfig(p) ==
    /\ Ready(p) /\ commands > 0
    /\ config' \in Configs \ {config}
    /\ UNCHANGED <<tree, disk, built, bundle, perf, reported, proc, commands, faults>>

(* source-check, and lint before it runs its tool.                         *)
SourceCheck(p) ==
    /\ Ready(p) /\ Valid /\ Begin
    /\ check_source_closure(t, config.profile_id)
    /\ <<"sources", config.profile_id>> \notin reported
    /\ reported' = reported \cup {<<"sources", config.profile_id>>}
    /\ UNCHANGED <<tree, config, disk, built, bundle, perf, proc, faults>>

Start(p, cmd, images, reference) ==
    /\ Begin
    /\ Become(p, [pc |-> "runner", cmd |-> cmd, config |-> config, todo |-> images, reference |-> reference,
                  named |-> None, opened |-> None, ran |-> <<>>, disturbed |-> FALSE,
                  ready |-> <<"adapter", config.profile_id>> \in reported, status |-> None])
    /\ UNCHANGED <<tree, config, disk, built, bundle, perf, reported, faults>>

(* NPC_OPEN_IMAGE, else .config's, else the smoke image of the profile.    *)
image_argument(given, fallback) ==
    IF given # None THEN given ELSE IF config.image # None THEN config.image ELSE fallback

Smoke == LET image == t.smoke[config.profile_id] IN IF image \in DOMAIN disk THEN image ELSE None

Sim(p) ==
    /\ Ready(p) /\ Valid
    /\ \E given \in ImageArgs :
        LET image == image_argument(given, None)
        IN  image # None /\ Start(p, "run_sim", <<image>>, None)

SmokeRun(p) ==
    /\ Ready(p) /\ Valid
    /\ regression_cases(t, config.profile_id, disk)
    /\ t.smoke[config.profile_id] \in ToSet(RegressionImages(t, config.profile_id))
    /\ \E given \in ImageArgs :
        LET image == image_argument(given, Smoke)
        IN  image # None /\ Start(p, "run_sim", <<image>>, None)

(* Every digest is checked before the first image runs.                    *)
Regression(p) ==
    /\ Ready(p) /\ Valid
    /\ regression_cases(t, config.profile_id, disk)
    /\ t.regression[config.profile_id] # <<>>
    /\ Start(p, "regression", RegressionImages(t, config.profile_id), None)

Difftest(p) ==
    /\ Ready(p) /\ Valid
    /\ \E given \in ReferenceArgs, givenImage \in ImageArgs :
        LET image == image_argument(givenImage, Smoke)
        IN  /\ HasReference(config, given)
            /\ image # None
            /\ Start(p, "run_sim", <<image>>, Reference(config, given))

CoreMark(p) ==
    /\ Ready(p) /\ Valid
    /\ {"coremark.bin", "coremark.elf"} \subseteq DOMAIN disk
    /\ \/ Start(p, "run_coremark", <<"coremark.bin">>, None)
       \/ \E given \in ReferenceArgs :
            /\ HasReference(config, given)
            /\ Start(p, "run_coremark", <<"coremark.bin">>, Reference(config, given))

OpenSbi(p) ==
    /\ Ready(p) /\ Valid
    /\ config.profile_id = Linux
    /\ "opensbi" \in DOMAIN disk
    /\ Start(p, "run_sim", <<"opensbi">>, None)

(*------------------------------ the runner -------------------------------*)

Profile(p) == proc[p].config.profile_id

Signature(p) == Signatures[tree][proc[p].config]

Built(p) == Products[tree][proc[p].config]

Benchmark(p) == proc[p].cmd = "run_coremark"

(* A reference that the user names, none being one of them.                *)
External(name) == [profile |-> None, commit |-> name, source |-> None]

(* The reference the simulator would load now, None if it is not there.    *)
Loaded(p) ==
    CASE proc[p].reference = None    -> External("no-difftest")
      [] proc[p].reference = "local" -> IF Has(Profile(p), "adapter") THEN bundle[Profile(p)]["adapter"] ELSE None
      [] OTHER                       -> External(proc[p].reference)

(* The runner reads the filelist and hashes the sources, the image of a    *)
(* benchmark and the reference: together they name the configuration.      *)
Hash(p) ==
    /\ At(p, "runner")
    /\ LET image == Head(proc[p].todo)
       IN  IF /\ read_filelist(t, Profile(p))
              /\ image \in DOMAIN disk /\ Loaded(p) # None
              /\ Benchmark(p) => load_contract(t.coremark, Profile(p), disk[image], disk["coremark.elf"])
           THEN Become(p, [proc[p] EXCEPT !.pc = "build", !.named =
                    [signature |-> Signature(p), adapter |-> sha256(Loaded(p)),
                     image |-> IF Benchmark(p) THEN sha256(disk[image]) ELSE "no-benchmark"]])
           ELSE Fail(p)
    /\ UNCHANGED <<tree, config, disk, built, bundle, perf, reported, commands, faults>>

Simulator(p) ==
    LET sims == built[Profile(p)] IN IF Signature(p) \in DOMAIN sims THEN sims[Signature(p)] ELSE None

RemoveSimulator(p) ==
    built' = [built EXCEPT ![Profile(p)] = [s \in DOMAIN @ \ {Signature(p)} |-> @[s]]]

PutSimulator(p) ==
    built' = [built EXCEPT ![Profile(p)] =
                [s \in DOMAIN @ \cup {Signature(p)} |-> IF s = Signature(p) THEN Built(p) ELSE @[s]]]

BuildIfMissingBug(p) ==
    /\ At(p, "build")
    /\ IF Simulator(p) # None
       THEN Goto(p, "run") /\ UNCHANGED built
       ELSE Goto(p, "make") /\ RemoveSimulator(p)
    /\ UNCHANGED <<tree, config, disk, bundle, perf, reported, commands, faults>>

(* The build always runs; like make, it leaves alone what is up to date    *)
(* and removes the simulator that it is about to make.                     *)
Build(p) ==
    /\ At(p, "build")
    /\ IF Simulator(p) = Built(p)
       THEN Goto(p, "run") /\ UNCHANGED built
       ELSE Goto(p, "make") /\ RemoveSimulator(p)
    /\ UNCHANGED <<tree, config, disk, bundle, perf, reported, commands, faults>>

Make(p) ==
    /\ At(p, "make")
    /\ \/ Goto(p, "run") /\ PutSimulator(p)
       \/ Fail(p) /\ UNCHANGED built
    /\ UNCHANGED <<tree, config, disk, bundle, perf, reported, commands, faults>>

(* The simulator starts and opens the adapter of the reference.            *)
Run(p) ==
    /\ At(p, "run")
    /\ IF Simulator(p) # None /\ Loaded(p) # None
       THEN Become(p, [proc[p] EXCEPT !.pc = "init", !.opened = [simulator |-> Simulator(p), adapter |-> Loaded(p)]])
       ELSE Fail(p)
    /\ UNCHANGED <<tree, config, disk, built, bundle, perf, reported, commands, faults>>

(* Then the adapter, asked to initialize, looks for the raw library beside *)
(* it, in the directory as it is by now; one of another profile refuses.   *)
(* The image is read again.                                                *)
Starts(p) ==
    /\ Head(proc[p].todo) \in DOMAIN disk
    /\ proc[p].reference = "local" => Has(Profile(p), "raw") /\ proc[p].opened.adapter.profile = Profile(p)

Episode(p) ==
    [image |-> disk[Head(proc[p].todo)], simulator |-> proc[p].opened.simulator, adapter |-> proc[p].opened.adapter,
     raw |-> IF proc[p].reference = "local" THEN bundle[Profile(p)]["raw"] ELSE None]

Suffix(p) == IF proc[p].reference = None THEN "" ELSE "-difftest"

(* The program runs to its end.  Its exit status is the runner's, and a    *)
(* benchmark's summary is written whatever it was.                         *)
Initialize(p) ==
    /\ At(p, "init")
    /\ IF ~Starts(p) THEN Fail(p) /\ UNCHANGED perf
       ELSE \E status \in {0, 1} :
            LET after == [proc[p] EXCEPT !.ran = Append(@, Episode(p)), !.todo = Tail(@)]
            IN  /\ Become(p, IF status # 0 \/ after.todo = <<>> THEN Ended(after, status)
                             ELSE [after EXCEPT !.pc = "runner"])
                /\ perf' = IF Benchmark(p)
                           THEN [perf EXCEPT ![<<Profile(p), Suffix(p)>>] =
                                    [named |-> proc[p].named, ran |-> Episode(p),
                                     disturbed |-> proc[p].disturbed]]
                           ELSE perf
    /\ UNCHANGED <<tree, config, disk, built, bundle, reported, commands, faults>>

(*--------------------------- difftest-prepare ----------------------------*)

Disturb(doing, profile) ==
    IF "config" \in DOMAIN doing /\ doing.pc # "ended" /\ doing.config.profile_id = profile /\ doing.reference = "local"
    THEN [doing EXCEPT !.disturbed = TRUE] ELSE doing

(* A file of a bundle is written by p, under any run that uses it.         *)
PutFile(p, profile, file, content, doing) ==
    /\ bundle' = [bundle EXCEPT ![profile] = [f \in (IF @ = None THEN {} ELSE DOMAIN @) \cup {file} |->
                    IF f = file THEN content ELSE @[f]]]
    /\ proc' = [q \in Proc |-> IF q = p THEN doing ELSE Disturb(proc[q], profile)]

BundleOf(p) == Head(proc[p].todo)

Wanted(profile) == t.nemu.profiles[profile]

PrepareStart(p) ==
    /\ Ready(p)
    /\ Begin
    /\ \E args \in PrepareArgs :
        Become(p, [pc |-> "examine", cmd |-> "difftest-prepare", todo |-> args[1], force |-> args[2], status |-> None])
    /\ UNCHANGED <<tree, config, disk, built, bundle, perf, reported, faults>>

KeptByDigestBug(profile) == Candidate(profile) /\ Recorded(profile)

(* The bundle is what this checkout asks for, byte for byte.               *)
Kept(profile) ==
    /\ Has(profile, "manifest") /\ bundle[profile]["manifest"] # None
    /\ LET existing == bundle[profile]["manifest"]
       IN  /\ existing.profile = profile
           /\ existing.workbench_commit = Wanted(profile).commit
           /\ existing.nemu_tree = Wanted(profile).tree
           /\ existing.config_contract = t.nemu.build_contract
           /\ existing.adapter_source_sha256 = sha256(t.adapter_source)
    /\ Has(profile, "adapter") /\ Has(profile, "raw")
    /\ Recorded(profile)

NextProfile(doing) ==
    IF Len(doing.todo) = 1 THEN Ended(doing, 0) ELSE [doing EXCEPT !.pc = "examine", !.todo = Tail(@)]

Report(profile) == reported' = reported \cup {<<"adapter", profile>>}

(* An existing bundle is kept, refused or, with --force, removed.          *)
Examine(p) ==
    /\ At(p, "examine")
    /\ \/ /\ bundle[BundleOf(p)] = None
          /\ Goto(p, "extract") /\ UNCHANGED reported
       \/ /\ bundle[BundleOf(p)] # None /\ proc[p].force
          /\ Goto(p, "remove") /\ UNCHANGED reported
       \/ /\ bundle[BundleOf(p)] # None /\ ~proc[p].force
          /\ IF Kept(BundleOf(p)) THEN Become(p, NextProfile(proc[p])) /\ Report(BundleOf(p))
                                ELSE Fail(p) /\ UNCHANGED reported
    /\ UNCHANGED <<tree, config, disk, built, bundle, perf, commands, faults>>

(* rmtree removes the files in any order; it fails if another one was      *)
(* faster.                                                                 *)
RemoveTree(p) ==
    /\ At(p, "remove")
    /\ LET profile == BundleOf(p)
       IN  IF bundle[profile] = None THEN Fail(p) /\ UNCHANGED bundle
           ELSE \/ /\ DOMAIN bundle[profile] = {}
                   /\ bundle' = [bundle EXCEPT ![profile] = None]
                   /\ Goto(p, "extract")
                \/ \E file \in DOMAIN bundle[profile] :
                   /\ bundle' = [bundle EXCEPT ![profile] = [f \in DOMAIN @ \ {file} |-> @[f]]]
                   /\ proc' = [q \in Proc |-> Disturb(proc[q], profile)]
    /\ UNCHANGED <<tree, config, disk, built, perf, reported, commands, faults>>

(* The repository must have the commit, with the NEMU tree of the record.  *)
Extract(p) ==
    /\ At(p, "extract")
    /\ LET profile == BundleOf(p)
           commit == Wanted(profile).commit
       IN  IF commit \in DOMAIN Repository /\ Repository[commit] = Wanted(profile).tree
           THEN PutFile(p, profile, "source", commit, [proc[p] EXCEPT !.pc = "raw"])
           ELSE Fail(p) /\ UNCHANGED bundle
    /\ UNCHANGED <<tree, config, disk, built, perf, reported, commands, faults>>

build_raw_nemu(p) ==
    /\ At(p, "raw")
    /\ \/ /\ Has(BundleOf(p), "source")
          /\ PutFile(p, BundleOf(p), "raw", bundle[BundleOf(p)]["source"], [proc[p] EXCEPT !.pc = "adapter"])
       \/ Fail(p) /\ UNCHANGED bundle
    /\ UNCHANGED <<tree, config, disk, built, perf, reported, commands, faults>>

Adapter(profile) == [profile |-> profile, commit |-> Wanted(profile).commit, source |-> t.adapter_source]

compile_adapter(p) ==
    /\ At(p, "adapter")
    /\ \/ /\ bundle[BundleOf(p)] # None
          /\ PutFile(p, BundleOf(p), "adapter", Adapter(BundleOf(p)), [proc[p] EXCEPT !.pc = "manifest"])
       \/ Fail(p) /\ UNCHANGED bundle
    /\ UNCHANGED <<tree, config, disk, built, perf, reported, commands, faults>>

Manifest(profile, raw, adapter) ==
    [profile |-> profile, workbench_commit |-> Wanted(profile).commit, nemu_tree |-> Wanted(profile).tree,
     raw_sha256 |-> sha256(raw), adapter_sha256 |-> sha256(adapter),
     adapter_source_sha256 |-> sha256(t.adapter_source), config_contract |-> t.nemu.build_contract]

PrepareManifest(p) ==
    /\ At(p, "manifest")
    /\ IF Has(BundleOf(p), "raw") /\ Has(BundleOf(p), "adapter") /\ Has(BundleOf(p), "source")
       THEN PutFile(p, BundleOf(p), "manifest",
                    Manifest(BundleOf(p), bundle[BundleOf(p)]["raw"], bundle[BundleOf(p)]["adapter"]),
                    [proc[p] EXCEPT !.pc = "sums"])
       ELSE Fail(p) /\ UNCHANGED bundle
    /\ UNCHANGED <<tree, config, disk, built, perf, reported, commands, faults>>

(* The list of digests is written last, from the manifest in memory; then  *)
(* the bundle is reported ready.                                           *)
PrepareSums(p) ==
    /\ At(p, "sums")
    /\ IF bundle[BundleOf(p)] # None
       THEN Become(p, NextProfile(proc[p])) /\ Report(BundleOf(p))
       ELSE Fail(p) /\ UNCHANGED reported
    /\ UNCHANGED <<tree, config, disk, built, bundle, perf, commands, faults>>

(*-------------------------------- faults ---------------------------------*)

Fault == faults > 0 /\ faults' = faults - 1

(* The user edits or switches the checkout while no command runs.          *)
Checkout ==
    /\ commands > 0 /\ \A p \in Proc : Ready(p)
    /\ \E s \in Switches : s[1] = tree /\ tree' = s[2]
    /\ reported' = {}
    /\ proc' = [p \in Proc |-> Idle]
    /\ UNCHANGED <<config, disk, built, bundle, perf, commands, faults>>

(* A program image that a command may still read is replaced at any time.  *)
AlterImage ==
    /\ Fault
    /\ \E image \in Alterable :
        /\ commands > 0 \/ \E q \in Proc : "config" \in DOMAIN proc[q] /\ image \in ToSet(proc[q].todo)
        /\ disk[image].bytes # "altered"
        /\ disk' = [disk EXCEPT ![image].bytes = "altered"]
    /\ proc' = [q \in Proc |-> IF "config" \in DOMAIN proc[q] /\ ~At(q, "ended")
                              THEN [proc[q] EXCEPT !.disturbed = TRUE] ELSE proc[q]]
    /\ UNCHANGED <<tree, config, built, bundle, perf, reported, commands>>

(* A library of a bundle that is not being prepared is replaced at any     *)
(* time by one built elsewhere.                                            *)
AlterBundle ==
    /\ Fault
    /\ \E profile \in Profiles :
        /\ ~\E q \in Proc : "force" \in DOMAIN proc[q] /\ profile \in ToSet(proc[q].todo)
        /\ \/ Has(profile, "raw") /\ bundle' = [bundle EXCEPT ![profile]["raw"] = "elsewhere"]
           \/ Has(profile, "adapter") /\ bundle' = [bundle EXCEPT ![profile]["adapter"].commit = "elsewhere"]
        /\ proc' = [q \in Proc |-> Disturb(proc[q], profile)]
    /\ UNCHANGED <<tree, config, disk, built, perf, reported, commands>>

(* A process is killed; a manifest it was writing may be cut short.        *)
Crash(p) ==
    /\ Fault /\ ~Ready(p)
    /\ Become(p, Idle)
    /\ bundle' \in {bundle} \cup (IF At(p, "manifest") /\ bundle[BundleOf(p)] # None
         THEN {[bundle EXCEPT ![BundleOf(p)] = [f \in DOMAIN @ \cup {"manifest"} |-> IF f = "manifest" THEN None ELSE @[f]]]}
         ELSE {})
    /\ UNCHANGED <<tree, config, disk, built, perf, reported, commands>>

(*--------------------------- the specification ---------------------------*)

(* The bundle that an earlier preparation of this checkout has reported.   *)
Prepared(profile) ==
    LET commit == Wanted(profile).commit
    IN  [source |-> commit, raw |-> commit, adapter |-> Adapter(profile),
         manifest |-> Manifest(profile, commit, Adapter(profile))]

Init ==
    /\ tree = 1
    /\ config \in Configs
    /\ disk = StartDisk
    /\ built = [profile \in Profiles |-> <<>>]
    /\ \E profiles \in StartBundles :
        /\ bundle = [profile \in Profiles |-> IF profile \in profiles THEN Prepared(profile) ELSE None]
        /\ reported = {"adapter"} \X (profiles \cap Profiles)
    /\ perf = [file \in Profiles \X {"", "-difftest"} |-> None]
    /\ proc = [p \in Proc |-> Idle]
    /\ commands = MaxCommands /\ faults = MaxFaults

dispatch(p) ==
    \/ Defconfig(p) \/ SourceCheck(p)
    \/ Sim(p) \/ SmokeRun(p) \/ Regression(p) \/ Difftest(p) \/ CoreMark(p) \/ OpenSbi(p)

runner(p) == Hash(p) \/ Build(p) \/ Make(p) \/ Run(p) \/ Initialize(p)

build_profile(p) ==
    \/ PrepareStart(p) \/ Examine(p) \/ RemoveTree(p) \/ Extract(p)
    \/ build_raw_nemu(p) \/ compile_adapter(p) \/ PrepareManifest(p) \/ PrepareSums(p)

Next ==
    \/ \E p \in Proc : dispatch(p) \/ runner(p) \/ build_profile(p) \/ Crash(p)
    \/ Checkout \/ AlterImage \/ AlterBundle

Spec == Init /\ [][Next]_vars

(*------------------------------ properties -------------------------------*)

Commands == {"run_sim", "regression", "run_coremark"}

(* Each process is in a step of the command it runs; flowctl ends with     *)
(* status 0 or 2; files are where the code puts them.                      *)
TypeOK ==
    /\ tree \in DOMAIN Trees /\ config \in Configs /\ commands \in 0..MaxCommands /\ faults \in 0..MaxFaults
    /\ DOMAIN disk = DOMAIN StartDisk
    /\ \A profile \in Profiles :
        /\ \A s \in DOMAIN built[profile] : s.profile = profile
        /\ bundle[profile] # None => DOMAIN bundle[profile] \subseteq {"source", "raw", "adapter", "manifest"}
        /\ \A suffix \in {"", "-difftest"} : perf[<<profile, suffix>>] # None =>
            (suffix = "" <=> perf[<<profile, suffix>>].named.adapter = External("no-difftest"))
    /\ reported \subseteq {"sources", "adapter"} \X Profiles
    /\ \A p \in Proc : ~At(p, "idle") =>
        /\ proc[p].cmd \in Commands =>
            /\ proc[p].pc \in {"runner", "build", "make", "run", "init", "ended"}
            /\ proc[p].pc # "ended" => Len(proc[p].todo) > 0
        /\ proc[p].cmd \notin Commands =>
            proc[p].pc \in {"examine", "remove", "extract", "raw", "adapter", "manifest", "sums", "ended"}
        /\ proc[p].status \in (IF At(p, "ended") THEN {0, 2} ELSE {None})

(* What an audit tells of a simulator: it holds every locked source, with  *)
(* its digest if it has one, and what it holds besides is the wrapper or   *)
(* was on the filelist where the audit does not look.                      *)
Audited(profile, sources) ==
    LET locked == declared_allowlist(t, profile)
        path(i) == sources[i][1]
    IN  /\ DOMAIN locked \subseteq {path(i) : i \in DOMAIN sources}
        /\ \A i \in DOMAIN sources :
            IF path(i) \in DOMAIN locked THEN locked[path(i)] \in {None, sources[i][2]}
            ELSE path(i) \in {PROFILE_WRAPPERS(profile)} \cup SkippedSources(t, profile)

(* Every simulator that a command ran is the one of its checkout, headers  *)
(* included, and traces as its own .config asked, whatever other commands  *)
(* built or configured meanwhile.  If source-check has passed it holds     *)
(* every locked source with its digest, though the runner reads filelists  *)
(* by rules of its own and never asks for that check; but not only those,  *)
(* as the runner compiles also what stands on a line of options that the   *)
(* audit passes over.  A regression that passed ran every case with its    *)
(* locked image, and CoreMark ran the locked program, unless an image was  *)
(* replaced while it ran.  A summary on disk names, by its signature and   *)
(* digests, what really ran.                                               *)
RunSound ==
    /\ \A p \in Proc : At(p, "ended") /\ proc[p].cmd \in Commands =>
        /\ \A i \in DOMAIN proc[p].ran :
            LET sim == proc[p].ran[i].simulator
            IN  /\ sim = Built(p)
                /\ <<"sources", Profile(p)>> \in reported => Audited(Profile(p), sim.sources)
        /\ proc[p].cmd = "regression" /\ proc[p].status = 0 =>
            LET cases == t.regression[Profile(p)]
            IN  /\ Len(proc[p].ran) = Len(cases)
                /\ ~proc[p].disturbed => \A i \in DOMAIN cases :
                        cases[i].locked => sha256(proc[p].ran[i].image) = cases[i].sha256
        /\ Benchmark(p) /\ ~proc[p].disturbed => \A i \in DOMAIN proc[p].ran :
            \E v \in variants(t.coremark, Profile(p)) :
                sha256(proc[p].ran[i].image) = t.coremark.variants[v].binary_sha256
    /\ \A file \in DOMAIN perf : perf[file] # None =>
        LET named == perf[file].named
            ran == perf[file].ran
        IN  /\ \A field \in {"trace", "options", "sources", "harness"} : ran.simulator[field] = named.signature[field]
            /\ ~perf[file].disturbed => named.image = sha256(ran.image) /\ named.adapter = sha256(ran.adapter)

Pair(adapter, raw, commit) == adapter.commit = commit /\ raw = commit

(* The local adapter that difftest accepts is a pair of libraries that one *)
(* commit gave for this profile, the commit its manifest names, after any  *)
(* crash, refusal or overlap of preparations.  If a preparation has        *)
(* reported success on this checkout, kept or built, it is the commit the  *)
(* metadata asks for and the present adapter source.  The adapter and its  *)
(* raw library are loaded one after the other.  A command that started     *)
(* once a preparation had reported gets the two that this checkout asks    *)
(* for, even when the bundle is rebuilt between the two loads; one that    *)
(* started on a bundle of another checkout gets a pair from one commit     *)
(* only if nobody touched the bundle meanwhile.  Neither is said of a      *)
(* library that was put there from elsewhere.                              *)
ReferenceSound ==
    /\ \A profile \in Profiles : default_reference_adapter(profile) =>
        LET b == bundle[profile]
        IN  /\ b["adapter"].profile = profile
            /\ Pair(b["adapter"], b["raw"], b["manifest"].workbench_commit)
            /\ <<"adapter", profile>> \in reported =>
                /\ b["manifest"].workbench_commit = Wanted(profile).commit
                /\ b["adapter"].source = t.adapter_source
    /\ \A p \in Proc : At(p, "ended") /\ proc[p].cmd \in Commands /\ proc[p].reference = "local" =>
        \A i \in DOMAIN proc[p].ran :
            LET ran == proc[p].ran[i]
            IN  "elsewhere" \notin {ran.raw, ran.adapter.commit} =>
                    /\ ~proc[p].disturbed => Pair(ran.adapter, ran.raw, ran.raw)
                    /\ proc[p].ready =>
                        /\ Pair(ran.adapter, ran.raw, Wanted(Profile(p)).commit)
                        /\ ran.adapter.source = t.adapter_source
=============================================================================
