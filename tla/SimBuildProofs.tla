--------------------------- MODULE SimBuildProofs ---------------------------
(***************************************************************************)
(* What SimBuild keeps to, for any checkouts, profiles, contents of        *)
(* .config, images and number of processes, commands and faults: TypeOK,   *)
(* RunSound and ReferenceSound, from one inductive invariant, IInv.        *)
(*                                                                         *)
(* A process is idle, a runner or a preparation, and each knows something  *)
(* of the files.  A runner knows that what it hashed is what it will load, *)
(* until it is disturbed, and when it is about to run, that its simulator  *)
(* directory holds the product of its signature or nothing.  Once started, *)
(* it knows which adapter it has open; the raw library beside it may go on *)
(* changing, but to others of the same commit only, if a preparation had   *)
(* reported the bundle before the runner started.  A preparation           *)
(* that is filling a bundle knows that every file that is there was made   *)
(* for this checkout, by itself or by another preparation.  And a manifest *)
(* is honest about one commit whoever wrote it, for whichever checkout.    *)
(*                                                                         *)
(* Directories are shared, so each step of one process is also a step for  *)
(* all the others: WhileBuilt, WhileWritten and Unseen say what they keep. *)
(***************************************************************************)
EXTENDS SimBuild, FiniteSetTheorems, SequenceTheorems, TLAPS

-----------------------------------------------------------------------------
(***************************************************************************)
(* The inductive invariant.  The checkout i, the images, the simulators    *)
(* and the bundles are arguments: tree or tree', disk or disk', ...        *)
(***************************************************************************)

Sequence(s) == s \in Seq({s[k] : k \in DOMAIN s})

HasIn(b, file) == b # None /\ file \in DOMAIN b

SimulatorOf(d, i, sims) ==
  LET mine == sims[d.config.profile_id]
      name == Signatures[i][d.config]
  IN  IF name \in DOMAIN mine THEN mine[name] ELSE None

LoadedOf(d, refs) ==
  LET b == refs[d.config.profile_id]
  IN  CASE d.reference = None    -> External("no-difftest")
        [] d.reference = "local" -> IF HasIn(b, "adapter") THEN b["adapter"] ELSE None
        [] OTHER                 -> External(d.reference)

Cases(d, i) == Trees[i].regression[d.config.profile_id]

LockedProgram(d, i, image) ==
  \E v \in variants(Trees[i].coremark, d.config.profile_id) :
     sha256(image) = Trees[i].coremark.variants[v].binary_sha256

Runner(pc, cmd, c, todo, reference, named, opened, ran, disturbed, ready, status) ==
  [pc |-> pc, cmd |-> cmd, config |-> c, todo |-> todo, reference |-> reference,
   named |-> named, opened |-> opened, ran |-> ran, disturbed |-> disturbed, ready |-> ready, status |-> status]

RunnerRecord(d) ==
  /\ "config" \in DOMAIN d
  /\ d = Runner(d.pc, d.cmd, d.config, d.todo, d.reference, d.named, d.opened, d.ran, d.disturbed, d.ready, d.status)

RunnerOk(d) ==
  /\ RunnerRecord(d)
  /\ d.cmd \in Commands
  /\ d.pc \in {"runner", "build", "make", "run", "init", "ended"}
  /\ d.status \in (IF d.pc = "ended" THEN {0, 2} ELSE {None})
  /\ d.disturbed \in BOOLEAN
  /\ Sequence(d.todo) /\ Sequence(d.ran)
  /\ d.pc # "ended" => d.todo # <<>>
  /\ d.reference # "no-difftest"

(* The adapter that checkout i asks for.                                   *)
AdapterOf(i, profile) ==
  [profile |-> profile, commit |-> Trees[i].nemu.profiles[profile].commit, source |-> Trees[i].adapter_source]

(* What has run.                                                           *)
EpisodeSound(d, i, episode) ==
  /\ episode.simulator = Products[i][d.config]
  /\ d.reference = "local" /\ "elsewhere" \notin {episode.raw, episode.adapter.commit} =>
        /\ ~d.disturbed => episode.adapter.commit = episode.raw
        /\ d.ready => /\ episode.raw = Trees[i].nemu.profiles[d.config.profile_id].commit
                      /\ episode.adapter = AdapterOf(i, d.config.profile_id)
  /\ d.cmd = "run_coremark" /\ ~d.disturbed => LockedProgram(d, i, episode.image)

RanSound(d, i) == \A k \in DOMAIN d.ran : EpisodeSound(d, i, d.ran[k])

(* A regression has run its first cases, with their images, and the others *)
(* are still to do, with theirs.                                           *)
Stored(case, images) ==
  case.locked /\ case.image \in DOMAIN images => sha256(images[case.image]) = case.sha256

Matches(case, image) == case.locked => sha256(image) = case.sha256

RegressionSound(d, i, images) ==
  LET cases == Cases(d, i)
      next(k) == cases[Len(d.ran) + k]
  IN  d.cmd = "regression" =>
        /\ d.pc # "ended" =>
              /\ Len(d.ran) + Len(d.todo) = Len(cases)
              /\ \A k \in 1 .. Len(d.todo) :
                    d.todo[k] = next(k).image /\ (~d.disturbed => Stored(next(k), images))
        /\ d.pc = "ended" /\ d.status = 0 => Len(d.ran) = Len(cases)
        /\ Len(d.ran) <= Len(cases)
        /\ ~d.disturbed => \A k \in DOMAIN d.ran : Matches(cases[k], d.ran[k].image)

(* What the runner has hashed is what it will run, if nothing disturbs it. *)
NamedSound(d, i, images, refs) ==
  d.pc \in {"build", "make", "run", "init"} =>
    /\ d.named.signature = Signatures[i][d.config]
    /\ d.reference = None <=> d.named.adapter = External("no-difftest")
    /\ ~d.disturbed =>
        /\ d.named.adapter = sha256(LoadedOf(d, refs))
        /\ d.cmd = "run_coremark" => /\ d.named.image = sha256(images[Head(d.todo)])
                                     /\ LockedProgram(d, i, images[Head(d.todo)])

(* The simulator that is there is the runner's, or none is.                *)
BuiltSound(d, i, sims) ==
  d.pc = "run" => SimulatorOf(d, i, sims) \in {None, Products[i][d.config]}

(* What a simulator that has started has open.                             *)
OpenedSound(d, i, refs) ==
  d.pc = "init" =>
    /\ d.opened.simulator = Products[i][d.config]
    /\ d.opened.adapter # None
    /\ ~d.disturbed => d.opened.adapter = LoadedOf(d, refs)
    /\ d.reference = "local" /\ d.ready /\ d.opened.adapter.commit # "elsewhere" =>
          d.opened.adapter = AdapterOf(i, d.config.profile_id)

(* A bundle made for checkout i, as far as it goes.                        *)
Made(i, profile, b) ==
  LET commit == Trees[i].nemu.profiles[profile].commit
  IN  b # None =>
        /\ "source" \in DOMAIN b => b["source"] = commit
        /\ "raw" \in DOMAIN b => b["raw"] = commit
        /\ "adapter" \in DOMAIN b => b["adapter"] = AdapterOf(i, profile)
        /\ "manifest" \in DOMAIN b /\ b["manifest"] # None =>
              /\ b["manifest"].workbench_commit = commit
              /\ b["manifest"].adapter_source_sha256 = sha256(Trees[i].adapter_source)

(* The same, but for a library that was put there from elsewhere.          *)
Fresh(i, profile, b) ==
  LET commit == Trees[i].nemu.profiles[profile].commit
  IN  b # None =>
        /\ "raw" \in DOMAIN b => b["raw"] \in {commit, "elsewhere"}
        /\ "adapter" \in DOMAIN b /\ b["adapter"].commit # "elsewhere" => b["adapter"] = AdapterOf(i, profile)
        /\ "manifest" \in DOMAIN b /\ b["manifest"] # None =>
              /\ b["manifest"].workbench_commit = commit
              /\ b["manifest"].adapter_source_sha256 = sha256(Trees[i].adapter_source)

(* A command that started once a preparation had reported may count on it. *)
ReadySound(d, i, refs) == d.ready => Fresh(i, d.config.profile_id, refs[d.config.profile_id])

Running(d, i, images, sims, refs) ==
  /\ RunnerOk(d) /\ d.config \in Accepted[i]
  /\ RanSound(d, i) /\ RegressionSound(d, i, images)
  /\ NamedSound(d, i, images, refs) /\ BuiltSound(d, i, sims)
  /\ OpenedSound(d, i, refs) /\ ReadySound(d, i, refs)

Filling == {"extract", "raw", "adapter", "manifest", "sums"}

Preparer(pc, todo, force, status) ==
  [pc |-> pc, cmd |-> "difftest-prepare", todo |-> todo, force |-> force, status |-> status]

PreparerRecord(d) == "force" \in DOMAIN d /\ d = Preparer(d.pc, d.todo, d.force, d.status)

Preparing(d, i, refs) ==
  /\ PreparerRecord(d)
  /\ d.pc \in {"examine", "remove", "ended"} \cup Filling
  /\ d.status \in (IF d.pc = "ended" THEN {0, 2} ELSE {None})
  /\ d.todo \in Seq(Profiles) /\ d.todo # <<>>
  /\ d.pc \in Filling => Made(i, Head(d.todo), refs[Head(d.todo)])

Doing(d, i, images, sims, refs) ==
  d = Idle \/ Running(d, i, images, sims, refs) \/ Preparing(d, i, refs)

(* A bundle, whatever checkout it was made for and however far it came.    *)
BundleSound(i, profile, b, reports) ==
  b # None =>
    /\ DOMAIN b \subseteq {"source", "raw", "adapter", "manifest"}
    /\ "adapter" \in DOMAIN b =>
          b["adapter"] = [profile |-> profile, commit |-> b["adapter"].commit, source |-> b["adapter"].source]
    /\ {"raw", "adapter"} \subseteq DOMAIN b /\ "elsewhere" \notin {b["raw"], b["adapter"].commit} =>
          b["adapter"].commit = b["raw"]
    /\ "manifest" \in DOMAIN b /\ b["manifest"] # None =>
          LET m == b["manifest"]
          IN  /\ m.raw_sha256 = m.workbench_commit
              /\ m.adapter_sha256 = [profile |-> profile, commit |-> m.workbench_commit, source |-> m.adapter_source_sha256]
    /\ <<"adapter", profile>> \in reports => Fresh(i, profile, b)

(* A summary names what ran.                                               *)
SummarySound(suffix, e) ==
  e # None =>
    /\ \A field \in {"trace", "options", "sources", "harness"} : e.ran.simulator[field] = e.named.signature[field]
    /\ ~e.disturbed => e.named.image = sha256(e.ran.image) /\ e.named.adapter = sha256(e.ran.adapter)
    /\ suffix = "" <=> e.named.adapter = External("no-difftest")

Tables ==
  /\ tree \in DOMAIN Trees /\ config \in Configs /\ commands \in 0 .. MaxCommands /\ faults \in 0 .. MaxFaults
  /\ DOMAIN disk = DOMAIN StartDisk /\ DOMAIN built = Profiles /\ DOMAIN bundle = Profiles
  /\ DOMAIN perf = Profiles \X {"", "-difftest"} /\ DOMAIN proc = Proc
  /\ \A profile \in Profiles : \A s \in DOMAIN built[profile] : s.profile = profile
  /\ reported \subseteq {"sources", "adapter"} \X Profiles
  /\ \A profile \in Profiles : <<"sources", profile>> \in reported => check_source_closure(t, profile)

Bundles == \A profile \in Profiles : BundleSound(tree, profile, bundle[profile], reported)

Summaries ==
  \A profile \in Profiles, suffix \in {"", "-difftest"} : SummarySound(suffix, perf[<<profile, suffix>>])

Processes == \A p \in Proc : Doing(proc[p], tree, disk, built, bundle)

IInv == Tables /\ Bundles /\ Summaries /\ Processes

(* A hypothesis of the theorems: None is no record, so a bundle whose       *)
(* manifest was cut short is still a bundle.                               *)
NoneIsNoRecord == \A S, T : None \notin [S -> T]

-----------------------------------------------------------------------------
(***************************************************************************)
(* Checkouts, sequences and records.                                       *)
(***************************************************************************)

(* One directory, one simulator.                                           *)
LEMMA SameSignature ==
  ASSUME NEW i \in DOMAIN Trees, NEW c \in Accepted[i], NEW o \in Accepted[i], Signatures[i][c] = Signatures[i][o]
  PROVE  Products[i][c] = Products[i][o]
<1>1. /\ c \in Configs /\ o \in Configs
      /\ c.vcd \in BOOLEAN /\ o.vcd \in BOOLEAN
  BY SimConstants DEF Accepted
<1>2. /\ Signatures[i][c] = signature(Trees[i], c.profile_id, runner_command(c))
      /\ Signatures[i][o] = signature(Trees[i], o.profile_id, runner_command(o))
      /\ Products[i][c] = Product(Trees[i], c.profile_id, runner_command(c))
      /\ Products[i][o] = Product(Trees[i], o.profile_id, runner_command(o))
  BY DEF Signatures, Products
<1>3. \A T, p, a : /\ signature(T, p, a).profile = p
                   /\ signature(T, p, a).trace = a.trace
  BY DEF signature
<1>4. /\ runner_command(c).trace = c.vcd /\ runner_command(c).vcd = c.vcd
      /\ runner_command(o).trace = o.vcd /\ runner_command(o).vcd = o.vcd
  BY DEF runner_command
<1>5. c.profile_id = o.profile_id /\ c.vcd = o.vcd
  <2>1. signature(Trees[i], c.profile_id, runner_command(c)) = signature(Trees[i], o.profile_id, runner_command(o))
    BY <1>2
  <2>2. c.profile_id = o.profile_id /\ runner_command(c).trace = runner_command(o).trace
    <3>1. /\ signature(Trees[i], c.profile_id, runner_command(c)).profile = c.profile_id
          /\ signature(Trees[i], c.profile_id, runner_command(c)).trace = runner_command(c).trace
          /\ signature(Trees[i], o.profile_id, runner_command(o)).profile = o.profile_id
          /\ signature(Trees[i], o.profile_id, runner_command(o)).trace = runner_command(o).trace
      BY <1>3
    <3> QED BY <3>1, <2>1
  <2> QED BY <2>2, <1>4
<1>6. \A T, p, a, b : (a.trace \/ a.vcd) = (b.trace \/ b.vcd) => Product(T, p, a) = Product(T, p, b)
  BY Zenon DEF Product
<1>7. (runner_command(c).trace \/ runner_command(c).vcd) = (runner_command(o).trace \/ runner_command(o).vcd)
  BY Zenon, <1>4, <1>5
<1> QED BY <1>2, <1>5, <1>6, <1>7

LEMMA AcceptedConfig ==
  ASSUME NEW i \in DOMAIN Trees, NEW c \in Accepted[i]
  PROVE  /\ c \in Configs /\ validate_config(Trees[i], c)
         /\ c.profile_id \in Profiles
         /\ Sequence(Trees[i].regression[c.profile_id])
         /\ Trees[i].profiles[c.profile_id].wrapper_file = PROFILE_WRAPPERS(c.profile_id)
<1>1. c \in Configs /\ validate_config(Trees[i], c)
  BY DEF Accepted
<1>2. c.profile_id \in Trees[i].project.profile_ids /\ profile_info(Trees[i], c.profile_id)
  BY <1>1 DEF validate_config
<1>3. Trees[i].profiles[c.profile_id].wrapper_file = PROFILE_WRAPPERS(c.profile_id)
  BY <1>2 DEF profile_info
<1>4. /\ Trees[i].project.profile_ids \subseteq Profiles
      /\ Trees[i].regression[c.profile_id] \in Seq(ToSet(Trees[i].regression[c.profile_id]))
  BY <1>2, SimConstants DEF Trees
<1>5. Sequence(Trees[i].regression[c.profile_id])
  BY <1>4 DEF Sequence, ToSet
<1> QED BY <1>1, <1>2, <1>3, <1>4, <1>5

LEMMA OfItself ==
  ASSUME NEW S, NEW s \in Seq(S)
  PROVE  Sequence(s)
<1>1. Len(s) \in Nat /\ DOMAIN s = 1 .. Len(s) /\ s = [k \in 1 .. Len(s) |-> s[k]]
  BY DEF Sequence
<1>2. \A k \in 1 .. Len(s) : s[k] \in {s[j] : j \in DOMAIN s}
  BY <1>1
<1> QED BY <1>1, <1>2 DEF Sequence

LEMMA Sequences ==
  ASSUME NEW s, Sequence(s)
  PROVE  /\ Len(s) \in Nat /\ DOMAIN s = 1 .. Len(s)
         /\ \A x : /\ Sequence(Append(s, x)) /\ Len(Append(s, x)) = Len(s) + 1
                   /\ \A k \in 1 .. Len(s) : Append(s, x)[k] = s[k]
                   /\ Append(s, x)[Len(s) + 1] = x
         /\ s # <<>> => /\ Len(s) > 0 /\ Head(s) = s[1] /\ Sequence(Tail(s)) /\ Len(Tail(s)) = Len(s) - 1
                        /\ \A k \in 1 .. Len(s) - 1 : Tail(s)[k] = s[k + 1]
                        /\ Tail(s) = <<>> <=> Len(s) = 1
<1> PICK S : s \in Seq(S)
  BY DEF Sequence
<1>1. Len(s) \in Nat /\ DOMAIN s = 1 .. Len(s)
  OBVIOUS
<1>2. ASSUME NEW x
      PROVE  /\ Sequence(Append(s, x)) /\ Len(Append(s, x)) = Len(s) + 1
             /\ \A k \in 1 .. Len(s) : Append(s, x)[k] = s[k]
             /\ Append(s, x)[Len(s) + 1] = x
  <2>1. s \in Seq(S \cup {x}) /\ x \in S \cup {x}
    OBVIOUS
  <2> DEFINE T == S \cup {x}
  <2> HIDE DEF T
  <2>2. /\ Append(s, x) \in Seq(T) /\ Len(Append(s, x)) = Len(s) + 1
        /\ \A k \in 1 .. Len(s) : Append(s, x)[k] = s[k]
        /\ Append(s, x)[Len(s) + 1] = x
    BY <2>1, AppendProperties DEF T
  <2>3. Sequence(Append(s, x))
    BY <2>2, OfItself
  <2> QED BY <2>2, <2>3
<1>3. ASSUME s # <<>>
      PROVE  /\ Len(s) > 0 /\ Head(s) = s[1] /\ Sequence(Tail(s)) /\ Len(Tail(s)) = Len(s) - 1
             /\ \A k \in 1 .. Len(s) - 1 : Tail(s)[k] = s[k + 1]
             /\ Tail(s) = <<>> <=> Len(s) = 1
  <2>0. Len(s) > 0 /\ Head(s) = s[1]
    BY <1>1, <1>3
  <2>9. /\ Tail(s) \in Seq(S) /\ Len(Tail(s)) = Len(s) - 1
        /\ \A k \in 1 .. Len(Tail(s)) : Tail(s)[k] = s[k + 1]
    BY <1>3, HeadTailProperties
  <2>1. /\ Tail(s) \in Seq(S) /\ Len(Tail(s)) = Len(s) - 1
        /\ \A k \in 1 .. Len(s) - 1 : Tail(s)[k] = s[k + 1]
    BY <2>9
  <2>2. Tail(s) = <<>> <=> Len(s) = 1
    <3> DEFINE r == Tail(s)
    <3>1. r \in Seq(S) /\ Len(r) = Len(s) - 1
      BY <2>1
    <3> HIDE DEF r
    <3>2. Len(<<>>) = 0 /\ (r # <<>> => Len(r) \in Nat \ {0})
      BY <3>1, EmptySeq
    <3>3. r = <<>> <=> Len(s) = 1
      BY <3>1, <3>2, <1>1
    <3> QED BY <3>3 DEF r
  <2> QED BY <2>0, <2>1, <2>2, OfItself
<1> QED BY <1>1, <1>2, <1>3

LEMMA IdleFacts == /\ "config" \notin DOMAIN Idle /\ "force" \notin DOMAIN Idle /\ Idle.pc = "idle"
BY DEF Idle

LEMMA RunnerFields ==
  ASSUME NEW pc, NEW cmd, NEW c, NEW todo, NEW reference, NEW named, NEW opened, NEW ran, NEW disturbed,
         NEW ready, NEW status
  PROVE  LET d == Runner(pc, cmd, c, todo, reference, named, opened, ran, disturbed, ready, status)
         IN  /\ d.pc = pc /\ d.cmd = cmd /\ d.config = c /\ d.todo = todo /\ d.reference = reference
             /\ d.named = named /\ d.opened = opened /\ d.ran = ran
             /\ d.disturbed = disturbed /\ d.ready = ready /\ d.status = status
             /\ "config" \in DOMAIN d /\ "force" \notin DOMAIN d
             /\ RunnerRecord(d)
             /\ \A x : [d EXCEPT !.pc = x] = Runner(x, cmd, c, todo, reference, named, opened, ran, disturbed, ready, status)
             /\ \A x : [d EXCEPT !.status = x] = Runner(pc, cmd, c, todo, reference, named, opened, ran, disturbed, ready, x)
             /\ \A x : [d EXCEPT !.named = x] = Runner(pc, cmd, c, todo, reference, x, opened, ran, disturbed, ready, status)
             /\ \A x : [d EXCEPT !.opened = x] = Runner(pc, cmd, c, todo, reference, named, x, ran, disturbed, ready, status)
             /\ \A x : [d EXCEPT !.ran = x] = Runner(pc, cmd, c, todo, reference, named, opened, x, disturbed, ready, status)
             /\ \A x : [d EXCEPT !.todo = x] = Runner(pc, cmd, c, x, reference, named, opened, ran, disturbed, ready, status)
             /\ \A x : [d EXCEPT !.disturbed = x] = Runner(pc, cmd, c, todo, reference, named, opened, ran, x, ready, status)
<1> DEFINE d == Runner(pc, cmd, c, todo, reference, named, opened, ran, disturbed, ready, status)
<1>1. /\ d.pc = pc /\ d.cmd = cmd /\ d.config = c /\ d.todo = todo /\ d.reference = reference
      /\ d.named = named /\ d.opened = opened /\ d.ran = ran
      /\ d.disturbed = disturbed /\ d.ready = ready /\ d.status = status
      /\ "config" \in DOMAIN d /\ "force" \notin DOMAIN d
  BY DEF Runner
<1>2. RunnerRecord(d)
  BY <1>1 DEF RunnerRecord
<1>3. \A x : [d EXCEPT !.pc = x] = Runner(x, cmd, c, todo, reference, named, opened, ran, disturbed, ready, status)
  BY DEF Runner
<1>4. \A x : [d EXCEPT !.status = x] = Runner(pc, cmd, c, todo, reference, named, opened, ran, disturbed, ready, x)
  BY DEF Runner
<1>5. \A x : [d EXCEPT !.named = x] = Runner(pc, cmd, c, todo, reference, x, opened, ran, disturbed, ready, status)
  BY DEF Runner
<1>6. \A x : [d EXCEPT !.opened = x] = Runner(pc, cmd, c, todo, reference, named, x, ran, disturbed, ready, status)
  BY DEF Runner
<1>7. \A x : [d EXCEPT !.ran = x] = Runner(pc, cmd, c, todo, reference, named, opened, x, disturbed, ready, status)
  BY DEF Runner
<1>8. \A x : [d EXCEPT !.todo = x] = Runner(pc, cmd, c, x, reference, named, opened, ran, disturbed, ready, status)
  BY DEF Runner
<1>9. \A x : [d EXCEPT !.disturbed = x] = Runner(pc, cmd, c, todo, reference, named, opened, ran, x, ready, status)
  BY DEF Runner
<1> QED BY <1>1, <1>2, <1>3, <1>4, <1>5, <1>6, <1>7, <1>8, <1>9

(* What is left alone when one field of a runner is given a value.         *)
LEMMA SetPc ==
  ASSUME NEW d, RunnerRecord(d), NEW x
  PROVE  LET e == [d EXCEPT !.pc = x]
         IN  /\ RunnerRecord(e)
             /\ e.pc = x /\ e.cmd = d.cmd /\ e.config = d.config /\ e.todo = d.todo /\ e.reference = d.reference
             /\ e.named = d.named /\ e.opened = d.opened /\ e.ran = d.ran
             /\ e.disturbed = d.disturbed /\ e.ready = d.ready /\ e.status = d.status
<1>1. d = Runner(d.pc, d.cmd, d.config, d.todo, d.reference, d.named, d.opened, d.ran, d.disturbed, d.ready, d.status)
  BY DEF RunnerRecord
<1>2. [d EXCEPT !.pc = x]
        = Runner(x, d.cmd, d.config, d.todo, d.reference, d.named, d.opened, d.ran, d.disturbed, d.ready, d.status)
  BY <1>1, RunnerFields
<1> QED BY <1>2, RunnerFields

LEMMA SetStatus ==
  ASSUME NEW d, RunnerRecord(d), NEW x
  PROVE  LET e == [d EXCEPT !.status = x]
         IN  /\ RunnerRecord(e)
             /\ e.pc = d.pc /\ e.cmd = d.cmd /\ e.config = d.config /\ e.todo = d.todo /\ e.reference = d.reference
             /\ e.named = d.named /\ e.opened = d.opened /\ e.ran = d.ran
             /\ e.disturbed = d.disturbed /\ e.ready = d.ready /\ e.status = x
<1>1. d = Runner(d.pc, d.cmd, d.config, d.todo, d.reference, d.named, d.opened, d.ran, d.disturbed, d.ready, d.status)
  BY DEF RunnerRecord
<1>2. [d EXCEPT !.status = x]
        = Runner(d.pc, d.cmd, d.config, d.todo, d.reference, d.named, d.opened, d.ran, d.disturbed, d.ready, x)
  BY <1>1, RunnerFields
<1> QED BY <1>2, RunnerFields

LEMMA SetNamed ==
  ASSUME NEW d, RunnerRecord(d), NEW x
  PROVE  LET e == [d EXCEPT !.named = x]
         IN  /\ RunnerRecord(e)
             /\ e.pc = d.pc /\ e.cmd = d.cmd /\ e.config = d.config /\ e.todo = d.todo /\ e.reference = d.reference
             /\ e.named = x /\ e.opened = d.opened /\ e.ran = d.ran
             /\ e.disturbed = d.disturbed /\ e.ready = d.ready /\ e.status = d.status
<1>1. d = Runner(d.pc, d.cmd, d.config, d.todo, d.reference, d.named, d.opened, d.ran, d.disturbed, d.ready, d.status)
  BY DEF RunnerRecord
<1>2. [d EXCEPT !.named = x]
        = Runner(d.pc, d.cmd, d.config, d.todo, d.reference, x, d.opened, d.ran, d.disturbed, d.ready, d.status)
  BY <1>1, RunnerFields
<1> QED BY <1>2, RunnerFields

LEMMA SetOpened ==
  ASSUME NEW d, RunnerRecord(d), NEW x
  PROVE  LET e == [d EXCEPT !.opened = x]
         IN  /\ RunnerRecord(e)
             /\ e.pc = d.pc /\ e.cmd = d.cmd /\ e.config = d.config /\ e.todo = d.todo /\ e.reference = d.reference
             /\ e.named = d.named /\ e.opened = x /\ e.ran = d.ran
             /\ e.disturbed = d.disturbed /\ e.ready = d.ready /\ e.status = d.status
<1>1. d = Runner(d.pc, d.cmd, d.config, d.todo, d.reference, d.named, d.opened, d.ran, d.disturbed, d.ready, d.status)
  BY DEF RunnerRecord
<1>2. [d EXCEPT !.opened = x]
        = Runner(d.pc, d.cmd, d.config, d.todo, d.reference, d.named, x, d.ran, d.disturbed, d.ready, d.status)
  BY <1>1, RunnerFields
<1> QED BY <1>2, RunnerFields

LEMMA SetRan ==
  ASSUME NEW d, RunnerRecord(d), NEW x
  PROVE  LET e == [d EXCEPT !.ran = x]
         IN  /\ RunnerRecord(e)
             /\ e.pc = d.pc /\ e.cmd = d.cmd /\ e.config = d.config /\ e.todo = d.todo /\ e.reference = d.reference
             /\ e.named = d.named /\ e.opened = d.opened /\ e.ran = x
             /\ e.disturbed = d.disturbed /\ e.ready = d.ready /\ e.status = d.status
<1>1. d = Runner(d.pc, d.cmd, d.config, d.todo, d.reference, d.named, d.opened, d.ran, d.disturbed, d.ready, d.status)
  BY DEF RunnerRecord
<1>2. [d EXCEPT !.ran = x]
        = Runner(d.pc, d.cmd, d.config, d.todo, d.reference, d.named, d.opened, x, d.disturbed, d.ready, d.status)
  BY <1>1, RunnerFields
<1> QED BY <1>2, RunnerFields

LEMMA SetTodo ==
  ASSUME NEW d, RunnerRecord(d), NEW x
  PROVE  LET e == [d EXCEPT !.todo = x]
         IN  /\ RunnerRecord(e)
             /\ e.pc = d.pc /\ e.cmd = d.cmd /\ e.config = d.config /\ e.todo = x /\ e.reference = d.reference
             /\ e.named = d.named /\ e.opened = d.opened /\ e.ran = d.ran
             /\ e.disturbed = d.disturbed /\ e.ready = d.ready /\ e.status = d.status
<1>1. d = Runner(d.pc, d.cmd, d.config, d.todo, d.reference, d.named, d.opened, d.ran, d.disturbed, d.ready, d.status)
  BY DEF RunnerRecord
<1>2. [d EXCEPT !.todo = x]
        = Runner(d.pc, d.cmd, d.config, x, d.reference, d.named, d.opened, d.ran, d.disturbed, d.ready, d.status)
  BY <1>1, RunnerFields
<1> QED BY <1>2, RunnerFields

LEMMA SetDisturbed ==
  ASSUME NEW d, RunnerRecord(d), NEW x
  PROVE  LET e == [d EXCEPT !.disturbed = x]
         IN  /\ RunnerRecord(e)
             /\ e.pc = d.pc /\ e.cmd = d.cmd /\ e.config = d.config /\ e.todo = d.todo /\ e.reference = d.reference
             /\ e.named = d.named /\ e.opened = d.opened /\ e.ran = d.ran
             /\ e.disturbed = x /\ e.ready = d.ready /\ e.status = d.status
<1>1. d = Runner(d.pc, d.cmd, d.config, d.todo, d.reference, d.named, d.opened, d.ran, d.disturbed, d.ready, d.status)
  BY DEF RunnerRecord
<1>2. [d EXCEPT !.disturbed = x]
        = Runner(d.pc, d.cmd, d.config, d.todo, d.reference, d.named, d.opened, d.ran, x, d.ready, d.status)
  BY <1>1, RunnerFields
<1> QED BY <1>2, RunnerFields

LEMMA PreparerFields ==
  ASSUME NEW pc, NEW todo, NEW force, NEW status
  PROVE  LET d == Preparer(pc, todo, force, status)
         IN  /\ d.pc = pc /\ d.todo = todo /\ d.force = force /\ d.status = status
             /\ "force" \in DOMAIN d /\ "config" \notin DOMAIN d
             /\ PreparerRecord(d)
             /\ \A x : [d EXCEPT !.pc = x] = Preparer(x, todo, force, status)
             /\ \A x : [d EXCEPT !.todo = x] = Preparer(pc, x, force, status)
             /\ \A x : [d EXCEPT !.status = x] = Preparer(pc, todo, force, x)
<1> DEFINE d == Preparer(pc, todo, force, status)
<1>1. /\ d.pc = pc /\ d.todo = todo /\ d.force = force /\ d.status = status
      /\ "force" \in DOMAIN d /\ "config" \notin DOMAIN d
  BY DEF Preparer
<1>2. PreparerRecord(d)
  BY <1>1 DEF PreparerRecord
<1>3. \A x : [d EXCEPT !.pc = x] = Preparer(x, todo, force, status)
  BY DEF Preparer
<1>4. \A x : [d EXCEPT !.todo = x] = Preparer(pc, x, force, status)
  BY DEF Preparer
<1>5. \A x : [d EXCEPT !.status = x] = Preparer(pc, todo, force, x)
  BY DEF Preparer
<1> QED BY <1>1, <1>2, <1>3, <1>4, <1>5

LEMMA MadeIsFresh ==
  ASSUME NEW i, NEW profile, NEW b, Made(i, profile, b)
  PROVE  Fresh(i, profile, b)
BY DEF Made, Fresh

LEMMA RunnerHasNoForce == \A d : RunnerRecord(d) => "force" \notin DOMAIN d
BY RunnerFields DEF RunnerRecord

LEMMA PreparerHasNoConfig == \A d : PreparerRecord(d) => "config" \notin DOMAIN d
BY PreparerFields DEF PreparerRecord

-----------------------------------------------------------------------------
(***************************************************************************)
(* A process while another one acts.                                       *)
(***************************************************************************)

(* A runner that is told of a change believes nothing it has hashed.       *)
LEMMA Disturbed ==
  ASSUME NEW d, NEW i, NEW images, NEW images2, NEW sims, NEW refs, NEW refs2, Running(d, i, images, sims, refs),
         ReadySound(d, i, refs2)
  PROVE  Running([d EXCEPT !.disturbed = TRUE], i, images2, sims, refs2)
<1> DEFINE e == [d EXCEPT !.disturbed = TRUE]
<1>1. RunnerOk(d) /\ RunnerRecord(d) /\ d.config \in Accepted[i]
  BY DEF Running, RunnerOk
<1>2. /\ e.pc = d.pc /\ e.cmd = d.cmd /\ e.config = d.config /\ e.todo = d.todo /\ e.reference = d.reference
      /\ e.named = d.named /\ e.opened = d.opened /\ e.ran = d.ran
      /\ e.disturbed = TRUE /\ e.ready = d.ready /\ e.status = d.status
      /\ RunnerRecord(e)
  BY <1>1, SetDisturbed
<1> HIDE DEF e
<1>3. RunnerOk(e)
  BY <1>1, <1>2 DEF RunnerOk
<1>4. RanSound(e, i)
  <2>1. RanSound(d, i)
    BY DEF Running
  <2>2. ASSUME NEW episode, EpisodeSound(d, i, episode)
        PROVE  EpisodeSound(e, i, episode)
    <3>1. ~e.disturbed <=> FALSE
      BY <1>2
    <3>2. e.ready <=> d.ready
      BY <1>2
    <3> QED BY <1>2, <2>2, <3>1, <3>2 DEF EpisodeSound
  <2> QED BY <1>2, <2>1, <2>2 DEF RanSound
<1>5. RegressionSound(e, i, images2)
  <2>1. RegressionSound(d, i, images) /\ Cases(e, i) = Cases(d, i) /\ (~e.disturbed <=> FALSE)
    BY <1>2 DEF Running, Cases
  <2> QED BY <1>2, <2>1 DEF RegressionSound
<1>6. NamedSound(e, i, images2, refs2)
  BY <1>2 DEF Running, NamedSound
<1>7. BuiltSound(e, i, sims)
  BY <1>2 DEF Running, BuiltSound, SimulatorOf
<1>8. OpenedSound(e, i, refs2) /\ ReadySound(e, i, refs2)
  BY <1>2 DEF Running, OpenedSound, ReadySound
<1>9. Running(e, i, images2, sims, refs2)
  BY <1>1, <1>2, <1>3, <1>4, <1>5, <1>6, <1>7, <1>8 DEF Running
<1> QED BY <1>9 DEF e

(* Simulators are put where they belong or removed.                        *)
SimsMove(i, sims, sims2) ==
  \A c \in Accepted[i] :
    LET name == Signatures[i][c]
        old == sims[c.profile_id]
        new == sims2[c.profile_id]
    IN  name \in DOMAIN new => new[name] = Products[i][c] \/ (name \in DOMAIN old /\ new[name] = old[name])

LEMMA WhileBuilt ==
  ASSUME NEW d, NEW i, NEW images, NEW sims, NEW sims2, NEW refs, Doing(d, i, images, sims, refs), SimsMove(i, sims, sims2)
  PROVE  Doing(d, i, images, sims2, refs)
<1>1. ASSUME Running(d, i, images, sims, refs)
      PROVE  Running(d, i, images, sims2, refs)
  <2>1. BuiltSound(d, i, sims2)
    BY <1>1 DEF Running, BuiltSound, SimsMove, SimulatorOf
  <2> QED BY <1>1, <2>1 DEF Running
<1> QED BY <1>1 DEF Doing

(* A file of the bundle of this profile is written, removed or replaced.   *)
LEMMA WhileWritten ==
  ASSUME NEW d, NEW i \in DOMAIN Trees, NEW images, NEW sims, NEW refs, NEW refs2, NEW profile,
         Doing(d, i, images, sims, refs),
         \A o \in Profiles \ {profile} : refs2[o] = refs[o],
         "force" \in DOMAIN d /\ d.pc \in Filling /\ Head(d.todo) = profile => Made(i, profile, refs2[profile]),
         Fresh(i, profile, refs[profile]) => Fresh(i, profile, refs2[profile])
  PROVE  Doing(Disturb(d, profile), i, images, sims, refs2)
<1>1. CASE d = Idle
  BY <1>1, IdleFacts DEF Doing, Disturb
<1>2. CASE Preparing(d, i, refs)
  <2>2. "config" \notin DOMAIN d /\ "force" \in DOMAIN d
    BY <1>2, PreparerFields DEF Preparing, PreparerRecord
  <2>3. Head(d.todo) \in Profiles
    BY <1>2 DEF Preparing
  <2>4. d.pc \in Filling => Made(i, Head(d.todo), refs2[Head(d.todo)])
    BY <1>2, <2>2, <2>3 DEF Preparing
  <2>5. Preparing(d, i, refs2)
    BY <1>2, <2>4 DEF Preparing
  <2> QED BY <2>2, <2>5 DEF Disturb, Doing
<1>3. CASE Running(d, i, images, sims, refs)
  <2>1. RunnerRecord(d) /\ d.config \in Accepted[i]
    BY <1>3 DEF Running, RunnerOk
  <2>5. ReadySound(d, i, refs2)
    <3>1. ReadySound(d, i, refs) /\ d.config.profile_id \in Profiles
      BY <1>3, <2>1, AcceptedConfig DEF Running
    <3> QED BY <3>1 DEF ReadySound
  <2>2. CASE d.pc # "ended" /\ d.config.profile_id = profile /\ d.reference = "local"
    <3>1. Disturb(d, profile) = [d EXCEPT !.disturbed = TRUE]
      BY <2>1, <2>2 DEF Disturb, RunnerRecord
    <3> QED BY <3>1, <1>3, <2>5, Disturbed DEF Doing
  <2>3. CASE ~(d.pc # "ended" /\ d.config.profile_id = profile /\ d.reference = "local")
    <3>1. Disturb(d, profile) = d
      BY <2>3 DEF Disturb
    <3>2. d.config.profile_id \in Profiles
      BY <2>1, AcceptedConfig
    <3>3. d.pc \in {"build", "make", "run", "init"} => LoadedOf(d, refs2) = LoadedOf(d, refs)
      BY <2>3, <3>2 DEF LoadedOf
    <3>4. NamedSound(d, i, images, refs2) /\ OpenedSound(d, i, refs2)
      BY <3>3, <1>3 DEF Running, NamedSound, OpenedSound
    <3> QED BY <3>1, <3>4, <1>3, <2>5 DEF Doing, Running
  <2> QED BY <2>2, <2>3
<1> QED BY <1>1, <1>2, <1>3 DEF Doing

(* Process p goes on, and may build.                                       *)
LEMMA OneActs ==
  ASSUME IInv, NEW p \in Proc, NEW doing, Become(p, doing), UNCHANGED <<tree, disk, bundle>>,
         SimsMove(tree, built, built'), Doing(doing, tree, disk, built', bundle)
  PROVE  Processes'
<1> SUFFICES ASSUME NEW q \in Proc
             PROVE  Doing(proc[q], tree, disk, built, bundle)'
  BY DEF Processes
<1>1. proc'[q] = (IF q = p THEN doing ELSE proc[q])
  BY DEF IInv, Tables, Become
<1>2. Doing(proc[q], tree, disk, built', bundle)
  BY WhileBuilt DEF IInv, Processes
<1>3. Doing(proc'[q], tree, disk, built', bundle)
  BY <1>1, <1>2
<1> QED BY <1>3

(* Process p goes on, and writes the bundle of a profile.                  *)
LEMMA OneWrites ==
  ASSUME IInv, NEW p \in Proc, NEW doing, NEW profile \in Profiles,
         proc' = [q \in Proc |-> IF q = p THEN doing ELSE Disturb(proc[q], profile)],
         UNCHANGED <<tree, disk, built>>,
         \A o \in Profiles \ {profile} : bundle'[o] = bundle[o],
         Made(tree, profile, bundle[profile]) => Made(tree, profile, bundle'[profile]),
         Fresh(tree, profile, bundle[profile]) => Fresh(tree, profile, bundle'[profile]),
         Doing(doing, tree, disk, built, bundle')
  PROVE  Processes'
<1> SUFFICES ASSUME NEW q \in Proc
             PROVE  Doing(proc[q], tree, disk, built, bundle)'
  BY DEF Processes
<1>1. tree \in DOMAIN Trees /\ Doing(proc[q], tree, disk, built, bundle)
  BY DEF IInv, Tables, Processes
<1>2. "force" \in DOMAIN proc[q] /\ proc[q].pc \in Filling /\ Head(proc[q].todo) = profile
        => Made(tree, profile, bundle'[profile])
  <2> SUFFICES ASSUME "force" \in DOMAIN proc[q], proc[q].pc \in Filling, Head(proc[q].todo) = profile
               PROVE  Made(tree, profile, bundle[profile])
    OBVIOUS
  <2>1. ~Running(proc[q], tree, disk, built, bundle)
    BY RunnerHasNoForce DEF Running, RunnerOk
  <2> QED BY <2>1, <1>1, IdleFacts DEF Doing, Preparing
<1>3. Doing(Disturb(proc[q], profile), tree, disk, built, bundle')
  BY <1>1, <1>2, WhileWritten
<1>4. Doing(proc'[q], tree, disk, built, bundle')
  BY <1>3
<1> QED BY <1>4

-----------------------------------------------------------------------------
(***************************************************************************)
(* Commands start.                                                         *)
(***************************************************************************)

LEMMA Singleton == \A x : Sequence(<<x>>) /\ <<x>> # <<>> /\ Len(<<x>>) = 1 /\ <<x>>[1] = x
<1> SUFFICES ASSUME NEW x
             PROVE  Sequence(<<x>>) /\ <<x>> # <<>> /\ Len(<<x>>) = 1 /\ <<x>>[1] = x
  OBVIOUS
<1>1. <<x>> \in Seq({x})
  OBVIOUS
<1> QED BY <1>1, OfItself

(* A step that changes nothing but a process.                              *)
LEMMA OnlyProcess ==
  ASSUME IInv, NEW p \in Proc, NEW doing, Become(p, doing),
         UNCHANGED <<tree, config, disk, built, bundle, perf, reported, faults>>,
         commands' \in 0 .. MaxCommands, Doing(doing, tree, disk, built, bundle)
  PROVE  IInv'
<1>1. SimsMove(tree, built, built') /\ Doing(doing, tree, disk, built', bundle)
  BY DEF SimsMove
<1>2. Processes'
  BY <1>1, OneActs
<1>3. Tables'
  <2>1. DOMAIN proc' = Proc /\ t' = t
    BY DEF IInv, Tables, Become, t
  <2> QED BY <2>1 DEF IInv, Tables
<1>4. Bundles' /\ Summaries'
  BY DEF IInv, Bundles, Summaries
<1> QED BY <1>2, <1>3, <1>4 DEF IInv

LEMMA Beginning ==
  ASSUME IInv, Begin
  PROVE  commands' \in 0 .. MaxCommands
<1>1. commands \in 0 .. MaxCommands /\ commands > 0 /\ commands' = commands - 1
  BY DEF IInv, Tables, Begin
<1> QED BY <1>1, SimConstants

LEMMA NoneYet ==
  ASSUME IInv, Valid, NEW cmd \in Commands, NEW images, NEW reference,
         Sequence(images), images # <<>>, reference # "no-difftest",
         cmd = "regression" => /\ images = RegressionImages(t, config.profile_id)
                               /\ regression_cases(t, config.profile_id, disk)
  PROVE  Doing(Runner("runner", cmd, config, images, reference, None, None, <<>>, FALSE,
                      <<"adapter", config.profile_id>> \in reported, None), tree, disk, built, bundle)
<1> DEFINE ready == <<"adapter", config.profile_id>> \in reported
           d == Runner("runner", cmd, config, images, reference, None, None, <<>>, FALSE, ready, None)
<1>1. /\ d.pc = "runner" /\ d.cmd = cmd /\ d.config = config /\ d.todo = images /\ d.reference = reference
      /\ d.named = None /\ d.opened = None /\ d.ran = <<>> /\ d.disturbed = FALSE
      /\ d.ready = ready /\ d.status = None
      /\ "config" \in DOMAIN d
  BY DEF Runner
<1>9. RunnerRecord(d)
  BY <1>1 DEF RunnerRecord
<1> HIDE DEF d
<1>2. tree \in DOMAIN Trees /\ config \in Accepted[tree]
  BY DEF IInv, Tables, Valid
<1>3. Sequence(<<>>) /\ DOMAIN <<>> = {} /\ Len(<<>>) = 0
  BY DEF Sequence
<1>4. RunnerOk(d)
  BY <1>1, <1>3, <1>9 DEF RunnerOk
<1>5. RanSound(d, tree)
  BY <1>1, <1>3 DEF RanSound
<1>6. RegressionSound(d, tree, disk)
  <2> SUFFICES ASSUME cmd = "regression" PROVE RegressionSound(d, tree, disk)
    BY <1>1 DEF RegressionSound
  <2> DEFINE cases == Trees[tree].regression[config.profile_id]
  <2>1. Sequence(cases)
    BY <1>2, AcceptedConfig
  <2>2. Cases(d, tree) = cases
    BY <1>1 DEF Cases
  <2>3. images = [k \in DOMAIN cases |-> cases[k].image]
    BY DEF RegressionImages, t
  <2>4. \A k \in DOMAIN cases : Stored(cases[k], disk)
    BY DEF regression_cases, t, Stored
  <2> HIDE DEF cases
  <2>5. Len(cases) \in Nat /\ DOMAIN cases = 1 .. Len(cases) /\ Len(images) \in Nat /\ DOMAIN images = 1 .. Len(images)
    BY <2>1, Sequences
  <2>6. Len(images) = Len(cases)
    BY <2>3, <2>5
  <2> QED BY <1>1, <1>3, <2>2, <2>3, <2>4, <2>5, <2>6 DEF RegressionSound
<1>7. NamedSound(d, tree, disk, bundle) /\ BuiltSound(d, tree, built) /\ OpenedSound(d, tree, bundle)
  BY <1>1 DEF NamedSound, BuiltSound, OpenedSound
<1>10. ReadySound(d, tree, bundle)
  <2>1. config.profile_id \in Profiles
    BY <1>2, AcceptedConfig
  <2>2. bundle[config.profile_id] # None /\ ready => Fresh(tree, config.profile_id, bundle[config.profile_id])
    BY <2>1 DEF IInv, Bundles, BundleSound
  <2> QED BY <1>1, <2>2 DEF ReadySound, Fresh
<1>8. Running(d, tree, disk, built, bundle)
  BY <1>1, <1>2, <1>4, <1>5, <1>6, <1>7, <1>10 DEF Running
<1> QED BY <1>8 DEF d, Doing

LEMMA Starting ==
  ASSUME IInv, Valid, NEW p \in Proc, NEW cmd \in Commands, NEW images, NEW reference, Start(p, cmd, images, reference),
         Sequence(images), images # <<>>, reference # "no-difftest",
         cmd = "regression" => /\ images = RegressionImages(t, config.profile_id)
                               /\ regression_cases(t, config.profile_id, disk)
  PROVE  IInv'
<1> DEFINE ready == <<"adapter", config.profile_id>> \in reported
           d == Runner("runner", cmd, config, images, reference, None, None, <<>>, FALSE, ready, None)
<1>1. Become(p, d) /\ Begin /\ UNCHANGED <<tree, config, disk, built, bundle, perf, reported, faults>>
  BY DEF Start, Runner
<1>2. Doing(d, tree, disk, built, bundle)
  BY NoneYet
<1> HIDE DEF d
<1> QED BY <1>1, <1>2, Beginning, OnlyProcess

LEMMA References ==
  ASSUME IInv, NEW given \in ReferenceArgs
  PROVE  Reference(config, given) # "no-difftest"
<1>1. given # "no-difftest" /\ config.reference # "no-difftest"
  BY SimConstants DEF IInv, Tables
<1> QED BY <1>1 DEF Reference

LEMMA DispatchKeeps ==
  ASSUME IInv, NEW p \in Proc, dispatch(p)
  PROVE  IInv'
<1>1. CASE Defconfig(p)
  <2>1. Tables'
    BY <1>1 DEF Defconfig, IInv, Tables, t
  <2>2. Bundles' /\ Summaries' /\ Processes'
    BY <1>1 DEF Defconfig, IInv, Bundles, Summaries, Processes
  <2> QED BY <2>1, <2>2 DEF IInv
<1>2. CASE SourceCheck(p)
  <2>1. config.profile_id \in Profiles
    BY <1>2, AcceptedConfig DEF SourceCheck, Valid, IInv, Tables
  <2>2. /\ UNCHANGED <<tree, config, disk, built, bundle, perf, proc, faults>>
        /\ reported' = reported \cup {<<"sources", config.profile_id>>}
        /\ check_source_closure(t, config.profile_id)
        /\ commands' \in 0 .. MaxCommands
    BY <1>2, Beginning DEF SourceCheck
  <2>3. Tables'
    <3>1. reported' \subseteq {"sources", "adapter"} \X Profiles
      <4>1. reported \subseteq {"sources", "adapter"} \X Profiles
        BY DEF IInv, Tables
      <4> QED BY <2>1, <2>2, <4>1
    <3>2. ASSUME NEW profile \in Profiles, <<"sources", profile>> \in reported'
          PROVE  check_source_closure(t, profile)
      BY <2>2, <3>2 DEF IInv, Tables
    <3>3. t' = t
      BY <2>2 DEF t
    <3> QED BY <2>2, <3>1, <3>2, <3>3 DEF IInv, Tables
  <2>4. Bundles'
    <3>1. \A profile : <<"adapter", profile>> \in reported' => <<"adapter", profile>> \in reported
      BY <2>2
    <3> QED BY <2>2, <3>1 DEF IInv, Bundles, BundleSound
  <2>5. Summaries' /\ Processes'
    BY <2>2 DEF IInv, Summaries, Processes
  <2> QED BY <2>3, <2>4, <2>5 DEF IInv
<1>4. CASE Sim(p)
  <2>1. PICK image : Start(p, "run_sim", <<image>>, None) /\ Valid
    BY <1>4 DEF Sim
  <2> QED BY <2>1, Singleton, Starting, NoneIsNothing DEF Commands
<1>5. CASE SmokeRun(p)
  <2>1. PICK image : Start(p, "run_sim", <<image>>, None) /\ Valid
    BY <1>5 DEF SmokeRun
  <2> QED BY <2>1, Singleton, Starting, NoneIsNothing DEF Commands
<1>6. CASE Regression(p)
  <2> DEFINE images == RegressionImages(t, config.profile_id)
             cases == t.regression[config.profile_id]
  <2>1. /\ Valid /\ regression_cases(t, config.profile_id, disk) /\ cases # <<>>
        /\ Start(p, "regression", images, None)
    BY <1>6 DEF Regression
  <2>2. Sequence(cases)
    BY <2>1, AcceptedConfig DEF Valid, IInv, Tables, t
  <2>3. images = [k \in DOMAIN cases |-> cases[k].image]
    BY DEF RegressionImages
  <2> HIDE DEF cases
  <2>4. Len(cases) \in Nat /\ DOMAIN cases = 1 .. Len(cases) /\ Len(cases) > 0
    BY <2>1, <2>2, Sequences
  <2>5. images \in Seq({cases[k].image : k \in DOMAIN cases}) /\ images # <<>>
    <3> DEFINE S == {cases[k].image : k \in DOMAIN cases}
    <3>1. \A k \in 1 .. Len(cases) : cases[k].image \in S
      BY <2>4
    <3> HIDE DEF S
    <3>2. images = [k \in 1 .. Len(cases) |-> cases[k].image]
      BY <2>3, <2>4
    <3> HIDE DEF images
    <3>3. images \in Seq(S) /\ Len(images) = Len(cases)
      BY <3>1, <3>2, <2>4
    <3> QED BY <3>3, <2>4 DEF S
  <2>6. Sequence(images)
    BY <2>5, OfItself
  <2> QED BY <2>1, <2>5, <2>6, Starting, NoneIsNothing DEF Commands
<1>7. CASE Difftest(p)
  <2>1. PICK given \in ReferenceArgs : Valid /\ \E image : Start(p, "run_sim", <<image>>, Reference(config, given))
    BY <1>7 DEF Difftest
  <2>2. PICK image : Start(p, "run_sim", <<image>>, Reference(config, given))
    BY <2>1
  <2> QED BY <2>1, <2>2, References, Singleton, Starting DEF Commands
<1>8. CASE CoreMark(p)
  <2>1. CASE Start(p, "run_coremark", <<"coremark.bin">>, None)
    BY <1>8, <2>1, Singleton, Starting, NoneIsNothing DEF CoreMark, Commands
  <2>2. ASSUME NEW given \in ReferenceArgs, Start(p, "run_coremark", <<"coremark.bin">>, Reference(config, given))
        PROVE  IInv'
    BY <1>8, <2>2, References, Singleton, Starting DEF CoreMark, Commands
  <2> QED BY <1>8, <2>1, <2>2 DEF CoreMark
<1>9. CASE OpenSbi(p)
  BY <1>9, Singleton, Starting, NoneIsNothing DEF OpenSbi, Commands
<1> QED BY <1>1, <1>2, <1>4, <1>5, <1>6, <1>7, <1>8, <1>9 DEF dispatch

-----------------------------------------------------------------------------
(***************************************************************************)
(* The runner.                                                             *)
(***************************************************************************)

LEMMA IsRunner ==
  ASSUME IInv, NEW p \in Proc, proc[p].pc \in {"runner", "build", "make", "run", "init"}
  PROVE  Running(proc[p], tree, disk, built, bundle)
BY IdleFacts DEF IInv, Processes, Doing, Preparing, Filling

LEMMA Ends ==
  ASSUME NEW d, RunnerRecord(d), NEW status \in {0, 1}
  PROVE  LET e == Ended(d, status)
         IN  /\ RunnerRecord(e)
             /\ e.pc = "ended" /\ e.cmd = d.cmd /\ e.config = d.config /\ e.todo = d.todo /\ e.reference = d.reference
             /\ e.named = d.named /\ e.opened = d.opened /\ e.ran = d.ran
             /\ e.disturbed = d.disturbed /\ e.ready = d.ready
             /\ e.status \in {0, 2} /\ (e.status = 0 <=> status = 0)
<1> DEFINE m == [d EXCEPT !.pc = "ended"]
           e == [m EXCEPT !.status = main(status)]
<1>1. Ended(d, status) = e
  BY DEF Ended
<1>2. main(status) \in {0, 2} /\ (main(status) = 0 <=> status = 0)
  BY DEF main
<1>3. /\ RunnerRecord(m)
      /\ m.pc = "ended" /\ m.cmd = d.cmd /\ m.config = d.config /\ m.todo = d.todo /\ m.reference = d.reference
      /\ m.named = d.named /\ m.opened = d.opened /\ m.ran = d.ran
      /\ m.disturbed = d.disturbed /\ m.ready = d.ready /\ m.status = d.status
  BY SetPc
<1> HIDE DEF m
<1>4. /\ RunnerRecord(e)
      /\ e.pc = m.pc /\ e.cmd = m.cmd /\ e.config = m.config /\ e.todo = m.todo /\ e.reference = m.reference
      /\ e.named = m.named /\ e.opened = m.opened /\ e.ran = m.ran
      /\ e.disturbed = m.disturbed /\ e.ready = m.ready /\ e.status = main(status)
  BY <1>3, SetStatus
<1> HIDE DEF e
<1> QED BY <1>1, <1>2, <1>3, <1>4

LEMMA RunnerFails ==
  ASSUME NEW d, NEW i, NEW images, NEW sims, NEW refs, Running(d, i, images, sims, refs), d.pc # "ended"
  PROVE  Doing(Ended(d, 1), i, images, sims, refs)
<1> DEFINE e == Ended(d, 1)
<1>1. RunnerOk(d) /\ RunnerRecord(d) /\ d.config \in Accepted[i]
  BY DEF Running, RunnerOk
<1>2. /\ RunnerRecord(e)
      /\ e.pc = "ended" /\ e.cmd = d.cmd /\ e.config = d.config /\ e.todo = d.todo /\ e.reference = d.reference
      /\ e.named = d.named /\ e.opened = d.opened /\ e.ran = d.ran /\ e.disturbed = d.disturbed /\ e.ready = d.ready
      /\ e.status \in {0, 2} /\ e.status # 0
  BY <1>1, Ends
<1> HIDE DEF e
<1>3. RunnerOk(e)
  BY <1>1, <1>2 DEF RunnerOk
<1>4. RanSound(e, i)
  BY <1>2 DEF Running, RanSound, EpisodeSound, LockedProgram
<1>5. RegressionSound(e, i, images)
  BY <1>2 DEF Running, RegressionSound, Cases
<1>6. NamedSound(e, i, images, refs) /\ BuiltSound(e, i, sims) /\ OpenedSound(e, i, refs)
  BY <1>2 DEF NamedSound, BuiltSound, OpenedSound
<1>8. ReadySound(e, i, refs)
  BY <1>2 DEF Running, ReadySound
<1>7. Running(e, i, images, sims, refs)
  BY <1>1, <1>2, <1>3, <1>4, <1>5, <1>6, <1>8 DEF Running
<1> QED BY <1>7 DEF e, Doing

(* A reference that is one of the user's or of a bundle is not none.       *)
LEMMA LoadedNames ==
  ASSUME IInv, NEW d, Running(d, tree, disk, built, bundle), LoadedOf(d, bundle) # None
  PROVE  d.reference = None <=> LoadedOf(d, bundle) = External("no-difftest")
<1>1. d.reference # "no-difftest" /\ d.config.profile_id \in Profiles
  <2>1. d.config \in Accepted[tree] /\ RunnerOk(d) /\ tree \in DOMAIN Trees
    BY DEF Running, IInv, Tables
  <2> QED BY <2>1, AcceptedConfig DEF RunnerOk
<1>2. CASE d.reference = None
  BY <1>2, NoneIsNothing DEF LoadedOf
<1>3. CASE d.reference # None /\ d.reference = "local"
  <2> DEFINE b == bundle[d.config.profile_id]
  <2>1. LoadedOf(d, bundle) = b["adapter"] /\ HasIn(b, "adapter")
    BY <1>3 DEF LoadedOf
  <2>2. BundleSound(tree, d.config.profile_id, b, reported)
    BY <1>1 DEF IInv, Bundles
  <2>3. b["adapter"].profile = d.config.profile_id
    BY <2>1, <2>2 DEF BundleSound, HasIn
  <2>4. External("no-difftest").profile = None
    BY DEF External
  <2> QED BY <1>1, <1>3, <2>1, <2>3, <2>4, NoneIsNothing
<1>4. CASE d.reference # None /\ d.reference # "local"
  <2>1. LoadedOf(d, bundle) = External(d.reference)
    BY <1>4 DEF LoadedOf
  <2>2. External(d.reference).commit = d.reference /\ External("no-difftest").commit = "no-difftest"
    BY DEF External
  <2> QED BY <1>1, <1>4, <2>1, <2>2
<1> QED BY <1>2, <1>3, <1>4

LEMMA HashKeeps ==
  ASSUME IInv, NEW p \in Proc, Hash(p)
  PROVE  IInv'
<1> DEFINE d == proc[p]
           image == Head(d.todo)
<1>1. At(p, "runner") /\ UNCHANGED <<tree, config, disk, built, bundle, perf, reported, commands, faults>>
  BY DEF Hash
<1>2. Running(d, tree, disk, built, bundle)
  BY <1>1, IsRunner DEF At
<1>3. RunnerOk(d) /\ RunnerRecord(d) /\ d.config \in Accepted[tree] /\ commands \in 0 .. MaxCommands
  BY <1>2 DEF Running, RunnerOk, IInv, Tables
<1>4. CASE Fail(p)
  <2>1. Doing(Ended(d, 1), tree, disk, built, bundle)
    BY <1>1, <1>2, RunnerFails DEF At
  <2> QED BY <1>1, <1>3, <1>4, <2>1, OnlyProcess DEF Fail
<1>5. CASE ~Fail(p)
  <2> DEFINE named == [signature |-> Signature(p), adapter |-> sha256(Loaded(p)),
                       image |-> IF Benchmark(p) THEN sha256(disk[image]) ELSE "no-benchmark"]
             m == [d EXCEPT !.pc = "build"]
             e == [m EXCEPT !.named = named]
  <2>1. /\ Become(p, e)
        /\ Loaded(p) # None
        /\ Benchmark(p) => load_contract(t.coremark, Profile(p), disk[image], disk["coremark.elf"])
    BY <1>5 DEF Hash
  <2>2. /\ named.signature = Signature(p) /\ named.adapter = Loaded(p)
        /\ Benchmark(p) => named.image = sha256(disk[image])
    BY DEF sha256
  <2> HIDE DEF named
  <2>3. /\ RunnerRecord(m)
        /\ m.pc = "build" /\ m.cmd = d.cmd /\ m.config = d.config /\ m.todo = d.todo /\ m.reference = d.reference
        /\ m.named = d.named /\ m.opened = d.opened /\ m.ran = d.ran
        /\ m.disturbed = d.disturbed /\ m.ready = d.ready /\ m.status = d.status
    BY <1>3, SetPc
  <2> HIDE DEF m
  <2>4. /\ RunnerRecord(e)
        /\ e.pc = m.pc /\ e.cmd = m.cmd /\ e.config = m.config /\ e.todo = m.todo /\ e.reference = m.reference
        /\ e.named = named /\ e.ran = m.ran /\ e.disturbed = m.disturbed /\ e.ready = m.ready /\ e.status = m.status
    BY <2>3, SetNamed
  <2> HIDE DEF e
  <2>5. /\ RunnerRecord(e)
        /\ e.pc = "build" /\ e.cmd = d.cmd /\ e.config = d.config /\ e.todo = d.todo /\ e.reference = d.reference
        /\ e.named = named /\ e.ran = d.ran /\ e.disturbed = d.disturbed /\ e.ready = d.ready /\ e.status = d.status
    BY <2>3, <2>4
  <2> HIDE DEF d
  <2>6. d.pc = "runner"
    BY <1>1 DEF At, d
  <2>7. RunnerOk(e)
    BY <1>3, <2>5, <2>6 DEF RunnerOk
  <2>8. RanSound(e, tree) /\ RegressionSound(e, tree, disk)
    <3>1. RanSound(d, tree) /\ RegressionSound(d, tree, disk)
      BY <1>2 DEF Running
    <3>2. RanSound(e, tree)
      BY <2>5, <3>1 DEF RanSound, EpisodeSound, LockedProgram
    <3>3. RegressionSound(e, tree, disk)
      BY <2>5, <2>6, <3>1 DEF RegressionSound, Cases
    <3> QED BY <3>2, <3>3
  <2>9. Loaded(p) = LoadedOf(d, bundle) /\ LoadedOf(e, bundle) = LoadedOf(d, bundle)
    BY <2>5 DEF Loaded, LoadedOf, Has, HasIn, Profile, d
  <2>10. d.reference = None <=> named.adapter = External("no-difftest")
    BY <1>2, <2>1, <2>2, <2>9, LoadedNames
  <2>11. Benchmark(p) => LockedProgram(d, tree, disk[image])
    <3> SUFFICES ASSUME Benchmark(p) PROVE LockedProgram(d, tree, disk[image])
      OBVIOUS
    <3>1. /\ Cardinality(variants(Trees[tree].coremark, d.config.profile_id)) = 1
          /\ \A v \in variants(Trees[tree].coremark, d.config.profile_id) :
                Trees[tree].coremark.variants[v].binary_sha256 = sha256(disk[image])
      BY <2>1 DEF load_contract, t, Profile, d
    <3>2. variants(Trees[tree].coremark, d.config.profile_id) # {}
      BY <3>1, FS_EmptySet
    <3> QED BY <3>1, <3>2 DEF LockedProgram
  <2>12. NamedSound(e, tree, disk, bundle)
    BY <2>2, <2>5, <2>9, <2>10, <2>11 DEF NamedSound, Signature, Benchmark, LockedProgram, sha256, d
  <2>13. BuiltSound(e, tree, built) /\ OpenedSound(e, tree, bundle) /\ ReadySound(e, tree, bundle)
    BY <1>2, <2>5 DEF Running, BuiltSound, OpenedSound, ReadySound
  <2>14. Doing(e, tree, disk, built, bundle)
    BY <1>3, <2>5, <2>7, <2>8, <2>12, <2>13 DEF Running, Doing
  <2> QED BY <1>1, <1>3, <2>1, <2>14, OnlyProcess
<1> QED BY <1>4, <1>5

LEMMA SignatureNamesProduct ==
  ASSUME NEW i \in DOMAIN Trees, NEW c \in Accepted[i]
  PROVE  /\ Signatures[i][c].profile = c.profile_id
         /\ \A field \in {"trace", "options", "sources", "harness"} : Products[i][c][field] = Signatures[i][c][field]
<1> DEFINE a == runner_command(c)
           S == signature(Trees[i], c.profile_id, a)
           P == Product(Trees[i], c.profile_id, a)
<1>1. Signatures[i][c] = S /\ Products[i][c] = P
  BY DEF Signatures, Products
<1>2. a.trace = c.vcd /\ a.vcd = c.vcd
  BY DEF runner_command
<1>3. c.vcd \in BOOLEAN
  BY SimConstants DEF Accepted
<1> HIDE DEF a
<1>4. /\ S.profile = c.profile_id /\ S["trace"] = a.trace /\ S["options"] = RunnerOptions(Trees[i], c.profile_id)
      /\ S["sources"] = Inventory(Trees[i], c.profile_id) /\ S["harness"] = Trees[i].harness
  BY DEF signature
<1>5. /\ P["trace"] = (a.trace \/ a.vcd) /\ P["options"] = RunnerOptions(Trees[i], c.profile_id)
      /\ P["sources"] = Inventory(Trees[i], c.profile_id) /\ P["harness"] = Trees[i].harness
  BY DEF Product
<1>6. P["trace"] = S["trace"]
  BY <1>2, <1>3, <1>4, <1>5
<1> QED BY <1>1, <1>4, <1>5, <1>6

(* From the build on, a runner goes on by its pc alone.                    *)
LEMMA GoesOn ==
  ASSUME NEW d, NEW i, NEW images, NEW sims, NEW sims2, NEW refs, Running(d, i, images, sims, refs),
         d.pc \in {"build", "make"}, NEW pc \in {"make", "run"},
         pc = "run" => SimulatorOf(d, i, sims2) \in {None, Products[i][d.config]}
  PROVE  Doing([d EXCEPT !.pc = pc], i, images, sims2, refs)
<1> DEFINE e == [d EXCEPT !.pc = pc]
<1>1. RunnerOk(d) /\ RunnerRecord(d) /\ d.config \in Accepted[i]
  BY DEF Running, RunnerOk
<1>2. /\ RunnerRecord(e)
      /\ e.pc = pc /\ e.cmd = d.cmd /\ e.config = d.config /\ e.todo = d.todo /\ e.reference = d.reference
      /\ e.named = d.named /\ e.opened = d.opened /\ e.ran = d.ran
      /\ e.disturbed = d.disturbed /\ e.ready = d.ready /\ e.status = d.status
  BY <1>1, SetPc
<1> HIDE DEF e
<1>3. RunnerOk(e)
  BY <1>1, <1>2 DEF RunnerOk
<1>4. RanSound(e, i)
  BY <1>2 DEF Running, RanSound, EpisodeSound, LockedProgram
<1>5. RegressionSound(e, i, images)
  BY <1>2 DEF Running, RegressionSound, Cases
<1>6. NamedSound(e, i, images, refs)
  BY <1>2 DEF Running, NamedSound, LockedProgram, LoadedOf
<1>7. BuiltSound(e, i, sims2) /\ OpenedSound(e, i, refs) /\ ReadySound(e, i, refs)
  BY <1>2 DEF Running, BuiltSound, SimulatorOf, OpenedSound, ReadySound
<1>8. Running(e, i, images, sims2, refs)
  BY <1>1, <1>2, <1>3, <1>4, <1>5, <1>6, <1>7 DEF Running
<1> QED BY <1>8 DEF e, Doing

(* A step of a runner that changes simulators.                             *)
LEMMA RunnerBuilds ==
  ASSUME IInv, NEW p \in Proc, NEW doing, Become(p, doing),
         UNCHANGED <<tree, config, disk, bundle, perf, reported, commands, faults>>,
         NEW profile \in Profiles, NEW now, built' = [built EXCEPT ![profile] = now],
         \A s \in DOMAIN now : s.profile = profile,
         SimsMove(tree, built, built'), Doing(doing, tree, disk, built', bundle)
  PROVE  IInv'
<1>1. Processes'
  BY OneActs
<1>2. Tables'
  <2>1. DOMAIN built' = Profiles /\ DOMAIN proc' = Proc /\ t' = t
    BY DEF IInv, Tables, Become, t
  <2>2. \A o \in Profiles : built'[o] = (IF o = profile THEN now ELSE built[o])
    BY DEF IInv, Tables
  <2>3. \A o \in Profiles : \A s \in DOMAIN built'[o] : s.profile = o
    BY <2>2 DEF IInv, Tables
  <2> QED BY <2>1, <2>3 DEF IInv, Tables
<1>3. Bundles' /\ Summaries'
  BY DEF IInv, Bundles, Summaries
<1> QED BY <1>1, <1>2, <1>3 DEF IInv

LEMMA MyProfile ==
  ASSUME IInv, NEW p \in Proc, Running(proc[p], tree, disk, built, bundle)
  PROVE  /\ tree \in DOMAIN Trees /\ proc[p].config \in Accepted[tree] /\ Profile(p) \in Profiles
         /\ DOMAIN built = Profiles /\ commands \in 0 .. MaxCommands
         /\ Simulator(p) = SimulatorOf(proc[p], tree, built)
         /\ Built(p) = Products[tree][proc[p].config] /\ Signature(p) = Signatures[tree][proc[p].config]
         /\ \A s \in DOMAIN built[Profile(p)] : s.profile = Profile(p)
         /\ Signature(p).profile = Profile(p)
<1>1. tree \in DOMAIN Trees /\ proc[p].config \in Accepted[tree] /\ commands \in 0 .. MaxCommands /\ DOMAIN built = Profiles
  BY DEF IInv, Tables, Running
<1>2. Profile(p) \in Profiles
  BY <1>1, AcceptedConfig DEF Profile
<1>3. /\ Simulator(p) = SimulatorOf(proc[p], tree, built)
      /\ Built(p) = Products[tree][proc[p].config] /\ Signature(p) = Signatures[tree][proc[p].config]
  BY DEF Simulator, SimulatorOf, Built, Signature, Profile
<1>4. \A s \in DOMAIN built[Profile(p)] : s.profile = Profile(p)
  BY <1>2 DEF IInv, Tables
<1>5. Signature(p).profile = Profile(p)
  BY <1>1, <1>3, SignatureNamesProduct DEF Profile
<1> QED BY <1>1, <1>2, <1>3, <1>4, <1>5

LEMMA BuildKeeps ==
  ASSUME IInv, NEW p \in Proc, Build(p)
  PROVE  IInv'
<1> DEFINE d == proc[p]
<1>1. At(p, "build") /\ UNCHANGED <<tree, config, disk, bundle, perf, reported, commands, faults>>
  BY DEF Build
<1>2. Running(d, tree, disk, built, bundle) /\ d.pc = "build"
  BY <1>1, IsRunner DEF At
<1>3. CASE Simulator(p) = Built(p)
  <2>1. Goto(p, "run") /\ UNCHANGED built
    BY <1>3 DEF Build
  <2>2. Doing([d EXCEPT !.pc = "run"], tree, disk, built, bundle)
    BY <1>2, <1>3, MyProfile, GoesOn
  <2>3. Become(p, [d EXCEPT !.pc = "run"])
    BY <2>1 DEF Goto
  <2> QED BY <1>1, <1>2, <2>1, <2>2, <2>3, MyProfile, OnlyProcess
<1>4. CASE Simulator(p) # Built(p)
  <2> DEFINE mine == built[Profile(p)]
             now == [s \in DOMAIN mine \ {Signature(p)} |-> mine[s]]
  <2>1. Become(p, [d EXCEPT !.pc = "make"]) /\ built' = [built EXCEPT ![Profile(p)] = now]
    BY <1>4 DEF Build, Goto, RemoveSimulator
  <2>2. \A s \in DOMAIN now : s.profile = Profile(p)
    BY <1>2, MyProfile
  <2>3. SimsMove(tree, built, built')
    <3>1. \A o \in Profiles : built'[o] = (IF o = Profile(p) THEN now ELSE built[o])
      BY <1>2, <2>1, MyProfile
    <3>2. \A c \in Accepted[tree] : c.profile_id \in Profiles
      BY <1>2, MyProfile, AcceptedConfig
    <3>3. \A s \in DOMAIN now : s \in DOMAIN mine /\ now[s] = mine[s]
      OBVIOUS
    <3> HIDE DEF now
    <3> QED BY <3>1, <3>2, <3>3 DEF SimsMove
  <2>4. Doing([d EXCEPT !.pc = "make"], tree, disk, built', bundle)
    BY <1>2, GoesOn
  <2>5. Profile(p) \in Profiles
    BY <1>2, MyProfile
  <2> HIDE DEF now, d
  <2> QED BY <1>1, <2>1, <2>2, <2>3, <2>4, <2>5, RunnerBuilds
<1> QED BY <1>3, <1>4

LEMMA MakeKeeps ==
  ASSUME IInv, NEW p \in Proc, Make(p)
  PROVE  IInv'
<1> DEFINE d == proc[p]
<1>1. At(p, "make") /\ UNCHANGED <<tree, config, disk, bundle, perf, reported, commands, faults>>
  BY DEF Make
<1>2. Running(d, tree, disk, built, bundle) /\ d.pc = "make"
  BY <1>1, IsRunner DEF At
<1>3. CASE Fail(p) /\ UNCHANGED built
  <2>1. Doing(Ended(d, 1), tree, disk, built, bundle)
    BY <1>2, RunnerFails
  <2> QED BY <1>1, <1>2, <1>3, <2>1, MyProfile, OnlyProcess DEF Fail
<1>4. CASE Goto(p, "run") /\ PutSimulator(p)
  <2> DEFINE mine == built[Profile(p)]
             now == [s \in DOMAIN mine \cup {Signature(p)} |-> IF s = Signature(p) THEN Built(p) ELSE mine[s]]
  <2>1. Become(p, [d EXCEPT !.pc = "run"]) /\ built' = [built EXCEPT ![Profile(p)] = now]
    BY <1>4 DEF Goto, PutSimulator
  <2>2. /\ DOMAIN now = {Signature(p)} \cup DOMAIN mine
        /\ now[Signature(p)] = Built(p)
        /\ \A s \in DOMAIN mine : s # Signature(p) => now[s] = mine[s]
    OBVIOUS
  <2> HIDE DEF now
  <2>3. \A s \in DOMAIN now : s.profile = Profile(p)
    BY <1>2, <2>2, MyProfile
  <2>4. \A o \in Profiles : built'[o] = (IF o = Profile(p) THEN now ELSE built[o])
    BY <1>2, <2>1, MyProfile
  <2>5. SimsMove(tree, built, built')
    <3> SUFFICES ASSUME NEW c \in Accepted[tree], Signatures[tree][c] \in DOMAIN built'[c.profile_id]
                 PROVE  LET name == Signatures[tree][c]
                            old == built[c.profile_id]
                            new == built'[c.profile_id]
                        IN  new[name] = Products[tree][c] \/ (name \in DOMAIN old /\ new[name] = old[name])
      BY DEF SimsMove
    <3>1. c.profile_id \in Profiles
      BY <1>2, MyProfile, AcceptedConfig
    <3>2. Signatures[tree][c] = Signature(p) => Products[tree][c] = Built(p)
      BY <1>2, MyProfile, SameSignature
    <3> QED BY <2>2, <2>4, <3>1, <3>2
  <2>6. SimulatorOf(d, tree, built') = Products[tree][d.config]
    BY <1>2, <2>2, <2>4, MyProfile DEF SimulatorOf, Profile
  <2>7. Doing([d EXCEPT !.pc = "run"], tree, disk, built', bundle)
    BY <1>2, <2>6, GoesOn
  <2>8. Profile(p) \in Profiles
    BY <1>2, MyProfile
  <2> HIDE DEF d
  <2> QED BY <1>1, <2>1, <2>3, <2>5, <2>7, <2>8, RunnerBuilds
<1> QED BY <1>3, <1>4 DEF Make

(* The simulator and the adapter are open; a rebuild of the bundle may     *)
(* still come before the raw library is.                                   *)
LEMMA RunKeeps ==
  ASSUME IInv, NEW p \in Proc, Run(p)
  PROVE  IInv'
<1> DEFINE d == proc[p]
<1>1. At(p, "run") /\ UNCHANGED <<tree, config, disk, built, bundle, perf, reported, commands, faults>>
  BY DEF Run
<1>2. Running(d, tree, disk, built, bundle) /\ d.pc = "run"
  BY <1>1, IsRunner DEF At
<1>3. /\ RunnerOk(d) /\ RunnerRecord(d) /\ d.config \in Accepted[tree] /\ RanSound(d, tree)
      /\ RegressionSound(d, tree, disk) /\ NamedSound(d, tree, disk, bundle) /\ ReadySound(d, tree, bundle)
  BY <1>2 DEF Running, RunnerOk
<1>4. CASE Fail(p)
  <2>1. Doing(Ended(d, 1), tree, disk, built, bundle)
    BY <1>2, RunnerFails
  <2> QED BY <1>1, <1>2, <1>4, <2>1, MyProfile, OnlyProcess DEF Fail
<1>5. CASE ~Fail(p)
  <2> DEFINE opened == [simulator |-> Simulator(p), adapter |-> Loaded(p)]
             m == [d EXCEPT !.pc = "init"]
             e == [m EXCEPT !.opened = opened]
  <2>1. Become(p, e) /\ Simulator(p) # None /\ Loaded(p) # None
    BY <1>5 DEF Run
  <2>2. /\ opened.simulator = Products[tree][d.config]
        /\ opened.adapter = LoadedOf(d, bundle) /\ LoadedOf(d, bundle) # None
    <3>1. Simulator(p) = Products[tree][d.config]
      BY <1>2, <2>1, MyProfile DEF Running, BuiltSound
    <3>2. Loaded(p) = LoadedOf(d, bundle)
      BY DEF Loaded, LoadedOf, Has, HasIn, Profile
    <3> QED BY <2>1, <3>1, <3>2
  <2> HIDE DEF opened
  <2>3. d.reference = "local" /\ d.ready /\ opened.adapter.commit # "elsewhere" =>
          opened.adapter = AdapterOf(tree, d.config.profile_id)
    <3> SUFFICES ASSUME d.reference = "local", d.ready, opened.adapter.commit # "elsewhere"
                 PROVE  opened.adapter = AdapterOf(tree, d.config.profile_id)
      OBVIOUS
    <3> DEFINE b == bundle[d.config.profile_id]
    <3>1. HasIn(b, "adapter") /\ opened.adapter = b["adapter"]
      BY <2>2, NoneIsNothing DEF LoadedOf
    <3>2. Fresh(tree, d.config.profile_id, b)
      BY <1>3 DEF ReadySound
    <3> QED BY <3>1, <3>2 DEF Fresh, HasIn
  <2>4. /\ RunnerRecord(m)
        /\ m.pc = "init" /\ m.cmd = d.cmd /\ m.config = d.config /\ m.todo = d.todo /\ m.reference = d.reference
        /\ m.named = d.named /\ m.ran = d.ran
        /\ m.disturbed = d.disturbed /\ m.ready = d.ready /\ m.status = d.status
    BY <1>3, SetPc
  <2> HIDE DEF m
  <2>5. /\ RunnerRecord(e)
        /\ e.pc = m.pc /\ e.cmd = m.cmd /\ e.config = m.config /\ e.todo = m.todo /\ e.reference = m.reference
        /\ e.named = m.named /\ e.opened = opened /\ e.ran = m.ran
        /\ e.disturbed = m.disturbed /\ e.ready = m.ready /\ e.status = m.status
    BY <2>4, SetOpened
  <2> HIDE DEF e
  <2>6. /\ RunnerRecord(e)
        /\ e.pc = "init" /\ e.cmd = d.cmd /\ e.config = d.config /\ e.todo = d.todo /\ e.reference = d.reference
        /\ e.named = d.named /\ e.opened = opened /\ e.ran = d.ran
        /\ e.disturbed = d.disturbed /\ e.ready = d.ready /\ e.status = d.status
    BY <2>4, <2>5
  <2>7. d.pc = "run"
    BY <1>2
  <2> HIDE DEF d
  <2>8. RunnerOk(e)
    BY <1>3, <2>6, <2>7 DEF RunnerOk
  <2>9. RanSound(e, tree)
    BY <1>3, <2>6 DEF RanSound, EpisodeSound, LockedProgram
  <2>10. RegressionSound(e, tree, disk)
    BY <1>3, <2>6, <2>7 DEF RegressionSound, Cases
  <2>11. LoadedOf(e, bundle) = LoadedOf(d, bundle)
    BY <2>6 DEF LoadedOf
  <2>12. NamedSound(e, tree, disk, bundle)
    BY <1>3, <2>6, <2>7, <2>11 DEF NamedSound, LockedProgram
  <2>13. OpenedSound(e, tree, bundle)
    BY <2>2, <2>3, <2>6, <2>11 DEF OpenedSound
  <2>14. BuiltSound(e, tree, built) /\ ReadySound(e, tree, bundle)
    BY <1>3, <2>6 DEF BuiltSound, ReadySound
  <2>15. Doing(e, tree, disk, built, bundle)
    BY <1>3, <2>6, <2>8, <2>9, <2>10, <2>12, <2>13, <2>14 DEF Running, Doing
  <2> QED BY <1>1, <1>2, <2>1, <2>15, MyProfile, OnlyProcess DEF d
<1> QED BY <1>4, <1>5

(* What a command has run, and the summary of a benchmark.                 *)
LEMMA InitializeKeeps ==
  ASSUME IInv, NEW p \in Proc, Initialize(p)
  PROVE  IInv'
<1> DEFINE d == proc[p]
<1>1. At(p, "init") /\ UNCHANGED <<tree, config, disk, built, bundle, reported, commands, faults>>
  BY DEF Initialize
<1>2. Running(d, tree, disk, built, bundle) /\ d.pc = "init"
  BY <1>1, IsRunner DEF At
<1>3. CASE ~Starts(p)
  <2>1. Fail(p) /\ UNCHANGED perf
    BY <1>3 DEF Initialize
  <2>2. Doing(Ended(d, 1), tree, disk, built, bundle)
    BY <1>2, RunnerFails
  <2> QED BY <1>1, <1>2, <2>1, <2>2, MyProfile, OnlyProcess DEF Fail
<1>4. CASE Starts(p)
  <2> DEFINE after == [proc[p] EXCEPT !.ran = Append(@, Episode(p)), !.todo = Tail(@)]
  <2>1. PICK status \in {0, 1} :
          /\ Become(p, IF status # 0 \/ after.todo = <<>> THEN Ended(after, status)
                       ELSE [after EXCEPT !.pc = "runner"])
          /\ perf' = IF Benchmark(p)
                     THEN [perf EXCEPT ![<<Profile(p), Suffix(p)>>] =
                              [named |-> proc[p].named, ran |-> Episode(p), disturbed |-> proc[p].disturbed]]
                     ELSE perf
    BY <1>4 DEF Initialize
  <2> DEFINE episode == Episode(p)
             e == IF status # 0 \/ after.todo = <<>> THEN Ended(after, status) ELSE [after EXCEPT !.pc = "runner"]
  <2>2. /\ RunnerOk(d) /\ RunnerRecord(d) /\ d.config \in Accepted[tree] /\ RanSound(d, tree)
        /\ RegressionSound(d, tree, disk) /\ NamedSound(d, tree, disk, bundle)
        /\ OpenedSound(d, tree, bundle) /\ ReadySound(d, tree, bundle)
        /\ Sequence(d.todo) /\ Sequence(d.ran) /\ d.todo # <<>>
    BY <1>2 DEF Running, RunnerOk
  <2>3. /\ RunnerRecord(after)
        /\ after.cmd = d.cmd /\ after.config = d.config /\ after.reference = d.reference
        /\ after.named = d.named /\ after.opened = d.opened
        /\ after.disturbed = d.disturbed /\ after.ready = d.ready /\ after.status = d.status
        /\ after.ran = Append(d.ran, episode) /\ after.todo = Tail(d.todo)
    <3> DEFINE m == [d EXCEPT !.ran = Append(d.ran, episode)]
    <3>1. /\ RunnerRecord(m)
          /\ m.cmd = d.cmd /\ m.config = d.config /\ m.reference = d.reference /\ m.todo = d.todo
          /\ m.named = d.named /\ m.opened = d.opened
          /\ m.disturbed = d.disturbed /\ m.ready = d.ready /\ m.status = d.status /\ m.ran = Append(d.ran, episode)
      BY <2>2, SetRan
    <3>2. after = [m EXCEPT !.todo = Tail(d.todo)]
      OBVIOUS
    <3> HIDE DEF m
    <3> DEFINE rest == Tail(d.todo)
               o == [m EXCEPT !.todo = rest]
    <3> HIDE DEF rest
    <3>3. /\ RunnerRecord(o)
          /\ o.cmd = m.cmd /\ o.config = m.config /\ o.reference = m.reference
          /\ o.named = m.named /\ o.opened = m.opened
          /\ o.disturbed = m.disturbed /\ o.ready = m.ready /\ o.status = m.status /\ o.ran = m.ran
          /\ o.todo = rest
      <4>1. RunnerRecord(m)
        BY <3>1
      <4> HIDE DEF d
      <4> QED BY <4>1, SetTodo
    <3> HIDE DEF o, after
    <3>4. after = o
      BY <3>2 DEF o, rest
    <3> QED BY <3>1, <3>3, <3>4 DEF rest
  <2>4. /\ episode.simulator = Products[tree][d.config]
        /\ episode.image = disk[Head(d.todo)] /\ Head(d.todo) \in DOMAIN disk
        /\ episode.adapter = d.opened.adapter /\ d.opened.adapter # None
        /\ ~d.disturbed => episode.adapter = LoadedOf(d, bundle)
    BY <1>2, <1>4, <2>2 DEF OpenedSound, Episode, Starts
  <2>5. EpisodeSound(d, tree, episode)
    <3> DEFINE b == bundle[Profile(p)]
    <3>1. d.reference = "local" => b # None /\ "raw" \in DOMAIN b /\ episode.raw = b["raw"]
      BY <1>4 DEF Starts, Has, Episode
    <3>2. ASSUME d.reference = "local", "elsewhere" \notin {episode.raw, episode.adapter.commit}, ~d.disturbed
          PROVE  episode.adapter.commit = episode.raw
      <4>1. BundleSound(tree, Profile(p), b, reported)
        BY <1>2, MyProfile DEF IInv, Bundles
      <4>2. b # None /\ "raw" \in DOMAIN b /\ episode.raw = b["raw"]
        BY <3>1, <3>2
      <4>3. "adapter" \in DOMAIN b /\ episode.adapter = b["adapter"]
        BY <2>4, <3>2, NoneIsNothing DEF LoadedOf, HasIn, Profile
      <4> HIDE DEF episode, b
      <4> QED BY <3>2, <4>1, <4>2, <4>3 DEF BundleSound
    <3>3. ASSUME d.reference = "local", "elsewhere" \notin {episode.raw, episode.adapter.commit}, d.ready
          PROVE  /\ episode.raw = Trees[tree].nemu.profiles[d.config.profile_id].commit
                 /\ episode.adapter = AdapterOf(tree, d.config.profile_id)
      <4>1. Fresh(tree, d.config.profile_id, b)
        BY <2>2, <3>3 DEF ReadySound, Profile
      <4>2. b # None /\ "raw" \in DOMAIN b /\ episode.raw = b["raw"]
        BY <3>1, <3>3
      <4>3. episode.adapter = AdapterOf(tree, d.config.profile_id)
        BY <1>2, <2>2, <2>4, <3>3 DEF OpenedSound
      <4> HIDE DEF episode, b
      <4> QED BY <3>3, <4>1, <4>2, <4>3 DEF Fresh
    <3>4. d.cmd = "run_coremark" /\ ~d.disturbed => LockedProgram(d, tree, episode.image)
      BY <1>2, <2>2, <2>4 DEF NamedSound
    <3> HIDE DEF episode, b
    <3> QED BY <2>4, <3>2, <3>3, <3>4 DEF EpisodeSound
  <2> HIDE DEF episode, after
  <2>7. /\ RunnerRecord(e)
        /\ e.cmd = d.cmd /\ e.config = d.config /\ e.reference = d.reference
        /\ e.named = d.named /\ e.opened = d.opened /\ e.disturbed = d.disturbed /\ e.ready = d.ready
        /\ e.ran = Append(d.ran, episode) /\ e.todo = Tail(d.todo)
        /\ e.pc \in {"runner", "ended"}
        /\ e.pc = "runner" => e.todo # <<>> /\ e.status = None
        /\ e.pc = "ended" => e.status \in {0, 2} /\ (e.status = 0 => e.todo = <<>>)
    <3>1. CASE status # 0 \/ after.todo = <<>>
      <4>1. e = Ended(after, status)
        BY <3>1
      <4> QED BY <2>3, <3>1, <4>1, Ends
    <3>2. CASE ~(status # 0 \/ after.todo = <<>>)
      <4>1. e = [after EXCEPT !.pc = "runner"]
        BY <3>2
      <4>2. d.status = None
        BY <1>2, <2>2 DEF RunnerOk
      <4> DEFINE o == [after EXCEPT !.pc = "runner"]
      <4>3. /\ RunnerRecord(o) /\ o.pc = "runner"
            /\ o.cmd = after.cmd /\ o.config = after.config /\ o.reference = after.reference
            /\ o.named = after.named /\ o.opened = after.opened
            /\ o.disturbed = after.disturbed /\ o.ready = after.ready /\ o.status = after.status
            /\ o.ran = after.ran /\ o.todo = after.todo
        <5>1. RunnerRecord(after)
          BY <2>3
        <5> QED BY <5>1, SetPc
      <4> HIDE DEF o
      <4>4. e = o
        BY <4>1 DEF o
      <4> HIDE DEF e
      <4> QED BY <2>3, <3>2, <4>2, <4>3, <4>4
    <3> QED BY <3>1, <3>2
  <2> HIDE DEF e
  <2>8. /\ Sequence(e.todo) /\ Sequence(e.ran) /\ Len(e.ran) = Len(d.ran) + 1 /\ Len(e.todo) = Len(d.todo) - 1
        /\ Len(d.ran) \in Nat /\ Len(d.todo) \in Nat /\ Len(d.todo) > 0 /\ d.todo[1] = Head(d.todo)
        /\ DOMAIN d.ran = 1 .. Len(d.ran) /\ DOMAIN e.ran = 1 .. Len(d.ran) + 1
        /\ \A k \in 1 .. Len(d.ran) : e.ran[k] = d.ran[k]
        /\ e.ran[Len(d.ran) + 1] = episode
        /\ \A k \in 1 .. Len(d.todo) - 1 : e.todo[k] = d.todo[k + 1]
        /\ e.todo = <<>> <=> Len(d.todo) = 1
    BY <2>2, <2>7, Sequences
  <2>9. RunnerOk(e)
    BY <2>2, <2>7, <2>8 DEF RunnerOk
  <2>10. RanSound(e, tree)
    <3> SUFFICES ASSUME NEW k \in 1 .. Len(d.ran) + 1
                 PROVE  EpisodeSound(e, tree, e.ran[k])
      BY <2>8 DEF RanSound
    <3>1. EpisodeSound(d, tree, e.ran[k])
      <4>1. CASE k \in 1 .. Len(d.ran)
        BY <4>1, <2>2, <2>8 DEF RanSound
      <4>2. CASE k = Len(d.ran) + 1
        BY <4>2, <2>5, <2>8
      <4> QED BY <4>1, <4>2, <2>8
    <3> QED BY <3>1, <2>7 DEF EpisodeSound, LockedProgram
  <2>11. RegressionSound(e, tree, disk)
    <3> SUFFICES ASSUME d.cmd = "regression" PROVE RegressionSound(e, tree, disk)
      BY <2>7 DEF RegressionSound
    <3> DEFINE cases == Cases(d, tree)
               r == Len(d.ran)
               n == Len(d.todo)
    <3>1. Cases(e, tree) = cases
      BY <2>7 DEF Cases
    <3>2. /\ r + n = Len(cases)
          /\ \A k \in 1 .. n : d.todo[k] = cases[r + k].image /\ (~d.disturbed => Stored(cases[r + k], disk))
          /\ ~d.disturbed => \A k \in 1 .. r : Matches(cases[k], d.ran[k].image)
      BY <1>2, <2>2, <2>8 DEF RegressionSound
    <3> HIDE DEF cases
    <3>3. ~d.disturbed => Matches(cases[r + 1], episode.image)
      <4>1. 1 \in 1 .. n
        BY <2>8
      <4>2. d.todo[1] = cases[r + 1].image /\ (~d.disturbed => Stored(cases[r + 1], disk))
        BY <3>2, <4>1
      <4> QED BY <2>4, <2>8, <4>2 DEF Stored, Matches
    <3>4. ~d.disturbed => \A k \in DOMAIN e.ran : Matches(cases[k], e.ran[k].image)
      <4> SUFFICES ASSUME ~d.disturbed, NEW k \in 1 .. r + 1
                   PROVE  Matches(cases[k], e.ran[k].image)
        BY <2>8
      <4>1. CASE k \in 1 .. r
        BY <4>1, <2>8, <3>2
      <4>2. CASE k = r + 1
        BY <4>2, <2>8, <3>3
      <4> QED BY <4>1, <4>2, <2>8
    <3>5. Len(e.ran) + Len(e.todo) = Len(cases) /\ Len(e.ran) <= Len(cases) /\ Len(e.ran) = r + 1
      <4> HIDE DEF r, n
      <4>1. r \in Nat /\ n \in Nat /\ n > 0 /\ Len(e.ran) = r + 1 /\ Len(e.todo) = n - 1
        BY <2>8 DEF r, n
      <4>2. r + n = Len(cases)
        BY <3>2
      <4> QED BY <4>1, <4>2
    <3>6. ASSUME NEW k \in 1 .. Len(e.todo)
          PROVE  /\ e.todo[k] = cases[Len(e.ran) + k].image
                 /\ ~d.disturbed => Stored(cases[Len(e.ran) + k], disk)
      <4>1. k + 1 \in 1 .. n /\ r + (k + 1) = Len(e.ran) + k /\ e.todo[k] = d.todo[k + 1]
        <5>1. r \in Nat /\ n \in Nat /\ n > 0 /\ Len(e.ran) = r + 1 /\ Len(e.todo) = n - 1
          BY <2>8
        <5>2. k \in 1 .. n - 1
          BY <5>1
        <5>3. e.todo[k] = d.todo[k + 1]
          BY <2>8, <5>2
        <5> HIDE DEF r, n
        <5> QED BY <5>1, <5>2, <5>3
      <4> QED BY <3>2, <4>1
    <3>7. e.pc = "ended" /\ e.status = 0 => Len(e.ran) = Len(cases)
      BY <2>7, <2>8, <3>2
    <3> QED BY <2>7, <3>1, <3>4, <3>5, <3>6, <3>7 DEF RegressionSound
  <2>12. Doing(e, tree, disk, built, bundle)
    <3>1. /\ NamedSound(e, tree, disk, bundle) /\ BuiltSound(e, tree, built) /\ OpenedSound(e, tree, bundle)
          /\ ReadySound(e, tree, bundle)
      BY <2>2, <2>7 DEF NamedSound, BuiltSound, OpenedSound, ReadySound
    <3> QED BY <2>2, <2>7, <2>9, <2>10, <2>11, <3>1 DEF Running, Doing
  <2>13. Become(p, e)
    BY <2>1 DEF e
  <2>14. Processes'
    <3>1. SimsMove(tree, built, built') /\ Doing(e, tree, disk, built', bundle)
      BY <1>1, <2>12 DEF SimsMove
    <3> QED BY <1>1, <2>13, <3>1, OneActs
  <2>15. Summaries'
    <3> DEFINE sum == [named |-> d.named, ran |-> episode, disturbed |-> d.disturbed]
               key == <<Profile(p), Suffix(p)>>
    <3>1. CASE ~Benchmark(p)
      BY <2>1, <3>1 DEF IInv, Summaries
    <3>2. CASE Benchmark(p)
      <4>1. Benchmark(p) => d.cmd = "run_coremark"
        BY DEF Benchmark
      <4>2. /\ d.named.signature = Signatures[tree][d.config]
            /\ d.reference = None <=> d.named.adapter = External("no-difftest")
            /\ ~d.disturbed => d.named.adapter = LoadedOf(d, bundle) /\ d.named.image = disk[Head(d.todo)]
        BY <1>2, <2>2, <3>2, <4>1 DEF NamedSound, sha256
      <4>3. \A field \in {"trace", "options", "sources", "harness"} :
              episode.simulator[field] = d.named.signature[field]
        BY <1>2, <2>4, <4>2, MyProfile, SignatureNamesProduct
      <4>4. Suffix(p) = "" <=> d.named.adapter = External("no-difftest")
        BY <4>2 DEF Suffix
      <4>5. SummarySound(Suffix(p), sum)
        <5>1. sum.named = d.named /\ sum.ran = episode /\ sum.disturbed = d.disturbed
          OBVIOUS
        <5> HIDE DEF sum
        <5> QED BY <2>4, <4>2, <4>3, <4>4, <5>1 DEF SummarySound, sha256
      <4>6. perf' = [perf EXCEPT ![key] = sum] /\ DOMAIN perf = Profiles \X {"", "-difftest"}
        BY <2>1, <3>2 DEF episode, IInv, Tables
      <4> HIDE DEF sum
      <4>7. ASSUME NEW profile \in Profiles, NEW suffix \in {"", "-difftest"}
            PROVE  SummarySound(suffix, perf'[<<profile, suffix>>])
        <5>1. CASE <<profile, suffix>> = key
          <6>1. perf'[<<profile, suffix>>] = sum /\ suffix = Suffix(p)
            BY <4>6, <5>1
          <6> QED BY <6>1, <4>5
        <5>2. CASE <<profile, suffix>> # key
          <6>1. perf'[<<profile, suffix>>] = perf[<<profile, suffix>>]
            BY <4>6, <5>2
          <6> QED BY <6>1 DEF IInv, Summaries
        <5> QED BY <5>1, <5>2
      <4> QED BY <4>7 DEF Summaries
    <3> QED BY <3>1, <3>2
  <2>16. Tables'
    <3>1. DOMAIN perf' = DOMAIN perf /\ DOMAIN proc' = Proc /\ t' = t
      BY <1>1, <2>1 DEF IInv, Tables, Become, t
    <3> QED BY <1>1, <3>1 DEF IInv, Tables
  <2>17. Bundles'
    BY <1>1 DEF IInv, Bundles
  <2> QED BY <2>14, <2>15, <2>16, <2>17 DEF IInv
<1> QED BY <1>3, <1>4

-----------------------------------------------------------------------------
(***************************************************************************)
(* The preparation of a bundle.                                            *)
(***************************************************************************)

LEMMA IsPreparer ==
  ASSUME IInv, NEW p \in Proc, proc[p].pc \in {"examine", "remove"} \cup Filling
  PROVE  Preparing(proc[p], tree, bundle)
BY IdleFacts DEF IInv, Processes, Doing, Running, RunnerOk, Filling

LEMMA PreparerGoes ==
  ASSUME NEW d, NEW i, NEW refs, NEW refs2, Preparing(d, i, refs), d.pc # "ended",
         NEW pc \in {"examine", "remove"} \cup Filling,
         pc \in Filling => Made(i, Head(d.todo), refs2[Head(d.todo)])
  PROVE  Preparing([d EXCEPT !.pc = pc], i, refs2)
<1> DEFINE e == [d EXCEPT !.pc = pc]
<1>1. /\ d = Preparer(d.pc, d.todo, d.force, d.status)
      /\ d.todo \in Seq(Profiles) /\ d.todo # <<>> /\ d.status = None
  BY DEF Preparing, PreparerRecord
<1>2. e = Preparer(pc, d.todo, d.force, d.status)
  BY <1>1, PreparerFields
<1> HIDE DEF e
<1>3. PreparerRecord(e) /\ e.pc = pc /\ e.todo = d.todo /\ e.status = None
  BY <1>1, <1>2, PreparerFields
<1>4. pc # "ended"
  BY DEF Filling
<1>5. Preparing(e, i, refs2)
  BY <1>1, <1>3, <1>4 DEF Preparing
<1> QED BY <1>5 DEF e

LEMMA PreparerEnds ==
  ASSUME NEW d, NEW i, NEW refs, NEW refs2, Preparing(d, i, refs), NEW status \in {0, 1}
  PROVE  Preparing(Ended(d, status), i, refs2)
<1> DEFINE m == [d EXCEPT !.pc = "ended"]
           e == [m EXCEPT !.status = main(status)]
<1>1. /\ d = Preparer(d.pc, d.todo, d.force, d.status)
      /\ d.todo \in Seq(Profiles) /\ d.todo # <<>>
  BY DEF Preparing, PreparerRecord
<1>2. m = Preparer("ended", d.todo, d.force, d.status)
  BY <1>1, PreparerFields
<1> HIDE DEF m
<1>3. e = Preparer("ended", d.todo, d.force, main(status))
  BY <1>2, PreparerFields
<1>4. Ended(d, status) = e
  BY DEF Ended, m
<1> HIDE DEF e
<1>5. PreparerRecord(e) /\ e.pc = "ended" /\ e.todo = d.todo /\ e.status = main(status)
  BY <1>3, PreparerFields
<1>6. main(status) \in {0, 2} /\ "ended" \notin Filling
  BY DEF main, Filling
<1> QED BY <1>1, <1>4, <1>5, <1>6 DEF Preparing

LEMMA PreparerNext ==
  ASSUME NEW d, NEW i, NEW refs, NEW refs2, Preparing(d, i, refs), d.pc # "ended"
  PROVE  Preparing(NextProfile(d), i, refs2)
<1>1. /\ d = Preparer(d.pc, d.todo, d.force, d.status)
      /\ d.todo \in Seq(Profiles) /\ d.todo # <<>> /\ d.status = None
  BY DEF Preparing, PreparerRecord
<1>2. CASE Len(d.todo) = 1
  BY <1>2, PreparerEnds DEF NextProfile
<1>3. CASE Len(d.todo) # 1
  <2> DEFINE rest == Tail(d.todo)
             m == [d EXCEPT !.pc = "examine"]
             e == [m EXCEPT !.todo = rest]
  <2>1. rest \in Seq(Profiles) /\ rest # <<>>
    <3>1. Sequence(d.todo)
      BY <1>1, OfItself
    <3> QED BY <1>1, <1>3, <3>1, Sequences
  <2>2. NextProfile(d) = e
    BY <1>3 DEF NextProfile
  <2> HIDE DEF rest
  <2>3. m = Preparer("examine", d.todo, d.force, d.status)
    BY <1>1, PreparerFields
  <2> HIDE DEF m
  <2>4. e = Preparer("examine", rest, d.force, d.status)
    BY <2>3, PreparerFields
  <2> HIDE DEF e
  <2>5. PreparerRecord(e) /\ e.pc = "examine" /\ e.todo = rest /\ e.status = None
    BY <1>1, <2>4, PreparerFields
  <2>6. "examine" \notin Filling
    BY DEF Filling
  <2> QED BY <2>1, <2>2, <2>5, <2>6 DEF Preparing
<1> QED BY <1>2, <1>3

(* The bundle that is prepared.                                            *)
LEMMA MyBundle ==
  ASSUME IInv, NEW p \in Proc, Preparing(proc[p], tree, bundle)
  PROVE  /\ BundleOf(p) \in Profiles /\ BundleOf(p) = Head(proc[p].todo)
         /\ tree \in DOMAIN Trees /\ DOMAIN bundle = Profiles /\ commands \in 0 .. MaxCommands
         /\ BundleSound(tree, BundleOf(p), bundle[BundleOf(p)], reported)
<1>1. BundleOf(p) \in Profiles /\ BundleOf(p) = Head(proc[p].todo)
  BY DEF BundleOf, Preparing
<1>2. tree \in DOMAIN Trees /\ DOMAIN bundle = Profiles /\ commands \in 0 .. MaxCommands
  BY DEF IInv, Tables
<1> QED BY <1>1, <1>2 DEF IInv, Bundles

LEMMA PrepareStartKeeps ==
  ASSUME IInv, NEW p \in Proc, PrepareStart(p)
  PROVE  IInv'
<1>1. PICK args \in PrepareArgs : Become(p, Preparer("examine", args[1], args[2], None))
  BY DEF PrepareStart, Preparer
<1> DEFINE d == Preparer("examine", args[1], args[2], None)
<1>2. PreparerRecord(d) /\ d.pc = "examine" /\ d.todo = args[1] /\ d.status = None
  BY PreparerFields
<1> HIDE DEF d
<1>3. args[1] \in Seq(Profiles) /\ args[1] # <<>> /\ "examine" \notin Filling
  BY SimConstants DEF Filling
<1>4. Doing(d, tree, disk, built, bundle)
  BY <1>2, <1>3 DEF Doing, Preparing
<1>5. Become(p, d)
  BY <1>1 DEF d
<1> QED BY <1>4, <1>5, Beginning, OnlyProcess DEF PrepareStart

(* A preparation that fails.                                               *)
LEMMA PreparerFails ==
  ASSUME IInv, NEW p \in Proc, Preparing(proc[p], tree, bundle), Fail(p),
         UNCHANGED <<tree, config, disk, built, bundle, perf, reported, commands, faults>>
  PROVE  IInv'
<1>1. Doing(Ended(proc[p], 1), tree, disk, built, bundle)
  BY PreparerEnds DEF Doing
<1> QED BY <1>1, MyBundle, OnlyProcess DEF Fail

(* A preparation reports the bundle: it is what the checkout asks for.     *)
LEMMA Reports ==
  ASSUME IInv, NEW p \in Proc, Preparing(proc[p], tree, bundle), proc[p].pc # "ended",
         Become(p, NextProfile(proc[p])), Report(BundleOf(p)),
         UNCHANGED <<tree, config, disk, built, bundle, perf, commands, faults>>,
         Made(tree, BundleOf(p), bundle[BundleOf(p)])
         \/ Kept(BundleOf(p))
  PROVE  IInv'
<1> DEFINE profile == BundleOf(p)
           b == bundle[profile]
<1>1. profile \in Profiles /\ reported' = reported \cup {<<"adapter", profile>>}
  BY MyBundle DEF Report
<1>2. Processes'
  <2>1. Doing(NextProfile(proc[p]), tree, disk, built', bundle) /\ SimsMove(tree, built, built')
    BY PreparerNext DEF Doing, SimsMove
  <2> QED BY <2>1, OneActs
<1>3. Tables'
  <2>1. reported \subseteq {"sources", "adapter"} \X Profiles
    BY DEF IInv, Tables
  <2>2. reported' \subseteq {"sources", "adapter"} \X Profiles
    BY <1>1, <2>1
  <2>3. \A o : <<"sources", o>> \in reported' => <<"sources", o>> \in reported
    BY <1>1
  <2>4. DOMAIN proc' = Proc /\ t' = t
    BY DEF IInv, Tables, Become, t
  <2> QED BY <2>2, <2>3, <2>4 DEF IInv, Tables
<1>4. Fresh(tree, profile, b)
  <2>1. CASE Made(tree, profile, b)
    BY <2>1, MadeIsFresh
  <2>2. CASE Kept(profile)
    <3> DEFINE m == b["manifest"]
               commit == Trees[tree].nemu.profiles[profile].commit
               source == sha256(Trees[tree].adapter_source)
    <3>1. /\ b # None /\ {"manifest", "adapter", "raw"} \subseteq DOMAIN b /\ m # None
          /\ m.workbench_commit = commit /\ m.adapter_source_sha256 = source
      BY <2>2 DEF Kept, Has, Wanted, t
    <3>2. b["adapter"] = m.adapter_sha256 /\ b["raw"] = m.raw_sha256
      BY <2>2 DEF Kept, Recorded, sha256
    <3>3. BundleSound(tree, profile, b, reported)
      BY MyBundle
    <3>4. AdapterOf(tree, profile) = [profile |-> profile, commit |-> commit, source |-> source]
      BY DEF AdapterOf, sha256
    <3> HIDE DEF b, m, commit, source
    <3>5. /\ m.raw_sha256 = m.workbench_commit
          /\ m.adapter_sha256 = [profile |-> profile, commit |-> m.workbench_commit, source |-> m.adapter_source_sha256]
      BY <3>1, <3>3 DEF BundleSound, m
    <3>6. b["raw"] = commit /\ b["adapter"] = AdapterOf(tree, profile)
      BY <3>1, <3>2, <3>4, <3>5
    <3> QED BY <3>1, <3>6 DEF Fresh, m, commit, source
  <2> QED BY <2>1, <2>2
<1>5. Bundles'
  <2> SUFFICES ASSUME NEW o \in Profiles
               PROVE  BundleSound(tree, o, bundle[o], reported')
    BY DEF Bundles
  <2>1. BundleSound(tree, o, bundle[o], reported)
    BY DEF IInv, Bundles
  <2>2. CASE o = profile
    <3> HIDE DEF b, profile
    <3>1. bundle[o] = b
      BY <2>2 DEF b
    <3> QED BY <1>4, <2>1, <2>2, <3>1 DEF BundleSound
  <2>3. CASE o # profile
    <3>1. <<"adapter", o>> \in reported' => <<"adapter", o>> \in reported
      BY <1>1, <2>3
    <3> QED BY <2>1, <3>1 DEF BundleSound
  <2> QED BY <2>2, <2>3
<1>6. Summaries'
  BY DEF IInv, Summaries
<1> QED BY <1>2, <1>3, <1>5, <1>6 DEF IInv

LEMMA ExamineKeeps ==
  ASSUME IInv, NEW p \in Proc, Examine(p)
  PROVE  IInv'
<1> DEFINE d == proc[p]
<1>1. At(p, "examine") /\ UNCHANGED <<tree, config, disk, built, bundle, perf, commands, faults>>
  BY DEF Examine
<1>2. Preparing(d, tree, bundle) /\ d.pc = "examine"
  BY <1>1, IsPreparer DEF At
<1>3. CASE bundle[BundleOf(p)] = None /\ Goto(p, "extract") /\ UNCHANGED reported
  <2>1. Made(tree, Head(d.todo), bundle[Head(d.todo)])
    BY <1>2, <1>3, MyBundle DEF Made
  <2>2. Doing([d EXCEPT !.pc = "extract"], tree, disk, built, bundle)
    BY <1>2, <2>1, PreparerGoes DEF Doing, Filling
  <2> QED BY <1>1, <1>2, <1>3, <2>2, MyBundle, OnlyProcess DEF Goto
<1>4. CASE Goto(p, "remove") /\ UNCHANGED reported
  <2>1. Doing([d EXCEPT !.pc = "remove"], tree, disk, built, bundle)
    BY <1>2, PreparerGoes DEF Doing, Filling
  <2> QED BY <1>1, <1>2, <1>4, <2>1, MyBundle, OnlyProcess DEF Goto
<1>5. CASE Kept(BundleOf(p)) /\ Become(p, NextProfile(d)) /\ Report(BundleOf(p))
  BY <1>1, <1>2, <1>5, Reports
<1>6. CASE Fail(p) /\ UNCHANGED reported
  BY <1>1, <1>2, <1>6, PreparerFails
<1> QED BY <1>3, <1>4, <1>5, <1>6 DEF Examine

LEMMA SumsKeeps ==
  ASSUME IInv, NEW p \in Proc, PrepareSums(p)
  PROVE  IInv'
<1>1. At(p, "sums") /\ UNCHANGED <<tree, config, disk, built, bundle, perf, commands, faults>>
  BY DEF PrepareSums
<1>2. Preparing(proc[p], tree, bundle) /\ proc[p].pc = "sums"
  BY <1>1, IsPreparer DEF At, Filling
<1>3. Made(tree, BundleOf(p), bundle[BundleOf(p)])
  BY <1>2 DEF Preparing, Filling, BundleOf
<1>4. CASE Become(p, NextProfile(proc[p])) /\ Report(BundleOf(p))
  BY <1>1, <1>2, <1>3, <1>4, Reports
<1>5. CASE Fail(p) /\ UNCHANGED reported
  BY <1>1, <1>2, <1>5, PreparerFails
<1> QED BY <1>4, <1>5 DEF PrepareSums

-----------------------------------------------------------------------------
(***************************************************************************)
(* The files of a bundle.                                                  *)
(***************************************************************************)

(* What a preparation for checkout i writes in a file; None is a manifest  *)
(* cut short.                                                              *)
Right(i, profile, file, content) ==
  LET commit == Trees[i].nemu.profiles[profile].commit
  IN  /\ file \in {"source", "raw"} => content = commit
      /\ file = "adapter" => content = AdapterOf(i, profile)
      /\ file = "manifest" /\ content # None =>
            /\ content.workbench_commit = commit /\ content.raw_sha256 = commit
            /\ content.adapter_sha256 = AdapterOf(i, profile)
            /\ content.adapter_source_sha256 = sha256(Trees[i].adapter_source)

WithFile(b, file, content) ==
  [f \in (IF b = None THEN {} ELSE DOMAIN b) \cup {file} |-> IF f = file THEN content ELSE b[f]]

LEMMA FilePut ==
  ASSUME NEW i, NEW profile, NEW b, NEW reports, Made(i, profile, b), BundleSound(i, profile, b, reports),
         NEW file \in {"source", "raw", "adapter", "manifest"}, NEW content, Right(i, profile, file, content)
  PROVE  /\ Made(i, profile, WithFile(b, file, content))
         /\ BundleSound(i, profile, WithFile(b, file, content), reports)
<1> DEFINE b2 == WithFile(b, file, content)
           commit == Trees[i].nemu.profiles[profile].commit
<1>1. /\ DOMAIN b2 \subseteq {"source", "raw", "adapter", "manifest"}
      /\ \A f \in DOMAIN b2 : IF f = file THEN b2[f] = content ELSE b # None /\ f \in DOMAIN b /\ b2[f] = b[f]
  BY DEF WithFile, BundleSound
<1> HIDE DEF b2
<1>2. /\ "source" \in DOMAIN b2 => b2["source"] = commit
      /\ "raw" \in DOMAIN b2 => b2["raw"] = commit
      /\ "adapter" \in DOMAIN b2 => b2["adapter"] = AdapterOf(i, profile)
  BY <1>1 DEF Made, Right
<1>3. "manifest" \in DOMAIN b2 /\ b2["manifest"] # None =>
        /\ b2["manifest"].workbench_commit = commit
        /\ b2["manifest"].adapter_source_sha256 = sha256(Trees[i].adapter_source)
        /\ b2["manifest"].raw_sha256 = commit
        /\ b2["manifest"].adapter_sha256 =
              [profile |-> profile, commit |-> commit, source |-> sha256(Trees[i].adapter_source)]
  <2>1. AdapterOf(i, profile) = [profile |-> profile, commit |-> commit, source |-> sha256(Trees[i].adapter_source)]
    BY DEF AdapterOf, sha256
  <2>2. CASE file = "manifest"
    BY <1>1, <2>1, <2>2 DEF Right
  <2>3. CASE file # "manifest"
    <3> SUFFICES ASSUME "manifest" \in DOMAIN b2, b2["manifest"] # None
                 PROVE  /\ b2["manifest"].workbench_commit = commit
                        /\ b2["manifest"].adapter_source_sha256 = sha256(Trees[i].adapter_source)
                        /\ b2["manifest"].raw_sha256 = commit
                        /\ b2["manifest"].adapter_sha256 =
                              [profile |-> profile, commit |-> commit, source |-> sha256(Trees[i].adapter_source)]
      OBVIOUS
    <3>1. b # None /\ "manifest" \in DOMAIN b /\ b2["manifest"] = b["manifest"]
      BY <1>1, <2>3
    <3>2. b["manifest"].workbench_commit = commit
          /\ b["manifest"].adapter_source_sha256 = sha256(Trees[i].adapter_source)
      BY <3>1 DEF Made
    <3>3. /\ b["manifest"].raw_sha256 = b["manifest"].workbench_commit
          /\ b["manifest"].adapter_sha256 = [profile |-> profile, commit |-> b["manifest"].workbench_commit,
                                             source |-> b["manifest"].adapter_source_sha256]
      BY <3>1 DEF BundleSound
    <3> QED BY <3>1, <3>2, <3>3
  <2> QED BY <2>2, <2>3
<1>4. Made(i, profile, b2)
  BY <1>2, <1>3 DEF Made
<1>5. AdapterOf(i, profile) = [profile |-> profile, commit |-> AdapterOf(i, profile).commit,
                               source |-> AdapterOf(i, profile).source]
      /\ AdapterOf(i, profile).commit = commit
  BY DEF AdapterOf
<1>6. BundleSound(i, profile, b2, reports)
  BY <1>1, <1>2, <1>3, <1>4, <1>5, MadeIsFresh DEF BundleSound
<1> QED BY <1>4, <1>6 DEF b2

(* A preparation writes a file and goes on.                                *)
LEMMA Written ==
  ASSUME IInv, NEW p \in Proc, Preparing(proc[p], tree, bundle), proc[p].pc \in Filling,
         NEW pc \in Filling, NEW file \in {"source", "raw", "adapter", "manifest"}, NEW content,
         Right(tree, BundleOf(p), file, content),
         PutFile(p, BundleOf(p), file, content, [proc[p] EXCEPT !.pc = pc]),
         UNCHANGED <<tree, config, disk, built, perf, reported, commands, faults>>
  PROVE  IInv'
<1> DEFINE profile == BundleOf(p)
           d == proc[p]
           b2 == WithFile(bundle[profile], file, content)
<1>1. /\ profile \in Profiles /\ profile = Head(d.todo) /\ DOMAIN bundle = Profiles
      /\ BundleSound(tree, profile, bundle[profile], reported)
  BY MyBundle
<1>2. Made(tree, profile, bundle[profile])
  BY <1>1 DEF Preparing
<1>3. /\ bundle' = [bundle EXCEPT ![profile] = b2]
      /\ proc' = [q \in Proc |-> IF q = p THEN [d EXCEPT !.pc = pc] ELSE Disturb(proc[q], profile)]
  BY DEF PutFile, WithFile
<1>4. Made(tree, profile, b2) /\ BundleSound(tree, profile, b2, reported)
  BY <1>1, <1>2, FilePut
<1> HIDE DEF b2, profile
<1>5. bundle'[profile] = b2 /\ DOMAIN bundle' = Profiles /\ \A o \in Profiles \ {profile} : bundle'[o] = bundle[o]
  BY <1>1, <1>3
<1>6. Doing([d EXCEPT !.pc = pc], tree, disk, built, bundle')
  <2>1. Made(tree, Head(d.todo), bundle'[Head(d.todo)])
    BY <1>1, <1>4, <1>5
  <2>2. d.pc # "ended"
    BY DEF Filling
  <2> QED BY <2>1, <2>2, PreparerGoes DEF Doing
<1>7. Processes'
  <2> DEFINE doing == [d EXCEPT !.pc = pc]
  <2>1. proc' = [q \in Proc |-> IF q = p THEN doing ELSE Disturb(proc[q], profile)]
        /\ Doing(doing, tree, disk, built, bundle')
    BY <1>3, <1>6
  <2>2. Made(tree, profile, bundle'[profile]) /\ Fresh(tree, profile, bundle'[profile])
    BY <1>4, <1>5, MadeIsFresh
  <2> HIDE DEF doing, d
  <2> QED BY <1>1, <1>5, <2>1, <2>2, OneWrites
<1>8. Tables'
  <2>1. DOMAIN proc' = Proc /\ t' = t
    BY <1>3 DEF t
  <2> QED BY <1>5, <2>1 DEF IInv, Tables
<1>9. Bundles'
  <2> SUFFICES ASSUME NEW o \in Profiles
               PROVE  BundleSound(tree, o, bundle'[o], reported)
    BY DEF Bundles
  <2>1. CASE o = profile
    BY <1>4, <1>5, <2>1
  <2>2. CASE o # profile
    BY <1>5, <2>2 DEF IInv, Bundles
  <2> QED BY <2>1, <2>2
<1>10. Summaries'
  BY DEF IInv, Summaries
<1> QED BY <1>7, <1>8, <1>9, <1>10 DEF IInv

LEMMA ExtractKeeps ==
  ASSUME IInv, NEW p \in Proc, Extract(p)
  PROVE  IInv'
<1>1. At(p, "extract") /\ UNCHANGED <<tree, config, disk, built, perf, reported, commands, faults>>
  BY DEF Extract
<1>2. Preparing(proc[p], tree, bundle) /\ proc[p].pc \in Filling
  BY <1>1, IsPreparer DEF At, Filling
<1>3. CASE PutFile(p, BundleOf(p), "source", Wanted(BundleOf(p)).commit, [proc[p] EXCEPT !.pc = "raw"])
  <2>1. Right(tree, BundleOf(p), "source", Wanted(BundleOf(p)).commit) /\ "raw" \in Filling
    BY DEF Right, Wanted, t, Filling
  <2> QED BY <1>1, <1>2, <1>3, <2>1, Written
<1>4. CASE Fail(p) /\ UNCHANGED bundle
  BY <1>1, <1>2, <1>4, PreparerFails
<1> QED BY <1>3, <1>4 DEF Extract

LEMMA RawKeeps ==
  ASSUME IInv, NEW p \in Proc, build_raw_nemu(p)
  PROVE  IInv'
<1>1. At(p, "raw") /\ UNCHANGED <<tree, config, disk, built, perf, reported, commands, faults>>
  BY DEF build_raw_nemu
<1>2. Preparing(proc[p], tree, bundle) /\ proc[p].pc \in Filling
  BY <1>1, IsPreparer DEF At, Filling
<1>3. CASE /\ Has(BundleOf(p), "source")
           /\ PutFile(p, BundleOf(p), "raw", bundle[BundleOf(p)]["source"], [proc[p] EXCEPT !.pc = "adapter"])
  <2>1. Made(tree, BundleOf(p), bundle[BundleOf(p)])
    BY <1>2 DEF Preparing, BundleOf
  <2>2. Right(tree, BundleOf(p), "raw", bundle[BundleOf(p)]["source"]) /\ "adapter" \in Filling
    BY <1>3, <2>1 DEF Right, Made, Has, Filling
  <2> QED BY <1>1, <1>2, <1>3, <2>2, Written
<1>4. CASE Fail(p) /\ UNCHANGED bundle
  BY <1>1, <1>2, <1>4, PreparerFails
<1> QED BY <1>3, <1>4 DEF build_raw_nemu

LEMMA AdapterKeeps ==
  ASSUME IInv, NEW p \in Proc, compile_adapter(p)
  PROVE  IInv'
<1>1. At(p, "adapter") /\ UNCHANGED <<tree, config, disk, built, perf, reported, commands, faults>>
  BY DEF compile_adapter
<1>2. Preparing(proc[p], tree, bundle) /\ proc[p].pc \in Filling
  BY <1>1, IsPreparer DEF At, Filling
<1>3. CASE PutFile(p, BundleOf(p), "adapter", Adapter(BundleOf(p)), [proc[p] EXCEPT !.pc = "manifest"])
  <2>1. Right(tree, BundleOf(p), "adapter", Adapter(BundleOf(p))) /\ "manifest" \in Filling
    BY DEF Right, AdapterOf, Adapter, Wanted, t, Filling
  <2> QED BY <1>1, <1>2, <1>3, <2>1, Written
<1>4. CASE Fail(p) /\ UNCHANGED bundle
  BY <1>1, <1>2, <1>4, PreparerFails
<1> QED BY <1>3, <1>4 DEF compile_adapter

LEMMA ManifestKeeps ==
  ASSUME IInv, NEW p \in Proc, PrepareManifest(p)
  PROVE  IInv'
<1> DEFINE b == bundle[BundleOf(p)]
           content == Manifest(BundleOf(p), b["raw"], b["adapter"])
<1>1. At(p, "manifest") /\ UNCHANGED <<tree, config, disk, built, perf, reported, commands, faults>>
  BY DEF PrepareManifest
<1>2. Preparing(proc[p], tree, bundle) /\ proc[p].pc \in Filling
  BY <1>1, IsPreparer DEF At, Filling
<1>3. CASE /\ Has(BundleOf(p), "raw") /\ Has(BundleOf(p), "adapter")
           /\ PutFile(p, BundleOf(p), "manifest", content, [proc[p] EXCEPT !.pc = "sums"])
  <2>1. Made(tree, BundleOf(p), b)
    BY <1>2 DEF Preparing, BundleOf
  <2>2. b["raw"] = Trees[tree].nemu.profiles[BundleOf(p)].commit /\ b["adapter"] = AdapterOf(tree, BundleOf(p))
    BY <1>3, <2>1 DEF Made, Has
  <2>3. /\ content.workbench_commit = Trees[tree].nemu.profiles[BundleOf(p)].commit
        /\ content.raw_sha256 = b["raw"] /\ content.adapter_sha256 = b["adapter"]
        /\ content.adapter_source_sha256 = sha256(Trees[tree].adapter_source)
    BY DEF Manifest, Wanted, t, sha256
  <2> HIDE DEF content
  <2>4. Right(tree, BundleOf(p), "manifest", content) /\ "sums" \in Filling
    BY <2>2, <2>3 DEF Right, Filling
  <2> QED BY <1>1, <1>2, <1>3, <2>4, Written
<1>4. CASE Fail(p) /\ UNCHANGED bundle
  BY <1>1, <1>2, <1>4, PreparerFails
<1> QED BY <1>3, <1>4 DEF PrepareManifest

-----------------------------------------------------------------------------
(***************************************************************************)
(* Removal, changes from outside and crashes.                              *)
(***************************************************************************)

(* Nothing that a process looks at in the bundle of this profile changes.  *)
LEMMA Unseen ==
  ASSUME NEW d, NEW i \in DOMAIN Trees, NEW images, NEW sims, NEW refs, NEW refs2, NEW profile,
         Doing(d, i, images, sims, refs),
         \A o \in Profiles \ {profile} : refs2[o] = refs[o],
         HasIn(refs2[profile], "adapter") <=> HasIn(refs[profile], "adapter"),
         HasIn(refs[profile], "adapter") => refs2[profile]["adapter"] = refs[profile]["adapter"],
         Made(i, profile, refs[profile]) => Made(i, profile, refs2[profile]),
         Fresh(i, profile, refs[profile]) => Fresh(i, profile, refs2[profile])
  PROVE  Doing(d, i, images, sims, refs2)
<1>1. CASE Preparing(d, i, refs)
  <2>1. Head(d.todo) \in Profiles
    BY <1>1 DEF Preparing
  <2>2. d.pc \in Filling => Made(i, Head(d.todo), refs2[Head(d.todo)])
    BY <1>1, <2>1 DEF Preparing
  <2> QED BY <1>1, <2>2 DEF Preparing, Doing
<1>2. CASE Running(d, i, images, sims, refs)
  <2>1. d.config.profile_id \in Profiles
    BY <1>2, AcceptedConfig DEF Running
  <2>2. LoadedOf(d, refs2) = LoadedOf(d, refs)
    BY <2>1 DEF LoadedOf
  <2>3. NamedSound(d, i, images, refs2) /\ OpenedSound(d, i, refs2)
    BY <1>2, <2>2 DEF Running, NamedSound, OpenedSound
  <2>4. ReadySound(d, i, refs2)
    BY <1>2, <2>1 DEF Running, ReadySound
  <2> QED BY <1>2, <2>3, <2>4 DEF Running, Doing
<1> QED BY <1>1, <1>2 DEF Doing

(* A step that changes one bundle and processes.                           *)
LEMMA OneBundle ==
  ASSUME IInv, NEW profile \in Profiles, NEW b2, bundle' = [bundle EXCEPT ![profile] = b2],
         BundleSound(tree, profile, b2, reported), DOMAIN proc' = Proc,
         UNCHANGED <<tree, config, disk, built, perf, reported, commands>>, faults' \in 0 .. MaxFaults
  PROVE  Tables' /\ Bundles' /\ Summaries'
<1>1. DOMAIN bundle = Profiles
  BY DEF IInv, Tables
<1>2. DOMAIN bundle' = Profiles /\ \A o \in Profiles : bundle'[o] = (IF o = profile THEN b2 ELSE bundle[o])
  BY <1>1
<1>3. Tables'
  BY <1>2 DEF IInv, Tables, t
<1>4. Bundles'
  <2> SUFFICES ASSUME NEW o \in Profiles
               PROVE  BundleSound(tree, o, bundle'[o], reported)
    BY DEF Bundles
  <2>1. CASE o = profile
    BY <1>2, <2>1
  <2>2. CASE o # profile
    BY <1>2, <2>2 DEF IInv, Bundles
  <2> QED BY <2>1, <2>2
<1>5. Summaries'
  BY DEF IInv, Summaries
<1> QED BY <1>3, <1>4, <1>5

LEMMA RemoveKeeps ==
  ASSUME IInv, NEW p \in Proc, RemoveTree(p)
  PROVE  IInv'
<1> DEFINE profile == BundleOf(p)
           b == bundle[profile]
           d == proc[p]
<1>1. At(p, "remove") /\ UNCHANGED <<tree, config, disk, built, perf, reported, commands, faults>>
  BY DEF RemoveTree
<1>2. Preparing(d, tree, bundle) /\ d.pc = "remove"
  BY <1>1, IsPreparer DEF At
<1>3. /\ profile \in Profiles /\ profile = Head(d.todo) /\ DOMAIN bundle = Profiles /\ tree \in DOMAIN Trees
      /\ BundleSound(tree, profile, b, reported) /\ faults \in 0 .. MaxFaults
  BY <1>2, MyBundle DEF IInv, Tables
<1>4. CASE Fail(p) /\ UNCHANGED bundle
  BY <1>1, <1>2, <1>4, PreparerFails
<1>5. CASE /\ b # None /\ DOMAIN b = {}
           /\ bundle' = [bundle EXCEPT ![profile] = None]
           /\ Goto(p, "extract")
  <2> DEFINE doing == [d EXCEPT !.pc = "extract"]
  <2>1. /\ bundle'[profile] = None /\ \A o \in Profiles \ {profile} : bundle'[o] = bundle[o]
    BY <1>3, <1>5
  <2>2. Doing(doing, tree, disk, built, bundle')
    <3>1. Made(tree, Head(d.todo), bundle'[Head(d.todo)])
      BY <1>3, <2>1 DEF Made
    <3> QED BY <1>2, <3>1, PreparerGoes DEF Doing, Filling
  <2>3. proc' = [proc EXCEPT ![p] = doing]
    BY <1>5 DEF Goto, Become
  <2>4. DOMAIN proc = Proc
    BY DEF IInv, Tables
  <2> HIDE DEF doing, d, profile
  <2>5. Processes'
    <3> SUFFICES ASSUME NEW q \in Proc
                 PROVE  Doing(proc'[q], tree, disk, built, bundle')
      BY <1>1 DEF Processes
    <3>1. CASE q = p
      BY <2>2, <2>3, <2>4, <3>1
    <3>2. CASE q # p
      <4>1. proc'[q] = proc[q] /\ Doing(proc[q], tree, disk, built, bundle)
        BY <2>3, <3>2 DEF IInv, Processes
      <4>2. /\ ~HasIn(bundle[profile], "adapter") /\ ~HasIn(bundle'[profile], "adapter")
            /\ Made(tree, profile, bundle'[profile]) /\ Fresh(tree, profile, bundle'[profile])
        BY <1>5, <2>1 DEF HasIn, Made, Fresh
      <4> QED BY <1>3, <2>1, <4>1, <4>2, Unseen
    <3> QED BY <3>1, <3>2
  <2>6. DOMAIN proc' = Proc /\ BundleSound(tree, profile, None, reported)
    BY <2>3, <2>4 DEF BundleSound
  <2>7. Tables' /\ Bundles' /\ Summaries'
    BY <1>1, <1>3, <1>5, <2>6, OneBundle
  <2> QED BY <2>5, <2>7 DEF IInv
<1>6. ASSUME NEW file \in DOMAIN b, b # None,
             bundle' = [bundle EXCEPT ![profile] = [f \in DOMAIN @ \ {file} |-> @[f]]],
             proc' = [q \in Proc |-> Disturb(proc[q], profile)]
      PROVE  IInv'
  <2> DEFINE b2 == [f \in DOMAIN b \ {file} |-> b[f]]
  <2>1. bundle' = [bundle EXCEPT ![profile] = b2]
    BY <1>6
  <2>2. DOMAIN b2 \subseteq DOMAIN b /\ \A f \in DOMAIN b2 : b2[f] = b[f]
    OBVIOUS
  <2> HIDE DEF b2
  <2>3. /\ BundleSound(tree, profile, b2, reported)
        /\ Made(tree, profile, b) => Made(tree, profile, b2)
        /\ Fresh(tree, profile, b) => Fresh(tree, profile, b2)
    <3>1. Made(tree, profile, b) => Made(tree, profile, b2)
      BY <1>6, <2>2 DEF Made
    <3>2. Fresh(tree, profile, b) => Fresh(tree, profile, b2)
      BY <1>6, <2>2 DEF Fresh
    <3>3. BundleSound(tree, profile, b2, reported)
      BY <1>3, <1>6, <2>2, <3>2 DEF BundleSound
    <3> QED BY <3>1, <3>2, <3>3
  <2>4. bundle'[profile] = b2 /\ \A o \in Profiles \ {profile} : bundle'[o] = bundle[o]
    BY <1>3, <2>1
  <2>5. d = Disturb(d, profile)
    <3>1. "config" \notin DOMAIN d
      BY <1>2, PreparerHasNoConfig DEF Preparing
    <3> QED BY <3>1 DEF Disturb
  <2>6. Doing(d, tree, disk, built, bundle')
    <3>1. d.pc \notin Filling
      BY <1>2 DEF Filling
    <3> QED BY <1>2, <3>1 DEF Preparing, Doing
  <2>7. Processes'
    <3>1. proc' = [q \in Proc |-> IF q = p THEN d ELSE Disturb(proc[q], profile)]
      BY <1>6, <2>5
    <3>2. /\ Made(tree, profile, bundle[profile]) => Made(tree, profile, bundle'[profile])
          /\ Fresh(tree, profile, bundle[profile]) => Fresh(tree, profile, bundle'[profile])
      BY <2>3, <2>4
    <3> HIDE DEF d, profile
    <3> QED BY <1>1, <1>3, <2>4, <2>6, <3>1, <3>2, OneWrites
  <2>8. Tables' /\ Bundles' /\ Summaries'
    <3>1. DOMAIN proc' = Proc /\ faults' \in 0 .. MaxFaults
      BY <1>1, <1>3, <1>6
    <3> HIDE DEF profile
    <3> QED BY <1>1, <1>3, <2>1, <2>3, <3>1, OneBundle
  <2> QED BY <2>7, <2>8 DEF IInv
<1> QED BY <1>4, <1>5, <1>6 DEF RemoveTree

(* A checkout is taken, while no command runs.                             *)
LEMMA CheckoutKeeps ==
  ASSUME IInv, Checkout
  PROVE  IInv'
<1>1. tree' \in DOMAIN Trees
  BY SimConstants DEF Checkout, Trees
<1>2. /\ UNCHANGED <<config, disk, built, bundle, perf, commands, faults>>
      /\ reported' = {} /\ proc' = [p \in Proc |-> Idle]
  BY DEF Checkout
<1>3. Tables'
  BY <1>1, <1>2 DEF IInv, Tables
<1>4. Bundles'
  <2> SUFFICES ASSUME NEW o \in Profiles
               PROVE  BundleSound(tree', o, bundle[o], {})
    BY <1>2 DEF Bundles
  <2>1. BundleSound(tree, o, bundle[o], reported)
    BY DEF IInv, Bundles
  <2> QED BY <2>1 DEF BundleSound
<1>5. Summaries'
  BY <1>2 DEF IInv, Summaries
<1>6. Processes'
  BY <1>2 DEF Processes, Doing
<1> QED BY <1>3, <1>4, <1>5, <1>6 DEF IInv

LEMMA Faulty ==
  ASSUME IInv, Fault
  PROVE  faults' \in 0 .. MaxFaults
<1>1. faults \in 0 .. MaxFaults /\ faults > 0 /\ faults' = faults - 1
  BY DEF IInv, Tables, Fault
<1> QED BY <1>1, SimConstants

(* An image is replaced: every runner is told.                             *)
LEMMA AlterImageKeeps ==
  ASSUME IInv, AlterImage
  PROVE  IInv'
<1>1. /\ UNCHANGED <<tree, config, built, bundle, perf, reported, commands>>
      /\ faults' \in 0 .. MaxFaults
      /\ proc' = [q \in Proc |-> IF "config" \in DOMAIN proc[q] /\ ~At(q, "ended")
                                 THEN [proc[q] EXCEPT !.disturbed = TRUE] ELSE proc[q]]
  BY Faulty DEF AlterImage
<1>2. DOMAIN disk' = DOMAIN disk
  BY DEF AlterImage
<1>3. Tables'
  BY <1>1, <1>2 DEF IInv, Tables, t
<1>4. Bundles' /\ Summaries'
  BY <1>1 DEF IInv, Bundles, Summaries
<1>5. Processes'
  <2> SUFFICES ASSUME NEW q \in Proc
               PROVE  Doing(proc'[q], tree, disk', built, bundle)
    BY <1>1 DEF Processes
  <2> DEFINE d == proc[q]
  <2>1. proc'[q] = IF "config" \in DOMAIN d /\ d.pc # "ended" THEN [d EXCEPT !.disturbed = TRUE] ELSE d
    BY <1>1 DEF At
  <2>2. Doing(d, tree, disk, built, bundle)
    BY DEF IInv, Processes
  <2> HIDE DEF d
  <2>3. CASE d = Idle
    BY <2>1, <2>3, IdleFacts DEF Doing
  <2>4. CASE Preparing(d, tree, bundle)
    <3>1. "config" \notin DOMAIN d
      BY <2>4, PreparerHasNoConfig DEF Preparing
    <3> QED BY <2>1, <2>4, <3>1 DEF Doing
  <2>5. CASE Running(d, tree, disk, built, bundle)
    <3>1. "config" \in DOMAIN d
      BY <2>5 DEF Running, RunnerOk, RunnerRecord
    <3>2. CASE d.pc # "ended"
      <4>1. ReadySound(d, tree, bundle)
        BY <2>5 DEF Running
      <4> QED BY <2>1, <2>5, <3>1, <3>2, <4>1, Disturbed DEF Doing
    <3>3. CASE d.pc = "ended"
      <4>1. RegressionSound(d, tree, disk')
        BY <2>5, <3>3 DEF Running, RegressionSound
      <4>2. NamedSound(d, tree, disk', bundle)
        BY <3>3 DEF NamedSound
      <4> QED BY <2>1, <2>5, <3>3, <4>1, <4>2 DEF Doing, Running
    <3> QED BY <3>2, <3>3
  <2> QED BY <2>2, <2>3, <2>4, <2>5 DEF Doing
<1> QED BY <1>3, <1>4, <1>5 DEF IInv

(* A library of a bundle that is not being prepared is replaced.           *)
LEMMA Replaced ==
  ASSUME NEW i, NEW profile, NEW b, NEW reports, BundleSound(i, profile, b, reports), b # None, NEW b2,
         \/ "raw" \in DOMAIN b /\ b2 = [b EXCEPT !["raw"] = "elsewhere"]
         \/ "adapter" \in DOMAIN b /\ b2 = [b EXCEPT !["adapter"].commit = "elsewhere"]
  PROVE  BundleSound(i, profile, b2, reports) /\ (Fresh(i, profile, b) => Fresh(i, profile, b2))
<1>1. CASE "raw" \in DOMAIN b /\ b2 = [b EXCEPT !["raw"] = "elsewhere"]
  <2>1. DOMAIN b2 = DOMAIN b /\ b2["raw"] = "elsewhere" /\ \A f \in DOMAIN b \ {"raw"} : b2[f] = b[f]
    BY <1>1
  <2>2. Fresh(i, profile, b) => Fresh(i, profile, b2)
    BY <2>1 DEF Fresh
  <2> QED BY <2>1, <2>2 DEF BundleSound
<1>2. CASE "adapter" \in DOMAIN b /\ b2 = [b EXCEPT !["adapter"].commit = "elsewhere"]
  <2> DEFINE a == b["adapter"]
  <2>1. a = [profile |-> profile, commit |-> a.commit, source |-> a.source]
    BY <1>2 DEF BundleSound
  <2>2. [a EXCEPT !.commit = "elsewhere"] = [profile |-> profile, commit |-> "elsewhere", source |-> a.source]
    BY <2>1
  <2>3. /\ DOMAIN b2 = DOMAIN b /\ \A f \in DOMAIN b \ {"adapter"} : b2[f] = b[f]
        /\ b2["adapter"] = [profile |-> profile, commit |-> "elsewhere", source |-> a.source]
    BY <1>2, <2>2
  <2> HIDE DEF a
  <2>4. Fresh(i, profile, b) => Fresh(i, profile, b2)
    BY <2>3 DEF Fresh
  <2> QED BY <2>3, <2>4 DEF BundleSound
<1> QED BY <1>1, <1>2

LEMMA AlterBundleKeeps ==
  ASSUME IInv, AlterBundle
  PROVE  IInv'
<1>1. UNCHANGED <<tree, config, disk, built, perf, reported, commands>> /\ faults' \in 0 .. MaxFaults
  BY Faulty DEF AlterBundle
<1>2. PICK profile \in Profiles :
        /\ ~\E q \in Proc : "force" \in DOMAIN proc[q] /\ profile \in ToSet(proc[q].todo)
        /\ \/ Has(profile, "raw") /\ bundle' = [bundle EXCEPT ![profile]["raw"] = "elsewhere"]
           \/ Has(profile, "adapter") /\ bundle' = [bundle EXCEPT ![profile]["adapter"].commit = "elsewhere"]
        /\ proc' = [q \in Proc |-> Disturb(proc[q], profile)]
  BY DEF AlterBundle
<1> DEFINE b == bundle[profile]
<1>3. DOMAIN bundle = Profiles /\ tree \in DOMAIN Trees /\ BundleSound(tree, profile, b, reported)
  BY DEF IInv, Tables, Bundles
<1>4. PICK b2 : /\ bundle' = [bundle EXCEPT ![profile] = b2] /\ BundleSound(tree, profile, b2, reported)
                /\ Fresh(tree, profile, b) => Fresh(tree, profile, b2)
  <2>1. CASE Has(profile, "raw") /\ bundle' = [bundle EXCEPT ![profile]["raw"] = "elsewhere"]
    <3>1. bundle' = [bundle EXCEPT ![profile] = [b EXCEPT !["raw"] = "elsewhere"]]
      BY <2>1
    <3> QED BY <1>3, <2>1, <3>1, Replaced DEF Has
  <2>2. CASE Has(profile, "adapter") /\ bundle' = [bundle EXCEPT ![profile]["adapter"].commit = "elsewhere"]
    <3>1. bundle' = [bundle EXCEPT ![profile] = [b EXCEPT !["adapter"].commit = "elsewhere"]]
      BY <2>2
    <3> QED BY <1>3, <2>2, <3>1, Replaced DEF Has
  <2> QED BY <1>2, <2>1, <2>2
<1>5. /\ \A o \in Profiles \ {profile} : bundle'[o] = bundle[o]
      /\ Fresh(tree, profile, bundle[profile]) => Fresh(tree, profile, bundle'[profile])
  BY <1>3, <1>4
<1>6. Processes'
  <2> SUFFICES ASSUME NEW q \in Proc
               PROVE  Doing(Disturb(proc[q], profile), tree, disk, built, bundle')
    BY <1>1, <1>2 DEF Processes
  <2>1. Doing(proc[q], tree, disk, built, bundle)
    BY DEF IInv, Processes
  <2>2. ~("force" \in DOMAIN proc[q] /\ proc[q].pc \in Filling /\ Head(proc[q].todo) = profile)
    <3> SUFFICES ASSUME "force" \in DOMAIN proc[q], Head(proc[q].todo) = profile
                 PROVE  FALSE
      OBVIOUS
    <3>1. Preparing(proc[q], tree, bundle)
      BY <2>1, IdleFacts, RunnerHasNoForce DEF Doing, Running, RunnerOk
    <3>2. Sequence(proc[q].todo) /\ proc[q].todo # <<>>
      BY <3>1, OfItself DEF Preparing
    <3> DEFINE todo == proc[q].todo
    <3> HIDE DEF todo
    <3>3. Len(todo) > 0 /\ Head(todo) = todo[1] /\ DOMAIN todo = 1 .. Len(todo) /\ Len(todo) \in Nat
      BY <3>2, Sequences DEF todo
    <3>4. Head(todo) \in ToSet(todo)
      BY <3>3 DEF ToSet
    <3> QED BY <1>2, <3>4 DEF todo
  <2> QED BY <1>3, <1>5, <2>1, <2>2, WhileWritten
<1>7. DOMAIN proc' = Proc
  BY <1>2
<1>8. Tables' /\ Bundles' /\ Summaries'
  BY <1>1, <1>4, <1>7, OneBundle
<1> QED BY <1>6, <1>8 DEF IInv

LEMMA CrashKeeps ==
  ASSUME NoneIsNoRecord, IInv, NEW p \in Proc, Crash(p)
  PROVE  IInv'
<1>1. /\ UNCHANGED <<tree, config, disk, built, perf, reported, commands>> /\ faults' \in 0 .. MaxFaults
      /\ Become(p, Idle)
  BY Faulty DEF Crash
<1>2. DOMAIN proc = Proc /\ DOMAIN bundle = Profiles /\ tree \in DOMAIN Trees
  BY DEF IInv, Tables
<1>3. proc' = [proc EXCEPT ![p] = Idle] /\ DOMAIN proc' = Proc
  BY <1>1, <1>2 DEF Become
<1>4. CASE UNCHANGED bundle
  <2>1. Tables'
    BY <1>1, <1>3, <1>4 DEF IInv, Tables, t
  <2>2. Bundles' /\ Summaries'
    BY <1>1, <1>4 DEF IInv, Bundles, Summaries
  <2>3. Processes'
    BY <1>1, <1>2, <1>3, <1>4 DEF IInv, Processes, Doing
  <2> QED BY <2>1, <2>2, <2>3 DEF IInv
<1>5. CASE /\ At(p, "manifest") /\ bundle[BundleOf(p)] # None
           /\ bundle' = [bundle EXCEPT ![BundleOf(p)] =
                [f \in DOMAIN @ \cup {"manifest"} |-> IF f = "manifest" THEN None ELSE @[f]]]
  <2> DEFINE profile == BundleOf(p)
             b == bundle[profile]
             b2 == WithFile(b, "manifest", None)
  <2>1. Preparing(proc[p], tree, bundle) /\ proc[p].pc \in Filling
    BY <1>5, IsPreparer DEF At, Filling
  <2>2. /\ profile \in Profiles /\ profile = Head(proc[p].todo)
        /\ BundleSound(tree, profile, b, reported) /\ Made(tree, profile, b)
    BY <2>1, MyBundle DEF Preparing
  <2>3. bundle' = [bundle EXCEPT ![profile] = b2]
    BY <1>5 DEF WithFile
  <2>4. Made(tree, profile, b2) /\ BundleSound(tree, profile, b2, reported)
    <3>1. Right(tree, profile, "manifest", None)
      BY DEF Right
    <3> QED BY <2>2, <3>1, FilePut
  <2>5. /\ HasIn(b2, "adapter") <=> HasIn(b, "adapter")
        /\ HasIn(b, "adapter") => b2["adapter"] = b["adapter"]
    <3>1. /\ DOMAIN b2 = DOMAIN b \cup {"manifest"}
          /\ \A f \in DOMAIN b \ {"manifest"} : b2[f] = b[f]
      BY <1>5 DEF WithFile
    <3>2. b2 # None
      <4> DEFINE S == DOMAIN b \cup {"manifest"}
                 T == {IF f = "manifest" THEN None ELSE b[f] : f \in S}
      <4>1. b2 = [f \in S |-> IF f = "manifest" THEN None ELSE b[f]]
        BY <1>5 DEF WithFile
      <4>2. b2 \in [S -> T]
        BY <4>1
      <4> HIDE DEF S, T, b2
      <4> QED BY <4>2 DEF NoneIsNoRecord
    <3> HIDE DEF b2, b
    <3>3. b # None
      BY <1>5 DEF b
    <3> QED BY <3>1, <3>2, <3>3 DEF HasIn
  <2>6. bundle'[profile] = b2 /\ \A o \in Profiles \ {profile} : bundle'[o] = bundle[o]
    BY <1>2, <2>2, <2>3
  <2> HIDE DEF b2, profile
  <2>7. Processes'
    <3> SUFFICES ASSUME NEW q \in Proc
                 PROVE  Doing(proc'[q], tree, disk, built, bundle')
      BY <1>1 DEF Processes
    <3>1. CASE q = p
      BY <1>2, <1>3, <3>1 DEF Doing
    <3>2. CASE q # p
      <4>1. proc'[q] = proc[q] /\ Doing(proc[q], tree, disk, built, bundle)
        BY <1>3, <3>2 DEF IInv, Processes
      <4>2. Made(tree, profile, bundle'[profile]) /\ Fresh(tree, profile, bundle'[profile])
        BY <2>4, <2>6, MadeIsFresh
      <4> QED BY <1>2, <2>5, <2>6, <4>1, <4>2, Unseen
    <3> QED BY <3>1, <3>2
  <2>8. Tables' /\ Bundles' /\ Summaries'
    BY <1>1, <1>3, <2>2, <2>3, <2>4, OneBundle
  <2> QED BY <2>7, <2>8 DEF IInv
<1> QED BY <1>4, <1>5 DEF Crash

-----------------------------------------------------------------------------
(***************************************************************************)
(* The invariant.                                                          *)
(***************************************************************************)

LEMMA PreparedIsMade ==
  ASSUME NEW profile, t = Trees[1], NEW reports
  PROVE  BundleSound(1, profile, Prepared(profile), reports)
<1> DEFINE b == Prepared(profile)
           commit == Trees[1].nemu.profiles[profile].commit
           source == Trees[1].adapter_source
<1>1. /\ DOMAIN b = {"source", "raw", "adapter", "manifest"}
      /\ b["raw"] = commit /\ b["adapter"] = [profile |-> profile, commit |-> commit, source |-> source]
      /\ b["manifest"] = Manifest(profile, commit, Adapter(profile))
  BY DEF Prepared, Wanted, Adapter
<1>2. /\ Manifest(profile, commit, Adapter(profile)).workbench_commit = commit
      /\ Manifest(profile, commit, Adapter(profile)).raw_sha256 = commit
      /\ Manifest(profile, commit, Adapter(profile)).adapter_sha256 =
            [profile |-> profile, commit |-> commit, source |-> source]
      /\ Manifest(profile, commit, Adapter(profile)).adapter_source_sha256 = source
  BY DEF Manifest, Wanted, Adapter, sha256
<1>6. AdapterOf(1, profile) = [profile |-> profile, commit |-> commit, source |-> source]
  BY DEF AdapterOf
<1> HIDE DEF b, commit, source
<1>3. /\ b["manifest"].workbench_commit = commit /\ b["manifest"].raw_sha256 = commit
      /\ b["manifest"].adapter_sha256 = [profile |-> profile, commit |-> commit, source |-> source]
      /\ b["manifest"].adapter_source_sha256 = source
  BY <1>1, <1>2
<1>4. b["adapter"].commit = commit /\ b["adapter"].source = source
  BY <1>1
<1>7. Fresh(1, profile, b)
  BY <1>1, <1>3, <1>6 DEF Fresh, commit, source, sha256
<1>5. BundleSound(1, profile, b, reports)
  BY <1>1, <1>3, <1>4, <1>7 DEF BundleSound
<1> QED BY <1>5 DEF b

LEMMA InitHolds ==
  ASSUME Init
  PROVE  IInv
<1>1. tree = 1 /\ tree \in DOMAIN Trees /\ t = Trees[1]
  BY SimConstants DEF Init, Trees, t
<1>6. reported \subseteq {"adapter"} \X Profiles
  BY DEF Init
<1>2. Tables
  <2>1. DOMAIN built = Profiles /\ \A profile \in Profiles : DOMAIN built[profile] = {}
    <3>1. built = [profile \in Profiles |-> <<>>]
      BY DEF Init
    <3>2. DOMAIN <<>> = {}
      OBVIOUS
    <3> QED BY <3>1, <3>2
  <2>2. DOMAIN bundle = Profiles /\ DOMAIN perf = Profiles \X {"", "-difftest"} /\ DOMAIN proc = Proc
    BY DEF Init
  <2>3. commands \in 0 .. MaxCommands /\ faults \in 0 .. MaxFaults
    <3>1. commands = MaxCommands /\ faults = MaxFaults
      BY DEF Init
    <3>2. MaxCommands \in Nat /\ MaxFaults \in Nat
      BY SimConstants
    <3> QED BY <3>1, <3>2
  <2>4. config \in Configs /\ disk = StartDisk
    BY DEF Init
  <2>5. /\ reported \subseteq {"sources", "adapter"} \X Profiles
        /\ \A profile : <<"sources", profile>> \notin reported
    BY <1>6
  <2> QED BY <1>1, <2>1, <2>2, <2>3, <2>4, <2>5 DEF Tables
<1>3. Bundles
  <2> SUFFICES ASSUME NEW profile \in Profiles
               PROVE  BundleSound(1, profile, bundle[profile], reported)
    BY <1>1 DEF Bundles
  <2>1. bundle[profile] \in {Prepared(profile), None}
    BY DEF Init
  <2>2. BundleSound(1, profile, None, reported)
    BY DEF BundleSound
  <2> QED BY <1>1, <2>1, <2>2, PreparedIsMade
<1>4. Summaries
  <2>1. \A profile \in Profiles, suffix \in {"", "-difftest"} : perf[<<profile, suffix>>] = None
    BY DEF Init
  <2> QED BY <2>1 DEF Summaries, SummarySound
<1>5. Processes
  BY DEF Init, Processes, Doing
<1> QED BY <1>2, <1>3, <1>4, <1>5 DEF IInv

LEMMA NextKeeps ==
  ASSUME NoneIsNoRecord, IInv, [Next]_vars
  PROVE  IInv'
<1>1. CASE UNCHANGED vars
  <2>1. Tables'
    BY <1>1 DEF vars, IInv, Tables, t
  <2>2. Bundles' /\ Summaries' /\ Processes'
    BY <1>1 DEF vars, IInv, Bundles, Summaries, Processes
  <2> QED BY <2>1, <2>2 DEF IInv
<1>2. ASSUME NEW p \in Proc, dispatch(p) \/ runner(p) \/ build_profile(p) \/ Crash(p)
      PROVE  IInv'
  <2>1. CASE dispatch(p)
    BY <2>1, DispatchKeeps
  <2>2. CASE runner(p)
    BY <2>2, HashKeeps, BuildKeeps, MakeKeeps, RunKeeps, InitializeKeeps DEF runner
  <2>3. CASE build_profile(p)
    BY <2>3, PrepareStartKeeps, ExamineKeeps, RemoveKeeps, ExtractKeeps, RawKeeps, AdapterKeeps,
       ManifestKeeps, SumsKeeps DEF build_profile
  <2>4. CASE Crash(p)
    BY <2>4, CrashKeeps
  <2> QED BY <1>2, <2>1, <2>2, <2>3, <2>4
<1>3. CASE Checkout
  BY <1>3, CheckoutKeeps
<1>4. CASE AlterImage
  BY <1>4, AlterImageKeeps
<1>5. CASE AlterBundle
  BY <1>5, AlterBundleKeeps
<1> QED BY <1>1, <1>2, <1>3, <1>4, <1>5 DEF Next

(* What the invariant says holds after any commands, overlapping, refused, *)
(* killed or disturbed: flowctl.py, the runner and the preparation.        *)
THEOREM Inductive ==
  ASSUME NoneIsNoRecord
  PROVE  Spec => []IInv
<1>1. Init => IInv
  BY InitHolds
<1>2. IInv /\ [Next]_vars => IInv'
  BY NextKeeps
<1> QED BY <1>1, <1>2, PTL DEF Spec

-----------------------------------------------------------------------------
(***************************************************************************)
(* The properties.                                                         *)
(***************************************************************************)

LEMMA HasEnded ==
  ASSUME IInv, NEW p \in Proc, At(p, "ended"), proc[p].cmd \in Commands
  PROVE  Running(proc[p], tree, disk, built, bundle) /\ proc[p].pc = "ended"
<1>1. proc[p] # Idle /\ proc[p].pc = "ended"
  BY IdleFacts DEF At
<1>2. ASSUME Preparing(proc[p], tree, bundle)
      PROVE  FALSE
  <2>1. proc[p] = Preparer(proc[p].pc, proc[p].todo, proc[p].force, proc[p].status)
    BY <1>2 DEF Preparing, PreparerRecord
  <2>2. proc[p].cmd = "difftest-prepare"
    BY <2>1 DEF Preparer
  <2> QED BY <2>2 DEF Commands
<1> QED BY <1>1, <1>2 DEF IInv, Processes, Doing

(* Every command is in a step of its own, flowctl.py ends with status 0 or *)
(* 2, and files are where the code puts them.                              *)
THEOREM TypesHold ==
  ASSUME NoneIsNoRecord
  PROVE  Spec => []TypeOK
<1>1. IInv => TypeOK
  <2> SUFFICES ASSUME IInv PROVE TypeOK
    OBVIOUS
  <2>1. /\ tree \in DOMAIN Trees /\ config \in Configs /\ commands \in 0 .. MaxCommands /\ faults \in 0 .. MaxFaults
        /\ DOMAIN disk = DOMAIN StartDisk
        /\ \A profile \in Profiles : \A s \in DOMAIN built[profile] : s.profile = profile
        /\ reported \subseteq {"sources", "adapter"} \X Profiles
    BY DEF IInv, Tables
  <2>2. \A profile \in Profiles :
          bundle[profile] # None => DOMAIN bundle[profile] \subseteq {"source", "raw", "adapter", "manifest"}
    BY DEF IInv, Bundles, BundleSound
  <2>3. \A profile \in Profiles : \A suffix \in {"", "-difftest"} : perf[<<profile, suffix>>] # None =>
          (suffix = "" <=> perf[<<profile, suffix>>].named.adapter = External("no-difftest"))
    BY DEF IInv, Summaries, SummarySound
  <2>4. ASSUME NEW p \in Proc, ~At(p, "idle")
        PROVE  /\ proc[p].cmd \in Commands =>
                    /\ proc[p].pc \in {"runner", "build", "make", "run", "init", "ended"}
                    /\ proc[p].pc # "ended" => Len(proc[p].todo) > 0
               /\ proc[p].cmd \notin Commands =>
                    proc[p].pc \in {"examine", "remove", "extract", "raw", "adapter", "manifest", "sums", "ended"}
               /\ proc[p].status \in (IF At(p, "ended") THEN {0, 2} ELSE {None})
    <3> DEFINE d == proc[p]
    <3>1. d # Idle /\ Doing(d, tree, disk, built, bundle)
      BY <2>4, IdleFacts DEF At, IInv, Processes
    <3>2. (At(p, "ended") <=> d.pc = "ended")
      BY DEF At
    <3> HIDE DEF d
    <3>3. CASE Running(d, tree, disk, built, bundle)
      <4>1. /\ d.cmd \in Commands /\ d.pc \in {"runner", "build", "make", "run", "init", "ended"}
            /\ d.status \in (IF d.pc = "ended" THEN {0, 2} ELSE {None})
            /\ Sequence(d.todo) /\ (d.pc # "ended" => d.todo # <<>>)
        BY <3>3 DEF Running, RunnerOk
      <4>2. d.pc # "ended" => Len(d.todo) > 0
        BY <4>1, Sequences
      <4> QED BY <3>2, <4>1, <4>2 DEF d
    <3>4. CASE Preparing(d, tree, bundle)
      <4>1. /\ d = Preparer(d.pc, d.todo, d.force, d.status)
            /\ d.pc \in {"examine", "remove", "ended"} \cup Filling
            /\ d.status \in (IF d.pc = "ended" THEN {0, 2} ELSE {None})
        BY <3>4 DEF Preparing, PreparerRecord
      <4>2. d.cmd = "difftest-prepare"
        BY <4>1 DEF Preparer
      <4> QED BY <3>2, <4>1, <4>2 DEF d, Filling, Commands
    <3> QED BY <3>1, <3>3, <3>4 DEF Doing
  <2> QED BY <2>1, <2>2, <2>3, <2>4 DEF TypeOK
<1> QED BY <1>1, Inductive, PTL

(* What check_source_closure tells of the inventory of the runner, though  *)
(* each reads the filelist by rules of its own: a source that the runner   *)
(* takes is one that the audit takes too or one that it passes over.       *)
LEMMA WhatIsAudited ==
  ASSUME NEW profile, check_source_closure(t, profile), t.profiles[profile].wrapper_file = PROFILE_WRAPPERS(profile)
  PROVE  Audited(profile, Inventory(t, profile))
<1> DEFINE entries == Entries(t, profile, "source")
           s == RunnerSources(t, profile)
           taken == TakenSources(t, profile)
           skipped == SkippedSources(t, profile)
           locked == declared_allowlist(t, profile)
           sources == Inventory(t, profile)
           wrapper == PROFILE_WRAPPERS(profile)
<1>1. /\ taken \subseteq DOMAIN t.files
      /\ taken \ {wrapper} = DOMAIN locked
      /\ \A o \in taken \ {wrapper} : locked[o] \in {None, sha256(Text(t.files[o]))}
  BY DEF check_source_closure
<1>2. sources = [i \in DOMAIN s |-> <<s[i], sha256(Text(Resolved(t, s[i])))>>]
  BY DEF Inventory
<1>3. {s[i] : i \in DOMAIN s} = taken \cup skipped
  <2>1. ToSet(entries) = {entries[i] : i \in DOMAIN entries}
    BY DEF ToSet
  <2>2. s = [i \in DOMAIN entries |-> entries[i].value]
    BY DEF RunnerSources, Values
  <2>3. /\ taken = {e.value : e \in {o \in ToSet(entries) : ~Skipped(o)}}
        /\ skipped = {e.value : e \in {o \in ToSet(entries) : Skipped(o)}}
    BY DEF TakenSources, SkippedSources
  <2> HIDE DEF entries, s, taken, skipped
  <2>4. {s[i] : i \in DOMAIN s} = {e.value : e \in ToSet(entries)}
    BY <2>1, <2>2
  <2> QED BY <2>3, <2>4
<1> HIDE DEF s, taken, skipped, locked, sources, wrapper
<1>4. DOMAIN sources = DOMAIN s /\ \A i \in DOMAIN s : sources[i][1] = s[i]
  BY <1>2
<1>5. \A i \in DOMAIN s : s[i] \in DOMAIN locked => sources[i][2] = sha256(Text(t.files[s[i]]))
  <2> SUFFICES ASSUME NEW i \in DOMAIN s, s[i] \in DOMAIN locked
               PROVE  sources[i][2] = sha256(Text(t.files[s[i]]))
    OBVIOUS
  <2>1. Resolved(t, s[i]) = t.files[s[i]]
    BY <1>1 DEF Resolved
  <2> QED BY <1>2, <2>1
<1>6. DOMAIN locked \subseteq {sources[i][1] : i \in DOMAIN sources}
  BY <1>1, <1>3, <1>4
<1>7. ASSUME NEW i \in DOMAIN sources
      PROVE  IF sources[i][1] \in DOMAIN locked THEN locked[sources[i][1]] \in {None, sources[i][2]}
             ELSE sources[i][1] \in {wrapper} \cup skipped
  <2>1. i \in DOMAIN s /\ sources[i][1] = s[i] /\ s[i] \in taken \cup skipped
    BY <1>3, <1>4
  <2>2. CASE s[i] \in DOMAIN locked
    <3>1. locked[s[i]] \in {None, sha256(Text(t.files[s[i]]))}
      BY <1>1, <2>2
    <3> QED BY <1>5, <2>1, <2>2, <3>1
  <2>3. CASE s[i] \notin DOMAIN locked
    BY <1>1, <2>1, <2>3
  <2> QED BY <2>2, <2>3
<1> QED BY <1>6, <1>7 DEF Audited, locked, sources, wrapper, skipped

(* What a command ran is the simulator of its checkout and its .config;    *)
(* once the audit has passed it holds every locked source with its digest, *)
(* if it has one, and besides them the wrapper and what the audit passes   *)
(* over; a regression that passed ran every locked image and CoreMark the  *)
(* locked program; a summary names what ran.                               *)
THEOREM RunsSound ==
  ASSUME NoneIsNoRecord
  PROVE  Spec => []RunSound
<1>1. IInv => RunSound
  <2> SUFFICES ASSUME IInv PROVE RunSound
    OBVIOUS
  <2>1. ASSUME NEW p \in Proc, At(p, "ended"), proc[p].cmd \in Commands
        PROVE  /\ \A k \in DOMAIN proc[p].ran :
                    LET sim == proc[p].ran[k].simulator
                    IN  /\ sim = Built(p)
                        /\ <<"sources", Profile(p)>> \in reported => Audited(Profile(p), sim.sources)
               /\ proc[p].cmd = "regression" /\ proc[p].status = 0 =>
                    LET cases == t.regression[Profile(p)]
                    IN  /\ Len(proc[p].ran) = Len(cases)
                        /\ ~proc[p].disturbed => \A k \in DOMAIN cases :
                                cases[k].locked => sha256(proc[p].ran[k].image) = cases[k].sha256
               /\ Benchmark(p) /\ ~proc[p].disturbed => \A k \in DOMAIN proc[p].ran :
                    \E v \in variants(t.coremark, Profile(p)) :
                        sha256(proc[p].ran[k].image) = t.coremark.variants[v].binary_sha256
    <3> DEFINE d == proc[p]
               ran == d.ran
    <3>1. Running(d, tree, disk, built, bundle) /\ d.pc = "ended"
      BY <2>1, HasEnded
    <3>2. /\ RunnerOk(d) /\ d.config \in Accepted[tree] /\ RanSound(d, tree) /\ RegressionSound(d, tree, disk)
          /\ tree \in DOMAIN Trees /\ Profile(p) = d.config.profile_id /\ Built(p) = Products[tree][d.config]
      BY <3>1 DEF Running, IInv, Tables, Profile, Built
    <3>3. /\ Profile(p) \in Profiles
          /\ t.profiles[Profile(p)].wrapper_file = PROFILE_WRAPPERS(Profile(p))
          /\ Sequence(t.regression[Profile(p)])
      BY <3>2, AcceptedConfig DEF t
    <3>4. \A k \in DOMAIN ran : ran[k].simulator = Built(p)
      BY <3>2 DEF RanSound, EpisodeSound
    <3>5. <<"sources", Profile(p)>> \in reported => Audited(Profile(p), Built(p).sources)
      <4>1. Built(p) = Product(t, Profile(p), runner_command(d.config))
        BY <3>2 DEF Products, t
      <4>2. Built(p).sources = Inventory(t, Profile(p))
        BY <4>1 DEF Product
      <4>3. <<"sources", Profile(p)>> \in reported => check_source_closure(t, Profile(p))
        BY <3>3 DEF IInv, Tables
      <4> QED BY <3>3, <4>2, <4>3, WhatIsAudited
    <3>6. ASSUME d.cmd = "regression", d.status = 0
          PROVE  /\ Len(ran) = Len(t.regression[Profile(p)])
                 /\ ~d.disturbed => \A k \in DOMAIN t.regression[Profile(p)] :
                       t.regression[Profile(p)][k].locked =>
                          sha256(ran[k].image) = t.regression[Profile(p)][k].sha256
      <4> DEFINE cases == t.regression[Profile(p)]
      <4>1. Cases(d, tree) = cases
        BY <3>2 DEF Cases, t
      <4>2. Sequence(ran) /\ Sequence(cases)
        BY <3>2, <3>3 DEF RunnerOk
      <4>3. Len(ran) = Len(cases) /\ (~d.disturbed => \A k \in DOMAIN ran : Matches(cases[k], ran[k].image))
        BY <3>1, <3>2, <3>6, <4>1 DEF RegressionSound
      <4> HIDE DEF cases, ran
      <4>4. DOMAIN ran = DOMAIN cases
        BY <4>2, <4>3, Sequences
      <4> QED BY <4>3, <4>4 DEF Matches, cases
    <3>7. ASSUME Benchmark(p), ~d.disturbed, NEW k \in DOMAIN ran
          PROVE  \E v \in variants(t.coremark, Profile(p)) :
                    sha256(ran[k].image) = t.coremark.variants[v].binary_sha256
      BY <3>2, <3>7 DEF RanSound, EpisodeSound, LockedProgram, Benchmark, t
    <3> HIDE DEF ran
    <3> QED BY <3>4, <3>5, <3>6, <3>7 DEF ran
  <2>2. ASSUME NEW file \in DOMAIN perf, perf[file] # None
        PROVE  LET named == perf[file].named
                   ran == perf[file].ran
               IN  /\ \A field \in {"trace", "options", "sources", "harness"} :
                         ran.simulator[field] = named.signature[field]
                   /\ ~perf[file].disturbed => named.image = sha256(ran.image) /\ named.adapter = sha256(ran.adapter)
    <3>1. PICK profile \in Profiles, suffix \in {"", "-difftest"} : file = <<profile, suffix>>
      <4>1. file \in Profiles \X {"", "-difftest"}
        BY DEF IInv, Tables
      <4> DEFINE S == {"", "-difftest"}
      <4> HIDE DEF S
      <4>2. file \in Profiles \X S
        BY <4>1 DEF S
      <4>3. file[1] \in Profiles /\ file[2] \in S /\ file = <<file[1], file[2]>>
        BY <4>2
      <4> QED BY <4>3 DEF S
    <3> QED BY <2>2, <3>1 DEF IInv, Summaries, SummarySound
  <2> QED BY <2>1, <2>2 DEF RunSound
<1> QED BY <1>1, Inductive, PTL

(* The local adapter that default_reference_adapter accepts is a pair of   *)
(* one commit, the commit of its manifest, and, once its preparation has   *)
(* been reported, the commit and the adapter source that the metadata of   *)
(* the checkout ask for.  The adapter and the raw library that a command   *)
(* has loaded, one after the other, are those that this checkout asks for  *)
(* when a preparation had reported before the command started, whatever    *)
(* has rebuilt the bundle since; otherwise they are of one commit if       *)
(* nobody has touched the bundle.                                          *)
THEOREM ReferencesSound ==
  ASSUME NoneIsNoRecord
  PROVE  Spec => []ReferenceSound
<1>1. IInv => ReferenceSound
  <2> SUFFICES ASSUME IInv PROVE ReferenceSound
    OBVIOUS
  <2>1. ASSUME NEW profile \in Profiles, default_reference_adapter(profile)
        PROVE  LET b == bundle[profile]
               IN  /\ b["adapter"].profile = profile
                   /\ Pair(b["adapter"], b["raw"], b["manifest"].workbench_commit)
                   /\ <<"adapter", profile>> \in reported =>
                        /\ b["manifest"].workbench_commit = Wanted(profile).commit
                        /\ b["adapter"].source = t.adapter_source
    <3> DEFINE b == bundle[profile]
               m == b["manifest"]
    <3>1. /\ b # None /\ "manifest" \in DOMAIN b /\ m # None /\ "adapter" \in DOMAIN b /\ "raw" \in DOMAIN b
          /\ b["adapter"] = m.adapter_sha256 /\ b["raw"] = m.raw_sha256
      BY <2>1 DEF default_reference_adapter, Candidate, Recorded, Has, sha256
    <3>2. BundleSound(tree, profile, b, reported)
      BY DEF IInv, Bundles
    <3>3. /\ m.raw_sha256 = m.workbench_commit
          /\ m.adapter_sha256 = [profile |-> profile, commit |-> m.workbench_commit, source |-> m.adapter_source_sha256]
          /\ <<"adapter", profile>> \in reported =>
                /\ m.workbench_commit = Trees[tree].nemu.profiles[profile].commit
                /\ m.adapter_source_sha256 = sha256(Trees[tree].adapter_source)
      BY <3>1, <3>2 DEF BundleSound, Fresh
    <3>4. /\ b["adapter"].profile = profile /\ b["adapter"].commit = m.workbench_commit
          /\ b["adapter"].source = m.adapter_source_sha256
      BY <3>1, <3>3
    <3> HIDE DEF m
    <3> QED BY <3>1, <3>3, <3>4 DEF Pair, Wanted, t, sha256, m
  <2>2. ASSUME NEW p \in Proc, At(p, "ended"), proc[p].cmd \in Commands, proc[p].reference = "local",
               NEW k \in DOMAIN proc[p].ran
        PROVE  LET ran == proc[p].ran[k]
               IN  "elsewhere" \notin {ran.raw, ran.adapter.commit} =>
                     /\ ~proc[p].disturbed => Pair(ran.adapter, ran.raw, ran.raw)
                     /\ proc[p].ready =>
                          /\ Pair(ran.adapter, ran.raw, Wanted(Profile(p)).commit)
                          /\ ran.adapter.source = t.adapter_source
    <3>1. EpisodeSound(proc[p], tree, proc[p].ran[k])
      BY <2>2, HasEnded DEF Running, RanSound
    <3>2. /\ AdapterOf(tree, Profile(p)).commit = Wanted(Profile(p)).commit
          /\ AdapterOf(tree, Profile(p)).source = t.adapter_source
      BY DEF AdapterOf, Wanted, t
    <3> QED BY <2>2, <3>1, <3>2 DEF EpisodeSound, Pair, Profile, Wanted, t
  <2> QED BY <2>1, <2>2 DEF ReferenceSound
<1> QED BY <1>1, Inductive, PTL
=============================================================================
