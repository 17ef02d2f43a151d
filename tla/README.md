# A verification project for npc-riscv-open

TLA+ modules, TLC configurations and TLAPS proofs for the control logic of
`npc-riscv-open`: three RV32 processor cores in SystemVerilog/Verilog (called
*profiles*), the simulation harness that runs them and the Python flow that
builds them. It has two halves. In the out-of-order core instructions of
different ages complete, retire, are renamed and are cancelled on the same
clock edge. In the Python flow several commands work on one checkout and one
build tree, hash files and read them again much later, and may be killed
between any two writes; what they leave must still say truly what was made
from what.

In a model of RTL a step is one clock edge of the registers it covers. Signals
that the RTL computes combinationally are operators; registers are variables;
an input that another block drives is chosen by `\E` among the values that
block can present. In a model of the flow a step is what a command does
between two points at which another command, the user or a crash can change a
file it depends on; the variables are the files.

## Inventory

### The out-of-order profile (`rtl/profiles/rv32im_ooo_4k`)

| part | state it keeps | operations | what must hold |
|---|---|---|---|
| rename (`core/ooo_rename_dispatch_recovery_2w.sv`) | speculative and retired maps, ready bits, free bits, sticky identity error | rename 0-2, retire 0-2, wake up 0-2, snapshot, selective restore, global recovery | no physical register lost or held twice; every operand is its program-order producer; checkpoints exact |
| reorder buffer (`core/small_rob.sv`) | 8 entries, head, tail, count, a 2-bit generation per slot, store owner | allocate 0-2, record write-back, store done/fault, retire 0-2, squash behind a branch, flush | in-order retirement, no packet of a killed instruction accepted by a new owner of its slot |
| checkpoints (`core/ooo_branch_checkpoint_state_2w.sv`) | two checkpoints with the branch identity | allocate, release, look up, purge killed ones, clear | every unresolved branch has exactly one, every checkpoint a live branch |
| branch recovery (`core/ooo_branch_execute_age_recovery_1w.sv`) | a two-entry window of unresolved branches, ACTIVE/TRANSACTION/REDIRECT | admit, resolve, start, squash, redirect | a mispredicted branch always recovers, exactly once, in front of everything younger |
| control recovery (`core/ooo_pipeline_commit_control_recovery_1w.sv`) | IDLE/PENDING/RECOVER/REDIRECT, owner tag, target | a control completion, its retirement, recovery, redirect | one precise recovery per exception or system instruction, in program order; no stuck freeze |
| issue queue (`core/alu_issue_queue_1w.sv`) | 8 waiting instructions, their source-ready bits | insert 0-2, wake up, issue, flush, squash | no instruction issued before its operands or lost |
| decode buffer (`core/ooo_decode_bundle_elastic_2w.sv`) | up to two decoded instructions | fill, drain one or two, flush | order kept, nothing duplicated when one slot is taken |
| completion fabric (`execute/ooo_pipeline_completion_fabric_2w.sv`) | buffered results of each unit | collect, choose two, wake up, drop stale ones | no result lost, no wake-up without its result |
| load/store unit (`execute/ooo_lsu_pipeline_1w.sv`, `ooo_load_queue_2entry.sv`, `ooo_precise_store_buffer_4entry.sv`, `ooo_lsu_atomic_mem_arbiter_*.sv`) | outstanding loads, the stores accepted but not drained, owners of the memory port | issue, forward, respond, drain, cancel | a load sees the youngest older store; a cancelled load's answer reaches nobody |
| other units (ALU, multiply/divide, branch, atomic, serial executor) | one operation each | accept, compute, hand over, cancel | one answer per accepted operation |
| data line cache (`memory/ooo_data_line_cache.sv`) | lines with tag, data and who hid them; two requests below, each with a load that waits; two held answers | hit, miss, coalesce, hide, merge, show, invalidate, answer | cannot be told from the memory below it, except in speed |
| tagged bridge (`execute/ooo_pipeline_tagged_dpi_mem_bridge_2entry.sv`) and service (`sim/common/dpi_memory.cpp`) | a scoreboard of three, one held answer; a queue of two | accept, poll, capture, answer | each request performed and answered once, in the order accepted |
| page walkers (`memory/ooo_*sv32*.sv`) | one walk, its requester | translate, walk, flush | one walk per request, no answer across a flush |
| front end (`frontend/*.sv`) | fetch requests in flight with an epoch, predictors, return stack, line buffer | request, answer, predict, redirect | nothing of an old epoch is delivered |
| composition (`top/*.sv`) | freezes and epochs that connect the parts | | recovery is atomic over all parts |
| traces (`trace/*.sv`) | commit log and shadow registers | observe | pure observation |

Older variants stay in the tree and are not instantiated by the simulated core:
`core/rename_prf_core.sv`, `common/bbus_ooo_freelist.sv`,
`core/ooo_branch_commit_age_recovery_1w.sv`, `top/ooo_s2_alu1_standalone_top.sv`,
`top/cpu_top_ooo_shadow.sv`.

### The other profiles

`rv32im_single_perf` is a five-stage pipeline with instruction and data caches
(`cache/ICache.v`, `cache/DCache.v`), a multi-cycle multiplier (`Mdu.v`), CSRs
and an AXI bridge. `rv32ima_sv32_linux` adds privilege levels, traps
(`csr/TrapCtrl.v`), a TLB and page walks (`mmu/Sv32Tlb.v`, `lsu/Sv32LSUPipe.v`,
`frontend/Sv32*.v`), atomics and a timer (`lsu/AclintTimer.v`).

### Simulation and flow

| part | state it keeps | operations | what must hold |
|---|---|---|---|
| stage flow (`flows/scripts/asicctl.py`) | under the build root: macro databases, DC matrices, P&R runs, STA runs, each with manifest, results and `run.ok` | `lc-macros`, `dc-matrix`, `pnr`, `sta`, `evidence-check` | a command fills only a directory it made; a sealed run was made from the sources its identity names, out of a sealed run of the stage before; the scan reacts to setup timing alone |
| recovery (`recover_pnr_handoff.py`) | a new P&R run | completes the record of a run whose ORFS part ended but which was not sealed | the same as for an ordinary run |
| macro views (`prepare_sram_handoff.py`, `normalize_openram_lef.py`) | the SRAM handoff directory | prepare, audit a Liberty override, snap the LEF | the views are those the matrix pins |
| report parsers (`summarize_dc.py`, `summarize_pnr.py`, `summarize_sta.py`) | none | report to verdict | no verdict from an incomplete report |
| build and run (`flowctl.py`, `sim/common/verilator_runner.py`, `benchmark_contract.py`) | `.config`, a build directory per signature, CoreMark summaries | `defconfig`, `source-check`, `lint`, `sim`, `smoke`, `regression`, `difftest`, `coremark`, `opensbi-smoke` | what runs is what the checkout and `.config` ask for, with the locked images |
| reference adapter (`prepare_nemu_difftest.py`) | per profile a directory with source, raw library, adapter, manifest | `difftest-prepare`, with `--force` | an accepted bundle is a pair of one commit; a prepared one is the pair this checkout asks for |
| runtime (`verilator_main.cpp`, `dpi_memory.cpp`, `nemu_public_adapter.cpp`) | the simulated machine | open the adapter, let it open its raw library, run one image | the two libraries belong together (`SimBuild`); the memory service (`TaggedBridge`) |
| evidence checkers, drawing scripts | none | compare published files with fixed values | |

The commands interact through files only. `flowctl` reads `.config` and the
manifests under `delivery/`, `configs/` and `rtl/`, checks them, and starts the
runner, which reads the filelist again, hashes, builds and runs; `difftest`
takes the adapter that `difftest-prepare` left. In the ASIC flow each stage
finds the run of the previous stage by its path, checks its manifest against
the checkout (`require_handoff_identity`) and writes its own. Hard here: two
commands on one directory, a check and a use that are hours apart, a crash at
any point, an edit between two stages.

### How the parts of the out-of-order core interact

Decode offers two instructions; rename takes one or both if the reorder buffer,
the issue queue, the free registers and (for a branch) a checkpoint allow it,
and hands them to the reorder buffer and issue queue on the same edge. Units
answer in any order through the completion fabric, which gives at most two
results per edge to the reorder buffer, the ready bits and the recovery
controllers. The reorder buffer retires up to two results per edge in order; retirement
releases the previous names. A mispredicted branch freezes dispatch, cancels
everything younger in one transaction (reorder buffer, rename, issue queue,
checkpoints, units) and then redirects fetch. An exception or system
instruction is remembered when it completes and flushes the whole core when it
retires. Results of cancelled instructions may still arrive; the generation of
the reorder-buffer slot tells them from those of the slot's next owner.

## Modules, and how they correspond to the code

| module | models | state | a step |
|---|---|---|---|
| `RegRename` | `core/ooo_rename_dispatch_recovery_2w.sv`, closed with the in-order window it serves | `rat`, `rrat`, `ready`, `free`, `identity_error` are the registers of the same name; `rob` is the window, `trap` the edge between a control event and global recovery | `ClockEdge` completes, retires and renames up to two instructions at once; `RecoveryWait`, `SelectiveRestore`, `RetireControl`, `GlobalRecover` are the other branches of `rename_state` |
| `SmallRob` | `core/small_rob.sv`, with the dispatch rules, the LSU's store side and units that may replay | `head`, `tail`, `count`, `slot` (entries with their generation), `owner`, `store_done`, `identity_error`; around them `branches`, `recovering`, `memory`, `stale` | `ClockEdge`, `Squash`, `Flush` are the three branches of the `always_ff`; `MemoryAnswers` is the LSU's |
| `InOrderWindow` | what the reorder buffer promises | the instructions in flight, without indices or generations | `Edge`, `Cut`, `Flush` |
| `CheckpointState` | `core/ooo_branch_checkpoint_state_2w.sv` | `entry`, `oldest_idx`, the sticky errors | `CheckpointEdge` is its `always_comb` and register update |
| `ExecAgeRecovery` | `core/ooo_branch_execute_age_recovery_1w.sv` | `rec_state`, `window`, `pending_tag`, sticky errors | `RecoveryEdge` |
| `CommitControl` | `core/ooo_pipeline_commit_control_recovery_1w.sv` | `ctl_state`, `ctl_kind`, `ctl_tag`, the sticky error | `ControlEdge` |
| `BranchRecovery` | `top/ooo_pipeline_branch_recovery_standalone_top.sv` | the three above, the window, the front end's path | `Edge`: one clock edge of all of them |
| `MemoryPort` | what every client of the tagged data port relies on | `mem`, `answers` (those that are due) | `Step(r, a)`: a request is accepted and performed, an answer is taken, or both |
| `DataLineCache` | `memory/ooo_data_line_cache.sv`, with its client (`ooo_lsu_atomic_mem_arbiter_2e.sv`) | `line`, `meta`, `hit_rsp`, `waiter_rsp` are its registers; `mem`, `pending` the port below; `outstanding`, `store_generation` the client | `Edge`: one clock edge with a request, an answer from below and an answer taken above, each possibly absent |
| `TaggedBridge` | `execute/ooo_pipeline_tagged_dpi_mem_bridge_2entry.sv` and the tagged channel of `sim/common/dpi_memory.cpp` | `entry`, `response`, `retired` and the sticky errors; `queue`, `stored`, `failed` of the service; `owed` is the client's view | `Edge`: poll, capture, accept and answer on one edge |
| `AsicContract` | `asicctl.py` up to line 605: what a checkout must be to be built, and the identity fields of a handoff | none | pure operators |
| `DcScan` | `dc_frequency_decision`, `wns_navigation_eligible`, `parse_frequency_list`, the verdict of `summarize_dc.py` | none | pure operators |
| `StageReports` | the verdicts of `summarize_pnr.py`, `summarize_sta.py` and of recovery's route gate | none | pure operators |
| `SealedChain` | what the staged flow promises | the sealed runs | `Seal` |
| `AsicFlow` | the commands of the ASIC flow over one checkout and build tree | `tree` the checkout, `disk` the cell libraries, `sram`, `lc`, `dc`, `pnr`, `sta` the directories, `proc` the commands that run | one part of a command between two points of interference; `Fault`s: a library or netlist replaced, a process killed; `Checkout` |
| `SimContract` | the checks `flowctl`, the runner and the benchmark contract make before a build; a filelist is its tokens, each with what flowctl sees on its line, so that both readings of it are there | none | pure operators |
| `SimBuild` | the commands of the simulation flow over one checkout, with the start of the simulator | `tree`, `config`, `disk` the images, `built` the build directories, `bundle` the reference adapters, `perf` the summaries, `reported` what was printed, `proc` | as in `AsicFlow`; a bundle is written and removed file by file, and loaded in two steps: `Run` opens the adapter, `Initialize` the raw library beside it |

`MemoryPort` is used three times. `TaggedBridge` and `DataLineCache` each show
that what they offer above is a `MemoryPort` (`PortAbove`), and `DataLineCache`
runs on a `MemoryPort` below, so the two results chain: the load/store unit
sees a memory through both. The answers that are due above are a function of
the state: for the cache, those due below, a copy for each waiting load, and
the two that are held; for the bridge, those the queue will produce when it is
played to its end, which is also what the client sees as the memory.

`SmallRob` owns the circular buffer and shows (`Implements`, for every size by
`Refinement`) that it is an in-order window. `RegRename` and `BranchRecovery` therefore use a sequence for
the window. Both keep what `SmallRob` allows on one edge: two completions, two
retirements, completion and retirement of the same instruction, a mispredicted
branch that retires on the edge it completes, a squash that overtakes nothing.

Names follow the RTL without `_q`, `_c`, `_i`, `_o`. Definitions whose name
ends in `Bug` are mutated forms of the definition that follows them: nothing
uses them, and each one breaks the property it is kept for.

### What the models leave out

* Data. An instruction is its class, its registers and the outcome its unit
  will report; addresses, immediates, program counters and results are left
  out. `BranchRecovery` replaces the program counter by one bit of history:
  whether the front end is delivering what program order wants next. `Without`
  is the compaction that the code writes out for its two places.
* The wide variants selected by `localparam`s that the simulated core fixes.
* In `BranchRecovery`: the return-address stack and the map that a checkpoint
  stores (the map is in `RegRename`), `backend_atomic_recovery_block` of the
  serial executor, the external recovery input (tied off) and the counters.
* In `DataLineCache`: more than one way (the simulated core has one, so the
  replacement pointer does nothing), the options switched off, the causality
  counters, and requests whose length or client is illegal, which are never
  accepted. A store to PMEM is never answered with an error: the store buffer
  only takes stores that cannot fail
  (`ooo_precise_store_buffer_4entry.sv:6-10`). Stores are numbered modulo
  `Gens`; `FirstGen = 1` stands for a core that has performed fewer than 2^32
  stores, and *Disagreements* says what happens after that.
* In `TaggedBridge`: illegal lengths and clients, and devices of the service
  (timer, UART, clock), whose reads are not those of a memory. All requests of
  a channel have the same latency, so they become ready in the order of
  arrival, which is all that is left of time. The client has at most as many
  requests open as the service can hold (`ClientLimit`): two loads or a store
  from the load/store unit, two from the cache, against a queue of two or
  three.
* In the flow modules: the text of files. A digest is the content it is taken
  of, a report is what its parser gets from it, a netlist is its origin, and a
  netlist with its constraints is one artifact. Handoff identities are
  compared through the checkout and mode they are computed for. Times and
  frequencies are integers (ps, MHz), where the code has floats.
* In `AsicFlow`: `doctor` and the printing commands, which change nothing;
  more than one macro database directory; what the tools do (they produce a
  report of `DcReports`, `RouteReports` or `StaReports`, or fail).
* In `SimBuild`: commands that change nothing (`show-config`, `config-check`,
  `hygiene`, `--dry-run`); the runner called by hand with `--clean`,
  `--build-only` or `--vcd` without `--trace` (the signature has no `vcd`);
  instruction traces; the check that a tool is installed. `sim`, `smoke`,
  `difftest` and `opensbi-smoke` differ only in what they check and pass on,
  and are all `run_sim` once they run. A reference adapter that the user names
  is not examined, here or in the code. Copying or linking one library is one
  step. `Make` is one step, which matters only if two processes make the same
  product in one directory. Starting the simulator and opening the adapter are
  one step: the directory holds the checkout's own product or none
  (`BuiltSound`), so what starts does not depend on when. The reference's copy
  of the program is read with the program's own, and the digests of a bundle
  are compared in one step. `+incdir+a+b` and paths with blanks, which no
  filelist has, are not taken apart.
* `PnrMark` and `StaMark` write `summary.json` and `run.ok` in one step. What a
  kill between the two adds is a complete summary without its mark. Only
  recovery reads a summary without the mark, for its digest, and it treats such
  a source as it treats one whose summary is partial.
* `RegRename` has the terms of `conservation_error_o` about the free list and
  the refused restore. `atomicity_error_o`, which compares what rename offers
  with what the back end accepts, is left out: both are one choice there.
* Results that a unit still holds for an instruction that is gone: any number
  exist in the code. `SmallRob` tracks `program.stale` of them, any ones, so a
  property of each single one (`StaleRejected`) is not restricted. Each may
  outlive `MaxReuse` reallocations of its entry with `MaxReuse < G`. That is an
  assumption about the units (`ResultLifetime`): the RTL has four generations
  and no counter that enforces it.

## Runs

| run | instance | states | question |
|---|---|---|---|
| `rename` | 3 architectural, 5 physical registers, 3 entries, 2 checkpoints, five instruction classes | 144,344 | are names conserved; is every source, previous name and checkpoint the program-order one; are ready bits exactly the written registers; is a recovery ever refused |
| `rob` | 3 entries, 2 generations, four programs | 107,785 | do index arithmetic, generations and branch boundaries stay exact while entries wrap; is a result recorded and a store requested once; does the buffer implement the window |
| `rob_live` | 3 entries, one program | 1,125 | does the oldest instruction always leave |
| `recovery` | 4 instructions, 5 tags, symmetric, two programs | 35,753 | do all records of unresolved branches agree, is every recovery owned, does only the right path retire |
| `recovery_live` | 3 instructions | 2,272 | does every freeze of dispatch end |
| `cache` | one line, five workloads | 65,707 | can the client tell the cache from the memory; are answers lost; can a stale answer fill a line |
| `cache_wrap` | `FirstGen = 0` | counterexample | see *Disagreements* |
| `bridge` | 3 entries, service queue of 2, client with 2, fair | 4,436 | is the scoreboard exact, is the client's view a memory, is every request answered |
| `wrong_path_fault`, `two_faults` | faults reported out of order | counterexamples | see *Disagreements* |
| `asic` | 2 processes, 7 checkouts of 3 profiles, 2 faults | 292,969 | does a command write only where it made the directory, does the scan obey its rules, is an accepted evidence tree consistent, do the sealed runs implement `SealedChain` |
| `sim` | 2 processes, 2 profiles, 4 checkouts, 3 configurations, 2 commands, 1 fault | 1,547,725 | is the simulator that runs always the one of its checkout and `.config`, what may an audited one hold, do locked images run; is an accepted reference adapter a pair of one commit, and which two libraries does a run load |

What the outside world does is chosen in the initial state and then fixed:
`program` in `SmallRob` and `BranchRecovery` (the instruction classes, and what
is assumed of the units), `workload` in `DataLineCache`. One run thus explores
several mixes, each small enough to be explored completely, without the cost
of everything at once:

* `rob`: `Tagged` (with a late result of a killed instruction), `Retire`
  (jumps and redirecting branches), `Stores` (stores, faulting loads,
  mispredictions, branches to a misaligned target), `System` (multiplication, system instructions, `ebreak`).
* `recovery`: branches that are right or wrong with system instructions; and
  faults, misaligned targets and mispredictions, with faults reported in order.
* `cache`: `Partial` (overlapping partial stores to one word and three loads),
  `Compete` (two words for one line), `Device` (a PMEM word and a device word
  that may fail), `Atomics` (atomic accesses next to loads and stores, on a
  PMEM word and on a device).

Why these bounds are enough to be of interest. Three entries are the smallest
buffer in which a bundle of two can meet a non-empty buffer, wrap, and be cut
in the middle; two unresolved branches nest one squash in another, which is
all the hardware allows. In `rename` two names are spare and three are wanted,
so both the empty and the full free list are reached; three architectural
registers give two that are renamed independently, so that a source, a
destination and an untouched register can differ. Two generations let an entry
come back to a generation a late result still carries in one reallocation, the
tightest case of the assumption. Four instructions in `recovery` hold a control
instruction, two branches and something behind them. In the cache one word
suffices for everything that happens within a line, because lines do not
interact except through a replacement and an atomic access, and these have
their own workloads. Two bytes distinguish overlapping, disjoint and full
stores; three loads are what the arbiter lets through, and two of them with a
store fill both requests below, a waiter and both held answers. `Gens` is
larger than the number of stores that can be outstanding, so that a generation
is not used by two stores at once, as in the code. Initially all words of the
memory are the same; stores make them differ. In `bridge` one word of two
values tells the order of its accesses; the bridge does not look at addresses.
The theorems remove the bounds for every safety property of the out-of-order
core and of both flows.

In `asic` two processes are what any race on one directory needs, and one run
id makes them collide; recovery has another. The checkouts differ in exactly
what the identity must notice: a support source with and without its pin, the
macro's timing library with the cell libraries, the default mode; one profile
has macros, one a scan of two fixed points, one no fixed P&R frequency. Two
faults allow one that is hidden by another. In `sim` a behaviour has two
commands, together or one after the other, with an edit of the checkout
between (another header and reference commit; another source, which the OoO
profile lists without a digest, and another adapter source; a source that only
the runner finds, with a commit that is lost), and one fault. In the first
checkout the OoO filelist ends with a line `--timescale=... extra`, whose
second token only the runner takes. The configurations have difftest with the
local adapter, an external one with tracing, and neither. The bundles that are
there at first have been reported, as an earlier command of this checkout did;
a bundle of another checkout is one of these after a switch. Two commands are
a difftest and a preparation that rebuilds its bundle between the two loads,
after a switch or without; a third, which would let one preparation report
before the difftest starts and a second rebuild under it, is left to the
theorem.

Two assumptions are made of the user, in the guards of `Checkout` and of the
`Alter` actions. The checkout is not edited while a command runs: nothing in
the code could notice it, since sources are hashed before the tool reads them.
And a netlist is replaced on disk only after its digest was first recorded:
before that, a replaced netlist is simply what the tool made. In `SimBuild`,
`disturbed` marks a command under which an image or library was replaced
after the command had checked it, by a fault, a removal or a rebuild; what then
ran is exempt from the digest, never from being the right simulator. `ready`
marks a command that started when a preparation had reported its adapter for
this checkout: it is exempt from nothing, whoever rebuilds the bundle under it,
except that a library from elsewhere is what it is.

`ImplementsChain` maps the state to the sealed runs: a run is sealed when its
`run.ok` exists, its identity is what its manifest says, and `made` is what its
product really was made from, so the refinement fails as soon as a manifest
names something else than what the tool read.

### Fairness

`TaggedBridge`'s `FairSpec` assumes that the service answers a request that is
old enough when it is polled (it has a constant latency) and that the client
takes the answer it is shown: above it are the cache, whose own held answers
drain first, and the load queue and the store buffer, which always have room for an answer
they asked for. Neither needs strong fairness: a request that is polled, or an
answer that is shown, stays until it is dealt with.

`SmallRob`'s `FairSpec` assumes that an edge follows a pending squash or flush
(the clock), that the LSU answers a request it took, and, strongly, that the
unit of the oldest instruction gets its result in, the LSU accepts the head
store, takes its answer back, and retirement is enabled, if each is possible
again and again: a result is held by its unit until it is taken, the LSU
holds its answer, and `commit_enable_i` is the readiness of a trace port that
drains. Strong fairness is needed because recoveries of younger branches
disable these edges repeatedly without undoing what waits.
`BranchRecovery`'s `FairSpec` makes the same two assumptions about the oldest
instruction and lets the clock run.

`AsicFlow` and `SimBuild` assume no fairness: a command may be killed at any
point and nothing restarts it, so the flow promises nothing that must happen,
only that what exists is right. Deadlock is not checked there, because a
behaviour ends when its commands and faults are used up.

## Proofs

Every theorem is `Spec => []P`, or that `Spec` implements an abstract
specification, for all values of the constants the assumptions allow. Each
module proves one inductive invariant, `IInv`, checks that it implies the
properties the runs check, and states each of these as a theorem. Every `IInv`
was model-checked on instances larger than or different from the runs before
it was proved (215,761 states for `SmallRob`, 157,962 for `TaggedBridge`,
65,707 for `DataLineCache`, 10,325 for `BranchRecovery`; for `AsicFlow` on the
292,969 states of its run and for `SimBuild` on the 1,547,725 of its own). The
modules about `AsicFlow` call theirs `Fenced`, `Scanning`, `Traced` and `Handed`.

| module | theorems | hypotheses |
|---|---|---|
| `RegRenameProofs` | `Inductive`, `TypeCorrect`, `Conservation`, `MapIsYoungest`, `SourcesInOrder`, `OldsInOrder`, `SnapshotsExact`, `ReadyFollowsResults`, `RenamedReadyIsWritten`, `NeverRefused` | `SizeAssumption`: x0 and another architectural register, more physical ones; `UopAssumption`: instructions have their fields |
| `SmallRobProofs` | `Inductive`, `WindowHolds`, `StaleResultsRejected`, `ResultsOnce`, `BoundariesExact`, `StoreOwned`, `Refinement` | `RobSizes`: more than two entries (a bundle of two never fills the buffer it meets empty), at least one generation; `ResultLifetime`: `MaxReuse < G` |
| `TaggedBridgeProofs` | `Inductive`, `ScoreboardHolds`, `NeverFlags`, `BridgeIsMemoryPort` | `BridgeConstants`: one to three entries and service places, as in the code, and a client that keeps within the service; `NoneIsNothing` |
| `DataLineCacheProofs` | `TypesHold`, `NothingIsLost`, `FillsAreFresh`, `ShownLinesAreMemory`, `HiddenLinesAreComplete`, `CacheIsMemoryPort` | `CacheConstants`: more generations than outstanding stores; `NoneIsNothing`; for the last three, that the store generation does not come back to 0 |
| `BranchRecoveryProofs` | `Inductive`, `BookkeepingAgrees`, `ProtocolKept`, `PendingHolds`, `TransactionHolds`, `PathHolds` | `TagAssumption`, `WindowAssumption`; `FaultsInOrder` |
| `AsicFlowProofs` | `Fences`, `OneWriterHolds`, `Scans`, `ScanHolds` | `FlowConstants`: the frequencies, the navigation quantum and the budget that a checkout which builds declares, and the slack that a report gives, are integers; for the scan `NoneIsNothing` |
| `AsicEvidenceProofs` | `Traces`, `RecordsStay`, `EvidenceHolds`, `Hands`, `ChainHolds`, `TypesHold` | `FlowConstants`, which also says that checkouts are numbered and that the mode a checkout resolves to is one that can be asked for; `NoneIsNothing`; `NoneIsNoRecord` |
| `SimBuildProofs` | `Inductive`, `TypesHold`, `RunsSound`, `ReferencesSound` | `SimConstants`: the regressions of a checkout are sequences, its profiles and those of preparations are among `Profiles`, `vcd` is a Boolean, and no reference has the word that the runner records for none as its digest; `NoneIsNothing`; `NoneIsNoRecord` |

Numbers of registers, entries, checkpoints of the rename unit, generations,
tags, lines, words, stores and instruction mixes are otherwise arbitrary.
`NoneIsNothing` says that the value that stands for an empty register is not
one of the values the register may hold, and `NoneIsNoRecord` that the one which
stands for a missing manifest is not a record (TLC gives it a model value; it is
a hypothesis of the theorems because TLC cannot enumerate all records).

Three hypotheses are about behaviour and not about sizes.

* `ResultLifetime` is what the units are assumed to do (see *What the models
  leave out*).
* `[][store_generation' # 0]_store_generation` in `ShownLinesAreMemory`,
  `HiddenLinesAreComplete` and `CacheIsMemoryPort`: the store buffer's 32-bit
  counter does not pass 0. `FirstGen = 1` implies it (`SkippingZero`), and the
  run `cache_wrap` shows what happens without it. `NothingIsLost`,
  `FillsAreFresh` and `TypesHold` do not need it.
* `FaultsInOrder` in `BranchRecoveryProofs`: the program marks its faults as
  reported in order, or has none. Both counterexamples of *Disagreements* (1
  and 2) are behaviours without it. It excludes no interleaving of branches,
  mispredictions, system instructions or retirements.

### Why the invariants are what they are

`RegRename`. A retirement preserves "the map is the youngest writer" only if
the retiring instruction's old name is the retired one, which needs
`OldIsPrevious`; a restore preserves it only if the snapshot is exact, and
conservation across a restore needs that the names in the snapshot are not
among the killed ones, which needs all destinations to differ. `IInv` conjoins
types, six statements about names and two about ready bits. It is stated over
explicit maps and windows (`WInv`) and not over the variables, because an edge
does several things: it is decomposed into elementary steps (`Complete`, `Pop`,
`Push`, `Cut`), each a lemma that takes a map and a window in `WInv` to
another, and an edge with two retirements and two renames is a chain of them.
Between a control event and the global recovery (`trap`) only the injectivity
of the retired map is kept, because that is all that `GlobalRecover` needs to
rebuild everything else.

`SmallRob`. Everything is said about the distance of an entry from the head,
and the first lemmas are the arithmetic of that distance modulo `N`. Besides
the window, `IInv` holds that an entry records the outcome its instruction has
(`EntriesInv`), that every late result differs from the present generation of
its slot by less than `G` reallocations (`StaleInv`, which is what makes
`StaleRejected` inductive), who owns the store handshake (`StoreInv`), and that
an open branch's remembered boundary is the tail it saw (`BranchInv`). The
refinement maps the circular buffer to the sequence of its valid entries; an
edge is then a prefix removed, a pointwise completion and a suffix appended,
each a lemma about that sequence.

`TaggedBridge`. The entries of the bridge and the requests of the service are
in one-to-one correspondence through their tokens (`Matched`), the held answer
included, and the counters are the numbers of each (`Counted`). The sticky
errors are raised exactly where a request or an answer has no partner. For
`BridgeIsMemoryPort` the memory above is the memory after the requests that
are still queued, played in order: accepting a request appends to what is
played, and answering the oldest removes its first element.

`DataLineCache`. Every token that the client waits for is owed one answer, by
the memory, a waiting load or a held answer, and by only one of them (`Owed`,
`Matched`). About content, `LinesInv` and `ContentInv` say that a shown line is
the memory's word, that a hidden line whose last store is below has the bytes
of every store up to it, and that an entry which may fill a line has the
memory's word coming; each of the three is needed to preserve the other two
across a fill, a hidden store and its answer. The `MemoryPort` above is the one
below, plus the answers that the cache owes.

`BranchRecovery`. An edge flushes the window, truncates it behind a mispredicted
branch, or advances it; the first lemmas describe every register after each.
`IInv` says that the unresolved branches in flight, the recovery window and the
checkpoints are the same and in the same order (`Tracked`, `Checkpointed`);
that whatever has completed and still needs a recovery owns one, and it is the
oldest of its kind (`Controlled`, `Recovered`); that a due squash has its branch
and its checkpoint (`InTransaction`); that an instruction is on the path of
program order exactly if nothing older still has to redirect (`OnPath`); that
a system instruction is alone and youngest (`Serialized`); and that the two
controllers are never both in the middle of a recovery (`Restart`, `Flushed`).
`OnPath` cannot be proved from the bookkeeping alone: that the squash cuts
exactly what is off the path needs the order in which the branches mispredict.

`AsicFlow`. `Fenced` says what each running stage may assume of the directory
it works in, which is what it has and has not written there so far, and that two
processes in the same stage work in different directories. It is kept because a
directory is made only by a step that found none (`mkdir` without `exist_ok`),
and because a fault changes what a file holds and never which files there are.
That a scan never synthesises a frequency twice needs the arithmetic of
`DcScan`: the next frequency is lower than every one before it, because the
estimate is floored to the grid and the grid's quantum is positive.

`ScanSound` is proved from `Fenced` and `Scanning`: what a scan has decided
(`Chained`, `InBudget`, `Judged`) is a statement about its directory, so it
survives a kill; what the process does next (`ScanAt`) is that it is at the
point its last decision named, and that every point in the directory has been
decided on except that one. The verdict is right because each earlier point was
left with negative slack and so is not closed (`LeftPoints`). An altered
netlist does not change which points are complete, because only a netlist with
a recorded digest can be altered (`Recorded`). `NextIsNearest` is the
arithmetic: with `D / f` the period plus the slack lost, `k = 10^6 f div (D q)`
is the largest `k` with `k q D <= 10^6 f`.

`EvidenceSound` is proved from `Traced`, for which `Fenced` is needed. A digest
that is found again names the file it was taken of only if that file was at most
altered since, so `Traced` says of each recorded digest that the file is the
recorded one or an altered one (`Later`): of the netlist that P&R copied
(`Imported`), of what its ledger records (`Tied`), of what PrimeTime read
(`Analysed`). Equal digests at both ends of such a chain then leave no alteration
in between, because an altered file never becomes the recorded one again. It is kept because what it compares with
never changes: output manifests, input manifests and the ledgers of marked runs
are written once (`DcGrows`, `RoutesGrow`, the theorem `RecordsStay`), which
is again `Fenced`. `EvidenceSound` itself is not inductive: it is about the
runs that are sealed, and says nothing of how far the others have come.

`ChainHolds`, that the flow implements `SealedChain`, and `TypesHold` are proved
from `Handed`: what each stage was handed. Only three steps seal a run (`DcMark`,
`PnrMark`, `StaMark`); for each of them `Handed` has to supply the sealed parent
of the same identity. It therefore holds of every directory whose record names
its parent (`MatrixSound`, `RouteSound`, `TimeSound`), sealed or not, and of
every process that has compared two identities and not yet written the record
(`Knows`). That the identity is what the product was really made from needs two
more things. The checkout stays while a process runs, so what a process computed
at its start is what the tool reads; and the macro databases that synthesis reads
are the pinned ones (`Supplied`), because the handoff directory and the databases
are each made by one process, once, from the checked handoff (`Stocked`).
Two identities with equal fields need not be of the same checkout; they are of
the same class (`SameClass`), which is what the chain records. A run stays
in the chain because the records that it is made of stay (`DcGrows`,
`RoutesGrow`, `TimesGrow`).

In `SimBuild` every step of a process is a step in the others' directories, so
`IInv` says, of each kind of process, what it may believe and for how long. A
runner's hashes are those of what it would load now, unless it is disturbed
(`NamedSound`); a regression's cases done and to do make up the list it checked
(`RegressionSound`); and before it starts, its simulator directory holds the
product of its signature or nothing (`BuiltSound`), which another build cannot
change because equal signatures of one checkout name equal products
(`SameSignature`; for this `runner_command` must turn tracing on with the
waveform, since the waveform is not in the signature). A simulator that has
started knows what it has opened and not what it will find beside it
(`OpenedSound`). Undisturbed, the adapter it opened is still the one on disk,
and `BundleSound` pairs it with the raw library. A runner that started `ready` may
be disturbed and still count on the pair, because from the report of a
preparation until the checkout changes every library and manifest in the
bundle is one this checkout asks for, or comes from elsewhere (`Fresh`, kept
under removal, rebuild and replacement); this is also what a report means for
those that come later. Without a report nothing of the kind holds: a run on an
accepted bundle of another checkout that is rebuilt between the two loads does
mix two commits. A preparation that
fills a bundle knows that all that is there was made for this checkout
(`Made`), by whichever process: two may fill one bundle at once, since each
looks for it before it creates it, and what they write is the same. Nothing
guards this but that the checkout is fixed while they run. `Made` is lost when
they end and the checkout changes; `BundleSound` stays: libraries that were not
replaced are of one commit, and a manifest's digests are those of libraries of
the commit it names, whichever checkout it was for. The digests of `default_reference_adapter` then turn what the
manifest says into what is on disk (`ReferencesSound`), a replaced library
included. `WhatIsAudited` relates the two readings of a filelist: a source the
runner takes is one the audit takes or one it passes over. The first are the
wrapper and the locked sources, with the digests that are declared, and the
runner finds them at the path the audit looked at; of the second nothing is known.

### Only model-checked

Liveness (`HeadLeaves`, `FreezeEnds`, `Answers`), which with fairness and
`ENABLED` is out of the prover's reach. Every invariant that a run checks, and
every refinement, is a theorem. The pure operators of `AsicContract`,
`DcScan`, `StageReports` and `SimContract` have no runs of their own: the runs
of the two flows evaluate them, and the proofs use them by their definitions.

## Disagreements between the code and what it says

1. `wrong_path_fault`: `ooo_pipeline_commit_control_recovery_1w.sv:122-124`
   says that a branch that recovers while a younger control instruction owns
   the pending state must discard that younger ownership. The input for it,
   `branch_recovery_pulse_i`, is tied to zero
   (`ooo_pipeline_branch_recovery_standalone_top.sv:640`). A load on the wrong
   path that faults before the older branch executes leaves the controller in
   PENDING with the tag of a killed instruction, and dispatch stays frozen
   until something retires as an exception with that tag.
2. `two_faults`: while the controller is PENDING for a younger fault, an older
   instruction that faults and retires is not recognised
   (`control_commit` compares the tag, `direct_exception_commit` needs IDLE),
   so nothing is flushed and the instructions behind the exception retire.
   `docs/evidence/ooo_architecture_performance_history.en.md:19-20` claims
   precise ordering.

3. `cache_wrap`: the cache marks "not hidden by a store" with generation 0
   (`ooo_data_line_cache.sv:562-563`), but the store buffer counts through 0
   when its 32-bit generation wraps
   (`ooo_precise_store_buffer_4entry.sv:174`). A second store to a line hidden
   by generation 0 is not merged, and the first one's answer shows the line
   without it. The comment at `ooo_data_line_cache.sv:956-958` says that every
   partial update is preserved. It needs 2^32 stores and two of them to
   one cached word at the wrap.

Met while modelling the flow, and not shown by a run of their own:

* `make a3-dc-eval` (`docs/asic-implementation.en.md`) compares with
  `compare_a3_dc.py`, whose `load_matrix` (line 38) requires the schema
  `...-d7`, while `dc_matrix` writes `...-d8` (`asicctl.py:48`).
* `CONFIG_NPC_DIFFTEST=y` ("Enable an external reference adapter", `Kconfig:52`)
  makes `validate_config` require an adapter, and `sim`, `smoke` and
  `regression` then run without it.
* `smoke` checks that the smoke image is hash-locked and then runs
  `NPC_OPEN_IMAGE` or `CONFIG_NPC_IMAGE` if one is set.
* Neither the runner's signature nor `config_sha256` covers RTL headers. The
  build is right nevertheless, because it is never skipped (`RunSound` fails
  if it is); the name of a summary does not change with a header.
* `default_reference_adapter` (`flowctl.py:912-942`) compares neither commit
  nor adapter source, so `difftest` accepts a bundle that `difftest-prepare`
  would call stale. It is one pair from one commit as long as nobody touches
  it. But the simulator opens the adapter first (`verilator_main.cpp:152`), and
  the adapter opens the raw library beside it only when it is initialized
  (`verilator_main.cpp:177-181`, `nemu_public_adapter.cpp:446`). If
  `difftest-prepare --force` rebuilds such a bundle between the two, an adapter
  of one commit drives a raw library of another, and nothing notices.
* `filelist_entries` (`flowctl.py:614-615`) passes over a line that begins with
  `--language` or `--timescale`, while `read_filelist` of the runner
  (`verilator_runner.py:76-104`) splits it and takes its other tokens. With
  `--timescale=1ns/1ps rtl/extra.sv` on a line, `source-check` passes and
  the simulator holds a source that was not audited. The two also differ on what
  is a comment. No filelist of the repository has such a line.
* A source set that lists its allowlist itself gives no digests
  (`flowctl.py:636-638`, `757`): its sources are locked by path only.
* Two preparations of one profile may both report success while one of them
  with `--force` removed the other's manifest; the next `difftest` refuses.
* The matrix's library digests are not part of `config_sha256`, and STA does
  not compare its library with the one of synthesis; `evidence_check` does.
* `evidence_check` refuses a build tree with a P&R run that stopped half-way,
  even when nothing uses it; a recovered run leaves its source there.
* A run with `--frequency` other than the fixed one cannot be recovered.

The first two numbered ones need two instructions that fault or mispredict out of order. In the
programs of `recovery` and `recovery_live` with faults, `in_order` makes an
instruction report its fault only when everything older has completed; these
runs show that nothing else is wrong there.

## Plan

In this order; each item names its abstract specification, where it has one,
and what it is for.

1. Load/store unit: `StoreBuffer` (a queue of stores that cannot fail, with two
   response owners), `LoadQueue`, `LoadStoreUnit` (which composes them with the
   arbiter on a `MemoryPort`). A load returns the youngest older store's bytes;
   a cancelled load completes to nobody; committed stores reach memory once, in
   order; when drained, memory is what program order wrote.
2. Issue queue with the operand stage: no instruction leaves before its
   operands are written, is lost, or leaves twice; the other half of the
   wake-up protocol that `RegRename` has from the rename side.
3. Completion fabric: at most two results per edge, none lost, a wake-up only
   with its result; it implements the choice that `SmallRob` and
   `BranchRecovery` leave open (`Completions`).
4. Front end: requests in flight against redirects and their epoch, the decode
   buffer; it implements `FrontEnd` of `BranchRecovery`.
5. Atomic unit and serial executor: cancel against an answer already under way.
6. Page walkers of the out-of-order profile, then the caches (`DCache.v`,
   `ICache.v`, `AxiPmemBridge.v`) of the single-issue profile, its five stages,
   and the TLB, the page walks, the trap controller and the timer of the Linux
   profile (delegation and interrupt choice as pure operators).
7. Proofs about the components above, each with its runs: nothing that a run of
   the present modules checks, liveness apart, is left to prove.

Not planned: counters and statistics that nothing reads back, predictors
(recovery, which is modelled, makes any prediction safe), arithmetic of the
execution units, port wiring, the earlier variants, and the Python that is one
pass over fixed files and reads no state another step changes: the checkers of
published documents and evidence (`check_*.py`, `compare_a3_dc.py`,
`build_a3_cpi_identity.py`), the constraint helpers (`calculate_floorplan.py`,
`prepare_pnr_sdc.py`, `sanitize_openroad_sdc.py`, `verify_sram_leaf.py`) and the
drawings (`generate_showcase_assets.py`). `PROJECT.json` gives the reason for each part.
