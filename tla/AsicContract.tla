--------------------------- MODULE AsicContract ----------------------------
(***************************************************************************)
(* What a checkout of the repository promises to the ASIC stages:          *)
(* flows/scripts/asicctl.py build_contract and what it calls.  A checkout  *)
(* t is a record of the files those functions read:                        *)
(*   symbols, profile_id, register_expanded, memory_mode   the .config     *)
(*   matrix      flows/asic/profiles/register_expanded.json                *)
(*   allowlist   the set of profile records of source_allowlist.json       *)
(*   files       [path -> content] of the filelists, the RTL, the          *)
(*               parameter locks and the clock constraint                  *)
(* A digest is modelled by the content it is of: two files have the same   *)
(* SHA256 exactly when they have the same content.  A malformed field      *)
(* (wrong JSON type, a digest that is no digest) is not told from a wrong  *)
(* value: the code refuses both at the same place.                         *)
(***************************************************************************)
EXTENDS Naturals, Sequences, Functions, TLC

Linux == "rv32ima_sv32_linux"
OoO   == "rv32im_ooo_4k"

HANDOFF_IDENTITY_FIELDS ==
    {"profile", "mode", "memory_mode", "source_commit", "source_set_sha256",
     "source_role_sha256", "implementation_source_sha256", "config_sha256"}

sha256(content) == content

selected_profile(t) == t.register_expanded /\ t.symbols = {t.profile_id}

memory_data(t) == t.matrix.memory_modes[t.memory_mode]

resolve_memory_mode(t, requested) ==
    /\ requested \in {"auto", t.memory_mode}
    /\ t.memory_mode \in {"registers", "sram"} \cap DOMAIN t.matrix.memory_modes
    /\ t.profile_id \in memory_data(t).allowed_profiles

profile_data(t) == t.matrix.profiles[t.profile_id]

Records(t) == {r \in t.allowlist : r.profile_id = t.profile_id}

source_record(t) == CHOOSE r \in Records(t) : TRUE

(* The OoO core is elaborated in a mode that its commit allows; the others *)
(* have one mode and one commit.                                           *)
variant(t) == profile_data(t).source_variants[source_record(t).source_commit]

Mode(t, requested) ==
    IF t.profile_id # OoO THEN "default"
    ELSE IF requested = "auto" THEN variant(t).default_mode ELSE requested

resolve_mode(t, requested) ==
    LET commit == source_record(t).source_commit
    IN  IF t.profile_id # OoO
        THEN requested \in {"auto", "default"} /\ commit = profile_data(t).source_commit
        ELSE /\ commit \in DOMAIN profile_data(t).source_variants
             /\ Mode(t, requested) \in variant(t).allowed_modes
             /\ Mode(t, requested) \in DOMAIN profile_data(t).elaboration_parameter_files

ParameterLock ==
    [legacy |-> {"TARGET_LINE_ENTRY_COUNT=512", "TARGET_LINE_WAY_COUNT=1",
                 "DATA_LINE_COUNT=1024", "DATA_LINE_WAY_COUNT=1"},
     a3_split_off |-> {"rv32im_ooo_4k_legacy.tcl", "STABLE_ENTRY_IQ_ENABLE=0",
                       "IQ_SPLIT_PAYLOAD_READ_ENABLE=0", "ROB_INDEXED_SERVICE_LEVEL=0"},
     a3 |-> {"rv32im_ooo_4k_legacy.tcl", "STABLE_ENTRY_IQ_ENABLE=1",
             "IQ_SPLIT_PAYLOAD_READ_ENABLE=1", "ROB_INDEXED_SERVICE_LEVEL=1"}]

parameter_file(t, mode) == profile_data(t).elaboration_parameter_files[mode]

check_parameter_lock(t, mode) ==
    t.profile_id = OoO =>
        /\ parameter_file(t, mode) \in DOMAIN t.files
        /\ mode \in DOMAIN ParameterLock =>
               ParameterLock[mode] \subseteq t.files[parameter_file(t, mode)].settings

filelist(t) == profile_data(t).filelists[t.memory_mode]

sources(t) == Range(t.files[filelist(t)].sources)

read_filelist(t) ==
    /\ filelist(t) \in DOMAIN t.files
    /\ sources(t) # {}
    /\ sources(t) \subseteq DOMAIN t.files

(* Neither the simulation wrappers nor the DPI calls reach an ASIC         *)
(* netlist, and the top is declared once, with the ports it must have.     *)
NoSimulationCode(t) ==
    LET tops == {f \in sources(t) : profile_data(t).top \in t.files[f].modules}
    IN  /\ "NPC_ASIC" \in t.files[filelist(t)].defines
        /\ {"NPC_USE_DPI", "NPC_DPI_"} \cap t.files[filelist(t)].defines = {}
        /\ \A f \in sources(t) : ~t.files[f].wrapper
        /\ \E f \in tops : tops = {f} /\ t.files[f].memory_ports

(* Every source is authorised: by the audited entry of its profile, by the *)
(* audited overlay of its memory mode, or as tracked support.              *)
overlays(t) == LET o == source_record(t).overlays
               IN  [f \in {g \in DOMAIN o : o[g].memory_mode = t.memory_mode} |-> o[f]]

entry(t, f) == (overlays(t) @@ source_record(t).entries)[f]

IsOverlay(t, f) == f \in DOMAIN overlays(t) /\ entry(t, f).source_commit # source_record(t).source_commit

Authorised(t, f) ==
    LET base == source_record(t)
    IN  IF f \in DOMAIN overlays(t) \cup DOMAIN base.entries
        THEN LET e == entry(t, f)
             IN  /\ (IF f \in DOMAIN overlays(t) THEN "asic_sram" ELSE "asic") \in e.roles
                 /\ e.source_commit # base.source_commit => f \in DOMAIN overlays(t) /\ e.audited
                 /\ sha256(t.files[f]) = e.sha256
        ELSE /\ f \in DOMAIN profile_data(t).support
             /\ sha256(t.files[f]) = profile_data(t).support[f]

source_role_identity(t) ==
    /\ \A f \in sources(t) : Authorised(t, f)
    /\ DOMAIN profile_data(t).support \subseteq
           sources(t) \ (DOMAIN overlays(t) \cup DOMAIN source_record(t).entries)
    /\ {f \in sources(t) : IsOverlay(t, f)} = DOMAIN overlays(t)

source_role_sha256(t) ==
    LET commit(f) == IF f \in DOMAIN profile_data(t).support THEN "tracked_public_support"
                     ELSE entry(t, f).source_commit
    IN  sha256(<<source_record(t).source_commit, [f \in sources(t) |-> <<t.files[f], commit(f)>>]>>)

source_set_sha256(t) ==
    LET logical == [n \in {overlays(t)[f].logical : f \in DOMAIN overlays(t)} |->
                       (CHOOSE f \in DOMAIN overlays(t) : overlays(t)[f].logical = n)]
    IN  sha256(<<source_record(t).source_commit,
                 [n \in DOMAIN logical |-> overlays(t)[logical[n]].sha256]
                     @@ [f \in DOMAIN source_record(t).entries |-> source_record(t).entries[f].sha256]>>)

config_sha256(t, mode) ==
    sha256(<<mode, t.memory_mode, memory_data(t), t.files[filelist(t)],
             IF t.profile_id = OoO THEN t.files[parameter_file(t, mode)] ELSE "none",
             t.files["internal_clock.sdc"], [f \in sources(t) |-> t.files[f]]>>)

(* build_contract raises unless all of this holds of the checkout.         *)
Buildable(t, mode, memory) ==
    /\ selected_profile(t)
    /\ t.profile_id \in DOMAIN t.matrix.profiles
    /\ \E r \in Records(t) : Records(t) = {r}
    /\ resolve_memory_mode(t, memory)
    /\ resolve_mode(t, mode)
    /\ read_filelist(t)
    /\ NoSimulationCode(t)
    /\ source_role_identity(t)
    /\ (t.memory_mode = "sram") <=> ("NPC_ASIC_SRAM" \in memory_data(t).extra_defines)
    /\ check_parameter_lock(t, Mode(t, mode))
    /\ t.memory_mode \in DOMAIN source_record(t).source_sets
    /\ source_record(t).source_sets[t.memory_mode] = source_set_sha256(t)

Identity(t, mode) ==
    [profile |-> t.profile_id, mode |-> Mode(t, mode), memory_mode |-> t.memory_mode,
     source_commit |-> source_record(t).source_commit,
     source_set_sha256 |-> source_set_sha256(t),
     source_role_sha256 |-> source_role_sha256(t),
     implementation_source_sha256 |->
         sha256(<<source_role_sha256(t), t.memory_mode, memory_data(t).extra_defines>>),
     config_sha256 |-> config_sha256(t, Mode(t, mode))]

require_handoff_identityByCommitBug(record, expected) ==
    \A field \in {"profile", "mode", "memory_mode", "source_commit"} : record[field] = expected[field]

require_handoff_identity(record, expected) ==
    \A field \in HANDOFF_IDENTITY_FIELDS : record[field] = expected[field]
=============================================================================
