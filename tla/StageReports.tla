---------------------------- MODULE StageReports ---------------------------
(***************************************************************************)
(* How the place-and-route run and the timing run are judged from what the *)
(* tools left behind (flows/scripts/summarize_pnr.py, summarize_sta.py and *)
(* recover_pnr_handoff.py clean_route_gate).  A metric that a tool did not *)
(* write is in "missing"; the others are numbers.                          *)
(***************************************************************************)
EXTENDS Integers, FiniteSets

(* The metrics of a route: drc, antenna (nets and pins), flow_errors (of   *)
(* route and finish), macros (actual minus expected), placed (placements   *)
(* reported minus expected) and nets_open (constant nets found that were   *)
(* neither normalised nor already signals).                                *)
MetricsClean(m) ==
    /\ m.missing = {}
    /\ m.drc = 0 /\ m.antenna = 0 /\ m.flow_errors = 0
    /\ m.macros = 0
    /\ m.nets_open = 0

(* parse_run: the run is complete when the wrapper succeeded, every        *)
(* artifact is there and the route is clean.                               *)
route_complete(m, exit_status, artifacts_present) ==
    /\ exit_status = 0
    /\ artifacts_present
    /\ MetricsClean(m)
    /\ m.placed = 0

(* Recovery asks less: its source has no handoff and a failed wrapper.     *)
clean_route_gate(m) == MetricsClean(m)

(* The timing run is complete when every field and report is there, the    *)
(* tool reported no error, every input was read, the macros are linked and *)
(* every register is clocked and annotated.                                *)
sta_complete(r) ==
    /\ r.missing = {}
    /\ r.native_errors = 0
    /\ r.inputs_read
    /\ r.macros = 0
    /\ r.unannotated = 0
    /\ r.coverage_clean

timing_closed(r) ==
    /\ sta_complete(r)
    /\ r.setup_wns >= 0 /\ r.setup_violations = 0
    /\ r.hold_wns >= 0 /\ r.hold_violations = 0
=============================================================================
