------------------------------ MODULE DcScan -------------------------------
(***************************************************************************)
(* The frequency scan of the synthesis stage: how a Design Compiler report *)
(* is judged (flows/scripts/summarize_dc.py) and which frequency is tried  *)
(* next (flows/scripts/asicctl.py, dc_frequency_decision).                 *)
(*                                                                         *)
(* Frequencies are in MHz and slacks in picoseconds, so that a clock of    *)
(* f MHz has the period 10^6/f ps and the arithmetic is exact.  The code   *)
(* computes with floats and absorbs their error with tolerances far below  *)
(* a picosecond: a slack of half a picosecond counts as met, and 10^-9 MHz *)
(* is added before the estimate is rounded down.                           *)
(*                                                                         *)
(* A report has, besides the slacks and the number of violating paths,     *)
(*   missing     the gate fields it lacks                                  *)
(*   loops_valid the timing-loop report is there and not "unavailable"     *)
(*   nonzero     the counters that should be 0 and are not (loops, broken  *)
(*               arcs, electrical, design errors, unresolved references,   *)
(*               latches, unclocked endpoints)                             *)
(*   checks_ok   check_design and check_timing passed                      *)
(*   counts      actual minus expected macros (or black boxes)             *)
(*   isolation   actual minus expected isolation pins (or buffers)         *)
(***************************************************************************)
EXTENDS Integers, Sequences, FiniteSets

Clean(row) ==
    /\ row.missing = {}
    /\ row.loops_valid
    /\ row.nonzero = {}
    /\ row.counts = 0
    /\ row.checks_ok

(* A point is complete when its marker and its netlist are there; it is    *)
(* closed when nothing at all is wrong with it.                            *)
setup_closed(row, completed) ==
    /\ completed
    /\ Clean(row)
    /\ row.wns >= 0 /\ row.tns >= 0 /\ row.violating_paths = 0
    /\ row.isolation = 0

(* Only a clean point whose sole failure is setup timing leads to a lower  *)
(* frequency.                                                              *)
wns_navigation_eligible(row, completed) ==
    /\ completed
    /\ Clean(row)
    /\ row.wns < 0 /\ row.tns < 0 /\ row.violating_paths > 0

Lowest(frequencies) == CHOOSE f \in frequencies : \A g \in frequencies : f <= g

Highest(frequencies) == CHOOSE f \in frequencies : \A g \in frequencies : g <= f

EstimatedUpBug(f, wns, quantum) == (((1000000 * f) \div ((1000000 - wns * f) * quantum)) + 1) * quantum

(* The frequency whose period is the current one minus the (negative)      *)
(* slack, rounded down to the quantum; never the current one again.        *)
Estimated(f, wns, quantum) == ((1000000 * f) \div ((1000000 - wns * f) * quantum)) * quantum

next_frequency(f, wns, quantum) ==
    IF Estimated(f, wns, quantum) >= f THEN f - quantum ELSE Estimated(f, wns, quantum)

dc_frequency_decisionNoFloorBug(frequencies, f, row, completed, quantum) ==
    IF setup_closed(row, completed) \/ ~wns_navigation_eligible(row, completed)
    THEN [frequency |-> f, action |-> "stop_closed", next |-> 0]
    ELSE [frequency |-> f, action |-> "run_quantized_wns_candidate",
          next |-> next_frequency(f, row.wns, quantum)]

(* The code also stops for an estimate that is not positive: the period    *)
(* less a negative slack never is.                                         *)
dc_frequency_decision(frequencies, f, row, completed, quantum) ==
    LET next == next_frequency(f, row.wns, quantum)
        stop(action) == [frequency |-> f, action |-> action, next |-> 0]
    IN  CASE setup_closed(row, completed)             -> stop("stop_closed")
          [] ~setup_closed(row, completed)
             /\ ~wns_navigation_eligible(row, completed) -> stop("stop_non_setup_failure")
          [] wns_navigation_eligible(row, completed)
             /\ next < Lowest(frequencies)             -> stop("stop_below_candidate_floor")
          [] OTHER -> [frequency |-> f, action |-> "run_quantized_wns_candidate", next |-> next]

(* A memory mode may bound the number of points; 0 is no bound.            *)
Budgeted(decision, executed, max_points) ==
    IF max_points # 0 /\ executed >= max_points /\ decision.next # 0
    THEN [decision EXCEPT !.next = 0, !.action = "stop_point_budget_exhausted"]
    ELSE decision

(* parse_frequency_list: positive, strictly descending, the default if the *)
(* command names none.                                                     *)
Requested(list, defaults) == IF list = <<>> THEN defaults ELSE list

parse_frequency_list(list, defaults) ==
    LET fs == Requested(list, defaults)
    IN  /\ fs # <<>>
        /\ \A i \in DOMAIN fs : fs[i] > 0
        /\ \A i, j \in DOMAIN fs : i < j => fs[i] > fs[j]
=============================================================================
