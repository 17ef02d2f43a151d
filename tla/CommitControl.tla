---------------------------- MODULE CommitControl ----------------------------
(***************************************************************************)
(* Recovery of exceptions and system instructions when they retire:        *)
(* rtl/profiles/rv32im_ooo_4k/core/ooo_pipeline_commit_control_recovery_1w.sv. *)
(* A completion that will need it is remembered, freezes dispatch until it *)
(* retires, flushes the core on the next edge, and then redirects.  The    *)
(* branch side of this module is not connected in the core and left out.   *)
(***************************************************************************)
EXTENDS BranchTags

VARIABLES
  ctl_state,   \* CTRL_IDLE, CTRL_PENDING, CTRL_RECOVER, CTRL_REDIRECT
  ctl_kind,    \* kind_q: "none", "exception", "system"
  ctl_tag,     \* tag_q
  dup_error    \* duplicate_control_error_q

ctlvars == <<ctl_state, ctl_kind, ctl_tag, dup_error>>

CtlInit == /\ ctl_state = "idle" /\ ctl_kind = "none" /\ ctl_tag = NoTag
           /\ dup_error = FALSE

(* final is the control completion consumed on this edge: its tag (or      *)
(* NoTag) and kind; event what slot 0 retires: its tag (or NoTag) and      *)
(* whether that is an exception.                                           *)
direct_exception_commit(event) ==
  ctl_state = "idle" /\ event.tag # NoTag /\ event.exc

control_commitAnyBug(event) == event.tag # NoTag /\ ctl_kind # "none"
control_commitNormalBug(event) ==
  event.tag # NoTag /\ event.tag = ctl_tag /\ ~event.exc
control_commit(event) ==
  /\ event.tag # NoTag /\ event.tag = ctl_tag
  /\ ctl_kind = IF event.exc THEN "exception" ELSE "system"

recovery_pulse == ctl_state = "recover"
ctl_redirect_valid == ctl_state = "redirect"
ctl_dispatch_freeze(final, event) ==
  final.tag # NoTag \/ direct_exception_commit(event) \/ ctl_state # "idle"

ControlEdge(final, event, redirect_ready) ==
  /\ dup_error' = (dup_error \/ (final.tag # NoTag /\ ctl_state # "idle"))
  /\ CASE ctl_state = "idle" /\ direct_exception_commit(event) ->
            ctl_state' = "recover" /\ ctl_kind' = "exception" /\ ctl_tag' = event.tag
       [] ctl_state = "idle" /\ ~direct_exception_commit(event) /\ final.tag # NoTag ->
            ctl_state' = "pending" /\ ctl_kind' = final.kind /\ ctl_tag' = final.tag
       [] ctl_state = "pending" /\ control_commit(event) ->
            ctl_state' = "recover" /\ UNCHANGED <<ctl_kind, ctl_tag>>
       [] ctl_state = "recover" ->
            ctl_state' = "redirect" /\ UNCHANGED <<ctl_kind, ctl_tag>>
       [] ctl_state = "redirect" /\ redirect_ready ->
            ctl_state' = "idle" /\ ctl_kind' = "none" /\ ctl_tag' = NoTag
       [] OTHER -> UNCHANGED <<ctl_state, ctl_kind, ctl_tag>>
=============================================================================
