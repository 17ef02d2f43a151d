--------------------------- MODULE BranchRecovery ---------------------------
(***************************************************************************)
(* Recovery of the out-of-order core, composed as in rtl/profiles/         *)
(* rv32im_ooo_4k/top/ooo_pipeline_branch_recovery_standalone_top.sv: the   *)
(* checkpoints, execute-age recovery of branches and commit-age recovery   *)
(* of exceptions and system instructions, around the in-order window that  *)
(* SmallRob.tla implements and a front end that fetches down one path      *)
(* until a redirect is handed to it.  One step is one clock edge.          *)
(***************************************************************************)
EXTENDS CheckpointState, ExecAgeRecovery, CommitControl

CONSTANTS
  Depth,         \* instructions in flight (BBUS_OOO_ROB_ENTRIES)
  Programs       \* what may run: insts, the <<kind, fate>> pairs dispatch may
                 \* present; and in_order, TRUE if an instruction reports that
                 \* it needs control recovery only when everything older has
                 \* completed and needs none.  FALSE is the code, where a load
                 \* may fault at any age.

Kinds == {"op", "branch", "sys"}
Fates == {"ok", "redir", "exc"}
(* Only a branch or a system instruction redirects.                        *)
Instructions == (Kinds \X Fates) \ {<<"op", "redir">>}
ASSUME WindowAssumption ==
  Depth \in Nat /\ \A p \in Programs : p.insts \subseteq Instructions /\ p.in_order \in BOOLEAN

VARIABLES
  program,             \* which of the programs runs
  win,                 \* instructions in flight, oldest first
  pending_checkpoint,  \* pending_checkpoint_valid_q
  right,    \* history: the front end delivers the instruction that program
            \* order wants next
  last,     \* history: the last instruction that retired
  strayed   \* history: the last edge retired one that program order skips

vars == <<ckptvars, recvars, ctlvars, program, win, pending_checkpoint, right, last, strayed>>

Init == /\ CkptInit /\ RecInit /\ CtlInit /\ program \in Programs
        /\ win = << >> /\ pending_checkpoint = FALSE
        /\ right = TRUE /\ last = [tag |-> NoTag, on |-> TRUE] /\ strayed = FALSE

InFlight == {win[k].tag : k \in DOMAIN win}
At(t) == CHOOSE k \in DOMAIN win : win[k].tag = t

-----------------------------------------------------------------------------
(* The selective transaction fires when every part agrees.                 *)
selective_killed == {win[k].tag : k \in {j \in DOMAIN win : j > At(pending_tag)}}
selective_transaction_fire ==
  /\ selective_request_valid(recovery_pulse) /\ pending_checkpoint
  /\ pending_tag \in InFlight
  /\ selective_purge_ready(pending_tag, selective_killed, recovery_pulse)

-----------------------------------------------------------------------------
(* Completions: at most two on an edge, one of them a branch; none while   *)
(* the window is flushed or truncated.                                     *)
IsControlWb(e) == e.fate = "exc" \/ (e.kind = "sys" /\ e.fate = "redir")
Settled(e) == e.done /\ (e.fate = "ok" \/ e.recov)
Completions ==
  IF recovery_pulse \/ selective_transaction_fire THEN {{}}
  ELSE {D \in SUBSET {k \in DOMAIN win : ~win[k].done} :
          /\ Cardinality(D) <= 2
          /\ Cardinality({k \in D : win[k].kind = "branch"}) <= 1
          /\ program.in_order =>
               \A k \in D : IsControlWb(win[k]) => \A j \in 1 .. k - 1 : Settled(win[j])}

NoFinal == [tag |-> NoTag, redir |-> FALSE]
(* A branch to a misaligned target completes as an exception and not as a  *)
(* branch: its checkpoint stays until the flush.                           *)
IsBranchWbFaultBug(e) == e.kind = "branch"
IsBranchWb(e) == e.kind = "branch" /\ e.fate # "exc"
branch_final(D) ==
  IF \E k \in D : IsBranchWb(win[k])
  THEN LET k == CHOOSE k \in D : IsBranchWb(win[k])
       IN [tag |-> win[k].tag, redir |-> win[k].fate = "redir"]
  ELSE NoFinal

(* What the control recovery sees of them: one, whichever lane it is in.   *)
control_finals(D) ==
  LET C == {k \in D : IsControlWb(win[k])}
  IN IF C = {} THEN {[tag |-> NoTag, kind |-> "none"]}
     ELSE {[tag |-> win[k].tag,
            kind |-> IF win[k].fate = "exc" THEN "exception" ELSE "system"] : k \in C}

-----------------------------------------------------------------------------
(* Retirement (InOrderWindow.tla): at most two in order, an exception or a *)
(* system instruction alone; a mispredicted branch may be the older one as *)
(* soon as it completed, the younger one only after its squash.  None on   *)
(* an edge that flushes or truncates the window.                           *)
commit_enable == ~recovery_pulse /\ ~selective_request_valid(recovery_pulse)
Ordinary(e) == e.fate # "exc" /\ e.kind # "sys"
SameEdgeRedirectBug(D, k) == k \in D /\ win[k].fate # "exc"
SameEdge(D, k) == k \in D /\ win[k].fate = "ok"
Retirable(D, k) == win[k].done \/ SameEdge(D, k)
Retirements(D) ==
  {c \in 0 .. 2 :
     /\ c <= Len(win) /\ (c > 0 => commit_enable)
     /\ \A k \in 1 .. c : Retirable(D, k)
     /\ c = 2 => /\ \A k \in 1 .. 2 : Ordinary(win[k])
                 /\ win[1].kind = "branch" => win[1].fate = "ok"
                 /\ win[2].kind = "branch" /\ win[2].fate = "redir" => win[2].recov}
RetireEvent(c) ==
  IF c = 0 THEN [tag |-> NoTag, exc |-> FALSE]
  ELSE [tag |-> win[1].tag, exc |-> win[1].fate = "exc"]

-----------------------------------------------------------------------------
(* Dispatch: a serializing instruction waits for every branch and control  *)
(* recovery in flight and holds up everything behind it until it retires;  *)
(* a branch needs room in both branch windows.                             *)
dispatch_freeze(final, event) ==
  rec_dispatch_freeze(recovery_pulse) \/ ctl_dispatch_freeze(final, event)
Bundles == {<< >>} \cup {<<u>> : u \in program.insts}
             \cup {<<u, v>> : u \in {w \in program.insts : w[1] = "op"}, v \in program.insts}
Dispatchable(b, bf, final, event) ==
  b # << >> =>
    /\ ~dispatch_freeze(final, event)
    /\ Len(win) + Len(b) <= Depth
    /\ \A k \in DOMAIN win : win[k].kind # "sys"
    /\ \A k \in DOMAIN b :
         /\ b[k][1] = "sys" => ~serial_dispatch_block(recovery_pulse)
         /\ b[k][1] = "branch" =>
              /\ branch_dispatch_allow(recovery_pulse, bf)
              /\ alloc_ready(checkpoint_release(bf), selective_transaction_fire)
Entry(u, t, on) == [tag |-> t, kind |-> u[1], fate |-> u[2], done |-> FALSE,
                    recov |-> FALSE, on |-> on]
Entries(b, t) ==
  [k \in DOMAIN b |-> Entry(b[k], t[k], right /\ (k = 2 => b[1][2] = "ok"))]
branch_dispatch_tag(b, t) ==
  IF \E k \in DOMAIN b : b[k][1] = "branch"
  THEN t[CHOOSE k \in DOMAIN b : b[k][1] = "branch"] ELSE NoTag

-----------------------------------------------------------------------------
(* The window, the redirect multiplexer and the front end.                 *)
SurvivorsOneMoreBug ==
  [SubSeq(win, 1, IF At(pending_tag) = Len(win) THEN Len(win) ELSE At(pending_tag) + 1)
     EXCEPT ![At(pending_tag)].recov = TRUE]
Survivors == [SubSeq(win, 1, At(pending_tag)) EXCEPT ![At(pending_tag)].recov = TRUE]
Completed(D) == [k \in DOMAIN win |-> [win[k] EXCEPT !.done = @ \/ k \in D]]
WindowEdge(D, c, new) ==
  win' = IF recovery_pulse THEN << >>
         ELSE IF selective_transaction_fire THEN Survivors
         ELSE SubSeq(Completed(D), c + 1, Len(win)) \o new

(* The front end takes a redirect on the edge it is offered.               *)
redirect_readyStallsBug == BOOLEAN
redirect_ready == {TRUE}
branch_redirect_valid == rec_redirect_valid(recovery_pulse, selective_transaction_fire)
(* Control recovery goes first.                                            *)
redirect_tag == IF ctl_redirect_valid THEN ctl_tag ELSE pending_tag
redirect_accepted(ready) == ready /\ (ctl_redirect_valid \/ branch_redirect_valid)

(* After a redirect the front end is right if the instruction it continues *)
(* from is right and is the youngest one left.                             *)
FrontEnd(c, b, ready) ==
  /\ last' = IF c = 0 THEN last ELSE [tag |-> win[c].tag, on |-> win[c].on]
  /\ LET youngest == IF win' = << >> THEN last' ELSE win'[Len(win')]
     IN right' = IF redirect_accepted(ready)
                 THEN youngest.tag = redirect_tag /\ youngest.on
                 ELSE right /\ \A k \in DOMAIN b : b[k][2] = "ok"
  /\ strayed' = (\E k \in 1 .. c : ~win[k].on)

Step(D, final, c, b, t, ready) ==
  LET bf == branch_final(D)
      event == RetireEvent(c)
      fire == selective_transaction_fire
      alloc == branch_dispatch_tag(b, t)
  IN /\ Dispatchable(b, bf, final, event)
     /\ WindowEdge(D, c, Entries(b, t))
     /\ CheckpointEdge(recovery_pulse, checkpoint_release(bf), checkpoint_select(bf),
                       IF fire THEN pending_tag ELSE NoTag, selective_killed, alloc)
     /\ RecoveryEdge(recovery_pulse, bf, Holds(checkpoint_select(bf)), alloc, fire,
                     selective_killed, ready /\ ~ctl_redirect_valid)
     /\ ControlEdge(final, event, ready)
     /\ pending_checkpoint' = /\ ~recovery_pulse /\ ~fire
                              /\ pending_checkpoint \/ Holds(checkpoint_select(bf))
     /\ FrontEnd(c, b, ready)
     /\ UNCHANGED program

Fresh(n) == {t \in [1 .. n -> Tags \ InFlight] : n = 2 => t[1] # t[2]}
Edge == \E D \in Completions : \E final \in control_finals(D), c \in Retirements(D),
          b \in Bundles, ready \in redirect_ready :
            \E t \in Fresh(Len(b)) : Step(D, final, c, b, t, ready)

Spec == Init /\ [][Edge]_vars

(* The unit of the oldest instruction answers, the trace port takes what   *)
(* may retire again and again, and clock edges go on.                      *)
HeadCompletes == Edge /\ win # << >> /\ ~win[1].done /\
                   (win' = << >> \/ win'[1].done \/ win'[1].tag # win[1].tag)
HeadRetires == Edge /\ win # << >> /\ win[1].done /\ last'.tag = win[1].tag
                 /\ (win' = << >> \/ win'[1].tag # win[1].tag)
FairSpec == /\ Spec
            /\ WF_vars(Edge /\ recovery_pulse) /\ WF_vars(Edge /\ selective_transaction_fire)
            /\ WF_vars(Edge /\ redirect_accepted(TRUE))
            /\ SF_vars(HeadCompletes) /\ SF_vars(HeadRetires)

-----------------------------------------------------------------------------
(* Properties.                                                             *)

(* Every unresolved branch has one checkpoint and one place in the window  *)
(* of the recovery controller, in program order, and oldest_idx names the  *)
(* older one: the three records of who may still mispredict agree.         *)
Unresolved(e) == e.kind = "branch" /\ ~Settled(e)
BranchBookkeeping ==
  ctl_state # "recover" =>
    /\ {window[i] : i \in DOMAIN window} = {win[k].tag : k \in {j \in DOMAIN win : Unresolved(win[j])}}
    /\ \A i, j \in DOMAIN window : i < j => At(window[i]) < At(window[j])
    /\ {entry[i] : i \in 0 .. 1} \ {NoTag} = {window[k] : k \in DOMAIN window}
    /\ window # << >> => entry[oldest_idx] = window[1]

(* No part reports that another one broke the protocol                     *)
(* (conservation_error_o of the three modules).                            *)
NoProtocolError == ckpt_errors = {} /\ rec_errors = {} /\ ~dup_error

(* Recovery in progress belongs to an instruction in flight: the control   *)
(* completion that freezes dispatch is still to retire, for a branch that  *)
(* recovers must "discard that younger ownership"                          *)
(* (ooo_pipeline_commit_control_recovery_1w.sv:124); and the branch whose  *)
(* squash is due is there, with its checkpoint.                            *)
PendingOwned ==
  ctl_state = "pending" => \E k \in DOMAIN win : win[k].tag = ctl_tag /\ win[k].done
TransactionOwned ==
  rec_state = "transaction" =>
    /\ pending_checkpoint /\ Holds(pending_tag)
    /\ \E k \in DOMAIN win : win[k].tag = pending_tag /\ win[k].done

(* Whatever is mispredicted, faults or is squashed on the way, nothing     *)
(* retires that program order would not execute: recovery restarts fetch   *)
(* at the right place, before anything behind it leaves.                   *)
RightPathOnly == ~strayed

(* Dispatch is not frozen for ever.                                        *)
Frozen == rec_state # "active" \/ ctl_state # "idle"
FreezeEnds == []<>~Frozen

=============================================================================
