--------------------------- MODULE ExecAgeRecovery ---------------------------
(***************************************************************************)
(* Recovery of mispredicted branches when they execute:                    *)
(* rtl/profiles/rv32im_ooo_4k/core/ooo_branch_execute_age_recovery_1w.sv.  *)
(* A window of at most two unresolved branches; a mispredicted one waits in*)
(* transaction for the squash of everything behind it, then hands its      *)
(* redirect to the front end, on the edge of the squash if that is ready.  *)
(***************************************************************************)
EXTENDS BranchTags

VARIABLES
  rec_state,    \* REC_ACTIVE, REC_TRANSACTION, REC_REDIRECT
  window,       \* window_tag0_q, window_tag1_q: the valid ones, in order
  pending_tag,  \* pending_tag_q
  rec_errors    \* the sticky error flags that are set

recvars == <<rec_state, window, pending_tag, rec_errors>>

RecInit == /\ rec_state = "active" /\ window = << >>
           /\ pending_tag = NoTag /\ rec_errors = {}

InWindow(t) == \E k \in DOMAIN window : window[k] = t

(* final is the branch completion consumed on this edge: its tag (or       *)
(* NoTag) and whether it redirects.                                        *)
correct_release(final) ==
  rec_state = "active" /\ final.tag # NoTag /\ ~final.redir /\ InWindow(final.tag)
select_mispredict(final) ==
  rec_state = "active" /\ final.tag # NoTag /\ final.redir /\ InWindow(final.tag)
checkpoint_release(final) == IF correct_release(final) THEN final.tag ELSE NoTag
checkpoint_select(final)  == IF select_mispredict(final) THEN final.tag ELSE NoTag

selective_request_valid(recover) == ~recover /\ rec_state = "transaction"
rec_redirect_valid(recover, fire) ==
  ~recover /\ (rec_state = "redirect" \/ (rec_state = "transaction" /\ fire))
rec_dispatch_freeze(recover) == recover \/ rec_state # "active"
serial_dispatch_blockOpenBug(recover) == recover \/ rec_state # "active"
serial_dispatch_block(recover) ==
  recover \/ window # << >> \/ rec_state # "active"
branch_dispatch_allow(recover, final) ==
  ~recover /\ rec_state = "active" /\ (Len(window) < 2 \/ correct_release(final))

(* The two places of the window without some of the branches, compacted.   *)
Without(gone) ==
  LET left == {k \in DOMAIN window : window[k] \notin gone}
  IN IF left = DOMAIN window THEN window
     ELSE IF left = {} THEN << >>
     ELSE <<window[CHOOSE k \in left : TRUE]>>

(* The squash takes the branch and everything killed out of the window.    *)
Surviving(killed) == Without({pending_tag} \cup killed)

(* A branch outside the window is reported when it issues; it is seen here *)
(* when it completes.                                                      *)
RecoveryEdge(recover, final, hit, dispatched, fire, killed, redirect_ready) ==
  IF recover
  THEN /\ rec_state' = "active" /\ window' = << >>
       /\ pending_tag' = NoTag /\ rec_errors' = {}
  ELSE
    LET kept == IF correct_release(final)
                THEN Without({final.tag}) ELSE window
        admitted == dispatched # NoTag /\ branch_dispatch_allow(recover, final)
                      /\ Len(kept) < 2
        next == IF admitted THEN Append(kept, dispatched) ELSE kept
        refused == dispatched # NoTag /\ ~admitted
        stray == final.tag # NoTag /\ ~InWindow(final.tag)
    IN /\ window' = IF rec_state = "transaction" /\ fire THEN Surviving(killed) ELSE next
       /\ rec_state' =
            CASE select_mispredict(final) /\ hit -> "transaction"
              [] rec_state = "transaction" /\ fire ->
                   IF redirect_ready THEN "active" ELSE "redirect"
              [] rec_state = "redirect" /\ redirect_ready -> "active"
              [] OTHER -> rec_state
       /\ pending_tag' =
            IF select_mispredict(final) /\ hit THEN final.tag
            ELSE IF rec_state' = "active" THEN NoTag ELSE pending_tag
       /\ rec_errors' = rec_errors
            \cup (IF refused \/ stray THEN {"admission"} ELSE {})
            \cup (IF stray /\ rec_state = "active" THEN {"unexpected_final"} ELSE {})
            \cup (IF select_mispredict(final) /\ ~hit THEN {"checkpoint_miss"} ELSE {})
=============================================================================
