---------------------------- MODULE InOrderWindow ----------------------------
(***************************************************************************)
(* What the reorder buffer promises, with neither indices nor generations: *)
(* instructions enter a window at the young end, complete once with their  *)
(* own outcome in any order, and leave in program order, at most two on an *)
(* edge.  SmallRob.tla implements it; RegRename.tla relies on it.          *)
(***************************************************************************)
EXTENDS Integers, Sequences

VARIABLES
  win,     \* instructions in flight, oldest first
  commit,  \* the instructions that left on the last edge
  trap     \* a control event left: the window is flushed on the next edge

wvars == <<win, commit, trap>>

(* fate is the outcome the execution unit has for the instruction; done,   *)
(* exc and redir are what the window has recorded of it; hits counts the   *)
(* results it accepted, asked the store requests it sent.                  *)
Fresh(e) == /\ ~e.done /\ ~e.exc /\ ~e.redir /\ ~e.recov /\ ~e.performed
            /\ e.hits = 0 /\ e.asked = 0

(* One edge of the life of an instruction.  A store may also fault after   *)
(* its completion, while its request is outstanding.                       *)
Evolves(e, f) ==
  /\ f.kind = e.kind /\ f.fate = e.fate
  /\ e.done => f.done /\ f.redir = e.redir /\ (e.exc => f.exc)
  /\ f.done /\ ~e.done => /\ f.exc = (f.fate = "exc")
                          /\ f.redir = (f.fate = "redir")
  /\ f.hits = IF f.done THEN 1 ELSE 0
  /\ f.exc /\ ~e.exc /\ e.done => e.kind = "store" /\ e.asked = 1
  /\ f.asked \in {e.asked, e.asked + 1} /\ f.asked <= 1
  /\ f.asked = 1 => f.kind = "store" /\ f.done
  /\ e.performed => f.performed
  /\ f.performed => f.asked = 1 /\ ~f.exc

(* What may leave as an ordinary retirement: a completed instruction       *)
(* without exception; a store once it is performed; a mispredicted branch  *)
(* once everything behind it was squashed.                                 *)
Retires(e) == /\ e.done /\ ~e.exc /\ e.kind # "ebreak"
              /\ e.kind = "store" => e.performed
              /\ e.kind \in {"branch", "jump"} /\ e.redir => e.recov

(* What leaves alone, and flushes the window.                              *)
ControlEvent(e) == \/ e.done /\ e.exc
                   \/ e.done /\ e.kind = "ebreak"
                   \/ Retires(e) /\ e.kind = "sys" /\ e.redir

Alone == {"store", "sys", "ebreak"}

Edge ==
  LET all == commit' \o win'
  IN /\ ~trap
     /\ Len(all) \in Len(win) .. Len(win) + 2 /\ Len(commit') <= Len(win)
     /\ \A k \in DOMAIN win : /\ Evolves(win[k], all[k])
                              /\ all[k].recov = win[k].recov
                              /\ k > 1 => all[k].asked = win[k].asked
     /\ \A k \in Len(win) + 1 .. Len(all) : Fresh(all[k])
     /\ IF trap' THEN Len(commit') = 1 /\ ControlEvent(commit'[1])
        ELSE /\ Len(commit') <= 2
             /\ \A k \in DOMAIN commit' : Retires(commit'[k])
             /\ Len(commit') = 2 => \A k \in 1 .. 2 : commit'[k].kind \notin Alone

(* Selective recovery: the instructions behind a mispredicted branch leave *)
(* unretired, nobody else moves.                                           *)
Cut ==
  /\ ~trap /\ ~trap' /\ commit' = << >>
  /\ LET b == Len(win')
     IN /\ b \in DOMAIN win
        /\ win[b].done /\ win[b].redir /\ ~win[b].recov /\ win'[b].recov
        /\ \A k \in 1 .. b : Evolves(win[k], win'[k])
        /\ \A k \in 1 .. b - 1 : win'[k].recov = win[k].recov

Flush == trap /\ win' = << >> /\ commit' = << >> /\ ~trap'

Init == win = << >> /\ commit = << >> /\ trap = FALSE
Next == Edge \/ Cut \/ Flush
Spec == Init /\ [][Next]_wvars

=============================================================================
