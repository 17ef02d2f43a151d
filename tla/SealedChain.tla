---------------------------- MODULE SealedChain ----------------------------
(***************************************************************************)
(* What the staged flow promises: a growing set of sealed runs.  A run     *)
(* enters once and never changes.  It is made from the sources its         *)
(* identity names, and every run after synthesis takes as its input the    *)
(* product of a sealed run of the stage before it that has the same        *)
(* identity.                                                               *)
(***************************************************************************)
VARIABLE sealed

Previous == [pnr |-> "dc", sta |-> "pnr"]

Linked(run, parents) ==
    \E parent \in parents :
        /\ parent.stage = Previous[run.stage]
        /\ parent.identity = run.identity
        /\ parent.product = run.input

Seal(run) ==
    /\ \A other \in sealed : <<other.stage, other.dir>> # <<run.stage, run.dir>>
    /\ run.made = run.identity
    /\ run.stage = "dc" \/ Linked(run, sealed)
    /\ sealed' = sealed \cup {run}

Init == sealed = {}

Next == \E run \in sealed' \ sealed : Seal(run)

Spec == Init /\ [][Next]_sealed
=============================================================================
