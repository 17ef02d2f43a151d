----------------------------- MODULE BranchTags -----------------------------
(* Names of the instructions in flight, as the recovery controllers of     *)
(* rtl/profiles/rv32im_ooo_4k see them: a reorder-buffer tag is compared as *)
(* a whole, and SmallRob.tla shows that two instructions never share one.  *)
EXTENDS Integers, Sequences, FiniteSets

CONSTANTS Tags, NoTag
ASSUME TagAssumption == IsFiniteSet(Tags) /\ NoTag \notin Tags
=============================================================================
