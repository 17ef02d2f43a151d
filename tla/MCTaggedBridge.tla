---------------------------- MODULE MCTaggedBridge ----------------------------
(* Constants of the runs of TaggedBridge.                                  *)
EXTENDS TaggedBridge

CONSTANTS w1, w2, t1, t2, t3

=============================================================================
