---------------------------- MODULE MCRegRename ----------------------------
(* A small rename stage: x0..x2, two spare names, three entries.           *)
EXTENDS RegRename

U(k, d, s) == [kind |-> k, rd |-> d, rs |-> s, wen |-> TRUE]

MCUops == {U("alu", 1, 2), U("load", 2, 1), U("bru", 1, 1), U("sys", 0, 2), U("fault", 0, 1)}
=============================================================================
