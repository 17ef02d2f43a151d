-------------------------- MODULE MCBranchRecovery --------------------------
(* Constants of the runs of BranchRecovery.                                *)
EXTENDS BranchRecovery, TLC

TagSymmetry == Permutations(Tags)

Program(insts, in_order) == [insts |-> insts, in_order |-> in_order]

(* No fault at all, and faults that are reported in order.                 *)
MCPrograms ==
  {Program({<<"op", "ok">>, <<"branch", "ok">>, <<"branch", "redir">>, <<"sys", "redir">>}, FALSE),
   Program({<<"op", "ok">>, <<"op", "exc">>, <<"branch", "redir">>, <<"branch", "exc">>,
            <<"sys", "redir">>}, TRUE)}
MCLive           == {Program({<<"op", "exc">>, <<"branch", "redir">>}, TRUE)}
MCWrongPathFault == {Program({<<"op", "exc">>, <<"branch", "redir">>}, FALSE)}
MCTwoFaults      == {Program({<<"op", "exc">>}, FALSE)}
=============================================================================
