----------------------------- MODULE MCSmallRob -----------------------------
(* Small reorder buffers.  Each program has the instruction classes that   *)
(* interact in one question.                                               *)
EXTENDS SmallRob

Tagged  == [stale |-> 1, insts |-> {<<"alu", "ok">>, <<"branch", "redir">>}]
Retire  == [stale |-> 0, insts |-> {<<"alu", "ok">>, <<"branch", "redir">>, <<"jump", "ok">>}]
Stores  == [stale |-> 0, insts |-> {<<"load", "exc">>, <<"store", "ok">>, <<"branch", "redir">>,
                                    <<"branch", "exc">>}]
System  == [stale |-> 0, insts |-> {<<"mul", "ok">>, <<"jump", "redir">>, <<"sys", "redir">>,
                                    <<"ebreak", "ok">>}]
MCPrograms     == {Tagged, Retire, Stores, System}
MCLivePrograms == {[stale |-> 0, insts |-> {<<"store", "ok">>, <<"branch", "redir">>}]}
=============================================================================
