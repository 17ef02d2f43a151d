--------------------------- MODULE MCDataLineCache ---------------------------
(* Constants of the runs of DataLineCache.                                 *)
EXTENDS DataLineCache, TLC

CONSTANTS w1, w2, dev, b1, b2, l1, l2, l3

OneLine   == [w \in Words |-> 0]
Uniform   == {[b \in Bytes |-> v] : v \in Values}
AllShapes == (SUBSET Bytes) \ {{}}

(* Partial stores to one word; two words that compete for one line; a word *)
(* of a device next to one of the memory; atomic accesses to either.       *)
Partial == [words |-> {w1}, shapes |-> AllShapes, loads |-> 3, atomics |-> {}]
Compete == [words |-> {w1, w2}, shapes |-> {{b1}}, loads |-> 2, atomics |-> {}]
Device  == [Compete EXCEPT !.words = {w1, dev}]
Atomics == [words |-> {w1}, shapes |-> {{b1}}, loads |-> 2, atomics |-> Uniform]

MCWorkloads   == {Partial, Compete, Device, Atomics, [Atomics EXCEPT !.words = {dev}]}
WrapWorkloads == {[Partial EXCEPT !.loads = 2]}
Names == {f @@ g : f \in Permutations(LoadTokens), g \in Permutations(Values)}

=============================================================================
