----------------------------- MODULE MemoryPort -----------------------------
(***************************************************************************)
(* What a client of the tagged data port of the out-of-order core may rely *)
(* on.  The load/store unit, the line cache and the DPI bridge are chained *)
(* through ports of this shape, so it is stated once: TaggedBridge and     *)
(* DataLineCache are shown to implement it for what is above them, and     *)
(* DataLineCache is checked on top of it.                                  *)
(*                                                                         *)
(* Requests take effect in the order in which they are accepted.  Every    *)
(* accepted request is answered exactly once, with its own token, at any   *)
(* later edge and in any order.  A load is answered with the word it is in.*)
(***************************************************************************)
EXTENDS Naturals

CONSTANTS
  Words,    \* the aligned words
  Bytes,    \* the byte lanes of a word
  Values,   \* what a byte may hold
  MayFail,  \* the words whose accesses may be answered with an error
  None      \* no request, no answer

VARIABLES
  mem,      \* word -> byte -> value
  answers   \* the answers that are due

Word == [Bytes -> Values]

(* merge_store_bytes of the cache, write_access of the memory.             *)
Merge(old, r) == [b \in Bytes |-> IF b \in r.bytes THEN r.data[b] ELSE old[b]]

Performed(m, r, err) == IF r = None \/ err THEN m
                        ELSE IF r.write THEN [m EXCEPT ![r.word] = Merge(@, r)]
                        ELSE m

(* An answer to a store carries no data.                                   *)
Answer(m, r, err) == [tok |-> r.tok, err |-> err,
                      data |-> IF r.write \/ err THEN None ELSE m[r.word]]

(* One edge: r is accepted, a is taken, either may be None.                *)
Step(r, a) ==
  \E err \in BOOLEAN :
    /\ err => r # None /\ r.word \in MayFail
    /\ r # None => \A b \in answers \ {a} : b.tok # r.tok
    /\ a # None => a \in answers
    /\ mem' = Performed(mem, r, err)
    /\ answers' = (answers \ {a}) \cup
                  (IF r = None THEN {} ELSE {Answer(mem, r, err)})

(* The same, for a client that may send any of a set of requests.          *)
Init == mem \in [Words -> Word] /\ answers = {}
Next(requests) == \E r \in requests \cup {None}, a \in answers \cup {None} : Step(r, a)

=============================================================================
