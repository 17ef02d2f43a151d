-------------------------- MODULE TaggedBridgeProofs --------------------------
(***************************************************************************)
(* Proofs about TaggedBridge for every memory, every set of tokens and     *)
(* every admitted limit.                                                   *)
(*                                                                         *)
(* An edge may take the held answer, capture the next one and accept a     *)
(* request.  Each is described first by what it does to the occupied       *)
(* entries (Frees, Marks, Fills); the parts of the invariant and the       *)
(* refinement of MemoryPort only use these facts.                          *)
(***************************************************************************)
EXTENDS TaggedBridge, FiniteSetTheorems, SequenceTheorems, TLAPS

-----------------------------------------------------------------------------
(* The parts of the inductive invariant.                                   *)

TypeInv ==
  /\ stored \in [Words -> Memory!Word]
  /\ queue \in Seq(Requests)
  /\ entry \in [Slots -> Entries \cup {None}]
  /\ response \in Responses \cup {None}
  /\ owed \subseteq Tokens

(* No two requests at the service, and no two entries, have the same token.*)
TokensDiffer ==
  /\ \A j, k \in 1 .. Len(queue) : queue[j].tok = queue[k].tok => j = k
  /\ \A i, j \in Valid : entry[i].tok = entry[j].tok => i = j

(* Which entry is waiting for what.                                        *)
Waiting(i) == \E k \in 1 .. Len(queue) : queue[k].tok = entry[i].tok
Waited(k)  == \E i \in Valid : ~entry[i].responded /\ entry[i].tok = queue[k].tok
Matched ==
  /\ \A i \in Valid : ~entry[i].responded => Waiting(i)
  /\ \A k \in 1 .. Len(queue) : Waited(k)
  /\ \A i \in Valid : entry[i].responded => response # None /\ response.entry = i
  /\ response # None => entry[response.entry] = [tok |-> response.tok, responded |-> TRUE]

HeldCount == IF response = None THEN 0 ELSE 1
Counted ==
  /\ owed = {entry[i].tok : i \in Valid}
  /\ Cardinality(Valid) = Len(queue) + HeldCount
  /\ Cardinality(owed) = Cardinality(Valid)
  /\ Cardinality(Valid) <= ClientLimit

IInv == TypeInv /\ TokensDiffer /\ Matched /\ Counted /\ NoProtocolError

-----------------------------------------------------------------------------
(* Sequences and finite sets.                                              *)

(* What the service's queue is without its oldest request.                 *)
LEMMA WithoutOldest ==
  ASSUME NEW S, NEW q \in Seq(S), q # << >>
  PROVE  /\ RemoveAt(q, 1) = Tail(q) /\ Tail(q) \in Seq(S)
         /\ Len(q) \in Nat /\ Len(q) >= 1 /\ Len(Tail(q)) = Len(q) - 1
         /\ \A k \in 1 .. Len(Tail(q)) : Tail(q)[k] = q[k + 1]
<1>1. /\ Len(q) \in Nat /\ Len(q) >= 1 /\ Tail(q) \in Seq(S) /\ Len(Tail(q)) = Len(q) - 1
      /\ \A k \in 1 .. Len(Tail(q)) : Tail(q)[k] = q[k + 1]
  BY SMT
<1>2. SubSeq(q, 1, 1 - 1) = << >>
  BY SMT
<1>3. SubSeq(q, 1 + 1, Len(q)) = Tail(q)
  <2>1. SubSeq(q, 2, Len(q)) \in Seq(S) /\ Len(SubSeq(q, 2, Len(q))) = Len(q) - 1
    BY <1>1, SMT
  <2>2. \A k \in 1 .. Len(q) - 1 : SubSeq(q, 2, Len(q))[k] = q[k + 1]
    BY <1>1, SMT
  <2>3. SubSeq(q, 2, Len(q)) = Tail(q)
    BY <1>1, <2>1, <2>2, SeqEqual
  <2> QED BY <2>3
<1>4. << >> \o Tail(q) = Tail(q)
  BY <1>1, ConcatEmptySeq
<1> QED BY <1>1, <1>2, <1>3, <1>4 DEF RemoveAt

LEMMA SlotCount == IsFiniteSet(Slots) /\ Cardinality(Slots) = 3
<1>1. 0 \in Int /\ 2 \in Int
  OBVIOUS
<1>2. IsFiniteSet(0 .. 2) /\ Cardinality(0 .. 2) = IF 0 > 2 THEN 0 ELSE 2 - 0 + 1
  BY <1>1, FS_Interval, Zenon
<1> QED BY <1>2 DEF Slots

LEMMA SlotSets ==
  ASSUME NEW V \in SUBSET Slots
  PROVE  IsFiniteSet(V) /\ Cardinality(V) \in Nat /\ Cardinality(V) <= 3
<1>1. IsFiniteSet(Slots) /\ Cardinality(Slots) = 3
  BY SlotCount
<1>2. IsFiniteSet(V) /\ Cardinality(V) <= Cardinality(Slots)
  BY <1>1, FS_Subset
<1> QED BY <1>1, <1>2, FS_CardinalityType

(* A set of slots with fewer than three elements leaves one out.           *)
LEMMA FreeSlot ==
  ASSUME NEW V \in SUBSET Slots, Cardinality(V) < 3
  PROVE  V # Slots
BY SlotCount

-----------------------------------------------------------------------------
(* The values that are exchanged.                                          *)

LEMMA RequestFacts ==
  ASSUME NEW r \in Requests
  PROVE  /\ r # None /\ r.tok \in Tokens /\ r.word \in Words /\ r.write \in BOOLEAN
         /\ r.write => r.data \in Memory!Word /\ r.bytes = Bytes
<1>1. r # None
  BY NoneIsNothing
<1>2. CASE r \in {Load(t, w) : t \in Tokens, w \in Words}
  <2>1. PICK t \in Tokens, w \in Words : r = [tok |-> t, write |-> FALSE, word |-> w]
    BY <1>2 DEF Load
  <2> QED BY <1>1, <2>1
<1>3. CASE r \in {Store(t, w, Bytes, d) : t \in Tokens, w \in Words, d \in Memory!Word}
  <2>1. PICK t \in Tokens, w \in Words, d \in Memory!Word :
               r = [tok |-> t, write |-> TRUE, word |-> w, bytes |-> Bytes, data |-> d]
    BY <1>3 DEF Store
  <2> QED BY <1>1, <2>1
<1> QED BY <1>2, <1>3 DEF Requests

LEMMA EntryMade ==
  ASSUME NEW t \in Tokens, NEW b \in BOOLEAN
  PROVE  [tok |-> t, responded |-> b] \in Entries
BY DEF Entries

LEMMA QueueFacts ==
  ASSUME TypeInv, NEW k \in 1 .. Len(queue)
  PROVE  queue[k] \in Requests /\ queue[k].tok \in Tokens
<1>1. queue[k] \in Requests
  BY DEF TypeInv
<1> QED BY <1>1, RequestFacts

LEMMA EntryFacts ==
  ASSUME TypeInv, NEW i \in Valid
  PROVE  /\ i \in Slots /\ entry[i] # None
         /\ entry[i] \in Entries /\ entry[i].tok \in Tokens /\ entry[i].responded \in BOOLEAN
BY DEF Valid, TypeInv, Entries

LEMMA HeldFacts ==
  ASSUME IInv, response # None
  PROVE  /\ response \in Responses /\ response.tok \in Tokens /\ response.entry \in Slots
         /\ response.entry \in Valid
         /\ entry[response.entry].responded /\ entry[response.entry].tok = response.tok
<1>1. response \in Responses /\ response.tok \in Tokens /\ response.entry \in Slots
  BY DEF IInv, TypeInv, Responses
<1>2. entry[response.entry] = [tok |-> response.tok, responded |-> TRUE]
  BY DEF IInv, Matched
<1>3. entry[response.entry] \in Entries
  BY <1>1, <1>2 DEF Entries
<1>4. entry[response.entry] # None
  BY <1>3, NoneIsNothing
<1> QED BY <1>1, <1>2, <1>4 DEF Valid

-----------------------------------------------------------------------------
(* The answer of a poll finds its entry.                                   *)

LEMMA PollFinds ==
  ASSUME IInv, queue # << >>
  PROVE  LET c == Capturer(TRUE)
         IN /\ Owners(Answered.tok) = {c} /\ Capturer(FALSE) = None
            /\ c \in Valid /\ c # None /\ ~entry[c].responded /\ entry[c].tok = queue[1].tok
<1>1. Len(queue) \in Nat /\ Len(queue) >= 1
  BY WithoutOldest DEF IInv, TypeInv
<1>2. Answered.tok = queue[1].tok
  BY DEF Answered, oldest_ready, Memory!Answer
<1>3. PICK i \in Valid : ~entry[i].responded /\ entry[i].tok = queue[1].tok
  <2>1. 1 \in 1 .. Len(queue)
    BY <1>1
  <2> QED BY <2>1 DEF IInv, Matched, Waited
<1>4. Owners(Answered.tok) = {i}
  BY <1>2, <1>3, Zenon DEF Owners, IInv, TokensDiffer
<1>5. Cardinality(Owners(Answered.tok)) = 1
  BY <1>4, FS_Singleton, Zenon
<1>6. (CHOOSE j \in Owners(Answered.tok) : TRUE) = i
  BY <1>4
<1>7. Capturer(TRUE) = i
  BY <1>3, <1>5, <1>6, Zenon DEF Capturer
<1>8. i # None
  BY NoneIsNothing DEF Valid
<1>9. Capturer(FALSE) = None
  BY DEF Capturer
<1> QED BY <1>3, <1>4, <1>7, <1>8, <1>9

-----------------------------------------------------------------------------
(* What an edge does to the scoreboard.                                    *)

LEMMA Effective ==
  ASSUME IInv, NEW ready \in BOOLEAN
  PROVE  LET eff == effective_valid(ready)
         IN /\ eff \subseteq Valid /\ Valid \in SUBSET Slots
            /\ response_fire(ready) => response.entry \in Valid /\ eff = Valid \ {response.entry}
            /\ ~response_fire(ready) => eff = Valid
            /\ response_fire(ready) => Left(ready) = owed \ {response.tok}
            /\ ~response_fire(ready) => Left(ready) = owed
            /\ \A i \in Valid : ~entry[i].responded => i \in eff
<1>1. response_fire(ready) => response # None
  BY DEF response_fire
<1>2. response_fire(ready) => response.entry \in Valid /\ entry[response.entry].responded
  BY <1>1, HeldFacts
<1>3. response_fire(ready) => effective_valid(ready) = Valid \ {response.entry}
  BY DEF effective_valid
<1>4. ~response_fire(ready) => effective_valid(ready) = Valid
  BY DEF effective_valid
<1>5. Valid \in SUBSET Slots
  BY DEF Valid
<1>6. /\ response_fire(ready) => Left(ready) = owed \ {response.tok}
      /\ ~response_fire(ready) => Left(ready) = owed
  BY DEF Left
<1>7. \A i \in Valid : ~entry[i].responded => i \in effective_valid(ready)
  BY <1>2, <1>3, <1>4
<1> QED BY <1>2, <1>3, <1>4, <1>5, <1>6, <1>7

(* The request that is accepted goes to a slot that is free, or is freed on*)
(* this edge.                                                              *)
LEMMA Allocates ==
  ASSUME IInv, NEW ready \in BOOLEAN, NEW r \in Offered(ready)
  PROVE  /\ r \in Requests /\ r # None /\ r.tok \in Tokens /\ r.tok \notin owed
         /\ Cardinality(Left(ready)) < ClientLimit
         /\ allocation_slot(ready) \in Slots \ effective_valid(ready)
<1>1. r \in Requests /\ r.tok \notin owed /\ Cardinality(Left(ready)) < ClientLimit
      /\ Cardinality(effective_valid(ready)) < Capacity
  BY DEF Offered, req_ready
<1>2. effective_valid(ready) \in SUBSET Slots
  BY Effective
<1>3. Cardinality(effective_valid(ready)) < 3
  BY <1>1, <1>2, SlotSets, BridgeConstants
<1>4. effective_valid(ready) # Slots
  BY <1>2, <1>3, FreeSlot
<1>5. allocation_slot(ready) \in Slots \ effective_valid(ready)
  BY <1>2, <1>4 DEF allocation_slot, Slots
<1> QED BY <1>1, <1>5, RequestFacts

LEMMA OwedFinite ==
  ASSUME IInv
  PROVE  IsFiniteSet(owed) /\ IsFiniteSet(Valid)
<1>1. IsFiniteSet(Valid)
  BY SlotSets DEF Valid
<1> DEFINE f == [i \in Valid |-> entry[i].tok]
<1>2. f \in Surjection(Valid, owed)
  BY DEF Surjection, IInv, Counted
<1> QED BY <1>1, <1>2, FS_Surjection

(* What is left of the entries, and of what the client waits for, when the *)
(* held answer has been taken.                                             *)
LEMMA Taking ==
  ASSUME IInv, NEW ready \in BOOLEAN
  PROVE  LET eff == effective_valid(ready)
             taken == IF response_fire(ready) THEN 1 ELSE 0
         IN /\ Left(ready) = {entry[i].tok : i \in eff}
            /\ IsFiniteSet(eff) /\ IsFiniteSet(Left(ready))
            /\ Cardinality(eff) = Len(queue) + HeldCount - taken
            /\ Cardinality(Left(ready)) = Cardinality(eff)
            /\ Cardinality(eff) <= ClientLimit
<1> DEFINE eff == effective_valid(ready)
<1>1. /\ owed = {entry[i].tok : i \in Valid} /\ Cardinality(Valid) = Len(queue) + HeldCount
      /\ Cardinality(owed) = Cardinality(Valid) /\ Cardinality(Valid) <= ClientLimit
  BY DEF IInv, Counted
<1>2. IsFiniteSet(owed) /\ IsFiniteSet(Valid) /\ Cardinality(Valid) \in Nat
  BY OwedFinite, FS_CardinalityType
<1>3. ClientLimit \in Nat /\ Len(queue) \in Nat /\ HeldCount \in 0 .. 1
  BY BridgeConstants DEF HeldCount, IInv, TypeInv
<1>4. CASE ~response_fire(ready)
  <2>1. eff = Valid /\ Left(ready) = owed
    BY <1>4, Effective
  <2>2. Cardinality(Valid) = Len(queue) + HeldCount - 0
    BY <1>1, <1>2, <1>3
  <2> QED BY <1>1, <1>2, <1>4, <2>1, <2>2
<1>5. CASE response_fire(ready)
  <2> DEFINE h == response.entry
  <2>1. response # None
    BY <1>5 DEF response_fire
  <2>2. h \in Valid /\ entry[h].tok = response.tok
    BY <2>1, HeldFacts
  <2>3. eff = Valid \ {h} /\ Left(ready) = owed \ {response.tok}
    BY <1>5, Effective
  <2>4. response.tok \in owed
    BY <1>1, <2>2
  <2>5. IsFiniteSet(eff) /\ Cardinality(eff) = Cardinality(Valid) - 1
    BY <1>2, <2>2, <2>3, FS_RemoveElement
  <2>6. IsFiniteSet(Left(ready)) /\ Cardinality(Left(ready)) = Cardinality(owed) - 1
    BY <1>2, <2>3, <2>4, FS_RemoveElement
  <2>7. \A i \in Valid : entry[i].tok = response.tok => i = h
    BY <2>2 DEF IInv, TokensDiffer
  <2>8. Left(ready) = {entry[i].tok : i \in eff}
    BY <1>1, <2>2, <2>3, <2>7
  <2>9. Cardinality(eff) = Len(queue) + HeldCount - 1 /\ Cardinality(eff) <= ClientLimit
    BY <1>1, <1>2, <1>3, <2>5
  <2> QED BY <1>1, <1>5, <2>5, <2>6, <2>8, <2>9
<1> QED BY <1>4, <1>5

(* The queue has room, and no request with the token that is offered.      *)
LeftQueue(polled) == IF polled THEN Tail(queue) ELSE queue

LEMMA NotRefused ==
  ASSUME IInv, NEW ready \in BOOLEAN, NEW polled \in BOOLEAN, NEW r \in Offered(ready),
         polled => can_poll(ready) /\ queue # << >>
  PROVE  ~refused(LeftQueue(polled), r)
<1> DEFINE left == LeftQueue(polled)
           eff  == effective_valid(ready)
           shift == IF polled THEN 1 ELSE 0
<1>1. Len(queue) \in Nat /\ queue \in Seq(Requests)
  BY DEF IInv, TypeInv
<1>2. /\ Len(left) = Len(queue) - shift
      /\ \A k \in 1 .. Len(left) : left[k] = queue[k + shift]
      /\ \A k \in 1 .. Len(left) : k + shift \in 1 .. Len(queue)
  <2>1. CASE polled
    <3>1. /\ Len(left) = Len(queue) - 1 /\ \A k \in 1 .. Len(left) : left[k] = queue[k + 1]
      BY <1>1, <2>1, WithoutOldest DEF LeftQueue
    <3>2. \A k \in 1 .. Len(left) : k + 1 \in 1 .. Len(queue)
      BY <1>1, <3>1
    <3> QED BY <2>1, <3>1, <3>2
  <2>2. CASE ~polled
    BY <1>1, <2>2 DEF LeftQueue
  <2> QED BY <2>1, <2>2
<1>3. Cardinality(eff) < ClientLimit /\ r.tok \notin owed
  BY Allocates, Taking
<1>4. Len(left) < ServiceCapacity
  <2>1. response # None /\ ~response_fire(ready) => ~polled
    BY DEF can_poll
  <2>2. response_fire(ready) => response # None
    BY DEF response_fire
  <2>3. Cardinality(eff) = Len(queue) + HeldCount - IF response_fire(ready) THEN 1 ELSE 0
    BY Taking
  <2>4. Len(left) <= Cardinality(eff)
    <3>1. CASE response_fire(ready)
      <4>1. Cardinality(eff) = Len(queue) + 1 - 1
        BY <2>2, <2>3, <3>1 DEF HeldCount
      <4> QED BY <1>1, <1>2, <4>1
    <3>2. CASE ~response_fire(ready) /\ response = None
      <4>1. Cardinality(eff) = Len(queue) + 0 - 0
        BY <2>3, <3>2 DEF HeldCount
      <4> QED BY <1>1, <1>2, <4>1
    <3>3. CASE ~response_fire(ready) /\ response # None
      <4>1. Cardinality(eff) = Len(queue) + 1 - 0
        BY <2>3, <3>3 DEF HeldCount
      <4> QED BY <1>1, <1>2, <4>1
    <3> QED BY <3>1, <3>2, <3>3
  <2>5. ClientLimit \in Nat /\ ServiceCapacity \in Nat /\ ClientLimit <= ServiceCapacity
    BY BridgeConstants
  <2>6. Cardinality(eff) \in Int
    BY <1>1, <2>3 DEF HeldCount
  <2>7. Len(left) \in Int
    BY <1>1, <1>2
  <2> QED BY <1>3, <2>4, <2>5, <2>6, <2>7
<1>5. \A k \in 1 .. Len(queue) : queue[k].tok \in owed
  BY DEF IInv, Matched, Waited, Counted
<1>6. \A k \in 1 .. Len(left) : left[k].tok # r.tok
  BY <1>2, <1>3, <1>5
<1>7. ServiceCapacity \in Nat /\ Len(left) \in Int
  BY <1>1, <1>2, BridgeConstants
<1> QED BY <1>4, <1>6, <1>7 DEF refused

-----------------------------------------------------------------------------
(* What an edge does: the held answer's entry is freed, the entry that is  *)
(* polled for is marked, and the request's slot is filled.                 *)

Frees(ready, r) == Valid' = effective_valid(ready)
                            \cup (IF r = None THEN {} ELSE {allocation_slot(ready)})
Marks(ready, polled) ==
  \A i \in effective_valid(ready) :
    /\ i # Capturer(polled) => entry'[i] = entry[i]
    /\ i = Capturer(polled) => entry'[i] = [tok |-> entry[i].tok, responded |-> TRUE]
Fills(ready, r) ==
  r # None => entry'[allocation_slot(ready)] = [tok |-> r.tok, responded |-> FALSE]
Holds(ready, polled) ==
  response' = IF polled THEN [tok |-> Answered.tok, err |-> Answered.err,
                              data |-> Answered.data, entry |-> Capturer(polled)]
              ELSE IF response_fire(ready) THEN None ELSE response
Queues(polled, r) ==
  queue' = IF r = None THEN LeftQueue(polled) ELSE Append(LeftQueue(polled), r)
Owes(ready, r) == owed' = Left(ready) \cup (IF r = None THEN {} ELSE {r.tok})

LEMMA EdgeEffect ==
  ASSUME IInv, NEW ready \in BOOLEAN, NEW polled \in BOOLEAN, NEW r \in Offered(ready) \cup {None},
         Edge(r, ready, polled)
  PROVE  /\ polled => can_poll(ready) /\ queue # << >>
         /\ Frees(ready, r) /\ Marks(ready, polled) /\ Fills(ready, r)
         /\ Holds(ready, polled) /\ Queues(polled, r) /\ Owes(ready, r)
         /\ entry' \in [Slots -> Entries \cup {None}] /\ NoProtocolError'
<1> DEFINE c   == Capturer(polled)
           a   == allocation_slot(ready)
           eff == effective_valid(ready)
           left == IF polled THEN RemoveAt(queue, oldest_ready) ELSE queue
           lost == polled /\ c = None
<1>1. polled => can_poll(ready) /\ queue # << >>
  BY DEF Edge
<1>2. left = LeftQueue(polled)
  BY <1>1, WithoutOldest DEF LeftQueue, oldest_ready, IInv, TypeInv
<1>3. r # None => ~refused(left, r)
  BY <1>1, <1>2, NotRefused
<1>4. /\ polled => c \in Valid /\ c # None /\ ~entry[c].responded /\ c \in eff
      /\ ~polled => c = None
  BY <1>1, PollFinds, Effective DEF Capturer
<1>5. Queues(polled, r)
  <2>1. queue' = IF r # None /\ ~refused(left, r) THEN Append(left, r) ELSE left
    BY DEF Edge
  <2> QED BY <1>2, <1>3, <2>1 DEF Queues
<1>6. Holds(ready, polled)
  <2>1. response' = IF c # None
                    THEN [tok |-> Answered.tok, err |-> Answered.err,
                          data |-> Answered.data, entry |-> c]
                    ELSE IF response_fire(ready) THEN None ELSE response
    BY DEF Edge
  <2> QED BY <1>4, <2>1 DEF Holds
<1>7. Owes(ready, r)
  BY DEF Edge, Owes
<1>8. NoProtocolError'
  <2>1. /\ failed = FALSE /\ unknown_response = FALSE /\ duplicate_response = FALSE
        /\ protocol_error = FALSE
    BY DEF IInv, NoProtocolError, flags
  <2>2. ~lost
    BY <1>4
  <2>3. failed' = (failed \/ (r # None /\ refused(left, r)))
    BY DEF Edge
  <2>4. failed' = FALSE
    BY <1>3, <2>1, <2>3, Zenon
  <2>5. /\ duplicate_response' = FALSE /\ unknown_response' = FALSE /\ protocol_error' = FALSE
    BY <2>1, <2>2, Zenon DEF Edge
  <2> QED BY <2>4, <2>5 DEF NoProtocolError, flags
<1> HIDE DEF left, lost
<1>9. entry' = NextEntry(r, ready, c)
  BY DEF Edge
<1>10. r # None => a \in Slots /\ a \notin eff /\ r.tok \in Tokens
  BY Allocates
<1>11. eff \subseteq Valid /\ Valid \in SUBSET Slots
  BY Effective
<1>12. \A i \in eff : ~(response_fire(ready) /\ i = response.entry)
  BY Effective
<1>13. \A i \in Slots \ eff : entry[i] # None => response_fire(ready) /\ i = response.entry
  BY Effective DEF Valid
<1>14. Marks(ready, polled)
  <2> SUFFICES ASSUME NEW i \in eff
               PROVE  /\ i # c => entry'[i] = entry[i]
                      /\ i = c => entry'[i] = [tok |-> entry[i].tok, responded |-> TRUE]
    BY Zenon DEF Marks
  <2>1. i \in Slots /\ i \in Valid /\ ~(r # None /\ i = a)
    BY <1>10, <1>11
  <2>2. i = c => entry'[i] = [tok |-> entry[i].tok, responded |-> TRUE]
    BY <1>9, <2>1, Zenon DEF NextEntry
  <2>3. i # c => entry'[i] = entry[i]
    BY <1>9, <1>12, <2>1, Zenon DEF NextEntry
  <2> QED BY <2>2, <2>3
<1>15. Fills(ready, r)
  BY <1>9, <1>10, Zenon DEF NextEntry, Fills
<1>16. \A i \in Slots \ eff : ~(r # None /\ i = a) => entry'[i] = None
  <2> SUFFICES ASSUME NEW i \in Slots \ eff, ~(r # None /\ i = a)
               PROVE  entry'[i] = None
    OBVIOUS
  <2>1. i # c
    BY <1>4, NoneIsNothing
  <2>2. CASE response_fire(ready) /\ i = response.entry
    BY <1>9, <2>1, <2>2, Zenon DEF NextEntry
  <2>3. CASE ~(response_fire(ready) /\ i = response.entry)
    <3>1. entry'[i] = entry[i] /\ entry[i] = None
      BY <1>9, <1>13, <2>1, <2>3, Zenon DEF NextEntry
    <3> QED BY <3>1
  <2> QED BY <2>2, <2>3
<1>17. \A i \in eff : entry'[i] \in Entries
  <2> SUFFICES ASSUME NEW i \in eff PROVE entry'[i] \in Entries
    OBVIOUS
  <2>1. entry[i] \in Entries /\ entry[i].tok \in Tokens
    BY <1>11, EntryFacts DEF IInv
  <2>2. [tok |-> entry[i].tok, responded |-> TRUE] \in Entries
    BY <2>1, EntryMade
  <2> QED BY <1>14, <2>1, <2>2, Zenon DEF Marks
<1>18. r # None => entry'[a] \in Entries
  BY <1>10, <1>15, EntryMade, Zenon DEF Fills
<1>19. entry' \in [Slots -> Entries \cup {None}]
  <2>1. \A i \in Slots : entry'[i] \in Entries \cup {None}
    BY <1>16, <1>17, <1>18
  <2>2. entry' = [i \in Slots |-> entry'[i]]
    BY <1>9 DEF NextEntry
  <2> QED BY <2>1, <2>2
<1>20. Frees(ready, r)
  <2>1. None \notin Entries
    BY NoneIsNothing
  <2>2. \A i \in Slots : entry'[i] # None <=> (i \in eff \/ (r # None /\ i = a))
    BY <1>16, <1>17, <1>18, <2>1
  <2>3. Valid' = {i \in Slots : entry'[i] # None}
    BY DEF Valid, Slots
  <2>4. eff \subseteq Slots
    BY <1>11
  <2>5. Valid' = eff \cup (IF r = None THEN {} ELSE {a})
    BY <1>10, <2>2, <2>3, <2>4
  <2> QED BY <2>5, Zenon DEF Frees
<1> QED BY <1>1, <1>5, <1>6, <1>7, <1>8, <1>14, <1>15, <1>19, <1>20, Zenon

-----------------------------------------------------------------------------
(* The parts of the invariant are kept.                                    *)

LEMMA PerformedType ==
  ASSUME NEW m \in [Words -> Memory!Word], NEW r \in Requests
  PROVE  Memory!Performed(m, r, FALSE) \in [Words -> Memory!Word]
<1>1. CASE ~r.write
  BY <1>1, RequestFacts DEF Memory!Performed
<1>2. CASE r.write
  <2>1. r.word \in Words /\ r.data \in Memory!Word /\ r # None
    BY <1>2, RequestFacts
  <2>2. Memory!Performed(m, r, FALSE) = [m EXCEPT ![r.word] = Memory!Merge(m[r.word], r)]
    BY <1>2, <2>1 DEF Memory!Performed
  <2>3. m[r.word] \in Memory!Word
    BY <2>1
  <2>4. Memory!Merge(m[r.word], r) \in Memory!Word
    BY <2>1, <2>3 DEF Memory!Merge, Memory!Word
  <2> QED BY <2>2, <2>4
<1> QED BY <1>1, <1>2, RequestFacts

LEMMA AnswerType ==
  ASSUME NEW m \in [Words -> Memory!Word], NEW r \in Requests, NEW i \in Slots
  PROVE  LET w == Memory!Answer(m, r, FALSE)
         IN /\ w = [tok |-> r.tok, err |-> FALSE, data |-> w.data] /\ w.err = FALSE
            /\ [tok |-> w.tok, err |-> w.err, data |-> w.data, entry |-> i] \in Responses
<1> DEFINE d == IF r.write THEN None ELSE m[r.word]
<1>1. Memory!Answer(m, r, FALSE) = [tok |-> r.tok, err |-> FALSE, data |-> d]
  BY DEF Memory!Answer
<1>2. d \in Memory!Word \cup {None}
  BY RequestFacts
<1>3. r.tok \in Tokens
  BY RequestFacts
<1> HIDE DEF d
<1>4. [tok |-> r.tok, err |-> FALSE, data |-> d, entry |-> i] \in Responses
  BY <1>2, <1>3 DEF Responses
<1> DEFINE w == Memory!Answer(m, r, FALSE)
<1> HIDE DEF w
<1>5. w = [tok |-> r.tok, err |-> FALSE, data |-> d]
  BY <1>1 DEF w
<1>6. w.tok = r.tok /\ w.err = FALSE /\ w.data = d
  BY <1>5
<1>7. /\ w = [tok |-> r.tok, err |-> FALSE, data |-> w.data] /\ w.err = FALSE
      /\ [tok |-> w.tok, err |-> w.err, data |-> w.data, entry |-> i] \in Responses
  BY <1>4, <1>5, <1>6, Zenon
<1> QED BY <1>7 DEF w

(* The queue after an edge, by places.                                     *)
Shift(polled) == IF polled THEN 1 ELSE 0

LEMMA QueueEffect ==
  ASSUME IInv, NEW polled \in BOOLEAN, NEW r \in Requests \cup {None},
         polled => queue # << >>, Queues(polled, r)
  PROVE  LET d == Shift(polled)
             n == Len(queue) - d
         IN /\ Len(queue) \in Nat /\ n \in Nat /\ d \in 0 .. 1 /\ (d = 1 <=> polled)
            /\ queue' \in Seq(Requests)
            /\ r = None => Len(queue') = n
            /\ r # None => Len(queue') = n + 1 /\ queue'[n + 1] = r
            /\ \A k \in 1 .. n : k + d \in 1 .. Len(queue) /\ queue'[k] = queue[k + d]
<1> DEFINE left == LeftQueue(polled)
           d == Shift(polled)
           n == Len(queue) - d
<1>1. Len(queue) \in Nat /\ queue \in Seq(Requests)
  BY DEF IInv, TypeInv
<1>2. /\ left \in Seq(Requests) /\ Len(left) = n /\ n \in Nat /\ d \in 0 .. 1 /\ (d = 1 <=> polled)
      /\ \A k \in 1 .. n : k + d \in 1 .. Len(queue) /\ left[k] = queue[k + d]
  <2>1. CASE polled
    <3>1. d = 1 /\ left = Tail(queue)
      BY <2>1 DEF LeftQueue, Shift
    <3>2. queue # << >>
      BY <2>1
    <3> HIDE DEF left, d
    <3>3. /\ Tail(queue) \in Seq(Requests) /\ Len(Tail(queue)) = Len(queue) - 1 /\ Len(queue) >= 1
          /\ \A k \in 1 .. Len(Tail(queue)) : Tail(queue)[k] = queue[k + 1]
      BY <1>1, <3>2, WithoutOldest
    <3>4. /\ left \in Seq(Requests) /\ Len(left) = Len(queue) - 1
          /\ \A k \in 1 .. Len(left) : left[k] = queue[k + 1]
      BY <3>1, <3>3, Zenon
    <3>5. n \in Nat /\ n = Len(queue) - 1
      BY <1>1, <3>1, <3>3
    <3>6. \A k \in 1 .. n : k + d \in 1 .. Len(queue) /\ left[k] = queue[k + d]
      BY <1>1, <3>1, <3>3, <3>4, <3>5
    <3> QED BY <2>1, <3>1, <3>4, <3>5, <3>6
  <2>2. CASE ~polled
    <3>1. d = 0 /\ left = queue
      BY <2>2 DEF LeftQueue, Shift
    <3> QED BY <1>1, <2>2, <3>1
  <2> QED BY <2>1, <2>2
<1>3. CASE r = None
  <2>1. queue' = left
    BY <1>3 DEF Queues
  <2> QED BY <1>1, <1>2, <1>3, <2>1
<1>4. CASE r # None
  <2>1. queue' = Append(left, r) /\ r \in Requests
    BY <1>4 DEF Queues
  <2> HIDE DEF left
  <2>2. /\ Append(left, r) \in Seq(Requests) /\ Len(Append(left, r)) = Len(left) + 1
        /\ Append(left, r)[Len(left) + 1] = r
        /\ \A k \in 1 .. Len(left) : Append(left, r)[k] = left[k]
    BY <1>2, <2>1
  <2> QED BY <1>1, <1>2, <1>4, <2>1, <2>2
<1> QED BY <1>3, <1>4

LEMMA TypeStep ==
  ASSUME IInv, NEW ready \in BOOLEAN, NEW polled \in BOOLEAN, NEW r \in Offered(ready) \cup {None},
         Edge(r, ready, polled)
  PROVE  TypeInv'
<1>1. /\ polled => queue # << >>
      /\ Holds(ready, polled) /\ Queues(polled, r) /\ Owes(ready, r)
      /\ entry' \in [Slots -> Entries \cup {None}]
  BY EdgeEffect
<1>2. r \in Requests \cup {None}
  BY Allocates
<1>3. polled => queue[1] \in Requests
  <2>1. polled => 1 \in 1 .. Len(queue)
    BY <1>1, WithoutOldest DEF IInv, TypeInv
  <2> QED BY <2>1, QueueFacts DEF IInv
<1>4. stored \in [Words -> Memory!Word]
  BY DEF IInv, TypeInv
<1>5. stored' \in [Words -> Memory!Word]
  <2>1. stored' = IF polled THEN Memory!Performed(stored, queue[1], FALSE) ELSE stored
    BY DEF Edge, oldest_ready
  <2> QED BY <1>3, <1>4, <2>1, PerformedType
<1>6. response' \in Responses \cup {None}
  <2>1. CASE polled
    <3>1. Capturer(TRUE) \in Slots
      BY <1>1, <2>1, PollFinds DEF Valid
    <3>2. Answered = Memory!Answer(stored, queue[1], FALSE)
      BY DEF Answered, oldest_ready
    <3>3. response' = [tok |-> Answered.tok, err |-> Answered.err,
                       data |-> Answered.data, entry |-> Capturer(TRUE)]
      BY <1>1, <2>1 DEF Holds
    <3> QED BY <1>3, <1>4, <2>1, <3>1, <3>2, <3>3, AnswerType
  <2>2. CASE ~polled
    BY <1>1, <2>2 DEF Holds, IInv, TypeInv
  <2> QED BY <2>1, <2>2
<1>7. queue' \in Seq(Requests)
  BY <1>1, <1>2, QueueEffect
<1>8. owed' \subseteq Tokens
  <2>1. owed \subseteq Tokens
    BY DEF IInv, TypeInv
  <2>2. r # None => r.tok \in Tokens
    BY Allocates
  <2> QED BY <1>1, <2>1, <2>2 DEF Owes, Left
<1> QED BY <1>1, <1>5, <1>6, <1>7, <1>8 DEF TypeInv

LEMMA Captures ==
  ASSUME IInv, NEW ready \in BOOLEAN, NEW r \in Offered(ready) \cup {None},
         Edge(r, ready, TRUE)
  PROVE  response' # None
<1>1. queue # << >> /\ Holds(ready, TRUE)
  BY EdgeEffect
<1>2. Capturer(TRUE) \in Slots
  BY <1>1, PollFinds DEF Valid
<1>3. 1 \in 1 .. Len(queue) /\ stored \in [Words -> Memory!Word]
  BY <1>1, WithoutOldest DEF IInv, TypeInv
<1>4. queue[1] \in Requests
  BY <1>3, QueueFacts DEF IInv
<1>5. Answered = Memory!Answer(stored, queue[1], FALSE)
  BY DEF Answered, oldest_ready
<1>6. response' = [tok |-> Answered.tok, err |-> Answered.err,
                   data |-> Answered.data, entry |-> Capturer(TRUE)]
  BY <1>1 DEF Holds
<1>7. response' \in Responses
  BY <1>2, <1>3, <1>4, <1>5, <1>6, AnswerType
<1> QED BY <1>7, NoneIsNothing

LEMMA DifferStep ==
  ASSUME IInv, NEW ready \in BOOLEAN, NEW polled \in BOOLEAN, NEW r \in Offered(ready) \cup {None},
         Edge(r, ready, polled)
  PROVE  TokensDiffer'
<1> DEFINE d == Shift(polled)
           n == Len(queue) - d
           eff == effective_valid(ready)
           a == allocation_slot(ready)
<1>1. /\ polled => queue # << >>
      /\ Frees(ready, r) /\ Marks(ready, polled) /\ Fills(ready, r) /\ Queues(polled, r)
  BY EdgeEffect
<1>2. r # None => r \in Requests /\ r.tok \notin owed /\ a \notin eff
  BY Allocates
<1>3. /\ Len(queue) \in Nat /\ n \in Nat /\ d \in 0 .. 1
      /\ r = None => Len(queue') = n
      /\ r # None => Len(queue') = n + 1 /\ queue'[n + 1] = r
      /\ \A k \in 1 .. n : k + d \in 1 .. Len(queue) /\ queue'[k] = queue[k + d]
  BY <1>1, <1>2, QueueEffect
<1>4. \A k \in 1 .. Len(queue) : queue[k].tok \in owed
  BY DEF IInv, Matched, Waited, Counted
<1>5. \A i \in Valid : entry[i].tok \in owed
  BY DEF IInv, Counted
<1>6. /\ \A j, k \in 1 .. Len(queue) : queue[j].tok = queue[k].tok => j = k
      /\ \A i, j \in Valid : entry[i].tok = entry[j].tok => i = j
  BY DEF IInv, TokensDiffer
<1>7. eff \subseteq Valid
  BY Effective
<1> HIDE DEF d, n, eff, a
<1>8. ASSUME NEW j \in 1 .. Len(queue'), NEW k \in 1 .. Len(queue'),
             queue'[j].tok = queue'[k].tok
      PROVE  j = k
  <2>1. \A l \in 1 .. n : queue'[l].tok \in owed
    BY <1>3, <1>4
  <2>2. \A l \in 1 .. Len(queue') : l \notin 1 .. n => r # None /\ l = n + 1
    BY <1>3
  <2>3. CASE j \in 1 .. n /\ k \in 1 .. n
    <3>1. queue[j + d].tok = queue[k + d].tok /\ j + d \in 1 .. Len(queue) /\ k + d \in 1 .. Len(queue)
      BY <1>3, <1>8, <2>3
    <3>2. j + d = k + d
      BY <1>6, <3>1
    <3> QED BY <1>3, <3>2
  <2>4. CASE j \notin 1 .. n /\ k \in 1 .. n
    BY <1>2, <1>3, <1>8, <2>1, <2>2, <2>4, Zenon
  <2>5. CASE j \in 1 .. n /\ k \notin 1 .. n
    BY <1>2, <1>3, <1>8, <2>1, <2>2, <2>5, Zenon
  <2>6. CASE j \notin 1 .. n /\ k \notin 1 .. n
    BY <2>2, <2>6
  <2> QED BY <2>3, <2>4, <2>5, <2>6
<1>9. ASSUME NEW i \in Valid', NEW j \in Valid', entry'[i].tok = entry'[j].tok
      PROVE  i = j
  <2>1. Valid' = eff \cup (IF r = None THEN {} ELSE {a})
    BY <1>1 DEF Frees, eff, a
  <2>2. \A l \in eff : entry'[l].tok = entry[l].tok
    <3> SUFFICES ASSUME NEW l \in eff PROVE entry'[l].tok = entry[l].tok
      OBVIOUS
    <3>1. CASE l = Capturer(polled)
      <4>1. entry'[l] = [tok |-> entry[l].tok, responded |-> TRUE]
        BY <1>1, <3>1, Zenon DEF Marks, eff
      <4> QED BY <4>1
    <3>2. CASE l # Capturer(polled)
      BY <1>1, <3>2, Zenon DEF Marks, eff
    <3> QED BY <3>1, <3>2
  <2>3. r # None => entry'[a].tok = r.tok
    <3>1. r # None => entry'[a] = [tok |-> r.tok, responded |-> FALSE]
      BY <1>1 DEF Fills, a
    <3> QED BY <3>1
  <2>4. \A l \in eff : entry'[l].tok \in owed
    BY <1>5, <1>7, <2>2
  <2>5. CASE i \in eff /\ j \in eff
    BY <1>6, <1>7, <1>9, <2>2, <2>5
  <2>6. CASE i \notin eff /\ j \in eff
    BY <1>2, <1>9, <2>1, <2>3, <2>4, <2>6
  <2>7. CASE i \in eff /\ j \notin eff
    BY <1>2, <1>9, <2>1, <2>3, <2>4, <2>7
  <2>8. CASE i \notin eff /\ j \notin eff
    BY <2>1, <2>8
  <2> QED BY <2>5, <2>6, <2>7, <2>8
<1> QED BY <1>8, <1>9 DEF TokensDiffer

(* The answer that is captured is that of the oldest request.              *)
LEMMA MatchedStep ==
  ASSUME IInv, NEW ready \in BOOLEAN, NEW polled \in BOOLEAN, NEW r \in Offered(ready) \cup {None},
         Edge(r, ready, polled)
  PROVE  Matched'
<1> DEFINE d == Shift(polled)
           n == Len(queue) - d
           eff == effective_valid(ready)
           a == allocation_slot(ready)
           c == Capturer(polled)
<1>1. /\ polled => queue # << >>
      /\ Frees(ready, r) /\ Marks(ready, polled) /\ Fills(ready, r) /\ Queues(polled, r)
      /\ Holds(ready, polled)
      /\ polled => can_poll(ready)
  BY EdgeEffect
<1>2. r # None => r \in Requests /\ a \notin eff
  BY Allocates
<1>3. /\ Len(queue) \in Nat /\ n \in Nat /\ d \in 0 .. 1 /\ (d = 1 <=> polled)
      /\ r = None => Len(queue') = n
      /\ r # None => Len(queue') = n + 1 /\ queue'[n + 1] = r
      /\ \A k \in 1 .. n : k + d \in 1 .. Len(queue) /\ queue'[k] = queue[k + d]
  BY <1>1, <1>2, QueueEffect
<1>4. /\ \A j, k \in 1 .. Len(queue) : queue[j].tok = queue[k].tok => j = k
      /\ \A i, j \in Valid : entry[i].tok = entry[j].tok => i = j
  BY DEF IInv, TokensDiffer
<1>5. /\ \A i \in Valid : ~entry[i].responded => Waiting(i)
      /\ \A k \in 1 .. Len(queue) : Waited(k)
      /\ \A i \in Valid : entry[i].responded => response # None /\ response.entry = i
      /\ response # None => entry[response.entry] = [tok |-> response.tok, responded |-> TRUE]
  BY DEF IInv, Matched
<1>6. /\ eff \subseteq Valid /\ Valid \in SUBSET Slots
      /\ \A i \in Valid : ~entry[i].responded => i \in eff
      /\ response_fire(ready) => response # None /\ response.entry \notin eff
      /\ ~response_fire(ready) => eff = Valid
  BY Effective DEF response_fire
<1>7. /\ polled => /\ c \in Valid /\ c \in eff /\ ~entry[c].responded
                   /\ entry[c].tok = queue[1].tok /\ Answered.tok = queue[1].tok
      /\ ~polled => c = None
  <2>1. Answered.tok = queue[1].tok
    BY DEF Answered, oldest_ready, Memory!Answer
  <2>2. ~polled => c = None
    BY DEF Capturer
  <2>3. polled => c \in Valid /\ ~entry[c].responded /\ entry[c].tok = queue[1].tok
    BY <1>1, PollFinds
  <2> QED BY <1>6, <2>1, <2>2, <2>3
<1>8. \A i \in eff : i # c => entry'[i] = entry[i]
  BY <1>1 DEF Marks
<1>9. \A i \in eff : i = c => entry'[i] = [tok |-> entry[i].tok, responded |-> TRUE]
  BY <1>1 DEF Marks
<1>10. r # None => entry'[a] = [tok |-> r.tok, responded |-> FALSE]
  BY <1>1 DEF Fills
<1>11. Valid' = eff \cup (IF r = None THEN {} ELSE {a})
  BY <1>1 DEF Frees
<1>12. polled => response = None \/ response_fire(ready)
  BY <1>1 DEF can_poll
<1>13. /\ polled => response' = [tok |-> Answered.tok, err |-> Answered.err,
                                 data |-> Answered.data, entry |-> c]
       /\ ~polled /\ response_fire(ready) => response' = None
       /\ ~polled /\ ~response_fire(ready) => response' = response
  BY <1>1 DEF Holds
<1>14. polled => response' # None
  BY Captures
<1> HIDE DEF d, n, eff, a, c
<1>15. ASSUME NEW i \in Valid', ~entry'[i].responded
       PROVE  \E k \in 1 .. Len(queue') : queue'[k].tok = entry'[i].tok
  <2>1. CASE i \in eff
    <3>1. i # c
      <4> SUFFICES ASSUME i = c PROVE FALSE
        OBVIOUS
      <4>1. entry'[i] = [tok |-> entry[i].tok, responded |-> TRUE]
        BY <1>9, <2>1, Zenon
      <4> QED BY <1>15, <4>1
    <3>2. entry'[i] = entry[i] /\ i \in Valid /\ ~entry[i].responded
      BY <1>6, <1>8, <1>15, <2>1, <3>1, Zenon
    <3>3. PICK k \in 1 .. Len(queue) : queue[k].tok = entry[i].tok
      BY <1>5, <3>2 DEF Waiting
    <3>4. ~(polled /\ k = 1)
      BY <1>4, <1>7, <3>1, <3>2, <3>3
    <3>5. k - d \in 1 .. n /\ (k - d) + d = k
      BY <1>3, <3>4 DEF n
    <3>6. queue'[k - d] = queue[k]
      BY <1>3, <3>5
    <3>7. k - d \in 1 .. Len(queue')
      BY <1>3, <3>5
    <3> QED BY <3>2, <3>3, <3>6, <3>7, Zenon
  <2>2. CASE i \notin eff
    <3>1. r # None /\ i = a
      BY <1>11, <2>2
    <3>2. n + 1 \in 1 .. Len(queue') /\ queue'[n + 1] = r /\ entry'[i].tok = r.tok
      BY <1>3, <1>10, <3>1
    <3> QED BY <3>2, Zenon
  <2> QED BY <2>1, <2>2
<1>16. ASSUME NEW k \in 1 .. Len(queue')
       PROVE  \E i \in Valid' : ~entry'[i].responded /\ entry'[i].tok = queue'[k].tok
  <2>1. CASE k \in 1 .. n
    <3>1. k + d \in 1 .. Len(queue) /\ queue'[k] = queue[k + d]
      BY <1>3, <2>1
    <3>2. PICK i \in Valid : ~entry[i].responded /\ entry[i].tok = queue[k + d].tok
      BY <1>5, <3>1, Zenon DEF Waited
    <3>3. i # c
      <4> SUFFICES ASSUME i = c PROVE FALSE
        OBVIOUS
      <4>1. polled
        BY <1>6, <1>7, <3>2, NoneIsNothing
      <4>2. queue[1].tok = queue[k + d].tok /\ d = 1
        BY <1>3, <1>7, <3>2, <4>1
      <4>3. 1 \in 1 .. Len(queue)
        BY <1>3, <3>1
      <4>4. 1 = k + d
        BY <1>4, <3>1, <4>2, <4>3
      <4> QED BY <4>2, <4>4
    <3>4. i \in eff /\ entry'[i] = entry[i]
      BY <1>6, <1>8, <3>2, <3>3, Zenon
    <3> QED BY <1>11, <3>1, <3>2, <3>4
  <2>2. CASE k \notin 1 .. n
    <3>1. r # None /\ k = n + 1
      BY <1>3, <2>2
    <3>2. queue'[k] = r /\ a \in Valid'
      BY <1>3, <1>11, <3>1
    <3>3. ~entry'[a].responded /\ entry'[a].tok = r.tok
      BY <1>10, <3>1
    <3> QED BY <3>2, <3>3, Zenon
  <2> QED BY <2>1, <2>2
<1>17. ASSUME NEW i \in Valid', entry'[i].responded
       PROVE  response' # None /\ response'.entry = i
  <2>1. i \in eff
    <3> SUFFICES ASSUME i \notin eff PROVE FALSE
      OBVIOUS
    <3>1. entry'[i] = [tok |-> r.tok, responded |-> FALSE]
      BY <1>10, <1>11
    <3> QED BY <1>17, <3>1
  <2>2. CASE i = c
    <3>1. polled
      BY <1>6, <1>7, <2>1, <2>2, NoneIsNothing
    <3> QED BY <1>13, <1>14, <2>2, <3>1
  <2>3. CASE i # c
    <3>1. i \in Valid /\ entry[i].responded
      BY <1>6, <1>8, <1>17, <2>1, <2>3
    <3>2. response # None /\ response.entry = i
      BY <1>5, <3>1
    <3>3. ~response_fire(ready) /\ ~polled
      BY <1>6, <1>12, <2>1, <3>2
    <3> QED BY <1>13, <3>2, <3>3
  <2> QED BY <2>2, <2>3
<1>18. ASSUME response' # None
       PROVE  entry'[response'.entry] = [tok |-> response'.tok, responded |-> TRUE]
  <2>1. CASE polled
    <3>1. response'.entry = c /\ response'.tok = entry[c].tok
      BY <1>7, <1>13, <2>1
    <3>2. entry'[c] = [tok |-> entry[c].tok, responded |-> TRUE]
      BY <1>7, <1>9, <2>1
    <3> QED BY <3>1, <3>2
  <2>2. CASE ~polled
    <3>1. ~response_fire(ready) /\ response' = response
      BY <1>13, <1>18, <2>2
    <3>2. response # None /\ entry[response.entry] = [tok |-> response.tok, responded |-> TRUE]
      BY <1>5, <1>18, <3>1
    <3>3. response.entry \in Valid /\ response.entry \in Slots
      BY <3>2, HeldFacts
    <3>4. response.entry \in eff /\ response.entry # c
      BY <1>6, <1>7, <2>2, <3>1, <3>3, NoneIsNothing
    <3>5. entry'[response.entry] = entry[response.entry]
      BY <1>8, <3>4
    <3> QED BY <3>1, <3>2, <3>5
  <2> QED BY <2>1, <2>2
<1>19. \A i \in Valid' : ~entry'[i].responded => \E k \in 1 .. Len(queue') : queue'[k].tok = entry'[i].tok
  BY <1>15
<1>20. \A k \in 1 .. Len(queue') : \E i \in Valid' : ~entry'[i].responded /\ entry'[i].tok = queue'[k].tok
  BY <1>16
<1>21. \A i \in Valid' : entry'[i].responded => response' # None /\ response'.entry = i
  BY <1>17
<1> QED BY <1>18, <1>19, <1>20, <1>21, Zenon DEF Matched, Waiting, Waited

LEMMA CountedStep ==
  ASSUME IInv, NEW ready \in BOOLEAN, NEW polled \in BOOLEAN, NEW r \in Offered(ready) \cup {None},
         Edge(r, ready, polled)
  PROVE  Counted'
<1> DEFINE eff  == effective_valid(ready)
           a    == allocation_slot(ready)
           d    == Shift(polled)
           n    == Len(queue) - d
           more == IF r = None THEN 0 ELSE 1
           held == IF response' = None THEN 0 ELSE 1
<1>1. /\ polled => queue # << >>
      /\ Frees(ready, r) /\ Marks(ready, polled) /\ Fills(ready, r) /\ Queues(polled, r)
      /\ Holds(ready, polled) /\ Owes(ready, r)
      /\ polled => can_poll(ready)
  BY EdgeEffect
<1>2. r # None => /\ r \in Requests /\ r.tok \notin owed /\ a \notin eff
                  /\ Cardinality(Left(ready)) < ClientLimit
  BY Allocates
<1>3. /\ Len(queue) \in Nat /\ n \in Nat /\ (polled => d = 1) /\ (~polled => d = 0)
      /\ Len(queue') = n + more
  BY <1>1, <1>2, QueueEffect
<1>4. /\ Left(ready) = {entry[i].tok : i \in eff} /\ IsFiniteSet(eff) /\ IsFiniteSet(Left(ready))
      /\ Cardinality(eff) = Len(queue) + HeldCount - IF response_fire(ready) THEN 1 ELSE 0
      /\ Cardinality(Left(ready)) = Cardinality(eff) /\ Cardinality(eff) <= ClientLimit
  BY Taking
<1>5. Valid' = eff \cup (IF r = None THEN {} ELSE {a})
  BY <1>1 DEF Frees
<1>6. owed' = Left(ready) \cup (IF r = None THEN {} ELSE {r.tok})
  BY <1>1 DEF Owes
<1>7. \A l \in eff : entry'[l].tok = entry[l].tok
  <2> SUFFICES ASSUME NEW l \in eff PROVE entry'[l].tok = entry[l].tok
    OBVIOUS
  <2>1. CASE l = Capturer(polled)
    <3>1. entry'[l] = [tok |-> entry[l].tok, responded |-> TRUE]
      BY <1>1, <2>1, Zenon DEF Marks
    <3> QED BY <3>1
  <2>2. CASE l # Capturer(polled)
    BY <1>1, <2>2, Zenon DEF Marks
  <2> QED BY <2>1, <2>2
<1>8. r # None => entry'[a].tok = r.tok
  <2>1. r # None => entry'[a] = [tok |-> r.tok, responded |-> FALSE]
    BY <1>1 DEF Fills
  <2> QED BY <2>1
<1>9. Left(ready) \subseteq owed
  BY Effective
<1>10. ClientLimit \in Nat /\ Cardinality(eff) \in Nat
  BY <1>4, FS_CardinalityType, BridgeConstants
<1>11. Cardinality(eff) + d = Len(queue) + held
  <2>1. response_fire(ready) => response # None
    BY DEF response_fire
  <2>2. response' # None => held = 1
    OBVIOUS
  <2>3. response' = None => held = 0
    OBVIOUS
  <2> HIDE DEF eff, d, n, held
  <2>4. CASE polled
    <3>1. held = 1
      <4>1. response' # None
        BY <2>4, Captures
      <4> QED BY <2>2, <4>1
    <3>2. CASE response = None
      <4>1. Cardinality(eff) = Len(queue) + 0 - 0
        BY <1>4, <2>1, <3>2, Zenon DEF HeldCount, eff
      <4> QED BY <1>3, <2>4, <3>1, <4>1
    <3>3. CASE response # None
      <4>1. response_fire(ready)
        BY <1>1, <2>4, <3>3 DEF can_poll
      <4>2. Cardinality(eff) = Len(queue) + 1 - 1
        BY <1>4, <3>3, <4>1, Zenon DEF HeldCount, eff
      <4> QED BY <1>3, <2>4, <3>1, <4>2
    <3> QED BY <3>2, <3>3
  <2>5. CASE ~polled /\ response_fire(ready)
    <3>1. response' = None /\ response # None
      BY <1>1, <2>1, <2>5 DEF Holds
    <3>2. Cardinality(eff) = Len(queue) + 1 - 1
      BY <1>4, <2>5, <3>1, Zenon DEF HeldCount, eff
    <3>3. d = 0 /\ held = 0
      BY <1>3, <2>3, <2>5, <3>1
    <3> QED BY <1>3, <3>2, <3>3
  <2>6. CASE ~polled /\ ~response_fire(ready)
    <3>1. response' = response
      BY <1>1, <2>6 DEF Holds
    <3>2. Cardinality(eff) = Len(queue) + HeldCount - 0
      BY <1>4, <2>6, Zenon DEF eff
    <3>3. HeldCount = held /\ HeldCount \in 0 .. 1 /\ d = 0
      BY <1>3, <2>2, <2>3, <2>6, <3>1 DEF HeldCount
    <3> QED BY <1>3, <3>2, <3>3
  <2> QED BY <2>4, <2>5, <2>6
<1>12. held \in 0 .. 1 /\ HeldCount' = held
  BY DEF HeldCount
<1> HIDE DEF eff, a, d, n, held
<1>13. CASE r = None
  <2>1. Valid' = eff /\ owed' = Left(ready) /\ Len(queue') = n
    BY <1>3, <1>5, <1>6, <1>13
  <2>2. owed' = {entry'[i].tok : i \in Valid'}
    BY <1>4, <1>7, <2>1 DEF eff
  <2>3. Cardinality(Valid') = Len(queue') + HeldCount'
    BY <1>3, <1>10, <1>11, <1>12, <2>1 DEF n
  <2> QED BY <1>4, <2>1, <2>2, <2>3 DEF Counted, eff
<1>14. CASE r # None
  <2>1. Valid' = eff \cup {a} /\ owed' = Left(ready) \cup {r.tok} /\ Len(queue') = n + 1
    BY <1>3, <1>5, <1>6, <1>14
  <2>2. owed' = {entry'[i].tok : i \in Valid'}
    BY <1>4, <1>7, <1>8, <1>14, <2>1 DEF eff
  <2>3. Cardinality(Valid') = Cardinality(eff) + 1
    BY <1>2, <1>4, <1>14, <2>1, FS_AddElement DEF eff, a
  <2>4. Cardinality(owed') = Cardinality(Left(ready)) + 1
    BY <1>2, <1>4, <1>9, <1>14, <2>1, FS_AddElement
  <2>5. Cardinality(Valid') = Len(queue') + HeldCount'
    <3>1. Len(queue') = Len(queue) - d + 1 /\ (d = 0 \/ d = 1)
      BY <1>3, <2>1 DEF n
    <3> QED BY <1>3, <1>10, <1>11, <1>12, <2>3, <3>1
  <2>6. Cardinality(Valid') <= ClientLimit
    <3>1. Cardinality(eff) < ClientLimit
      BY <1>2, <1>4, <1>14 DEF eff
    <3> QED BY <1>10, <2>3, <3>1 DEF eff
  <2>7. Cardinality(owed') = Cardinality(Valid')
    BY <1>4, <2>3, <2>4 DEF eff
  <2> QED BY <2>2, <2>5, <2>6, <2>7 DEF Counted
<1> QED BY <1>13, <1>14

-----------------------------------------------------------------------------

LEMMA InitIInv ==
  ASSUME Init
  PROVE  IInv
<1>1. Valid = {}
  BY DEF Init, Valid
<1>2. TypeInv
  BY DEF Init, TypeInv
<1>3. TokensDiffer /\ Matched
  BY <1>1 DEF Init, TokensDiffer, Matched
<1>4. Counted
  <2>1. Cardinality(Valid) = 0 /\ Cardinality(owed) = 0 /\ owed = {}
    BY <1>1, FS_EmptySet, Zenon DEF Init
  <2>2. Len(queue) = 0 /\ HeldCount = 0
    BY DEF Init, HeldCount
  <2>3. ClientLimit \in Nat
    BY BridgeConstants
  <2>4. owed = {entry[i].tok : i \in Valid}
    BY <1>1, <2>1
  <2>5. Cardinality(Valid) = Len(queue) + HeldCount /\ Cardinality(Valid) <= ClientLimit
    BY <2>1, <2>2, <2>3
  <2>6. Cardinality(owed) = Cardinality(Valid)
    BY <2>1, Zenon
  <2> QED BY <2>4, <2>5, <2>6 DEF Counted
<1>5. NoProtocolError
  BY DEF Init, NoProtocolError, flags
<1> QED BY <1>2, <1>3, <1>4, <1>5 DEF IInv

LEMMA StepIInv ==
  ASSUME IInv, [Next]_vars
  PROVE  IInv'
<1>1. CASE Next
  <2>1. PICK ready \in BOOLEAN, polled \in BOOLEAN :
               \E r \in Offered(ready) \cup {None} : Edge(r, ready, polled)
    BY <1>1 DEF Next
  <2>2. PICK r \in Offered(ready) \cup {None} : Edge(r, ready, polled)
    BY <2>1
  <2>3. TypeInv'
    BY <2>2, TypeStep
  <2>4. TokensDiffer'
    BY <2>2, DifferStep
  <2>5. Matched'
    BY <2>2, MatchedStep
  <2>6. Counted'
    BY <2>2, CountedStep
  <2>7. NoProtocolError'
    BY <2>2, EdgeEffect
  <2> QED BY <2>3, <2>4, <2>5, <2>6, <2>7 DEF IInv
<1>2. CASE UNCHANGED vars
  <2>1. Valid' = Valid
    BY <1>2 DEF vars, Valid
  <2>2. TypeInv' /\ NoProtocolError'
    BY <1>2 DEF vars, IInv, TypeInv, NoProtocolError, flags
  <2>3. TokensDiffer'
    BY <1>2, <2>1 DEF vars, IInv, TokensDiffer
  <2>4. Matched'
    BY <1>2, <2>1 DEF vars, IInv, Matched, Waiting, Waited
  <2>5. Counted'
    BY <1>2, <2>1 DEF vars, IInv, Counted, HeldCount
  <2> QED BY <2>2, <2>3, <2>4, <2>5 DEF IInv
<1> QED BY <1>1, <1>2

LEMMA Inductive == Spec => []IInv
BY InitIInv, StepIInv, PTL DEF Spec

-----------------------------------------------------------------------------

(* At every edge the scoreboard's open entries are the requests at the     *)
(* service, its one answered entry is that of the held answer, and the     *)
(* client waits for just these: no answer can be lost or misdirected.      *)
THEOREM ScoreboardHolds == Spec => []Scoreboard
<1>1. IInv => Scoreboard
  <2> SUFFICES ASSUME IInv PROVE Scoreboard
    OBVIOUS
  <2>1. {entry[i].tok : i \in {i \in Valid : ~entry[i].responded}} = {queue[k].tok : k \in 1 .. Len(queue)}
    <3>1. \A i \in Valid : ~entry[i].responded => \E k \in 1 .. Len(queue) : queue[k].tok = entry[i].tok
      BY DEF IInv, Matched, Waiting
    <3>2. \A k \in 1 .. Len(queue) :
             \E i \in Valid : ~entry[i].responded /\ entry[i].tok = queue[k].tok
      BY DEF IInv, Matched, Waited
    <3> QED BY <3>1, <3>2
  <2>2. Cardinality(Valid) = Len(queue) + (IF response = None THEN 0 ELSE 1)
    BY DEF IInv, Counted, HeldCount
  <2>3. response # None => entry[response.entry] = [tok |-> response.tok, responded |-> TRUE]
    BY DEF IInv, Matched
  <2>4. owed = {entry[i].tok : i \in Valid} /\ Cardinality(owed) = Cardinality(Valid)
    BY DEF IInv, Counted
  <2> QED BY <2>1, <2>2, <2>3, <2>4 DEF Scoreboard
<1> QED BY <1>1, Inductive, PTL

(* The bridge and the service never flag an unknown, duplicate or surplus  *)
(* request or answer, as long as the client has no more outstanding than   *)
(* the service has room for.                                               *)
THEOREM NeverFlags == Spec => []NoProtocolError
<1>1. IInv => NoProtocolError
  BY DEF IInv
<1> QED BY <1>1, Inductive, PTL

-----------------------------------------------------------------------------
(* The memory as the client sees it.                                       *)

Perform(m, r) == Memory!Performed(m, r, FALSE)
Reply(m, r)   == Memory!Answer(m, r, FALSE)

(* The recursion that defines After has a solution.                        *)
AfterChain ==
  /\ After[0] = stored
  /\ \A n \in 1 .. Len(queue) : After[n] = Perform(After[n - 1], queue[n])

LEMMA UpToThree ==
  ASSUME NEW l \in 0 .. 3
  PROVE  \A n \in 0 .. l : n = 0 \/ (n = 1 /\ l >= 1) \/ (n = 2 /\ l >= 2) \/ (n = 3 /\ l >= 3)
OBVIOUS

LEMMA FewRequests ==
  IInv => Len(queue) \in 0 .. 3
<1> SUFFICES ASSUME IInv PROVE Len(queue) \in 0 .. 3
  OBVIOUS
<1>1. Cardinality(Valid) = Len(queue) + HeldCount /\ Cardinality(Valid) <= 3
  BY SlotSets DEF IInv, Counted, Valid
<1>2. Len(queue) \in Nat /\ HeldCount \in 0 .. 1
  BY DEF IInv, TypeInv, HeldCount
<1> DEFINE l == Len(queue)
           h == HeldCount
<1>3. l + h <= 3
  BY <1>1, Zenon
<1>4. l \in Nat /\ h \in 0 .. 1
  BY <1>2
<1> HIDE DEF l, h
<1>5. l \in 0 .. 3
  BY <1>3, <1>4
<1> QED BY <1>5 DEF l

LEMMA AfterUnfolds == IInv => AfterChain
<1> SUFFICES ASSUME IInv PROVE AfterChain
  OBVIOUS
<1>1. Len(queue) \in 0 .. 3
  BY FewRequests
<1> DEFINE m1 == Perform(stored, queue[1])
           m2 == Perform(m1, queue[2])
           m3 == Perform(m2, queue[3])
           g  == [n \in 0 .. Len(queue) |->
                    IF n = 0 THEN stored ELSE IF n = 1 THEN m1 ELSE IF n = 2 THEN m2 ELSE m3]
           F(f) == [n \in 0 .. Len(queue) |->
                      IF n = 0 THEN stored ELSE Memory!Performed(f[n - 1], queue[n], FALSE)]
<1>2. g = F(g)
  <2>1. \A n \in 0 .. Len(queue) : n = 0 \/ n = 1 \/ n = 2 \/ n = 3
    BY <1>1, UpToThree, Zenon
  <2>2. \A n \in 0 .. Len(queue) : n # 0 => g[n] = Perform(g[n - 1], queue[n])
    <3> SUFFICES ASSUME NEW n \in 0 .. Len(queue), n # 0
                 PROVE  g[n] = Perform(g[n - 1], queue[n])
      OBVIOUS
    <3> HIDE DEF m1, m2, m3
    <3>1. CASE n = 1
      BY <1>1, <3>1 DEF m1
    <3>2. CASE n = 2
      BY <1>1, <3>2 DEF m2
    <3>3. CASE n = 3
      BY <1>1, <3>3 DEF m3
    <3> QED BY <2>1, <3>1, <3>2, <3>3
  <2>3. \A n \in 0 .. Len(queue) : n = 0 => g[n] = stored
    OBVIOUS
  <2> QED BY <2>2, <2>3 DEF Perform
<1> HIDE DEF g
<1>3. After = CHOOSE f : f = F(f)
  BY Zenon DEF After
<1>4. After = F(After)
  BY <1>2, <1>3, Zenon
<1> DEFINE A == After
<1>5. A = [n \in 0 .. Len(queue) |->
             IF n = 0 THEN stored ELSE Memory!Performed(A[n - 1], queue[n], FALSE)]
  BY <1>4, Zenon
<1> HIDE DEF A
<1>6. A[0] = stored
  BY <1>1, <1>5
<1>7. \A n \in 1 .. Len(queue) : A[n] = Memory!Performed(A[n - 1], queue[n], FALSE)
  <2> SUFFICES ASSUME NEW n \in 1 .. Len(queue)
               PROVE  A[n] = Memory!Performed(A[n - 1], queue[n], FALSE)
    OBVIOUS
  <2>1. n \in 0 .. Len(queue) /\ n # 0
    BY <1>1
  <2> QED BY <1>5, <2>1
<1> QED BY <1>6, <1>7 DEF AfterChain, Perform, A

LEMMA AfterType ==
  ASSUME IInv
  PROVE  \A n \in 0 .. Len(queue) : After[n] \in [Words -> Memory!Word]
<1>1. Len(queue) \in 0 .. 3 /\ AfterChain
  BY FewRequests, AfterUnfolds
<1>2. \A n \in 1 .. Len(queue) :
         After[n - 1] \in [Words -> Memory!Word] => After[n] \in [Words -> Memory!Word]
  BY <1>1, QueueFacts, PerformedType DEF IInv, AfterChain, Perform
<1>3. After[0] \in [Words -> Memory!Word]
  BY <1>1 DEF AfterChain, IInv, TypeInv
<1> DEFINE P(n) == After[n] \in [Words -> Memory!Word]
<1> HIDE DEF P
<1>4. P(0) /\ \A n \in 1 .. Len(queue) : P(n - 1) => P(n)
  BY <1>2, <1>3 DEF P
<1>5. \A n \in 0 .. Len(queue) : P(n)
  <2>1. Len(queue) >= 1 => P(1)
    BY <1>1, <1>4
  <2>2. Len(queue) >= 2 => P(2)
    BY <1>1, <1>4, <2>1
  <2>3. Len(queue) >= 3 => P(3)
    BY <1>1, <1>4, <2>2
  <2> SUFFICES ASSUME NEW n \in 0 .. Len(queue) PROVE P(n)
    OBVIOUS
  <2>4. \/ n = 0 \/ (n = 1 /\ Len(queue) >= 1)
        \/ (n = 2 /\ Len(queue) >= 2) \/ (n = 3 /\ Len(queue) >= 3)
    BY <1>1, UpToThree, Zenon
  <2> QED BY <1>4, <2>1, <2>2, <2>3, <2>4
<1> QED BY <1>5 DEF P

(* Performing the oldest request, or none, leaves the chain as it was, from*)
(* its other end.                                                          *)
LEMMA AfterStep ==
  ASSUME IInv, NEW ready \in BOOLEAN, NEW polled \in BOOLEAN, NEW r \in Offered(ready) \cup {None},
         Edge(r, ready, polled)
  PROVE  LET d == Shift(polled)
             n == Len(queue) - d
         IN /\ \A k \in 0 .. n : After'[k] = After[k + d]
            /\ r # None => After'[n + 1] = Perform(mem, r)
            /\ mem' = IF r = None THEN mem ELSE Perform(mem, r)
<1> DEFINE d == Shift(polled)
           n == Len(queue) - d
<1>1. /\ polled => queue # << >>
      /\ Queues(polled, r)
  BY EdgeEffect
<1>2. r \in Requests \cup {None}
  BY Allocates
<1>3. /\ Len(queue) \in Nat /\ n \in Nat /\ d \in 0 .. 1 /\ (d = 1 <=> polled)
      /\ r = None => Len(queue') = n
      /\ r # None => Len(queue') = n + 1 /\ queue'[n + 1] = r
      /\ \A k \in 1 .. n : k + d \in 1 .. Len(queue) /\ queue'[k] = queue[k + d]
  BY <1>1, <1>2, QueueEffect
<1>4. IInv'
  BY StepIInv DEF Next
<1>5. AfterChain'
  BY <1>4, AfterUnfolds, PTL
<1>6. AfterChain /\ Len(queue) \in 0 .. 3
  BY AfterUnfolds, FewRequests
<1>7. /\ After'[0] = stored'
      /\ \A k \in 1 .. Len(queue') : After'[k] = Perform(After'[k - 1], queue'[k])
  BY <1>5 DEF AfterChain, Perform, Memory!Performed, Memory!Merge
<1>8. stored' = IF polled THEN Perform(stored, queue[1]) ELSE stored
  BY DEF Edge, oldest_ready, Perform
<1> HIDE DEF d, n
<1>9. After'[0] = After[d]
  <2>1. CASE polled
    <3>1. d = 1 /\ 1 \in 1 .. Len(queue)
      BY <1>1, <1>3, <2>1, WithoutOldest DEF IInv, TypeInv
    <3>2. After[1] = Perform(After[1 - 1], queue[1]) /\ After[0] = stored
      BY <1>6, <3>1, Zenon DEF AfterChain
    <3>3. After[1] = Perform(After[0], queue[1])
      BY <3>2
    <3> QED BY <1>7, <1>8, <2>1, <3>1, <3>2, <3>3
  <2>2. CASE ~polled
    <3>1. d = 0
      BY <1>3, <2>2
    <3> QED BY <1>6, <1>7, <1>8, <2>2, <3>1 DEF AfterChain
  <2> QED BY <2>1, <2>2
<1> DEFINE P(k) == After'[k] = After[k + d]
<1>10. \A k \in 1 .. n : P(k - 1) => P(k)
  <2> SUFFICES ASSUME NEW k \in 1 .. n, P(k - 1) PROVE P(k)
    OBVIOUS
  <2>1. k \in 1 .. Len(queue') /\ k + d \in 1 .. Len(queue) /\ queue'[k] = queue[k + d]
    BY <1>2, <1>3
  <2>2. (k - 1) + d = (k + d) - 1
    BY <1>3
  <2>3. After'[k] = Perform(After'[k - 1], queue'[k])
    BY <1>7, <2>1
  <2>4. After[k + d] = Perform(After[(k + d) - 1], queue[k + d])
    BY <1>6, <2>1 DEF AfterChain
  <2>5. After'[k - 1] = After[(k + d) - 1]
    BY <2>2
  <2> QED BY <2>1, <2>3, <2>4, <2>5
<1>11. P(0)
  BY <1>3, <1>9
<1> HIDE DEF P
<1>12. \A k \in 0 .. n : P(k)
  <2>1. n \in 0 .. 3
    BY <1>3, <1>6 DEF n
  <2>2. n >= 1 => P(1)
    BY <1>10, <1>11, <2>1
  <2>3. n >= 2 => P(2)
    BY <1>10, <2>1, <2>2
  <2>4. n >= 3 => P(3)
    BY <1>10, <2>1, <2>3
  <2> QED BY <1>11, <2>1, <2>2, <2>3, <2>4
<1>13. \A k \in 0 .. n : After'[k] = After[k + d]
  BY <1>12 DEF P
<1>14. After'[n] = mem
  <2>1. n + d = Len(queue) /\ n \in 0 .. n
    BY <1>3 DEF n
  <2> QED BY <1>13, <2>1 DEF mem
<1>15. r # None => After'[n + 1] = Perform(mem, r)
  <2> SUFFICES ASSUME r # None PROVE After'[n + 1] = Perform(mem, r)
    OBVIOUS
  <2>1. n + 1 \in 1 .. Len(queue') /\ queue'[n + 1] = r /\ (n + 1) - 1 = n
    BY <1>3
  <2> QED BY <1>7, <1>14, <2>1
<1>16. mem' = After'[Len(queue')]
  BY DEF mem
<1>17. mem' = IF r = None THEN mem ELSE Perform(mem, r)
  BY <1>3, <1>14, <1>15, <1>16
<1> QED BY <1>13, <1>15, <1>17 DEF d, n

-----------------------------------------------------------------------------
(* The answers that are due.                                               *)

Ans(i)  == Reply(After[i - 1], queue[i])
HeldSet == IF response = None THEN {} ELSE {Held}

LEMMA DueIs == Due = {Ans(i) : i \in 1 .. Len(queue)} \cup HeldSet
BY DEF Due, Ans, HeldSet, Reply

LEMMA AnsFacts ==
  ASSUME IInv, NEW i \in 1 .. Len(queue)
  PROVE  Ans(i).tok = queue[i].tok /\ Ans(i).tok \in owed /\ Ans(i) # None
<1>1. Ans(i).tok = queue[i].tok
  BY DEF Ans, Reply, Memory!Answer
<1>2. queue[i].tok \in owed
  BY DEF IInv, Matched, Waited, Counted
<1>3. Ans(i) \in Given
  <2>1. Len(queue) \in Nat
    BY DEF IInv, TypeInv
  <2>2. i - 1 \in 0 .. Len(queue)
    BY <2>1
  <2>3. After[i - 1] \in [Words -> Memory!Word] /\ queue[i] \in Requests
    BY <2>2, AfterType, QueueFacts DEF IInv
  <2> DEFINE m == After[i - 1]
             r == queue[i]
             x == IF r.write THEN None ELSE m[r.word]
  <2>4. Ans(i) = [tok |-> r.tok, err |-> FALSE, data |-> x]
    BY DEF Ans, Reply, Memory!Answer
  <2> HIDE DEF m, r
  <2>5. m \in [Words -> Memory!Word] /\ r \in Requests
    BY <2>3 DEF m, r
  <2>6. r.tok \in Tokens /\ x \in Memory!Word \cup {None}
    BY <2>5, RequestFacts
  <2> HIDE DEF x
  <2> QED BY <2>4, <2>6 DEF Given
<1> QED BY <1>1, <1>2, <1>3, NoneIsNothing

LEMMA HeldDiffers ==
  ASSUME IInv, response # None
  PROVE  /\ Held \in Due /\ Held # None /\ Held.tok = response.tok /\ Held.tok \in owed
         /\ \A i \in 1 .. Len(queue) : Ans(i) # Held
<1>1. /\ response.entry \in Valid /\ entry[response.entry].responded
      /\ entry[response.entry].tok = response.tok /\ response \in Responses
  BY HeldFacts
<1>2. Held.tok = response.tok
  BY DEF Held
<1>3. response.tok \in owed
  BY <1>1 DEF IInv, Counted
<1>4. Held \in Due
  BY DueIs DEF HeldSet
<1>5. Held # None
  <2>1. Held \in Given
    BY <1>1 DEF Held, Given, Responses
  <2> QED BY <2>1, NoneIsNothing
<1>6. ASSUME NEW i \in 1 .. Len(queue), Ans(i) = Held
      PROVE  FALSE
  <2>1. queue[i].tok = response.tok
    BY <1>2, <1>6, AnsFacts
  <2>2. PICK j \in Valid : ~entry[j].responded /\ entry[j].tok = queue[i].tok
    BY DEF IInv, Matched, Waited
  <2>3. j = response.entry
    BY <1>1, <2>1, <2>2 DEF IInv, TokensDiffer
  <2> QED BY <1>1, <2>2, <2>3
<1> QED BY <1>2, <1>3, <1>4, <1>5, <1>6

Taken(ready) == IF response_fire(ready) THEN Held ELSE None
NewAnswer(r) == IF r = None THEN {} ELSE {Reply(mem, r)}

(* The answer that a poll captures is the oldest request's; the others keep*)
(* theirs, and the accepted request's is that of the memory as it will be. *)
LEMMA DueStep ==
  ASSUME IInv, NEW ready \in BOOLEAN, NEW polled \in BOOLEAN, NEW r \in Offered(ready) \cup {None},
         Edge(r, ready, polled)
  PROVE  Due' = (Due \ {Taken(ready)}) \cup NewAnswer(r)
<1> DEFINE d == Shift(polled)
           n == Len(queue) - d
<1>1. /\ polled => can_poll(ready) /\ queue # << >>
      /\ Queues(polled, r) /\ Holds(ready, polled)
  BY EdgeEffect
<1>2. r \in Requests \cup {None}
  BY Allocates
<1>3. /\ Len(queue) \in Nat /\ n \in Nat /\ d \in 0 .. 1 /\ (d = 1 <=> polled)
      /\ r = None => Len(queue') = n
      /\ r # None => Len(queue') = n + 1 /\ queue'[n + 1] = r
      /\ \A k \in 1 .. n : k + d \in 1 .. Len(queue) /\ queue'[k] = queue[k + d]
  BY <1>1, <1>2, QueueEffect
<1>4. \A k \in 0 .. n : After'[k] = After[k + d]
  BY AfterStep
<1> DEFINE ans(i) == Ans(i)'
<1>5. \A i : ans(i) = Reply(After'[i - 1], queue'[i])
  BY DEF Ans, Reply, Memory!Answer
<1> HIDE DEF ans, d, n
<1>6. Due' = {ans(i) : i \in 1 .. Len(queue')} \cup HeldSet'
  <2>1. Due' = {Memory!Answer(After'[i - 1], queue'[i], FALSE) : i \in 1 .. Len(queue')} \cup HeldSet'
    BY DEF Due, HeldSet, Memory!Answer
  <2> QED BY <1>5, <2>1 DEF Reply
<1>7. \A k \in 1 .. n : ans(k) = Ans(k + d)
  <2> SUFFICES ASSUME NEW k \in 1 .. n PROVE ans(k) = Ans(k + d)
    OBVIOUS
  <2>1. k - 1 \in 0 .. n /\ (k - 1) + d = (k + d) - 1
    BY <1>3
  <2>2. After'[k - 1] = After[(k + d) - 1] /\ queue'[k] = queue[k + d]
    BY <1>3, <1>4, <2>1
  <2> QED BY <1>5, <2>2 DEF Ans
<1>8. r # None => ans(n + 1) = Reply(mem, r)
  <2> SUFFICES ASSUME r # None PROVE ans(n + 1) = Reply(mem, r)
    OBVIOUS
  <2>1. (n + 1) - 1 = n /\ n \in 0 .. n /\ n + d = Len(queue)
    BY <1>3 DEF n
  <2>2. After'[n] = mem
    BY <1>4, <2>1 DEF mem
  <2> QED BY <1>3, <1>5, <2>1, <2>2
<1>9. {ans(i) : i \in 1 .. Len(queue')} = {Ans(i) : i \in 1 + d .. Len(queue)} \cup NewAnswer(r)
  <2>1. {ans(i) : i \in 1 .. n} = {Ans(i) : i \in 1 + d .. Len(queue)}
    <3>1. \A k \in 1 .. n : k + d \in 1 + d .. Len(queue) /\ ans(k) = Ans(k + d)
      BY <1>3, <1>7
    <3>2. \A i \in 1 + d .. Len(queue) : i - d \in 1 .. n /\ ans(i - d) = Ans(i)
      <4> SUFFICES ASSUME NEW i \in 1 + d .. Len(queue)
                   PROVE  i - d \in 1 .. n /\ ans(i - d) = Ans(i)
        OBVIOUS
      <4>1. i - d \in 1 .. n /\ (i - d) + d = i
        BY <1>3 DEF n
      <4> QED BY <1>7, <4>1
    <3> QED BY <3>1, <3>2, Zenon
  <2>2. CASE r = None
    BY <1>3, <2>1, <2>2 DEF NewAnswer
  <2>3. CASE r # None
    <3>1. 1 .. Len(queue') = (1 .. n) \cup {n + 1}
      BY <1>3, <2>3
    <3>2. {ans(i) : i \in 1 .. Len(queue')} = {ans(i) : i \in 1 .. n} \cup {ans(n + 1)}
      BY <3>1
    <3> QED BY <1>8, <2>1, <2>3, <3>2, Zenon DEF NewAnswer
  <2> QED BY <2>2, <2>3
<1>10. Due = {Ans(i) : i \in 1 .. Len(queue)} \cup HeldSet
  BY DueIs
<1>11. HeldSet' = IF response' = None THEN {} ELSE {Held'}
  BY DEF HeldSet
<1>12. Held' = [tok |-> response'.tok, err |-> response'.err, data |-> response'.data]
  BY DEF Held
<1>13. Due \ {Taken(ready)} = {Ans(i) : i \in 1 .. Len(queue)}
                              \cup (IF response = None \/ response_fire(ready) THEN {} ELSE {Held})
  <2>1. response_fire(ready) => response # None
    BY DEF response_fire
  <2>2. \A i \in 1 .. Len(queue) : Ans(i) # Taken(ready)
    BY <2>1, AnsFacts, HeldDiffers DEF Taken
  <2>3. Due \ {Taken(ready)} = {Ans(i) : i \in 1 .. Len(queue)} \cup (HeldSet \ {Taken(ready)})
    BY <1>10, <2>2
  <2>4. HeldSet \ {Taken(ready)} = IF response = None \/ response_fire(ready) THEN {} ELSE {Held}
    BY <2>1, HeldDiffers DEF HeldSet, Taken
  <2> QED BY <2>3, <2>4
<1>14. CASE polled
  <2>1. d = 1 /\ 1 \in 1 .. Len(queue) /\ Len(queue) >= 1
    BY <1>1, <1>3, <1>14, WithoutOldest DEF IInv, TypeInv
  <2>2. stored = After[0] /\ Ans(1) = Reply(After[1 - 1], queue[1]) /\ Answered = Reply(stored, queue[1])
    BY AfterUnfolds, Zenon DEF AfterChain, Ans, Answered, oldest_ready, Reply
  <2>3. Ans(1) = Answered
    <3>1. 1 - 1 = 0
      OBVIOUS
    <3> QED BY <2>2, <3>1, Zenon
  <2>4. response' = [tok |-> Answered.tok, err |-> Answered.err,
                     data |-> Answered.data, entry |-> Capturer(polled)]
    BY <1>1, <1>14 DEF Holds
  <2>5. Held' = Answered
    <3>1. Held' = [tok |-> Answered.tok, err |-> Answered.err, data |-> Answered.data]
      BY <1>12, <2>4
    <3>2. Answered = [tok |-> Answered.tok, err |-> Answered.err, data |-> Answered.data]
      BY DEF Answered, Memory!Answer
    <3> QED BY <3>1, <3>2
  <2>6. response' # None
    BY <1>14, Captures
  <2>7. HeldSet' = {Ans(1)}
    BY <1>11, <2>3, <2>5, <2>6
  <2>8. response = None \/ response_fire(ready)
    BY <1>1, <1>14 DEF can_poll
  <2>9. Due \ {Taken(ready)} = {Ans(i) : i \in 1 .. Len(queue)}
    BY <1>13, <2>8
  <2>10. 1 .. Len(queue) = {1} \cup (1 + d .. Len(queue))
    BY <1>3, <2>1
  <2>11. {Ans(i) : i \in 1 .. Len(queue)} = {Ans(1)} \cup {Ans(i) : i \in 1 + d .. Len(queue)}
    BY <2>10
  <2> QED BY <1>6, <1>9, <2>7, <2>9, <2>11, Zenon
<1>15. CASE ~polled
  <2>1. 1 + d .. Len(queue) = 1 .. Len(queue)
    BY <1>3, <1>15
  <2>2. HeldSet' = IF response = None \/ response_fire(ready) THEN {} ELSE {Held}
    <3>1. CASE response_fire(ready)
      <4>1. response' = None
        BY <1>1, <1>15, <3>1 DEF Holds
      <4> QED BY <1>11, <3>1, <4>1
    <3>2. CASE ~response_fire(ready)
      <4>1. response' = response
        BY <1>1, <1>15, <3>2 DEF Holds
      <4>2. Held' = Held
        BY <1>12, <4>1 DEF Held
      <4> QED BY <1>11, <3>2, <4>1, <4>2
    <3> QED BY <3>1, <3>2
  <2> QED BY <1>6, <1>9, <1>13, <2>1, <2>2, Zenon
<1> QED BY <1>14, <1>15

-----------------------------------------------------------------------------
(* An edge of the bridge is an edge of the port above it.                  *)

LEMMA SamePort ==
  ASSUME NEW m, NEW r, r # None
  PROVE  /\ Above!Performed(m, r, FALSE) = Perform(m, r)
         /\ Above!Performed(m, None, FALSE) = m
         /\ Above!Answer(m, r, FALSE) = Reply(m, r)
<1>1. Above!Performed(m, None, FALSE) = m
  BY DEF Above!Performed
<1>2. Above!Performed(m, r, FALSE) = Perform(m, r)
  BY Zenon DEF Above!Performed, Above!Merge, Perform, Memory!Performed, Memory!Merge
<1>3. Above!Answer(m, r, FALSE) = Reply(m, r)
  BY Zenon DEF Above!Answer, Reply, Memory!Answer
<1> QED BY <1>1, <1>2, <1>3

LEMMA StepAbove ==
  ASSUME IInv, NEW ready \in BOOLEAN, NEW polled \in BOOLEAN, NEW r \in Offered(ready) \cup {None},
         Edge(r, ready, polled)
  PROVE  Above!Next(Requests)
<1> DEFINE a == Taken(ready)
<1>1. r \in Requests \cup {None} /\ (r # None => r.tok \notin owed)
  BY Allocates
<1>2. a # None => a \in Due
  BY HeldDiffers DEF Taken, response_fire
<1>3. \A b \in Due : b.tok \in owed
  BY DueIs, AnsFacts, HeldDiffers DEF HeldSet
<1>4. mem' = IF r = None THEN mem ELSE Perform(mem, r)
  BY AfterStep
<1>5. Due' = (Due \ {a}) \cup NewAnswer(r)
  BY DueStep
<1> HIDE DEF a
<1>6. r # None => \A b \in Due \ {a} : b.tok # r.tok
  BY <1>1, <1>3
<1>7. mem' = Above!Performed(mem, r, FALSE)
  BY <1>4, SamePort DEF Above!Performed
<1>8. Due' = (Due \ {a}) \cup (IF r = None THEN {} ELSE {Above!Answer(mem, r, FALSE)})
  BY <1>5, SamePort DEF NewAnswer
<1>9. Above!Step(r, a)
  <2>1. FALSE \in BOOLEAN
    OBVIOUS
  <2> QED BY <1>2, <1>6, <1>7, <1>8, <2>1, Zenon DEF Above!Step
<1>10. a \in Due \cup {None}
  BY <1>2
<1> QED BY <1>1, <1>9, <1>10, Zenon DEF Above!Next

(* For its client the bridge is a memory port, whatever is accepted,       *)
(* captured and taken on one edge: requests take effect in the order of    *)
(* acceptance, and each is answered once, with the word it is in.          *)
THEOREM BridgeIsMemoryPort == Spec => PortAbove
<1>1. Init => Above!Init
  <2> SUFFICES ASSUME Init PROVE Above!Init
    OBVIOUS
  <2>1. IInv /\ Len(queue) = 0 /\ HeldSet = {}
    BY InitIInv DEF Init, HeldSet
  <2>2. mem = stored
    BY <2>1, AfterUnfolds DEF mem, AfterChain
  <2>3. Due = {}
    BY <2>1, DueIs
  <2>4. mem \in [Words -> Above!Word]
    BY <2>2 DEF Init, Memory!Word, Above!Word
  <2> QED BY <2>3, <2>4 DEF Above!Init
<1>2. IInv /\ [Next]_vars => [Above!Next(Requests)]_<<mem, Due>>
  <2> SUFFICES ASSUME IInv, [Next]_vars PROVE [Above!Next(Requests)]_<<mem, Due>>
    OBVIOUS
  <2>1. CASE Next
    <3>1. PICK ready \in BOOLEAN, polled \in BOOLEAN :
                 \E r \in Offered(ready) \cup {None} : Edge(r, ready, polled)
      BY <2>1 DEF Next
    <3>2. PICK r \in Offered(ready) \cup {None} : Edge(r, ready, polled)
      BY <3>1
    <3>3. Above!Next(Requests)
      BY <3>2, StepAbove
    <3> QED BY <3>3
  <2>2. CASE UNCHANGED vars
    <3>1. UNCHANGED <<stored, queue, response>>
      BY <2>2 DEF vars
    <3>2. After' = After
      BY <3>1 DEF After, Memory!Performed, Memory!Merge
    <3>3. mem' = mem
      BY <3>1, <3>2 DEF mem
    <3>4. Due' = Due
      BY <3>1, <3>2 DEF Due, Held, Memory!Answer
    <3> QED BY <3>3, <3>4
  <2> QED BY <2>1, <2>2
<1> QED BY <1>1, <1>2, Inductive, PTL DEF Spec, PortAbove

=============================================================================
