----------------------------- MODULE TaggedBridge -----------------------------
(***************************************************************************)
(* The bridge between the tagged data port and the simulator's memory      *)
(* service:                                                                *)
(* rtl/.../execute/ooo_pipeline_tagged_dpi_mem_bridge_2entry.sv and the    *)
(* tagged channel of sim/common/dpi_memory.cpp.                            *)
(*                                                                         *)
(* The bridge keeps a scoreboard entry from the acceptance of a request to *)
(* the edge on which its answer is taken, and holds one answer.  Whenever  *)
(* the holding register is free, or is being freed, it polls the service.  *)
(* The service performs a request when it answers it, in the order of      *)
(* arrival: all requests of a channel have the same latency.               *)
(***************************************************************************)
EXTENDS Naturals, FiniteSets, Sequences, SequencesExt

CONSTANTS
  Words, Bytes, Values, None,
  Tokens,
  Capacity,         \* scoreboard entries (3)
  ServiceCapacity,  \* kTaggedCapacity (2)
  ClientLimit       \* requests the client has outstanding together (2: the
                    \* cache keeps meta data for so many)

(* The service has room for what the client may have outstanding.          *)
ASSUME BridgeConstants == /\ Capacity \in 1 .. 3 /\ ServiceCapacity \in 1 .. 3
                          /\ ClientLimit \in 1 .. ServiceCapacity

VARIABLES
  stored,    \* g_mem
  queue,     \* the service's busy requests, oldest first
  failed,    \* g_protocol_error, sticky
  entry,     \* entry_*_q: a token and whether it was answered
  response,  \* response_*_q: the answer that is held and its entry
  retired,   \* retired_token_q: the last two tokens, youngest first
  owed,      \* the client: tokens whose answers it waits for
  unknown_response, duplicate_response, protocol_error   \* sticky

flags == <<failed, unknown_response, duplicate_response, protocol_error>>
vars  == <<stored, queue, entry, response, retired, owed, flags>>

Slots == 0 .. 2

(* The port's vocabulary, over the service's memory.                       *)
Memory == INSTANCE MemoryPort WITH mem <- stored, answers <- {}, MayFail <- {}

Load(t, w)         == [tok |-> t, write |-> FALSE, word |-> w]
Store(t, w, bs, d) == [tok |-> t, write |-> TRUE, word |-> w, bytes |-> bs, data |-> d]
Requests == {Load(t, w) : t \in Tokens, w \in Words}
            \cup {Store(t, w, Bytes, d) : t \in Tokens, w \in Words, d \in Memory!Word}

(* A scoreboard entry, an answer as the client is given it, and as it is   *)
(* held.                                                                   *)
Entries   == [tok : Tokens, responded : BOOLEAN]
Given     == [tok : Tokens, err : {FALSE}, data : Memory!Word \cup {None}]
Responses == [tok : Tokens, err : {FALSE}, data : Memory!Word \cup {None}, entry : Slots]

ASSUME NoneIsNothing == /\ None \notin Slots /\ None \notin Requests
                        /\ None \notin Entries /\ None \notin Given /\ None \notin Responses

-----------------------------------------------------------------------------
(* The client side.                                                        *)

response_fire(ready) == response # None /\ ready
Valid == {i \in Slots : entry[i] # None}
effective_validHeldBug(ready) == Valid \ (IF response # None THEN {response.entry} ELSE {})
effective_valid(ready) == Valid \ (IF response_fire(ready) THEN {response.entry} ELSE {})

req_ready(r, ready) == /\ Cardinality(effective_valid(ready)) < Capacity
                       /\ \A i \in effective_valid(ready) : entry[i].tok # r.tok

(* A token has a new generation each time its client uses it, so that the  *)
(* token of a request that is owed its answer does not come back.          *)
Left(ready) == owed \ (IF response_fire(ready) THEN {response.tok} ELSE {})
Offered(ready) == {r \in Requests : /\ Cardinality(Left(ready)) < ClientLimit
                                    /\ r.tok \notin owed /\ req_ready(r, ready)}

allocation_slot(ready) == IF 0 \notin effective_valid(ready) THEN 0
                          ELSE IF 1 \notin effective_valid(ready) THEN 1 ELSE 2

-----------------------------------------------------------------------------
(* The service.                                                            *)

(* dpi_pmem_tagged_resp, when the oldest request is old enough: its place, *)
(* its effect and its answer.                                              *)
oldest_readyAnyLoadBug == LET loads == {k \in 1 .. Len(queue) : ~queue[k].write}
                          IN IF loads = {} THEN 1 ELSE Min(loads)
oldest_ready == 1
Answered     == Memory!Answer(stored, queue[oldest_ready], FALSE)

(* dpi_pmem_tagged_req, after the poll of the same edge.                   *)
refused(q, r) == Len(q) >= ServiceCapacity \/ \E i \in 1 .. Len(q) : q[i].tok = r.tok

-----------------------------------------------------------------------------
(* One edge.  r is the request accepted or None, ready is rsp_ready_i, and *)
(* a poll is answered if polled.                                           *)

can_pollHeldBug(ready) == TRUE
can_poll(ready) == response = None \/ response_fire(ready)

Owners(t) == {i \in Valid : entry[i].tok = t}

(* The entry that captures the answer, or None if the answer is refused.   *)
Capturer(polled) ==
  IF polled /\ Cardinality(Owners(Answered.tok)) = 1
  THEN LET i == CHOOSE i \in Owners(Answered.tok) : TRUE
       IN IF entry[i].responded THEN None ELSE i
  ELSE None

NextEntryFreedLastBug(r, ready, c) ==
  [i \in Slots |->
     IF response_fire(ready) /\ i = response.entry THEN None
     ELSE IF r # None /\ i = allocation_slot(ready) THEN [tok |-> r.tok, responded |-> FALSE]
     ELSE IF i = c THEN [tok |-> entry[i].tok, responded |-> TRUE]
     ELSE entry[i]]
NextEntry(r, ready, c) ==
  [i \in Slots |->
     IF r # None /\ i = allocation_slot(ready) THEN [tok |-> r.tok, responded |-> FALSE]
     ELSE IF i = c THEN [tok |-> entry[i].tok, responded |-> TRUE]
     ELSE IF response_fire(ready) /\ i = response.entry THEN None
     ELSE entry[i]]

Edge(r, ready, polled) ==
  LET c      == Capturer(polled)
      left   == IF polled THEN RemoveAt(queue, oldest_ready) ELSE queue
      owners == Owners(Answered.tok)
      lost   == polled /\ c = None
      known  == \E k \in 1 .. Len(retired) : retired[k] = Answered.tok
  IN
  /\ polled => can_poll(ready) /\ queue # <<>>
  /\ stored' = IF polled THEN Memory!Performed(stored, queue[oldest_ready], FALSE) ELSE stored
  /\ queue' = IF r # None /\ ~refused(left, r) THEN Append(left, r) ELSE left
  /\ failed' = (failed \/ (r # None /\ refused(left, r)))
  /\ entry' = NextEntry(r, ready, c)
  /\ response' = IF c # None
                 THEN [tok |-> Answered.tok, err |-> Answered.err,
                       data |-> Answered.data, entry |-> c]
                 ELSE IF response_fire(ready) THEN None ELSE response
  /\ owed' = Left(ready) \cup (IF r = None THEN {} ELSE {r.tok})
  /\ retired' = IF response_fire(ready)
                THEN SubSeq(<<response.tok>> \o retired, 1, IF retired = <<>> THEN 1 ELSE 2)
                ELSE retired
  /\ duplicate_response' = (duplicate_response \/ (lost /\ (owners # {} \/ known)))
  /\ unknown_response' = (unknown_response \/ (lost /\ owners = {} /\ ~known))
  /\ protocol_error' = (protocol_error \/ (lost /\ Cardinality(owners) > 1))

Init == /\ stored \in [Words -> Memory!Word] /\ queue = <<>>
        /\ entry = [i \in Slots |-> None] /\ response = None /\ retired = <<>> /\ owed = {}
        /\ failed = FALSE /\ unknown_response = FALSE
        /\ duplicate_response = FALSE /\ protocol_error = FALSE

Next == \E ready, polled \in BOOLEAN : \E r \in Offered(ready) \cup {None} : Edge(r, ready, polled)

Spec == Init /\ [][Next]_vars

(* The clock runs, the service answers what is old enough, and the client  *)
(* takes the answer it is shown.                                           *)
Serves == \E ready \in BOOLEAN : \E r \in Offered(ready) \cup {None} : Edge(r, ready, TRUE)
Takes  == response # None /\ \E polled \in BOOLEAN : \E r \in Offered(TRUE) \cup {None} : Edge(r, TRUE, polled)
FairSpec == Spec /\ WF_vars(Serves) /\ WF_vars(Takes)

-----------------------------------------------------------------------------
(* What the client sees: the memory as it will be when the queue is done,  *)
(* and the answers that the queue will give.                               *)

After ==
  LET f[n \in 0 .. Len(queue)] ==
        IF n = 0 THEN stored ELSE Memory!Performed(f[n - 1], queue[n], FALSE)
  IN f
mem == After[Len(queue)]
Held == [tok |-> response.tok, err |-> response.err, data |-> response.data]
Due  == {Memory!Answer(After[i - 1], queue[i], FALSE) : i \in 1 .. Len(queue)}
        \cup (IF response = None THEN {} ELSE {Held})

Above == INSTANCE MemoryPort WITH answers <- Due, MayFail <- {}

(* For its client the bridge is a memory port: requests take effect in the *)
(* order of acceptance although the service performs them when it answers, *)
(* and an answer is neither lost nor given to another request, whatever    *)
(* is accepted, captured and taken on one edge.                            *)
PortAbove == Above!Init /\ [][Above!Next(Requests)]_<<mem, Due>>

(* The scoreboard is exact: each entry is a request at the service or the  *)
(* one whose answer is held, and the client waits for just these.          *)
Scoreboard ==
  /\ {entry[i].tok : i \in {i \in Valid : ~entry[i].responded}} = {queue[k].tok : k \in 1 .. Len(queue)}
  /\ Cardinality(Valid) = Len(queue) + (IF response = None THEN 0 ELSE 1)
  /\ response # None => entry[response.entry] = [tok |-> response.tok, responded |-> TRUE]
  /\ owed = {entry[i].tok : i \in Valid} /\ Cardinality(owed) = Cardinality(Valid)

(* None of the guards for unknown, duplicate or surplus requests and       *)
(* answers is ever raised.  The service's queue is smaller than the        *)
(* scoreboard: it is the client's limit that keeps it from overflowing.    *)
NoProtocolError == flags = <<FALSE, FALSE, FALSE, FALSE>>

(* Every request is answered.                                              *)
Answers == \A t \in Tokens : t \in owed ~> t \notin owed

=============================================================================
