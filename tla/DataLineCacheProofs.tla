-------------------------- MODULE DataLineCacheProofs --------------------------
(***************************************************************************)
(* Proofs about DataLineCache for every memory, every client and every     *)
(* number of lines.                                                        *)
(*                                                                         *)
(* An edge may take an answer, above or from below, and accept a request   *)
(* that hits, joins a miss or is forwarded.  Each register is described    *)
(* first by what an edge does to it (MetaEffect, LineEffect, and the       *)
(* effects on the tokens that are owed); the parts of the invariant and    *)
(* the refinement of MemoryPort only use these facts.                      *)
(***************************************************************************)
EXTENDS DataLineCache, FiniteSetTheorems, TLAPS

-----------------------------------------------------------------------------
(* The parts of the inductive invariant.                                   *)

LineType == [valid : BOOLEAN, tag : Pmem \cup {None}, data : Below!Word \cup {None},
             origin : {"cold", "store", "amo"}, gen : 0 .. Gens - 1]

TypeInv ==
  /\ mem \in [Words -> Below!Word] /\ pending \subseteq Replies
  /\ line \in [Lines -> LineType] /\ meta \in [Slots -> Entries \cup {None}]
  /\ hit_rsp \in Replies \cup {None} /\ waiter_rsp \in Replies \cup {None}
  /\ workload \in Workloads /\ outstanding \subseteq Tokens /\ store_generation \in 0 .. Gens - 1

(* A line that was ever used belongs to a word of its index.               *)
LineOK(l, i) == /\ l.tag # None => LineOf[l.tag] = i /\ l.data \in Below!Word
                /\ (l.valid \/ l.origin = "store") => l.tag # None
LinesInv == \A i \in Lines : LineOK(line[i], i)

(* The requests below and their answers.                                   *)
Matched ==
  /\ \A p, q \in pending : p.tok = q.tok => p = q
  /\ \A s, t \in Occupied : meta[s].tok = meta[t].tok => s = t
  /\ \A s \in Occupied : \E p \in pending : p.tok = meta[s].tok
  /\ \A p \in pending : \E s \in Occupied : p.tok = meta[s].tok

(* Each token that is owed an answer is in one register.                   *)
BelowToks  == {meta[s].tok : s \in Occupied}
WaitToks   == {meta[s].waiter : s \in Waiting}
HitToks    == IF hit_rsp = None THEN {} ELSE {hit_rsp.tok}
WaiterToks == IF waiter_rsp = None THEN {} ELSE {waiter_rsp.tok}
Apart ==
  /\ BelowToks \cap WaitToks = {}
  /\ (BelowToks \cup WaitToks) \cap (HitToks \cup WaiterToks) = {}
  /\ HitToks \cap WaiterToks = {}
Owed ==
  /\ \A s, t \in Waiting : meta[s].waiter = meta[t].waiter => s = t
  /\ Apart
  /\ outstanding = BelowToks \cup WaitToks \cup HitToks \cup WaiterToks

(* What an entry says of its request and of the answer to it.              *)
EntryOK(m, p) ==
  /\ p.err => m.word \in MayFail
  /\ m.cacheable_load => m.word \in Pmem /\ m.tok.client = "load" /\ p.data = mem[m.word]
  /\ m.store_invalidation => /\ m.word \in Pmem /\ m.tok.client = "store"
                             /\ m.store # None /\ m.store.word = m.word
EntriesInv == \A s \in Occupied, p \in pending : p.tok = meta[s].tok => EntryOK(meta[s], p)

IInv == TypeInv /\ LinesInv /\ Matched /\ Owed /\ EntriesInv

(* What the lines hold.  It needs store generations that tell the stores   *)
(* apart: GensInv holds until the counter comes back to 0.                 *)
GensInv == \A t \in outstanding : t.client = "store" => t.id # 0

(* The store that will show a hidden line is below, and the memory has its *)
(* bytes already.                                                          *)
Hidden(l) == ~l.valid /\ l.origin = "store" /\ l.gen # 0
OwnedBy(l, m) == /\ m.tok = Token("store", l.gen) /\ m.word = l.tag /\ m.store_invalidation
                 /\ Below!Merge(mem[l.tag], m.store) = mem[l.tag]
HiddenInv == \A i \in Lines : Hidden(line[i]) => /\ line[i].data = mem[line[i].tag]
                                                 /\ \E s \in Occupied : OwnedBy(line[i], meta[s])

ContentInv == IInv /\ GensInv /\ ShownLineIsMemory /\ HiddenInv

-----------------------------------------------------------------------------
(* The values that are exchanged and kept.                                 *)

LEMMA ConstantFacts ==
  /\ Gens \in Nat /\ 1 \in 0 .. Gens - 1 /\ 0 \in 0 .. Gens - 1 /\ FirstGen \in 0 .. Gens - 1
  /\ Pmem \subseteq Words /\ MayFail \subseteq Words /\ Pmem \cap MayFail = {}
  /\ LineOf \in [Words -> Lines] /\ None \notin Pmem
BY CacheConstants, NoneIsNothing

LEMMA TokenTypes ==
  /\ \A l \in LoadTokens : Token("load", l) \in Tokens
  /\ \A g \in 0 .. Gens - 1 : Token("store", g) \in Tokens
  /\ Token("atomic", 0) \in Tokens
<1>1. \A l \in LoadTokens : Token("load", l) \in Tokens
  BY DEF Token, Tokens
<1>2. \A g \in 0 .. Gens - 1 : Token("store", g) \in Tokens
  BY DEF Token, Tokens
<1>3. Token("atomic", 0) \in Tokens
  BY DEF Token, Tokens
<1> QED BY <1>1, <1>2, <1>3

LEMMA WriteFacts ==
  ASSUME NEW m \in Writes
  PROVE  /\ m.tok \in Tokens /\ m.write /\ m.word \in Words
         /\ m.bytes \subseteq Bytes /\ \A b \in m.bytes : m.data[b] \in Values
<1>1. PICK bs \in SUBSET Bytes :
        m \in [tok : Tokens, write : {TRUE}, word : Words, bytes : {bs}, data : [bs -> Values]]
  BY DEF Writes
<1> QED BY <1>1

LEMMA WriteMade ==
  ASSUME NEW t \in Tokens, NEW w \in Words, NEW bs \in SUBSET Bytes, NEW d \in [bs -> Values]
  PROVE  [tok |-> t, write |-> TRUE, word |-> w, bytes |-> bs, data |-> d] \in Writes
<1>1. [tok |-> t, write |-> TRUE, word |-> w, bytes |-> bs, data |-> d] \in
        [tok : Tokens, write : {TRUE}, word : Words, bytes : {bs}, data : [bs -> Values]]
  OBVIOUS
<1> QED BY <1>1 DEF Writes

LEMMA EntryMade ==
  ASSUME NEW t \in Tokens, NEW w \in Words, NEW c \in BOOLEAN, NEW i \in BOOLEAN,
         NEW s \in Writes \cup {None}, NEW v \in Tokens \cup {None}
  PROVE  [tok |-> t, word |-> w, cacheable_load |-> c, store_invalidation |-> i,
          store |-> s, waiter |-> v] \in Entries
BY DEF Entries

LEMMA ReplyMade ==
  ASSUME NEW t \in Tokens, NEW e \in BOOLEAN, NEW d \in Below!Word \cup {None}
  PROVE  [tok |-> t, err |-> e, data |-> d] \in Replies
BY DEF Replies

(* A reply for another token.                                              *)
LEMMA Redirected ==
  ASSUME NEW p \in Replies, NEW t \in Tokens
  PROVE  /\ [p EXCEPT !.tok = t] = [tok |-> t, err |-> p.err, data |-> p.data]
         /\ [p EXCEPT !.tok = t] \in Replies
<1>1. /\ p.err \in BOOLEAN /\ p.data \in Below!Word \cup {None}
      /\ p = [tok |-> p.tok, err |-> p.err, data |-> p.data]
  BY DEF Replies
<1>2. [p EXCEPT !.tok = t] = [tok |-> t, err |-> p.err, data |-> p.data]
  BY <1>1
<1> QED BY <1>1, <1>2, ReplyMade

LEMMA MergeFacts ==
  ASSUME NEW old \in Below!Word, NEW m \in Writes
  PROVE  /\ Below!Merge(old, m) \in Below!Word
         /\ Below!Merge(Below!Merge(old, m), m) = Below!Merge(old, m)
<1>1. m.bytes \subseteq Bytes /\ \A b \in m.bytes : m.data[b] \in Values
  BY WriteFacts
<1>2. Below!Merge(old, m) \in Below!Word
  BY <1>1 DEF Below!Merge, Below!Word
<1>3. Below!Merge(Below!Merge(old, m), m) = Below!Merge(old, m)
  BY DEF Below!Merge
<1> QED BY <1>2, <1>3

-----------------------------------------------------------------------------
(* The requests of the client.                                             *)

LEMMA WorkloadFacts ==
  ASSUME TypeInv
  PROVE  /\ workload.words \subseteq Words /\ workload.shapes \subseteq SUBSET Bytes
         /\ workload.atomics \subseteq [Bytes -> Values]
BY CacheConstants DEF TypeInv

(* What the cache needs to know of a request.                              *)
Sane(r) ==
  /\ r # None /\ r.tok \in Tokens /\ r.word \in Words /\ r.write \in BOOLEAN
  /\ r.write => r \in Writes
  /\ r.tok.client = "load" => ~r.write
  /\ r.tok.client = "store" => r.write /\ r.tok = Token("store", r.tok.id)
  /\ r.tok.client \in {"load", "store", "atomic"}

LEMMA LoadSane ==
  ASSUME NEW l \in LoadTokens, NEW w \in Words
  PROVE  Sane(Load(l, w)) /\ Load(l, w).tok.client = "load"
<1> DEFINE t == Token("load", l)
<1>1. t \in Tokens /\ t.client = "load"
  BY TokenTypes DEF Token
<1> HIDE DEF t
<1> DEFINE r == [tok |-> t, write |-> FALSE, word |-> w]
<1>2. r \in Reads
  BY <1>1 DEF Reads
<1>3. r # None
  BY <1>2, NoneIsNothing
<1>4. Load(l, w) = r
  BY DEF Load, t
<1>5. r.tok = t /\ r.write = FALSE /\ r.word = w
  OBVIOUS
<1> HIDE DEF r
<1> QED BY <1>1, <1>3, <1>4, <1>5 DEF Sane

LEMMA StoreSane ==
  ASSUME NEW g \in 0 .. Gens - 1, NEW w \in Words, NEW bs \in SUBSET Bytes, NEW d \in [bs -> Values]
  PROVE  /\ Sane(Store(g, w, bs, d)) /\ Store(g, w, bs, d).tok.client = "store"
         /\ Store(g, w, bs, d).tok.id = g
<1> DEFINE t == Token("store", g)
<1>1. t \in Tokens /\ t.client = "store" /\ t.id = g
  BY TokenTypes DEF Token
<1>2. t = Token("store", t.id)
  BY <1>1
<1> HIDE DEF t
<1> DEFINE r == [tok |-> t, write |-> TRUE, word |-> w, bytes |-> bs, data |-> d]
<1>3. r \in Writes
  BY <1>1, WriteMade
<1>4. r # None
  BY <1>3, NoneIsNothing
<1>5. Store(g, w, bs, d) = r
  BY DEF Store, t
<1>6. r.tok = t /\ r.write = TRUE /\ r.word = w
  OBVIOUS
<1> HIDE DEF r
<1> QED BY <1>1, <1>2, <1>3, <1>4, <1>5, <1>6 DEF Sane

LEMMA AtomicSane ==
  ASSUME NEW w \in Words, NEW d \in [Bytes -> Values]
  PROVE  /\ Sane(Atomic(w, d)) /\ Atomic(w, d).tok.client = "atomic"
         /\ Sane(AtomicRead(w)) /\ AtomicRead(w).tok.client = "atomic"
<1> DEFINE t == Token("atomic", 0)
<1>1. t \in Tokens /\ t.client = "atomic"
  BY TokenTypes DEF Token
<1> HIDE DEF t
<1> DEFINE r == [tok |-> t, write |-> TRUE, word |-> w, bytes |-> Bytes, data |-> d]
           q == [tok |-> t, write |-> FALSE, word |-> w]
<1>2. r \in Writes /\ q \in Reads
  BY <1>1, WriteMade DEF Reads
<1>3. r # None /\ q # None
  BY <1>2, NoneIsNothing
<1>4. Atomic(w, d) = r /\ AtomicRead(w) = q
  BY DEF Atomic, AtomicRead, t
<1>5. r.tok = t /\ r.write = TRUE /\ r.word = w /\ q.tok = t /\ q.write = FALSE /\ q.word = w
  OBVIOUS
<1> HIDE DEF r, q
<1> QED BY <1>1, <1>2, <1>3, <1>4, <1>5 DEF Sane

LEMMA NextGenType ==
  ASSUME TypeInv
  PROVE  NextGen \in 0 .. Gens - 1
BY ConstantFacts DEF TypeInv, NextGen

LEMMA RequestsSane ==
  ASSUME TypeInv, NEW r \in Requests
  PROVE  Sane(r)
<1>1. CASE r \in LoadRequests
  <2>1. PICK l \in LoadTokens, w \in workload.words : r = Load(l, w)
    BY <1>1 DEF LoadRequests
  <2> QED BY <2>1, LoadSane, WorkloadFacts
<1>2. CASE r \in AtomicRequests
  <2>1. PICK w \in workload.words, d \in [Bytes -> Values] : r = AtomicRead(w) \/ r = Atomic(w, d)
    <3>1. PICK d0 : d0 \in workload.atomics
      BY <1>2 DEF AtomicRequests
    <3> QED BY <1>2, <3>1, WorkloadFacts DEF AtomicRequests
  <2> QED BY <2>1, AtomicSane, WorkloadFacts
<1>3. CASE \E g \in 0 .. Gens - 1 : r \in StoresOf(g)
  <2>1. PICK g \in 0 .. Gens - 1 : r \in StoresOf(g)
    BY <1>3
  <2>2. PICK bs \in workload.shapes : \E w \in workload.words, d \in [bs -> Values] : r = Store(g, w, bs, d)
    BY <2>1 DEF StoresOf
  <2>3. PICK w \in workload.words, d \in [bs -> Values] : r = Store(g, w, bs, d)
    BY <2>2
  <2>4. bs \in SUBSET Bytes /\ w \in Words
    BY WorkloadFacts
  <2> QED BY <2>3, <2>4, StoreSane
<1> QED BY <1>1, <1>2, <1>3 DEF Requests

(* A request that is offered is one of the client's, with a token that is  *)
(* free; a store has the next generation.                                  *)
LEMMA OfferedFacts ==
  ASSUME TypeInv, NEW a, NEW ready, NEW r \in Offered(a, ready)
  PROVE  /\ r \in Requests /\ Sane(r) /\ r.tok \notin outstanding
         /\ r.tok.client = "store" => r.tok.id = NextGen
<1>1. r \in LoadRequests \/ r \in StoresOf(NextGen) \/ r \in AtomicRequests
  BY Zenon DEF Offered
<1>2. r.tok \notin outstanding
  BY Zenon DEF Offered
<1>3. r \in Requests
  BY <1>1, NextGenType DEF Requests
<1>4. r.tok.client = "store" => r.tok.id = NextGen
  <2>1. CASE r \in LoadRequests
    <3>1. PICK l \in LoadTokens, w \in workload.words : r = Load(l, w)
      BY <2>1 DEF LoadRequests
    <3>2. r.tok.client = "load"
      BY <3>1, LoadSane, WorkloadFacts
    <3> QED BY <3>2
  <2>2. CASE r \in AtomicRequests
    <3>1. PICK w \in workload.words, d \in [Bytes -> Values] : r = AtomicRead(w) \/ r = Atomic(w, d)
      <4>1. PICK d0 : d0 \in workload.atomics
        BY <2>2 DEF AtomicRequests
      <4> QED BY <2>2, <4>1, WorkloadFacts DEF AtomicRequests
    <3>2. r.tok.client = "atomic"
      BY <3>1, AtomicSane, WorkloadFacts
    <3> QED BY <3>2
  <2>3. CASE r \in StoresOf(NextGen)
    <3>1. PICK bs \in workload.shapes :
            \E w \in workload.words, d \in [bs -> Values] : r = Store(NextGen, w, bs, d)
      BY <2>3 DEF StoresOf
    <3>2. PICK w \in workload.words, d \in [bs -> Values] : r = Store(NextGen, w, bs, d)
      BY <3>1
    <3>3. bs \in SUBSET Bytes /\ w \in Words
      BY WorkloadFacts
    <3> QED BY <3>2, <3>3, StoreSane, NextGenType
  <2> QED BY <1>1, <2>1, <2>2, <2>3
<1> QED BY <1>2, <1>3, <1>4, RequestsSane

-----------------------------------------------------------------------------
(* The two entries.                                                        *)

LEMMA EntryFacts ==
  ASSUME TypeInv, NEW s \in Occupied
  PROVE  /\ s \in Slots /\ meta[s] # None /\ meta[s] \in Entries
         /\ meta[s].tok \in Tokens /\ meta[s].word \in Words
         /\ meta[s].store \in Writes \cup {None} /\ meta[s].waiter \in Tokens \cup {None}
BY DEF TypeInv, Occupied, Entries

LEMMA ReplyFacts ==
  ASSUME TypeInv
  PROVE  /\ \A p \in pending : p # None /\ p \in Replies /\ p.tok \in Tokens
         /\ hit_rsp # None => hit_rsp \in Replies /\ hit_rsp.tok \in Tokens
         /\ waiter_rsp # None => waiter_rsp \in Replies /\ waiter_rsp.tok \in Tokens
BY NoneIsNothing DEF TypeInv, Replies

LEMMA OwedFacts ==
  ASSUME IInv
  PROVE  /\ \A s \in Occupied : meta[s].tok \in outstanding
         /\ \A s \in Waiting : meta[s].waiter \in outstanding
         /\ \A p \in pending : p.tok \in outstanding
         /\ hit_rsp # None => hit_rsp.tok \in outstanding
         /\ waiter_rsp # None => waiter_rsp.tok \in outstanding
<1>1. BelowToks \subseteq outstanding /\ WaitToks \subseteq outstanding
      /\ HitToks \subseteq outstanding /\ WaiterToks \subseteq outstanding
  BY DEF IInv, Owed
<1>2. \A s \in Occupied : meta[s].tok \in outstanding
  BY <1>1 DEF BelowToks
<1>3. \A s \in Waiting : meta[s].waiter \in outstanding
  BY <1>1 DEF WaitToks
<1>4. \A p \in pending : p.tok \in outstanding
  BY <1>2 DEF IInv, Matched
<1>5. hit_rsp # None => hit_rsp.tok \in outstanding
  BY <1>1 DEF HitToks
<1>6. waiter_rsp # None => waiter_rsp.tok \in outstanding
  BY <1>1 DEF WaiterToks
<1> QED BY <1>2, <1>3, <1>4, <1>5, <1>6

(* An answer from below finds its entry.                                   *)
LEMMA AnswerFinds ==
  ASSUME IInv, NEW a \in pending
  PROVE  LET s == rsp_meta_slot(a)
         IN /\ s \in Occupied /\ s \in Slots /\ meta[s].tok = a.tok
            /\ \A t \in Occupied : meta[t].tok = a.tok => t = s
<1>1. PICK t \in Occupied : meta[t].tok = a.tok
  BY DEF IInv, Matched
<1>2. t \in Slots /\ meta[t] # None
  BY <1>1 DEF Occupied
<1>3. rsp_meta_slot(a) \in Slots /\ meta[rsp_meta_slot(a)] # None /\ meta[rsp_meta_slot(a)].tok = a.tok
  BY <1>1, <1>2 DEF rsp_meta_slot
<1>4. rsp_meta_slot(a) \in Occupied
  BY <1>3 DEF Occupied
<1>5. \A s, u \in Occupied : meta[s].tok = meta[u].tok => s = u
  BY DEF IInv, Matched
<1> QED BY <1>3, <1>4, <1>5

(* The entries that are still occupied when the answer has been taken.     *)
LEMMA Survivors ==
  ASSUME IInv, NEW a \in pending \cup {None}
  PROVE  LET left == effective_meta_valid(a)
         IN /\ left \subseteq Occupied /\ Occupied \subseteq Slots
            /\ a = None => left = Occupied
            /\ a # None => /\ rsp_meta_slot(a) \in Occupied
                           /\ left = Occupied \ {rsp_meta_slot(a)}
                           /\ \A s \in left : meta[s].tok # a.tok
<1>1. Occupied \subseteq Slots
  BY DEF Occupied
<1>2. CASE a = None
  BY <1>1, <1>2 DEF effective_meta_valid
<1>3. CASE a # None
  <2>1. effective_meta_valid(a) = Occupied \ {rsp_meta_slot(a)}
    BY <1>3 DEF effective_meta_valid
  <2>2. /\ rsp_meta_slot(a) \in Occupied
        /\ \A t \in Occupied : meta[t].tok = a.tok => t = rsp_meta_slot(a)
    BY <1>3, AnswerFinds
  <2> QED BY <1>1, <1>3, <2>1, <2>2
<1> QED BY <1>2, <1>3

(* A load that joins a miss finds an entry without a waiter.               *)
LEMMA Joins ==
  ASSUME NEW r, coalesces(r)
  PROVE  LET s == coalesce_slot(r)
         IN /\ s \in Occupied /\ s \in Slots /\ cacheable_load(r) /\ ~array_hit(r)
            /\ meta[s].cacheable_load /\ meta[s].word = r.word /\ meta[s].waiter = None
<1> DEFINE S == coalesce_match(r)
<1>1. S # {} /\ S \subseteq {0, 1} /\ ~array_hit(r)
  BY DEF coalesces, coalesce_match, Slots
<1>2. \E s \in S : \A t \in S : s <= t
  <2> HIDE DEF S
  <2>1. CASE 0 \in S
    BY <1>1, <2>1
  <2>2. CASE 0 \notin S
    <3>1. S = {1}
      BY <1>1, <2>2
    <3> QED BY <3>1
  <2> QED BY <2>1, <2>2
<1>3. coalesce_slot(r) \in S
  BY <1>2 DEF coalesce_slot
<1> QED BY <1>1, <1>3 DEF coalesce_match, Occupied

(* A request that is forwarded gets a free entry, which the answer that is *)
(* taken on this edge may have freed.                                      *)
LEMMA Allocates ==
  ASSUME IInv, NEW a \in pending \cup {None}, NEW ready, NEW r,
         forwarded(r), req_ready(r, a, ready)
  PROVE  meta_alloc_slot(a) \in Slots \ effective_meta_valid(a)
<1>1. effective_meta_valid(a) # Slots
  BY DEF req_ready, forwarded
<1>2. effective_meta_valid(a) \subseteq Slots
  BY Survivors
<1> QED BY <1>1, <1>2 DEF meta_alloc_slot, Slots

(* What an edge does to the entries.                                       *)
Kept(r, a) ==
  \A s \in effective_meta_valid(a) :
    /\ meta'[s] # None /\ meta'[s].tok = meta[s].tok /\ meta'[s].word = meta[s].word
    /\ meta'[s].store = meta[s].store
    /\ meta'[s].store_invalidation = meta[s].store_invalidation
    /\ meta'[s].cacheable_load => meta[s].cacheable_load /\ ~write_conflict(r, meta[s].word)
    /\ Coalesces(r) /\ s = coalesce_slot(r) => meta'[s].waiter = r.tok
    /\ ~(Coalesces(r) /\ s = coalesce_slot(r)) => meta'[s].waiter = meta[s].waiter
MetaEffect(r, a) ==
  /\ meta' \in [Slots -> Entries \cup {None}]
  /\ Kept(r, a)
  /\ forwarded(r) => meta'[meta_alloc_slot(a)] = Entry(r)
  /\ Occupied' = effective_meta_valid(a) \cup (IF forwarded(r) THEN {meta_alloc_slot(a)} ELSE {})

LEMMA NoConflictOfLoads ==
  ASSUME NEW r, NEW w, ~forwarded(r)
  PROVE  ~write_conflict(r, w)
BY DEF write_conflict, amo_invalidate, store_invalidate

LEMMA EntryOfRequest ==
  ASSUME NEW r, Sane(r)
  PROVE  Entry(r) \in Entries /\ Entry(r) # None
<1>1. cacheable_load(r) \in BOOLEAN
  BY DEF cacheable_load
<1>2. (store_invalidate(r) /\ store_owner(r)) \in BOOLEAN
  OBVIOUS
<1>3. (IF r.write THEN r ELSE None) \in Writes \cup {None}
  BY DEF Sane
<1>4. r.tok \in Tokens /\ r.word \in Words
  BY DEF Sane
<1>5. Entry(r) \in Entries
  BY <1>1, <1>2, <1>3, <1>4, EntryMade DEF Entry
<1> QED BY <1>5, NoneIsNothing

(* Setting one field of an entry.                                          *)
LEMMA WaiterSet ==
  ASSUME NEW m \in Entries, NEW t \in Tokens
  PROVE  LET n == [m EXCEPT !.waiter = t]
         IN /\ n \in Entries /\ n # None /\ n.tok = m.tok /\ n.word = m.word /\ n.store = m.store
            /\ n.store_invalidation = m.store_invalidation
            /\ n.cacheable_load = m.cacheable_load /\ n.waiter = t
<1> DEFINE n == [m EXCEPT !.waiter = t]
<1>1. n \in Entries
  BY DEF Entries
<1>2. n # None
  BY <1>1, NoneIsNothing
<1>3. /\ n.tok = m.tok /\ n.word = m.word /\ n.store = m.store /\ n.waiter = t
      /\ n.store_invalidation = m.store_invalidation /\ n.cacheable_load = m.cacheable_load
  BY DEF Entries
<1> QED BY <1>1, <1>2, <1>3

LEMMA PoisonSet ==
  ASSUME NEW m \in Entries, NEW r
  PROVE  LET n == Poisoned(m, r)
         IN /\ n \in Entries /\ n # None /\ n.tok = m.tok /\ n.word = m.word /\ n.store = m.store
            /\ n.store_invalidation = m.store_invalidation /\ n.waiter = m.waiter
            /\ n.cacheable_load => m.cacheable_load /\ ~write_conflict(r, m.word)
<1>1. m # None
  BY NoneIsNothing
<1>2. CASE write_conflict(r, m.word)
  <2> DEFINE n == [m EXCEPT !.cacheable_load = FALSE]
  <2>1. Poisoned(m, r) = n
    BY <1>1, <1>2 DEF Poisoned
  <2>2. n \in Entries
    BY DEF Entries
  <2>3. n # None
    BY <2>2, NoneIsNothing
  <2>4. /\ n.tok = m.tok /\ n.word = m.word /\ n.store = m.store /\ n.waiter = m.waiter
        /\ n.store_invalidation = m.store_invalidation /\ n.cacheable_load = FALSE
    BY DEF Entries
  <2> HIDE DEF n
  <2> QED BY <2>1, <2>2, <2>3, <2>4, Zenon
<1>3. CASE ~write_conflict(r, m.word)
  <2>1. Poisoned(m, r) = m
    BY <1>3 DEF Poisoned
  <2> QED BY <1>1, <1>3, <2>1, Zenon
<1> QED BY <1>2, <1>3

LEMMA MetaEffects ==
  ASSUME IInv, NEW a \in pending \cup {None}, NEW ready \in BOOLEAN,
         NEW r \in Offered(a, ready) \cup {None}, Edge(r, a, ready)
  PROVE  MetaEffect(r, a)
<1> DEFINE left == effective_meta_valid(a)
           slot == meta_alloc_slot(a)
<1>1. /\ left \subseteq Occupied /\ Occupied \subseteq Slots
      /\ a = None => left = Occupied
      /\ a # None => left = Occupied \ {rsp_meta_slot(a)} /\ rsp_meta_slot(a) \in Occupied
  BY Survivors
<1>2. TypeInv
  BY DEF IInv
<1>3. r # None => Sane(r)
  BY <1>2, OfferedFacts
<1>4. forwarded(r) => slot \in Slots \ left
  <2>1. forwarded(r) => r # None
    BY DEF forwarded
  <2>2. r # None => req_ready(r, a, ready)
    BY DEF Edge
  <2> QED BY <2>1, <2>2, Allocates
<1>5. meta' = NextMeta(r, a)
  BY DEF Edge
<1>6. Coalesces(r) => ~forwarded(r) /\ coalesces(r) /\ Sane(r)
  BY <1>3 DEF Coalesces, forwarded
<1>7. forwarded(r) => Entry(r) \in Entries /\ Entry(r) # None
  <2>1. forwarded(r) => r # None
    BY DEF forwarded
  <2> QED BY <1>3, <2>1, EntryOfRequest
<1>8. \A s \in Slots : s \in left <=> meta[s] # None /\ ~(a # None /\ s = rsp_meta_slot(a))
  BY <1>1 DEF Occupied
<1> HIDE DEF left, slot
<1>9. forwarded(r) => meta'[slot] = Entry(r)
  BY <1>4, <1>5 DEF NextMeta, slot
<1>10. ASSUME NEW s \in Slots, s \in left
       PROVE  /\ meta'[s] \in Entries
              /\ meta'[s] # None /\ meta'[s].tok = meta[s].tok /\ meta'[s].word = meta[s].word
              /\ meta'[s].store = meta[s].store
              /\ meta'[s].store_invalidation = meta[s].store_invalidation
              /\ meta'[s].cacheable_load => meta[s].cacheable_load /\ ~write_conflict(r, meta[s].word)
              /\ Coalesces(r) /\ s = coalesce_slot(r) => meta'[s].waiter = r.tok
              /\ ~(Coalesces(r) /\ s = coalesce_slot(r)) => meta'[s].waiter = meta[s].waiter
  <2>1. ~(forwarded(r) /\ s = slot) /\ ~(a # None /\ s = rsp_meta_slot(a))
    BY <1>4, <1>8, <1>10
  <2>2. meta[s] \in Entries
    BY <1>1, <1>2, <1>10, EntryFacts
  <2>3. CASE Coalesces(r) /\ s = coalesce_slot(r)
    <3>1. meta'[s] = [meta[s] EXCEPT !.waiter = r.tok]
      BY <1>5, <2>1, <2>3 DEF NextMeta, slot
    <3>2. r.tok \in Tokens
      BY <1>6, <2>3 DEF Sane
    <3>3. ~write_conflict(r, meta[s].word)
      BY <1>6, <2>3, NoConflictOfLoads
    <3>4. /\ meta'[s] \in Entries
          /\ meta'[s] # None /\ meta'[s].tok = meta[s].tok /\ meta'[s].word = meta[s].word
          /\ meta'[s].store = meta[s].store
          /\ meta'[s].store_invalidation = meta[s].store_invalidation
          /\ meta'[s].cacheable_load = meta[s].cacheable_load
          /\ meta'[s].waiter = r.tok
      BY <2>2, <3>1, <3>2, WaiterSet
    <3> QED BY <2>3, <3>3, <3>4, Zenon
  <2>4. CASE ~(Coalesces(r) /\ s = coalesce_slot(r))
    <3>1. meta'[s] = Poisoned(meta[s], r)
      BY <1>5, <2>1, <2>4 DEF NextMeta, slot
    <3>2. /\ meta'[s] \in Entries
          /\ meta'[s] # None /\ meta'[s].tok = meta[s].tok /\ meta'[s].word = meta[s].word
          /\ meta'[s].store = meta[s].store
          /\ meta'[s].store_invalidation = meta[s].store_invalidation
          /\ meta'[s].waiter = meta[s].waiter
          /\ meta'[s].cacheable_load => meta[s].cacheable_load /\ ~write_conflict(r, meta[s].word)
      BY <2>2, <3>1, PoisonSet
    <3> QED BY <2>4, <3>2, Zenon
  <2> QED BY <2>3, <2>4
<1>11. ASSUME NEW s \in Slots, s \notin left, ~(forwarded(r) /\ s = slot)
       PROVE  meta'[s] = None
  <2>1. CASE a # None /\ s = rsp_meta_slot(a)
    BY <1>5, <1>11, <2>1 DEF NextMeta, slot
  <2>2. CASE ~(a # None /\ s = rsp_meta_slot(a))
    <3>1. meta[s] = None
      BY <1>8, <1>11, <2>2
    <3>2. ~(Coalesces(r) /\ s = coalesce_slot(r))
      BY <1>6, <3>1, Joins DEF Occupied
    <3>3. Poisoned(None, r) = None
      BY DEF Poisoned
    <3> QED BY <1>5, <1>11, <2>2, <3>1, <3>2, <3>3 DEF NextMeta, slot
  <2> QED BY <2>1, <2>2
<1>12. meta' \in [Slots -> Entries \cup {None}]
  <2>1. \A s \in Slots : meta'[s] \in Entries \cup {None}
    BY <1>7, <1>9, <1>10, <1>11
  <2>2. meta' = [s \in Slots |-> meta'[s]]
    BY <1>5 DEF NextMeta
  <2> QED BY <2>1, <2>2
<1>13. Kept(r, a)
  BY <1>1, <1>10, Zenon DEF Kept, left
<1>14. Occupied' = left \cup (IF forwarded(r) THEN {slot} ELSE {})
  <2>1. \A s \in Slots : meta'[s] # None <=> s \in left \/ (forwarded(r) /\ s = slot)
    BY <1>7, <1>9, <1>10, <1>11
  <2>2. left \subseteq Slots /\ (forwarded(r) => slot \in Slots)
    BY <1>1, <1>4
  <2> QED BY <2>1, <2>2 DEF Occupied
<1> QED BY <1>9, <1>12, <1>13, <1>14 DEF MetaEffect, left, slot

-----------------------------------------------------------------------------
(* The tokens that are owed an answer.                                     *)

Toks(x) == IF x = None THEN {} ELSE {x.tok}

(* The waiter that leaves with the answer, and the load that becomes one.  *)
Released(a) == IF a # None /\ meta[rsp_meta_slot(a)].waiter # None
               THEN {meta[rsp_meta_slot(a)].waiter} ELSE {}
Parks(r, a) == Coalesces(r) /\ ~coalesce_on_primary_rsp(r, a)

LEMMA TakenCases ==
  ASSUME NEW a, NEW ready \in BOOLEAN, a # None => mem_rsp_ready(ready)
  PROVE  /\ a # None => /\ waiter_rsp = None /\ hit_rsp = None /\ Taken(a, ready) = a
                        /\ ~waiter_rsp_fire(ready) /\ ~hit_rsp_fire(ready)
         /\ waiter_rsp_fire(ready) => /\ a = None /\ Taken(a, ready) = waiter_rsp
                                      /\ waiter_rsp # None /\ ~hit_rsp_fire(ready)
         /\ hit_rsp_fire(ready) => /\ a = None /\ Taken(a, ready) = hit_rsp
                                   /\ hit_rsp # None /\ waiter_rsp = None
         /\ a = None /\ ~waiter_rsp_fire(ready) /\ ~hit_rsp_fire(ready) => Taken(a, ready) = None
BY DEF mem_rsp_ready, waiter_rsp_fire, hit_rsp_fire, Taken

LEMMA Routes ==
  ASSUME IInv, NEW a \in pending \cup {None}, NEW ready \in BOOLEAN,
         NEW r \in Offered(a, ready) \cup {None}, Edge(r, a, ready)
  PROVE  /\ r # None => /\ r.tok \in Tokens /\ r.tok \notin outstanding
                        /\ forwarded(r) \/ Coalesces(r) \/ array_hit(r)
         /\ forwarded(r) => r # None /\ ~Coalesces(r) /\ ~array_hit(r)
         /\ Coalesces(r) => r # None /\ ~array_hit(r) /\ coalesces(r)
         /\ r # None /\ array_hit(r) => hit_rsp = None \/ hit_rsp_fire(ready)
<1>1. r # None => Sane(r) /\ r.tok \notin outstanding
  BY OfferedFacts DEF IInv
<1>2. r # None => req_ready(r, a, ready)
  BY DEF Edge
<1>3. r # None /\ array_hit(r) => hit_rsp = None \/ hit_rsp_fire(ready)
  BY <1>2 DEF req_ready, hit_slot_available
<1>4. r # None => r.tok \in Tokens
  BY <1>1 DEF Sane
<1> QED BY <1>1, <1>3, <1>4 DEF forwarded, Coalesces, coalesces

LEMMA BelowEffect ==
  ASSUME IInv, NEW a \in pending \cup {None}, NEW ready \in BOOLEAN,
         NEW r \in Offered(a, ready) \cup {None}, Edge(r, a, ready)
  PROVE  /\ BelowToks' = (BelowToks \ Toks(a)) \cup (IF forwarded(r) THEN {r.tok} ELSE {})
         /\ \A s, t \in Occupied' : meta'[s].tok = meta'[t].tok => s = t
<1> DEFINE left == effective_meta_valid(a)
           slot == meta_alloc_slot(a)
<1>1. /\ left \subseteq Occupied
      /\ a = None => left = Occupied
      /\ a # None => /\ left = Occupied \ {rsp_meta_slot(a)} /\ rsp_meta_slot(a) \in Occupied
                     /\ \A s \in left : meta[s].tok # a.tok
  BY Survivors
<1>2. /\ Kept(r, a) /\ forwarded(r) => meta'[slot] = Entry(r)
      /\ Occupied' = left \cup (IF forwarded(r) THEN {slot} ELSE {})
  BY MetaEffects DEF MetaEffect
<1>3. \A s \in left : meta'[s].tok = meta[s].tok
  BY MetaEffects DEF MetaEffect, Kept
<1>4. forwarded(r) => meta'[slot].tok = r.tok
  <2>1. Entry(r).tok = r.tok
    BY DEF Entry
  <2>2. forwarded(r) => meta'[slot] = Entry(r)
    BY MetaEffects DEF MetaEffect
  <2> QED BY <2>1, <2>2
<1>5. Occupied' = left \cup (IF forwarded(r) THEN {slot} ELSE {})
  BY MetaEffects DEF MetaEffect
<1>6. a # None => meta[rsp_meta_slot(a)].tok = a.tok
  BY AnswerFinds
<1>7. \A s \in Occupied : meta[s].tok \in outstanding
  BY OwedFacts
<1>8. forwarded(r) => r.tok \notin outstanding
  BY Routes
<1>9. \A s, t \in Occupied : meta[s].tok = meta[t].tok => s = t
  BY DEF IInv, Matched
<1> HIDE DEF left, slot
<1>10. {meta[s].tok : s \in left} = BelowToks \ Toks(a)
  <2>1. CASE a = None
    BY <1>1, <2>1 DEF BelowToks, Toks
  <2>2. CASE a # None
    BY <1>1, <1>6, <2>2 DEF BelowToks, Toks
  <2> QED BY <2>1, <2>2
<1>11. BelowToks' = {meta'[s].tok : s \in Occupied'}
  BY DEF BelowToks
<1>12. {meta'[s].tok : s \in left} = {meta[s].tok : s \in left}
  BY <1>3
<1>13. {meta'[s].tok : s \in Occupied'} =
         {meta'[s].tok : s \in left} \cup (IF forwarded(r) THEN {r.tok} ELSE {})
  BY <1>4, <1>5
<1>14. \A s, t \in Occupied' : meta'[s].tok = meta'[t].tok => s = t
  BY <1>1, <1>3, <1>4, <1>5, <1>7, <1>8, <1>9
<1> QED BY <1>10, <1>11, <1>12, <1>13, <1>14

LEMMA WaitEffect ==
  ASSUME IInv, NEW a \in pending \cup {None}, NEW ready \in BOOLEAN,
         NEW r \in Offered(a, ready) \cup {None}, Edge(r, a, ready)
  PROVE  /\ WaitToks' = (WaitToks \ Released(a)) \cup (IF Parks(r, a) THEN {r.tok} ELSE {})
         /\ \A s, t \in Waiting' : meta'[s].waiter = meta'[t].waiter => s = t
         /\ Waiting' = (Waiting \cap effective_meta_valid(a))
                       \cup (IF Parks(r, a) THEN {coalesce_slot(r)} ELSE {})
         /\ Parks(r, a) => /\ coalesce_slot(r) \in effective_meta_valid(a)
                           /\ coalesce_slot(r) \notin Waiting
         /\ Parks(r, a) => meta'[coalesce_slot(r)].waiter = r.tok
         /\ \A s \in Waiting \cap effective_meta_valid(a) : meta'[s].waiter = meta[s].waiter
<1> DEFINE left == effective_meta_valid(a)
           slot == meta_alloc_slot(a)
           c == coalesce_slot(r)
           kept == Waiting \cap left
<1>1. /\ left \subseteq Occupied
      /\ a = None => left = Occupied
      /\ a # None => /\ left = Occupied \ {rsp_meta_slot(a)} /\ rsp_meta_slot(a) \in Occupied
  BY Survivors
<1>2. Coalesces(r) => c \in Occupied /\ meta[c].waiter = None /\ r.tok \in Tokens
                      /\ r.tok \notin outstanding
  <2>1. Coalesces(r) => c \in Occupied /\ meta[c].waiter = None
    BY Joins DEF Coalesces
  <2> QED BY <2>1, Routes
<1>3. Parks(r, a) <=> Coalesces(r) /\ c \in left
  BY <1>1, <1>2 DEF Parks, coalesce_on_primary_rsp
<1>4. \A s \in left : /\ Coalesces(r) /\ s = c => meta'[s].waiter = r.tok
                      /\ ~(Coalesces(r) /\ s = c) => meta'[s].waiter = meta[s].waiter
  BY MetaEffects DEF MetaEffect, Kept
<1>5. forwarded(r) => meta'[slot].waiter = None
  <2>1. Entry(r).waiter = None
    BY DEF Entry
  <2>2. forwarded(r) => meta'[slot] = Entry(r)
    BY MetaEffects DEF MetaEffect
  <2> QED BY <2>1, <2>2
<1>6. Occupied' = left \cup (IF forwarded(r) THEN {slot} ELSE {})
  BY MetaEffects DEF MetaEffect
<1>7. Waiting' = {s \in Occupied' : meta'[s].waiter # None}
  BY DEF Waiting
<1>8. Waiting = {s \in Occupied : meta[s].waiter # None}
  BY DEF Waiting
<1>9. Coalesces(r) => c \notin Waiting /\ r.tok # None
  BY <1>2, <1>8, NoneIsNothing
<1> HIDE DEF left, slot, c
<1>10. Waiting' = kept \cup (IF Parks(r, a) THEN {c} ELSE {})
  BY <1>1, <1>3, <1>4, <1>5, <1>6, <1>7, <1>8, <1>9
<1>11. \A s \in kept : meta'[s].waiter = meta[s].waiter
  BY <1>4, <1>9
<1>12. Parks(r, a) => meta'[c].waiter = r.tok /\ c \in left /\ c \notin Waiting
  BY <1>3, <1>4, <1>9
<1>13. \A s \in Waiting : meta[s].waiter \in outstanding
  BY OwedFacts
<1>14. \A s, t \in Waiting : meta[s].waiter = meta[t].waiter => s = t
  BY DEF IInv, Owed
<1>15. {meta[s].waiter : s \in kept} = WaitToks \ Released(a)
  <2>1. CASE a = None
    BY <1>1, <1>8, <2>1 DEF WaitToks, Released
  <2>2. CASE a # None
    <3>1. kept = Waiting \ {rsp_meta_slot(a)}
      BY <1>1, <1>8, <2>2
    <3>2. CASE rsp_meta_slot(a) \in Waiting
      <4>1. Released(a) = {meta[rsp_meta_slot(a)].waiter}
        BY <1>8, <2>2, <3>2 DEF Released
      <4> QED BY <1>14, <3>1, <3>2, <4>1 DEF WaitToks
    <3>3. CASE rsp_meta_slot(a) \notin Waiting
      <4>1. Released(a) = {}
        BY <1>1, <1>8, <2>2, <3>3 DEF Released
      <4> QED BY <3>1, <3>3, <4>1 DEF WaitToks
    <3> QED BY <3>2, <3>3
  <2> QED BY <2>1, <2>2
<1>16. WaitToks' = {meta'[s].waiter : s \in Waiting'}
  BY DEF WaitToks
<1> HIDE DEF kept
<1>17. {meta'[s].waiter : s \in Waiting'} =
         {meta[s].waiter : s \in kept} \cup (IF Parks(r, a) THEN {r.tok} ELSE {})
  BY <1>10, <1>11, <1>12
<1>18. \A s, t \in Waiting' : meta'[s].waiter = meta'[t].waiter => s = t
  <2>1. kept \subseteq Waiting /\ (Parks(r, a) => r.tok \notin outstanding)
    BY <1>2, <1>3 DEF kept
  <2> QED BY <1>10, <1>11, <1>12, <1>13, <1>14, <2>1
<1> QED BY <1>10, <1>11, <1>12, <1>15, <1>16, <1>17, <1>18 DEF kept, left, c

(* The line a load hits.                                                   *)
LEMMA HitFacts ==
  ASSUME IInv, NEW r, array_hit(r), r.word \in Words
  PROVE  LET l == line[LineOf[r.word]]
         IN /\ LineOf[r.word] \in Lines /\ LineAt(r.word) = l /\ l \in LineType
            /\ l.valid /\ l.tag = r.word /\ r.word \in Pmem /\ r.tok.client = "load"
            /\ l.data \in Below!Word
<1>1. LineOf[r.word] \in Lines
  BY ConstantFacts
<1>2. line[LineOf[r.word]] \in LineType
  BY <1>1 DEF IInv, TypeInv
<1>3. /\ LineAt(r.word).valid /\ LineAt(r.word).tag = r.word
      /\ r.word \in Pmem /\ r.tok.client = "load"
  BY DEF array_hit, cacheable_load, cacheable_range
<1>4. LineAt(r.word) = line[LineOf[r.word]]
  BY DEF LineAt
<1>5. LineOK(line[LineOf[r.word]], LineOf[r.word])
  BY <1>1 DEF IInv, LinesInv
<1>6. r.word # None
  BY NoneIsNothing
<1>7. line[LineOf[r.word]].data \in Below!Word
  BY <1>2, <1>3, <1>4, <1>5, <1>6 DEF LineOK, LineType
<1> QED BY <1>1, <1>2, <1>3, <1>4, <1>7

LEMMA HitEffect ==
  ASSUME IInv, NEW a \in pending \cup {None}, NEW ready \in BOOLEAN,
         NEW r \in Offered(a, ready) \cup {None}, Edge(r, a, ready)
  PROVE  /\ hit_rsp' \in Replies \cup {None}
         /\ r # None /\ array_hit(r) => hit_rsp' = Reply(r.tok, LineAt(r.word).data) /\ hit_rsp' # None
         /\ ~(r # None /\ array_hit(r)) /\ hit_rsp_fire(ready) => hit_rsp' = None
         /\ ~(r # None /\ array_hit(r)) /\ ~hit_rsp_fire(ready) => hit_rsp' = hit_rsp
<1>1. hit_rsp' = NextHit(r, ready)
  BY DEF Edge
<1>2. ASSUME r # None, array_hit(r)
      PROVE  Reply(r.tok, LineAt(r.word).data) \in Replies
  <2>1. Sane(r)
    BY <1>2, OfferedFacts DEF IInv
  <2>2. r.tok \in Tokens /\ r.word \in Words
    BY <2>1 DEF Sane
  <2>3. LineAt(r.word).data \in Below!Word
    BY <1>2, <2>2, HitFacts
  <2> QED BY <2>2, <2>3, ReplyMade DEF Reply
<1>3. hit_rsp \in Replies \cup {None}
  BY DEF IInv, TypeInv
<1> QED BY <1>1, <1>2, <1>3, NoneIsNothing DEF NextHit

LEMMA WaiterEffect ==
  ASSUME IInv, NEW a \in pending \cup {None}, NEW ready \in BOOLEAN,
         NEW r \in Offered(a, ready) \cup {None}, Edge(r, a, ready)
  PROVE  LET joins    == Coalesces(r) /\ ~Parks(r, a)
             released == meta[rsp_meta_slot(a)].waiter
         IN /\ waiter_rsp' \in Replies \cup {None}
            /\ joins => /\ a # None /\ waiter_rsp' = [a EXCEPT !.tok = r.tok] /\ waiter_rsp' # None
                        /\ waiter_rsp'.tok = r.tok /\ Released(a) = {}
            /\ Released(a) # {} => /\ a # None /\ released # None /\ Released(a) = {released}
                                   /\ waiter_rsp' = [a EXCEPT !.tok = released] /\ waiter_rsp' # None
                                   /\ waiter_rsp'.tok = released
            /\ ~joins /\ Released(a) = {} /\ waiter_rsp_fire(ready) => waiter_rsp' = None
            /\ ~joins /\ Released(a) = {} /\ ~waiter_rsp_fire(ready) => waiter_rsp' = waiter_rsp
<1> DEFINE joins    == Coalesces(r) /\ ~Parks(r, a)
           released == meta[rsp_meta_slot(a)].waiter
<1>1. waiter_rsp' = NextWaiter(r, a, ready)
  BY DEF Edge
<1>2. joins <=> Coalesces(r) /\ coalesce_on_primary_rsp(r, a)
  BY DEF Parks
<1>3. joins => a # None /\ coalesce_slot(r) = rsp_meta_slot(a) /\ coalesces(r) /\ r.tok \in Tokens
  <2>1. joins => a # None /\ coalesce_slot(r) = rsp_meta_slot(a) /\ coalesces(r)
    BY <1>2 DEF coalesce_on_primary_rsp, Coalesces
  <2>2. joins => r.tok \in Tokens
    BY Routes DEF Coalesces
  <2> QED BY <2>1, <2>2
<1>4. joins => released = None
  BY <1>3, Joins
<1>5. waiter_rsp \in Replies \cup {None}
  BY DEF IInv, TypeInv
<1>6. a # None => a \in Replies
  BY ReplyFacts DEF IInv
<1>7. a # None => released \in Tokens \cup {None}
  <2>1. a # None => rsp_meta_slot(a) \in Occupied
    BY AnswerFinds
  <2> QED BY <2>1, EntryFacts DEF IInv
<1>8. \A t \in Tokens : a # None => /\ [a EXCEPT !.tok = t] \in Replies
                                    /\ [a EXCEPT !.tok = t] # None
                                    /\ [a EXCEPT !.tok = t].tok = t
  <2> SUFFICES ASSUME NEW t \in Tokens, a # None
               PROVE  [a EXCEPT !.tok = t] \in Replies /\ [a EXCEPT !.tok = t].tok = t
    BY NoneIsNothing
  <2>1. /\ [a EXCEPT !.tok = t] = [tok |-> t, err |-> a.err, data |-> a.data]
        /\ [a EXCEPT !.tok = t] \in Replies
    BY <1>6, Redirected
  <2> QED BY <2>1
<1>9. Released(a) # {} <=> a # None /\ released # None
  BY DEF Released
<1>10. Released(a) # {} => Released(a) = {released}
  BY DEF Released
<1> HIDE DEF released, joins
<1>11. CASE joins
  <2>1. waiter_rsp' = [a EXCEPT !.tok = r.tok]
    BY <1>1, <1>2, <1>11 DEF NextWaiter
  <2>2. Released(a) = {}
    BY <1>4, <1>9, <1>11
  <2> QED BY <1>3, <1>8, <1>11, <2>1, <2>2 DEF joins, released
<1>12. CASE ~joins /\ Released(a) # {}
  <2>1. waiter_rsp' = [a EXCEPT !.tok = released]
    BY <1>1, <1>2, <1>9, <1>12 DEF NextWaiter, released
  <2>2. a # None /\ released # None /\ released \in Tokens
    BY <1>7, <1>9, <1>12
  <2>3. waiter_rsp' \in Replies /\ waiter_rsp' # None /\ waiter_rsp'.tok = released
    BY <1>8, <2>1, <2>2
  <2> QED BY <1>10, <1>12, <2>1, <2>2, <2>3 DEF joins, released
<1>13. CASE ~joins /\ Released(a) = {}
  <2>1. waiter_rsp' = IF waiter_rsp_fire(ready) THEN None ELSE waiter_rsp
    BY <1>1, <1>2, <1>9, <1>13 DEF NextWaiter, released
  <2> QED BY <1>5, <1>13, <2>1 DEF joins, released
<1> QED BY <1>11, <1>12, <1>13

LEMMA OwedStep ==
  ASSUME IInv, NEW a \in pending \cup {None}, NEW ready \in BOOLEAN,
         NEW r \in Offered(a, ready) \cup {None}, Edge(r, a, ready)
  PROVE  Owed'
<1> DEFINE joins == Coalesces(r) /\ ~Parks(r, a)
           hits  == r # None /\ array_hit(r)
           new   == IF r = None THEN {} ELSE {r.tok}
           taken == Taken(a, ready)
<1>1. /\ BelowToks' = (BelowToks \ Toks(a)) \cup (IF forwarded(r) THEN {r.tok} ELSE {})
      /\ WaitToks' = (WaitToks \ Released(a)) \cup (IF Parks(r, a) THEN {r.tok} ELSE {})
  BY BelowEffect, WaitEffect
<1>2. /\ hits => HitToks' = {r.tok}
      /\ ~hits /\ hit_rsp_fire(ready) => HitToks' = {}
      /\ ~hits /\ ~hit_rsp_fire(ready) => HitToks' = HitToks
  <2>1. hits => hit_rsp' # None /\ hit_rsp'.tok = r.tok
    BY HitEffect DEF Reply
  <2>2. /\ ~hits /\ hit_rsp_fire(ready) => hit_rsp' = None
        /\ ~hits /\ ~hit_rsp_fire(ready) => hit_rsp' = hit_rsp
    BY HitEffect
  <2> QED BY <2>1, <2>2 DEF HitToks
<1>3. /\ joins => WaiterToks' = {r.tok} /\ a # None /\ Released(a) = {}
      /\ Released(a) # {} => WaiterToks' = Released(a) /\ a # None
      /\ ~joins /\ Released(a) = {} /\ waiter_rsp_fire(ready) => WaiterToks' = {}
      /\ ~joins /\ Released(a) = {} /\ ~waiter_rsp_fire(ready) => WaiterToks' = WaiterToks
  BY WaiterEffect DEF WaiterToks
<1>4. outstanding' = (outstanding \ Toks(taken)) \cup new
  BY DEF Edge, Removed, Toks
<1>5. a # None => mem_rsp_ready(ready)
  BY DEF Edge
<1>6. /\ a # None => /\ WaiterToks = {} /\ HitToks = {} /\ taken = a
                     /\ ~waiter_rsp_fire(ready) /\ ~hit_rsp_fire(ready)
      /\ waiter_rsp_fire(ready) => /\ a = None /\ Toks(taken) = WaiterToks
                                   /\ ~hit_rsp_fire(ready)
      /\ hit_rsp_fire(ready) => a = None /\ Toks(taken) = HitToks
      /\ a = None /\ ~waiter_rsp_fire(ready) /\ ~hit_rsp_fire(ready) => Toks(taken) = {}
  BY <1>5, TakenCases DEF WaiterToks, HitToks, Toks
<1>7. /\ hits => HitToks = {} \/ hit_rsp_fire(ready)
      /\ r # None => r.tok \notin outstanding /\ (forwarded(r) \/ Parks(r, a) \/ joins \/ hits)
      /\ forwarded(r) => r # None /\ ~Parks(r, a) /\ ~joins /\ ~hits
      /\ Parks(r, a) => r # None /\ ~joins /\ ~hits
      /\ joins => r # None /\ ~hits
  BY Routes DEF Parks, HitToks
<1>8. /\ BelowToks \cap WaitToks = {}
      /\ (BelowToks \cup WaitToks) \cap (HitToks \cup WaiterToks) = {}
      /\ HitToks \cap WaiterToks = {}
      /\ outstanding = BelowToks \cup WaitToks \cup HitToks \cup WaiterToks
  BY DEF IInv, Owed, Apart
<1>9. Toks(None) = {}
  BY DEF Toks
<1>10. a # None => Toks(a) \subseteq BelowToks /\ Released(a) \subseteq WaitToks
  <2>1. a # None => rsp_meta_slot(a) \in Occupied /\ meta[rsp_meta_slot(a)].tok = a.tok
    BY AnswerFinds
  <2> QED BY <2>1 DEF Toks, Released, BelowToks, WaitToks, Waiting
<1>11. a = None => Released(a) = {}
  BY DEF Released
<1> DEFINE B == BelowToks  W == WaitToks  H == HitToks  V == WaiterToks
           B1 == BelowToks'  W1 == WaitToks'  H1 == HitToks'  V1 == WaiterToks'
<1>12. \A s, t \in Waiting' : meta'[s].waiter = meta'[t].waiter => s = t
  BY WaitEffect
<1> HIDE DEF joins, hits, taken, B, W, H, V, B1, W1, H1, V1
<1>13. CASE a # None
  <2>1. /\ B1 \cap W1 = {} /\ (B1 \cup W1) \cap (H1 \cup V1) = {} /\ H1 \cap V1 = {}
        /\ outstanding' = B1 \cup W1 \cup H1 \cup V1
    <3>1. H = {} /\ V = {} /\ B \cap W = {} /\ outstanding = B \cup W
          /\ Toks(a) \subseteq B /\ Released(a) \subseteq W
      BY <1>6, <1>8, <1>10, <1>13 DEF B, W, H, V
    <3>2. /\ B1 = (B \ Toks(a)) \cup (IF forwarded(r) THEN {r.tok} ELSE {})
          /\ W1 = (W \ Released(a)) \cup (IF Parks(r, a) THEN {r.tok} ELSE {})
          /\ H1 = IF hits THEN {r.tok} ELSE {}
          /\ V1 = IF joins THEN {r.tok} ELSE Released(a)
          /\ joins => Released(a) = {}
          /\ outstanding' = (outstanding \ Toks(a)) \cup new
      BY <1>1, <1>2, <1>3, <1>4, <1>6, <1>13, <3>1 DEF B, W, H, V, B1, W1, H1, V1
    <3>3. CASE r = None
      <4>1. B1 = B \ Toks(a) /\ W1 = W \ Released(a) /\ H1 = {} /\ V1 = Released(a)
            /\ outstanding' = outstanding \ Toks(a)
        BY <1>7, <3>2, <3>3 DEF hits
      <4> QED BY <3>1, <4>1
    <3>4. CASE forwarded(r)
      <4>1. B1 = (B \ Toks(a)) \cup {r.tok} /\ W1 = W \ Released(a) /\ H1 = {} /\ V1 = Released(a)
            /\ outstanding' = (outstanding \ Toks(a)) \cup {r.tok} /\ r.tok \notin outstanding
        BY <1>7, <3>2, <3>4
      <4> QED BY <3>1, <4>1
    <3>5. CASE Parks(r, a)
      <4>1. B1 = B \ Toks(a) /\ W1 = (W \ Released(a)) \cup {r.tok} /\ H1 = {} /\ V1 = Released(a)
            /\ outstanding' = (outstanding \ Toks(a)) \cup {r.tok} /\ r.tok \notin outstanding
        BY <1>7, <3>2, <3>5
      <4> QED BY <3>1, <4>1
    <3>6. CASE joins
      <4>1. B1 = B \ Toks(a) /\ W1 = W /\ H1 = {} /\ V1 = {r.tok}
            /\ outstanding' = (outstanding \ Toks(a)) \cup {r.tok} /\ r.tok \notin outstanding
        BY <1>7, <3>2, <3>6
      <4> QED BY <3>1, <4>1
    <3>7. CASE hits
      <4>1. B1 = B \ Toks(a) /\ W1 = W \ Released(a) /\ H1 = {r.tok} /\ V1 = Released(a)
            /\ outstanding' = (outstanding \ Toks(a)) \cup {r.tok} /\ r.tok \notin outstanding
        BY <1>7, <3>2, <3>7 DEF hits
      <4> QED BY <3>1, <4>1
    <3> QED BY <1>7, <3>3, <3>4, <3>5, <3>6, <3>7
  <2> QED BY <1>12, <2>1 DEF Owed, Apart, B1, W1, H1, V1
<1>14. CASE a = None
  <2>1. /\ B1 \cap W1 = {} /\ (B1 \cup W1) \cap (H1 \cup V1) = {} /\ H1 \cap V1 = {}
        /\ outstanding' = B1 \cup W1 \cup H1 \cup V1
    <3>1. /\ B \cap W = {} /\ (B \cup W) \cap (H \cup V) = {} /\ H \cap V = {}
          /\ outstanding = B \cup W \cup H \cup V /\ ~joins
      BY <1>3, <1>8, <1>14 DEF B, W, H, V
    <3>2. /\ B1 = B \cup (IF forwarded(r) THEN {r.tok} ELSE {})
          /\ W1 = W \cup (IF Parks(r, a) THEN {r.tok} ELSE {})
          /\ H1 = IF hits THEN {r.tok} ELSE IF hit_rsp_fire(ready) THEN {} ELSE H
          /\ V1 = IF waiter_rsp_fire(ready) THEN {} ELSE V
          /\ hits => H = {} \/ hit_rsp_fire(ready)
      BY <1>1, <1>2, <1>3, <1>7, <1>9, <1>11, <1>14, <3>1 DEF B, W, H, V, B1, W1, H1, V1
    <3>3. /\ waiter_rsp_fire(ready) => Toks(taken) = V /\ ~hit_rsp_fire(ready)
          /\ hit_rsp_fire(ready) => Toks(taken) = H
          /\ ~waiter_rsp_fire(ready) /\ ~hit_rsp_fire(ready) => Toks(taken) = {}
      BY <1>6, <1>14 DEF V, H
    <3>4. outstanding' = (outstanding \ Toks(taken)) \cup new
      BY <1>4
    <3> HIDE DEF new
    <3>5. /\ r = None => new = {}
          /\ r # None => new = {r.tok}
      BY DEF new
    <3> DEFINE H0 == IF hit_rsp_fire(ready) THEN {} ELSE H
               V0 == IF waiter_rsp_fire(ready) THEN {} ELSE V
               O0 == outstanding \ Toks(taken)
    <3>6. /\ B \cap W = {} /\ (B \cup W) \cap (H0 \cup V0) = {} /\ H0 \cap V0 = {}
          /\ O0 = B \cup W \cup H0 \cup V0
      <4>1. CASE waiter_rsp_fire(ready)
        BY <3>1, <3>3, <4>1
      <4>2. CASE hit_rsp_fire(ready)
        BY <3>1, <3>3, <4>2
      <4>3. CASE ~waiter_rsp_fire(ready) /\ ~hit_rsp_fire(ready)
        BY <3>1, <3>3, <4>3
      <4> QED BY <4>1, <4>2, <4>3
    <3>7. hits => H0 = {}
      BY <3>2
    <3>8. O0 \subseteq outstanding /\ outstanding' = O0 \cup new
      BY <3>4
    <3>9. V1 = V0 /\ (~hits => H1 = H0) /\ (hits => H1 = {r.tok})
      BY <3>2
    <3> HIDE DEF H0, V0, O0
    <3>10. CASE r = None
      <4>1. B1 = B /\ W1 = W /\ H1 = H0 /\ V1 = V0 /\ outstanding' = O0
        BY <1>7, <3>2, <3>5, <3>8, <3>9, <3>10 DEF hits
      <4> QED BY <3>6, <4>1
    <3>11. CASE forwarded(r)
      <4>1. B1 = B \cup {r.tok} /\ W1 = W /\ H1 = H0 /\ V1 = V0 /\ outstanding' = O0 \cup {r.tok}
            /\ r.tok \notin O0
        BY <1>7, <3>2, <3>5, <3>8, <3>9, <3>11
      <4> QED BY <3>6, <4>1
    <3>12. CASE Parks(r, a)
      <4>1. B1 = B /\ W1 = W \cup {r.tok} /\ H1 = H0 /\ V1 = V0 /\ outstanding' = O0 \cup {r.tok}
            /\ r.tok \notin O0
        BY <1>7, <3>2, <3>5, <3>8, <3>9, <3>12
      <4> QED BY <3>6, <4>1
    <3>13. CASE hits
      <4>1. B1 = B /\ W1 = W /\ H1 = {r.tok} /\ H0 = {} /\ V1 = V0
            /\ outstanding' = O0 \cup {r.tok} /\ r.tok \notin O0
        BY <1>7, <3>2, <3>5, <3>7, <3>8, <3>9, <3>13 DEF hits
      <4> QED BY <3>6, <4>1
    <3> QED BY <1>7, <3>1, <3>10, <3>11, <3>12, <3>13
  <2> QED BY <1>12, <2>1 DEF Owed, Apart, B1, W1, H1, V1
<1> QED BY <1>13, <1>14

-----------------------------------------------------------------------------
(* The port below.                                                         *)

PortEffect(r, a, err) ==
  /\ err => forwarded(r) /\ r.word \in MayFail
  /\ mem' = IF forwarded(r) THEN Below!Performed(mem, r, err) ELSE mem
  /\ pending' = (pending \ {a}) \cup (IF forwarded(r) THEN {Below!Answer(mem, r, err)} ELSE {})

LEMMA PortEffects ==
  ASSUME IInv, NEW a \in pending \cup {None}, NEW ready \in BOOLEAN,
         NEW r \in Offered(a, ready) \cup {None}, Edge(r, a, ready)
  PROVE  \E err \in BOOLEAN : PortEffect(r, a, err)
<1> DEFINE q == IF forwarded(r) THEN r ELSE None
<1>1. Below!Step(q, a)
  BY DEF Edge
<1>2. PICK err \in BOOLEAN :
        /\ err => q # None /\ q.word \in MayFail
        /\ mem' = Below!Performed(mem, q, err)
        /\ pending' = (pending \ {a}) \cup (IF q = None THEN {} ELSE {Below!Answer(mem, q, err)})
  BY <1>1 DEF Below!Step
<1>3. forwarded(r) => r # None
  BY DEF forwarded
<1>4. CASE forwarded(r)
  BY <1>2, <1>3, <1>4 DEF PortEffect
<1>5. CASE ~forwarded(r)
  <2>1. q = None
    BY <1>5
  <2>2. Below!Performed(mem, None, err) = mem
    BY DEF Below!Performed
  <2>3. mem' = mem /\ pending' = pending \ {a} /\ ~err
    BY <1>2, <2>1, <2>2
  <2> QED BY <1>5, <2>3 DEF PortEffect
<1> QED BY <1>4, <1>5

(* A write only changes a word that it conflicts with.                     *)
LEMMA MemEffect ==
  ASSUME IInv, NEW r, r # None => Sane(r), NEW a, NEW err \in BOOLEAN, PortEffect(r, a, err)
  PROVE  /\ mem' \in [Words -> Below!Word]
         /\ \A w \in Pmem : ~write_conflict(r, w) => mem'[w] = mem[w]
         /\ forwarded(r) /\ r.word \in Pmem /\ r.write => mem'[r.word] = Below!Merge(mem[r.word], r)
         /\ ~r.write => mem' = mem
<1>1. mem \in [Words -> Below!Word]
  BY DEF IInv, TypeInv
<1>2. forwarded(r) => r # None
  BY DEF forwarded
<1>3. CASE ~forwarded(r)
  <2>1. mem' = mem
    BY <1>3 DEF PortEffect
  <2> QED BY <1>1, <1>3, <2>1
<1>4. CASE forwarded(r) /\ (err \/ ~r.write)
  <2>1. mem' = mem
    BY <1>4 DEF PortEffect, Below!Performed
  <2>2. r.write /\ r.word \in Pmem => FALSE
    BY <1>4, ConstantFacts DEF PortEffect
  <2> QED BY <1>1, <2>1, <2>2
<1>5. CASE forwarded(r) /\ ~err /\ r.write
  <2>1. Sane(r)
    BY <1>2, <1>5
  <2>2. r \in Writes /\ r.word \in Words
    BY <1>5, <2>1 DEF Sane
  <2>3. mem' = [mem EXCEPT ![r.word] = Below!Merge(mem[r.word], r)]
    BY <1>2, <1>5 DEF PortEffect, Below!Performed
  <2>4. Below!Merge(mem[r.word], r) \in Below!Word
    BY <1>1, <2>2, MergeFacts
  <2>5. mem' \in [Words -> Below!Word] /\ mem'[r.word] = Below!Merge(mem[r.word], r)
        /\ \A w \in Words : w # r.word => mem'[w] = mem[w]
    BY <1>1, <2>2, <2>3, <2>4
  <2>6. r.word \in Pmem => write_conflict(r, r.word)
    <3>1. r.tok.client \in {"store", "atomic"}
      BY <1>5, <2>1 DEF Sane
    <3> QED BY <1>5, <3>1
         DEF write_conflict, amo_invalidate, store_invalidate, cacheable_range
  <2> QED BY <1>5, <2>5, <2>6, ConstantFacts
<1> QED BY <1>3, <1>4, <1>5

LEMMA AnswerFacts ==
  ASSUME IInv, NEW r, Sane(r), NEW err \in BOOLEAN
  PROVE  LET p == Below!Answer(mem, r, err)
         IN /\ p \in Replies /\ p # None /\ p.tok = r.tok /\ p.err = err
            /\ ~r.write /\ ~err => p.data = mem[r.word]
<1> DEFINE d == IF r.write \/ err THEN None ELSE mem[r.word]
<1>1. d \in Below!Word \cup {None} /\ r.tok \in Tokens
  BY DEF IInv, TypeInv, Sane
<1>2. Below!Answer(mem, r, err) = [tok |-> r.tok, err |-> err, data |-> d]
  BY DEF Below!Answer
<1>3. ~r.write /\ ~err => d = mem[r.word]
  OBVIOUS
<1> HIDE DEF d
<1>4. [tok |-> r.tok, err |-> err, data |-> d] \in Replies
  BY <1>1, ReplyMade
<1> QED BY <1>2, <1>3, <1>4, NoneIsNothing

LEMMA MatchedStep ==
  ASSUME IInv, NEW a \in pending \cup {None}, NEW ready \in BOOLEAN,
         NEW r \in Offered(a, ready) \cup {None}, Edge(r, a, ready)
  PROVE  Matched' /\ pending' \subseteq Replies
<1> DEFINE left == effective_meta_valid(a)
           slot == meta_alloc_slot(a)
<1>1. PICK err \in BOOLEAN : PortEffect(r, a, err)
  BY PortEffects
<1> DEFINE p == Below!Answer(mem, r, err)
<1>2. /\ left \subseteq Occupied
      /\ a = None => left = Occupied
      /\ a # None => /\ left = Occupied \ {rsp_meta_slot(a)}
                     /\ \A s \in left : meta[s].tok # a.tok
  BY Survivors
<1>3. \A s \in left : meta'[s].tok = meta[s].tok
  BY MetaEffects DEF MetaEffect, Kept
<1>4. forwarded(r) => meta'[slot].tok = r.tok
  <2>1. Entry(r).tok = r.tok
    BY DEF Entry
  <2>2. forwarded(r) => meta'[slot] = Entry(r)
    BY MetaEffects DEF MetaEffect
  <2> QED BY <2>1, <2>2
<1>5. Occupied' = left \cup (IF forwarded(r) THEN {slot} ELSE {})
  BY MetaEffects DEF MetaEffect
<1>6. forwarded(r) => p \in Replies /\ p.tok = r.tok /\ r.tok \notin outstanding
  <2>1. forwarded(r) => Sane(r)
    BY Routes, OfferedFacts DEF IInv, forwarded
  <2> QED BY <2>1, AnswerFacts, Routes
<1>7. pending' = (pending \ {a}) \cup (IF forwarded(r) THEN {p} ELSE {})
  BY <1>1 DEF PortEffect
<1>8. \A q \in pending : q.tok \in outstanding
  BY OwedFacts
<1>9. pending \subseteq Replies
  BY DEF IInv, TypeInv
<1>10. /\ \A q, u \in pending : q.tok = u.tok => q = u
       /\ \A s \in Occupied : \E q \in pending : q.tok = meta[s].tok
       /\ \A q \in pending : \E s \in Occupied : q.tok = meta[s].tok
  BY DEF IInv, Matched
<1>11. \A s, t \in Occupied' : meta'[s].tok = meta'[t].tok => s = t
  BY BelowEffect
<1>12. a # None => meta[rsp_meta_slot(a)].tok = a.tok
  BY AnswerFinds
<1>13. None \notin pending
  BY ReplyFacts DEF IInv
<1> HIDE DEF left, slot, p
<1>14. pending' \subseteq Replies
  BY <1>6, <1>7, <1>9
<1>15. \A q, u \in pending' : q.tok = u.tok => q = u
  BY <1>6, <1>7, <1>8, <1>10
<1>16. ASSUME NEW s \in Occupied' PROVE \E q \in pending' : q.tok = meta'[s].tok
  <2>1. CASE s \in left
    <3>1. PICK q \in pending : q.tok = meta[s].tok
      BY <1>2, <1>10, <2>1
    <3>2. q # a
      BY <1>2, <1>13, <2>1, <3>1
    <3> QED BY <1>3, <1>7, <2>1, <3>1, <3>2
  <2>2. CASE s \notin left
    BY <1>4, <1>5, <1>6, <1>7, <2>2
  <2> QED BY <2>1, <2>2
<1>17. ASSUME NEW q \in pending' PROVE \E s \in Occupied' : q.tok = meta'[s].tok
  <2>1. CASE q \in pending /\ q # a
    <3>1. PICK s \in Occupied : q.tok = meta[s].tok
      BY <1>10, <2>1
    <3>2. a # None => s # rsp_meta_slot(a)
      BY <1>10, <1>12, <2>1, <3>1
    <3>3. s \in left
      BY <1>2, <3>1, <3>2
    <3> QED BY <1>3, <1>5, <3>1, <3>3
  <2>2. CASE ~(q \in pending /\ q # a)
    BY <1>4, <1>5, <1>6, <1>7, <2>2
  <2> QED BY <2>1, <2>2
<1>18. \A s \in Occupied' : \E q \in pending' : q.tok = meta'[s].tok
  BY <1>16
<1>19. \A q \in pending' : \E s \in Occupied' : q.tok = meta'[s].tok
  BY <1>17
<1> QED BY <1>11, <1>14, <1>15, <1>18, <1>19, Zenon DEF Matched

LEMMA EntriesStep ==
  ASSUME IInv, NEW a \in pending \cup {None}, NEW ready \in BOOLEAN,
         NEW r \in Offered(a, ready) \cup {None}, Edge(r, a, ready)
  PROVE  EntriesInv'
<1> DEFINE left == effective_meta_valid(a)
           slot == meta_alloc_slot(a)
<1>1. PICK err \in BOOLEAN : PortEffect(r, a, err)
  BY PortEffects
<1> DEFINE n == Below!Answer(mem, r, err)
<1>2. left \subseteq Occupied
  BY Survivors
<1>3. \A s \in left :
        /\ meta'[s].tok = meta[s].tok /\ meta'[s].word = meta[s].word
        /\ meta'[s].store = meta[s].store
        /\ meta'[s].store_invalidation = meta[s].store_invalidation
        /\ meta'[s].cacheable_load => meta[s].cacheable_load /\ ~write_conflict(r, meta[s].word)
  BY MetaEffects DEF MetaEffect, Kept
<1>4. forwarded(r) => meta'[slot] = Entry(r) /\ Sane(r) /\ r.tok \notin outstanding
  <2>1. forwarded(r) => r # None
    BY DEF forwarded
  <2>2. r # None => Sane(r) /\ r.tok \notin outstanding
    BY OfferedFacts DEF IInv
  <2> QED BY <2>1, <2>2, MetaEffects DEF MetaEffect
<1>5. Occupied' = left \cup (IF forwarded(r) THEN {slot} ELSE {})
  BY MetaEffects DEF MetaEffect
<1>6. pending' = (pending \ {a}) \cup (IF forwarded(r) THEN {n} ELSE {})
  BY <1>1 DEF PortEffect
<1>7. forwarded(r) => /\ n.tok = r.tok /\ n.err = err
                      /\ ~r.write /\ ~err => n.data = mem[r.word]
  BY <1>4, AnswerFacts
<1>8. \A w \in Pmem : ~write_conflict(r, w) => mem'[w] = mem[w]
  <2>1. r # None => Sane(r)
    BY OfferedFacts DEF IInv
  <2> QED BY <1>1, <2>1, MemEffect
<1>9. \A q \in pending : q.tok \in outstanding
  BY OwedFacts
<1>10. \A s \in Occupied : meta[s].tok \in outstanding
  BY OwedFacts
<1>11. err => r.word \in MayFail
  BY <1>1 DEF PortEffect
<1>12. ASSUME NEW s \in Occupied', NEW p \in pending', p.tok = meta'[s].tok
       PROVE  /\ p.err => meta'[s].word \in MayFail
              /\ meta'[s].cacheable_load =>
                   /\ meta'[s].word \in Pmem /\ meta'[s].tok.client = "load"
                   /\ p.data = mem'[meta'[s].word]
              /\ meta'[s].store_invalidation =>
                   /\ meta'[s].word \in Pmem /\ meta'[s].tok.client = "store"
                   /\ meta'[s].store # None /\ meta'[s].store.word = meta'[s].word
  <2>1. CASE s \in left /\ p \in pending
    <3>1. EntryOK(meta[s], p)
      BY <1>2, <1>3, <1>12, <2>1 DEF IInv, EntriesInv
    <3>2. /\ p.err => meta[s].word \in MayFail
          /\ meta[s].cacheable_load =>
               meta[s].word \in Pmem /\ meta[s].tok.client = "load" /\ p.data = mem[meta[s].word]
          /\ meta[s].store_invalidation =>
               /\ meta[s].word \in Pmem /\ meta[s].tok.client = "store"
               /\ meta[s].store # None /\ meta[s].store.word = meta[s].word
      BY <3>1 DEF EntryOK
    <3>3. meta'[s].cacheable_load => meta[s].cacheable_load /\ ~write_conflict(r, meta[s].word)
      BY <1>3, <2>1
    <3>4. /\ meta'[s].tok = meta[s].tok /\ meta'[s].word = meta[s].word
          /\ meta'[s].store = meta[s].store
          /\ meta'[s].store_invalidation = meta[s].store_invalidation
      BY <1>3, <2>1
    <3> QED BY <1>8, <3>2, <3>3, <3>4
  <2>2. CASE s \notin left /\ p \notin pending
    <3>1. forwarded(r) /\ s = slot /\ p = n
      BY <1>5, <1>6, <2>2
    <3>2. r # None /\ Sane(r) /\ meta'[s] = Entry(r)
      BY <1>4, <3>1 DEF Sane
    <3>3. /\ Entry(r).word = r.word /\ Entry(r).tok = r.tok
          /\ Entry(r).cacheable_load = cacheable_load(r)
          /\ Entry(r).store_invalidation = (store_invalidate(r) /\ store_owner(r))
          /\ Entry(r).store = IF r.write THEN r ELSE None
      BY DEF Entry
    <3>4. /\ cacheable_load(r) <=> r.tok.client = "load" /\ r.word \in Pmem
          /\ store_invalidate(r) => r.tok.client = "store" /\ r.word \in Pmem
      BY DEF cacheable_load, store_invalidate, cacheable_range
    <3>5. /\ r.tok.client = "load" => ~r.write
          /\ r.tok.client = "store" => r.write
      BY <3>2 DEF Sane
    <3>6. cacheable_load(r) => n.data = mem'[r.word]
      <4> SUFFICES ASSUME cacheable_load(r) PROVE n.data = mem'[r.word]
        OBVIOUS
      <4>1. r.word \in Pmem /\ ~r.write /\ ~err
        BY <1>11, <3>4, <3>5, ConstantFacts
      <4>2. mem' = mem
        BY <1>1, <3>2, <4>1, MemEffect
      <4> QED BY <1>7, <3>1, <4>1, <4>2
    <3>7. /\ meta'[s].word = r.word /\ meta'[s].tok = r.tok
          /\ meta'[s].cacheable_load = cacheable_load(r)
          /\ meta'[s].store_invalidation = (store_invalidate(r) /\ store_owner(r))
          /\ meta'[s].store = IF r.write THEN r ELSE None
      BY <3>2, <3>3
    <3>8. p.err = err /\ p.data = n.data
      BY <1>7, <3>1
    <3> HIDE DEF n
    <3>9. p.err => meta'[s].word \in MayFail
      BY <1>11, <3>7, <3>8
    <3>10. meta'[s].cacheable_load =>
             /\ meta'[s].word \in Pmem /\ meta'[s].tok.client = "load"
             /\ p.data = mem'[meta'[s].word]
      BY <3>4, <3>6, <3>7, <3>8
    <3>11. meta'[s].store_invalidation =>
             /\ meta'[s].word \in Pmem /\ meta'[s].tok.client = "store"
             /\ meta'[s].store # None /\ meta'[s].store.word = meta'[s].word
      BY <3>2, <3>4, <3>5, <3>7
    <3> QED BY <3>9, <3>10, <3>11
  <2>3. CASE s \in left /\ p \notin pending
    <3>1. forwarded(r) /\ p = n
      BY <1>6, <2>3
    <3> QED BY <1>2, <1>3, <1>4, <1>7, <1>10, <1>12, <2>3, <3>1
  <2>4. CASE s \notin left /\ p \in pending
    <3>1. forwarded(r) /\ s = slot
      BY <1>5, <2>4
    <3>2. meta'[s].tok = r.tok
      BY <1>4, <3>1 DEF Entry
    <3> QED BY <1>4, <1>9, <1>12, <2>4, <3>1, <3>2
  <2> QED BY <2>1, <2>2, <2>3, <2>4
<1>13. \A s \in Occupied', p \in pending' : p.tok = meta'[s].tok =>
         /\ p.err => meta'[s].word \in MayFail
         /\ meta'[s].cacheable_load =>
              /\ meta'[s].word \in Pmem /\ meta'[s].tok.client = "load"
              /\ p.data = mem'[meta'[s].word]
         /\ meta'[s].store_invalidation =>
              /\ meta'[s].word \in Pmem /\ meta'[s].tok.client = "store"
              /\ meta'[s].store # None /\ meta'[s].store.word = meta'[s].word
  BY <1>12, Zenon
<1> QED BY <1>13, Zenon DEF EntriesInv, EntryOK

-----------------------------------------------------------------------------
(* The lines.                                                              *)

(* What happens to line i on an edge: exactly one of these.                *)
IsCleared(i, r)   == amo_invalidate(r) /\ line'[i] = Cleared(line[i])
IsShown(i, r, a)  == /\ ~amo_invalidate(r) /\ store_rsp_update(r, a)
                     /\ LineOf[meta[rsp_meta_slot(a)].word] = i
                     /\ line'[i] = ShownBy(line[i], meta[rsp_meta_slot(a)])
IsHidden(i, r)    == /\ ~amo_invalidate(r) /\ store_invalidate(r) /\ store_owner(r)
                     /\ LineOf[r.word] = i /\ line'[i] = HiddenBy(line[i], r)
IsFilled(i, r, a) == /\ ~amo_invalidate(r) /\ fill(r, a)
                     /\ LineOf[meta[rsp_meta_slot(a)].word] = i
                     /\ line'[i] = Filled(meta[rsp_meta_slot(a)].word, a.data)
IsKept(i, r, a)   == /\ ~amo_invalidate(r)
                     /\ ~(store_rsp_update(r, a) /\ LineOf[meta[rsp_meta_slot(a)].word] = i)
                     /\ ~(store_invalidate(r) /\ store_owner(r) /\ LineOf[r.word] = i)
                     /\ line'[i] = line[i]

LEMMA LineEffect ==
  ASSUME NEW r, NEW a, NEW ready, Edge(r, a, ready), NEW i \in Lines
  PROVE  IsCleared(i, r) \/ IsShown(i, r, a) \/ IsHidden(i, r) \/ IsFilled(i, r, a) \/ IsKept(i, r, a)
<1> DEFINE w == meta[rsp_meta_slot(a)].word
<1>1. line' = NextLine(r, a)
  BY DEF Edge
<1>2. line'[i] = IF amo_invalidate(r) THEN Cleared(line[i])
                 ELSE IF store_rsp_update(r, a) /\ LineOf[w] = i
                      THEN ShownBy(line[i], meta[rsp_meta_slot(a)])
                 ELSE IF store_invalidate(r) /\ store_owner(r) /\ LineOf[r.word] = i
                      THEN HiddenBy(line[i], r)
                 ELSE IF fill(r, a) /\ LineOf[w] = i THEN Filled(w, a.data)
                 ELSE line[i]
  BY <1>1 DEF NextLine
<1>3. CASE amo_invalidate(r)
  BY <1>2, <1>3 DEF IsCleared
<1>4. CASE ~amo_invalidate(r) /\ store_rsp_update(r, a) /\ LineOf[w] = i
  BY <1>2, <1>4 DEF IsShown
<1>5. CASE /\ ~amo_invalidate(r) /\ ~(store_rsp_update(r, a) /\ LineOf[w] = i)
           /\ store_invalidate(r) /\ store_owner(r) /\ LineOf[r.word] = i
  BY <1>2, <1>5 DEF IsHidden
<1>6. CASE /\ ~amo_invalidate(r) /\ ~(store_rsp_update(r, a) /\ LineOf[w] = i)
           /\ ~(store_invalidate(r) /\ store_owner(r) /\ LineOf[r.word] = i)
           /\ fill(r, a) /\ LineOf[w] = i
  BY <1>2, <1>6 DEF IsFilled
<1>7. CASE /\ ~amo_invalidate(r) /\ ~(store_rsp_update(r, a) /\ LineOf[w] = i)
           /\ ~(store_invalidate(r) /\ store_owner(r) /\ LineOf[r.word] = i)
           /\ ~(fill(r, a) /\ LineOf[w] = i)
  BY <1>2, <1>7 DEF IsKept
<1> QED BY <1>3, <1>4, <1>5, <1>6, <1>7

LEMMA LineMade ==
  ASSUME NEW v \in BOOLEAN, NEW t \in Pmem \cup {None}, NEW d \in Below!Word \cup {None},
         NEW o \in {"cold", "store", "amo"}, NEW g \in 0 .. Gens - 1
  PROVE  [valid |-> v, tag |-> t, data |-> d, origin |-> o, gen |-> g] \in LineType
BY DEF LineType

LEMMA WordIsSomething ==
  ASSUME IInv, NEW w \in Words
  PROVE  mem[w] \in Below!Word
BY DEF IInv, TypeInv

(* The fields of a line after each effect.                                 *)
LEMMA ClearedFields ==
  ASSUME NEW l \in LineType
  PROVE  LET n == Cleared(l)
         IN /\ n \in LineType /\ n.valid = FALSE /\ n.gen = 0 /\ n.tag = l.tag /\ n.data = l.data
            /\ n.origin = "store" => l.origin = "store"
<1> DEFINE o == IF l.valid THEN "amo" ELSE l.origin
           n == [l EXCEPT !.valid = FALSE, !.gen = 0, !.origin = o]
<1>1. o \in {"cold", "store", "amo"} /\ 0 \in 0 .. Gens - 1 /\ (o = "store" => l.origin = "store")
  BY ConstantFacts DEF LineType
<1>2. Cleared(l) = n
  BY DEF Cleared
<1> HIDE DEF o
<1>3. n \in LineType
  BY <1>1 DEF LineType
<1>4. n.valid = FALSE /\ n.gen = 0 /\ n.tag = l.tag /\ n.data = l.data /\ n.origin = o
  BY DEF LineType
<1> QED BY <1>1, <1>2, <1>3, <1>4

LEMMA ShownFields ==
  ASSUME NEW l \in LineType, l.data \in Below!Word, NEW m, m.store \in Writes
  PROVE  LET n == ShownBy(l, m)
         IN /\ n \in LineType /\ n.valid = TRUE /\ n.tag = l.tag
            /\ n.data = Below!Merge(l.data, m.store) /\ n.data \in Below!Word
<1> DEFINE d == Below!Merge(l.data, m.store)
           n == [l EXCEPT !.valid = TRUE, !.data = d, !.origin = "cold", !.gen = 0]
<1>1. 0 \in 0 .. Gens - 1
  BY ConstantFacts
<1>2. ShownBy(l, m) = n
  BY DEF ShownBy
<1>3. d \in Below!Word
  BY MergeFacts
<1> HIDE DEF d
<1>4. n \in LineType
  BY <1>1, <1>3 DEF LineType
<1>5. n.valid = TRUE /\ n.tag = l.tag /\ n.data = d
  BY DEF LineType
<1> QED BY <1>2, <1>3, <1>4, <1>5 DEF d

LEMMA HiddenFields ==
  ASSUME NEW l, l.data \in Below!Word, NEW r \in Writes, r.word \in Pmem, r.tok.id \in 0 .. Gens - 1
  PROVE  LET n == HiddenBy(l, r)
         IN /\ n \in LineType /\ n.valid = FALSE /\ n.tag = r.word /\ n.origin = "store"
            /\ n.gen = r.tok.id /\ n.data = Below!Merge(l.data, r) /\ n.data \in Below!Word
<1> DEFINE d == Below!Merge(l.data, r)
           g == r.tok.id
<1>1. d \in Below!Word
  BY MergeFacts
<1>2. HiddenBy(l, r) = [valid |-> FALSE, tag |-> r.word, data |-> d, origin |-> "store", gen |-> g]
  BY DEF HiddenBy
<1> HIDE DEF d, g
<1>3. g \in 0 .. Gens - 1
  BY DEF g
<1> DEFINE n == [valid |-> FALSE, tag |-> r.word, data |-> d, origin |-> "store", gen |-> g]
<1>4. n \in LineType
  BY <1>1, <1>3, LineMade
<1>5. /\ n.valid = FALSE /\ n.tag = r.word /\ n.data = d /\ n.origin = "store" /\ n.gen = g
  OBVIOUS
<1> QED BY <1>1, <1>2, <1>4, <1>5 DEF d, g

LEMMA FilledFields ==
  ASSUME NEW w \in Pmem, NEW d \in Below!Word
  PROVE  LET n == Filled(w, d)
         IN /\ n \in LineType /\ n.valid = TRUE /\ n.tag = w /\ n.data = d
<1>1. 0 \in 0 .. Gens - 1
  BY ConstantFacts
<1>2. Filled(w, d) = [valid |-> TRUE, tag |-> w, data |-> d, origin |-> "cold", gen |-> 0]
  BY DEF Filled
<1> DEFINE n == [valid |-> TRUE, tag |-> w, data |-> d, origin |-> "cold", gen |-> 0]
<1>3. n \in LineType
  BY <1>1, LineMade
<1>4. n.valid = TRUE /\ n.tag = w /\ n.data = d
  OBVIOUS
<1> QED BY <1>2, <1>3, <1>4

(* What is known when a line is shown, hidden or filled.                   *)
LEMMA ShowFacts ==
  ASSUME IInv, NEW a \in pending \cup {None}, NEW r, store_rsp_update(r, a)
  PROVE  LET s == rsp_meta_slot(a)
             m == meta[s]
             l == line[LineOf[m.word]]
         IN /\ a # None /\ s \in Occupied /\ m.tok = a.tok /\ a.tok.client = "store"
            /\ m.store_invalidation /\ m.word \in Pmem /\ m.store \in Writes /\ m.store.word = m.word
            /\ l \in LineType /\ ~l.valid /\ l.origin = "store" /\ l.tag = m.word /\ l.gen = a.tok.id
            /\ l.data \in Below!Word /\ ~write_conflict(r, m.word)
<1> DEFINE s == rsp_meta_slot(a)
           m == meta[s]
           l == line[LineOf[m.word]]
<1>1. a # None /\ a \in pending
  BY DEF store_rsp_update, store_rsp_origin_match
<1>2. s \in Occupied /\ m.tok = a.tok
  BY <1>1, AnswerFinds
<1>3. /\ a.tok.client = "store" /\ m.store_invalidation /\ ~l.valid /\ l.origin = "store"
      /\ l.tag = m.word /\ l.gen = a.tok.id /\ ~write_conflict(r, m.word)
  BY DEF store_rsp_update, store_rsp_origin_match, LineAt
<1>4. EntryOK(m, a)
  BY <1>1, <1>2 DEF IInv, EntriesInv
<1>5. m.word \in Pmem /\ m.store # None /\ m.store.word = m.word
  BY <1>3, <1>4 DEF EntryOK
<1>6. m.store \in Writes
  BY <1>2, <1>5, EntryFacts DEF IInv
<1>7. LineOf[m.word] \in Lines
  BY <1>5, ConstantFacts
<1>8. l \in LineType /\ LineOK(l, LineOf[m.word])
  BY <1>7 DEF IInv, TypeInv, LinesInv
<1>9. l.data \in Below!Word
  BY <1>3, <1>8 DEF LineOK
<1> QED BY <1>1, <1>2, <1>3, <1>5, <1>6, <1>8, <1>9

LEMMA FillFacts ==
  ASSUME IInv, NEW a \in pending \cup {None}, NEW r, fill(r, a)
  PROVE  LET m == meta[rsp_meta_slot(a)]
         IN /\ a # None /\ m.word \in Pmem /\ a.data = mem[m.word] /\ a.data \in Below!Word
            /\ ~write_conflict(r, m.word)
<1> DEFINE m == meta[rsp_meta_slot(a)]
<1>1. a # None /\ a \in pending /\ m.cacheable_load /\ ~write_conflict(r, m.word)
  BY DEF fill
<1>2. rsp_meta_slot(a) \in Occupied /\ m.tok = a.tok
  BY <1>1, AnswerFinds
<1>3. EntryOK(m, a)
  BY <1>1, <1>2 DEF IInv, EntriesInv
<1>4. m.word \in Pmem /\ a.data = mem[m.word]
  BY <1>1, <1>3 DEF EntryOK
<1>5. mem[m.word] \in Below!Word
  BY <1>4, ConstantFacts, WordIsSomething
<1> QED BY <1>1, <1>4, <1>5

LEMMA HideFacts ==
  ASSUME IInv, NEW r, Sane(r), store_invalidate(r), store_owner(r)
  PROVE  LET l == line[LineOf[r.word]]
         IN /\ LineOf[r.word] \in Lines /\ r \in Writes /\ r.write /\ r.word \in Pmem
            /\ r.tok = Token("store", r.tok.id) /\ forwarded(r)
            /\ l \in LineType /\ l.tag = r.word /\ l.data \in Below!Word
            /\ l.valid \/ Hidden(l)
<1> DEFINE l == line[LineOf[r.word]]
<1>1. forwarded(r) /\ r.tok.client = "store" /\ r.word \in Pmem
  BY DEF store_invalidate, cacheable_range
<1>2. r.write /\ r \in Writes /\ r.tok = Token("store", r.tok.id)
  BY <1>1 DEF Sane
<1>3. LineOf[r.word] \in Lines
  BY <1>1, ConstantFacts
<1>4. l.tag = r.word /\ (l.valid \/ Hidden(l))
  BY DEF store_owner, store_chain_match, LineAt, Hidden
<1>5. l \in LineType /\ LineOK(l, LineOf[r.word])
  BY <1>3 DEF IInv, TypeInv, LinesInv
<1>6. l.data \in Below!Word
  BY <1>1, <1>4, <1>5, ConstantFacts DEF LineOK
<1> QED BY <1>1, <1>2, <1>3, <1>4, <1>5, <1>6

LEMMA LinesStep ==
  ASSUME IInv, NEW a \in pending \cup {None}, NEW ready \in BOOLEAN,
         NEW r \in Offered(a, ready) \cup {None}, Edge(r, a, ready)
  PROVE  line' \in [Lines -> LineType] /\ LinesInv'
<1> DEFINE m == meta[rsp_meta_slot(a)]
<1>1. r # None => Sane(r) /\ (r.tok.client = "store" => r.tok.id \in 0 .. Gens - 1)
  BY OfferedFacts, NextGenType DEF IInv
<1>2. ASSUME NEW i \in Lines
      PROVE  line'[i] \in LineType /\ LineOK(line'[i], i)
  <2>1. line[i] \in LineType /\ LineOK(line[i], i)
    BY DEF IInv, TypeInv, LinesInv
  <2>2. CASE IsCleared(i, r)
    <3>1. line'[i] = Cleared(line[i])
      BY <2>2 DEF IsCleared
    <3> QED BY <2>1, <3>1, ClearedFields DEF LineOK
  <2>3. CASE IsShown(i, r, a)
    <3>1. line'[i] = ShownBy(line[i], m) /\ store_rsp_update(r, a) /\ LineOf[m.word] = i
      BY <2>3 DEF IsShown
    <3>2. line[i].data \in Below!Word /\ m.store \in Writes /\ line[i].tag = m.word /\ m.word \in Pmem
      BY <3>1, ShowFacts
    <3> DEFINE n == ShownBy(line[i], m)
    <3>3. n \in LineType /\ n.tag = line[i].tag /\ n.data \in Below!Word
      BY <2>1, <3>2, ShownFields, Zenon
    <3> QED BY <3>1, <3>2, <3>3, ConstantFacts DEF LineOK
  <2>4. CASE IsHidden(i, r)
    <3>1. line'[i] = HiddenBy(line[i], r) /\ store_invalidate(r) /\ store_owner(r) /\ LineOf[r.word] = i
      BY <2>4 DEF IsHidden
    <3>2. r # None /\ r.tok.client = "store"
      BY <3>1 DEF store_invalidate, forwarded
    <3>3. line[i].data \in Below!Word /\ r \in Writes /\ r.word \in Pmem /\ r.tok.id \in 0 .. Gens - 1
      BY <1>1, <3>1, <3>2, HideFacts
    <3> DEFINE n == HiddenBy(line[i], r)
    <3>4. n \in LineType /\ n.tag = r.word /\ n.data \in Below!Word
      BY <3>3, HiddenFields, Zenon
    <3> QED BY <3>1, <3>3, <3>4, ConstantFacts DEF LineOK
  <2>5. CASE IsFilled(i, r, a)
    <3>1. line'[i] = Filled(m.word, a.data) /\ fill(r, a) /\ LineOf[m.word] = i
      BY <2>5 DEF IsFilled
    <3>2. m.word \in Pmem /\ a.data \in Below!Word
      BY <3>1, FillFacts
    <3> DEFINE n == Filled(m.word, a.data)
    <3>3. n \in LineType /\ n.tag = m.word /\ n.data = a.data
      BY <3>2, FilledFields, Zenon
    <3> QED BY <3>1, <3>2, <3>3, ConstantFacts DEF LineOK
  <2>6. CASE IsKept(i, r, a)
    BY <2>1, <2>6 DEF IsKept
  <2> QED BY <2>2, <2>3, <2>4, <2>5, <2>6, LineEffect
<1>3. line' = [i \in Lines |-> line'[i]]
  BY DEF Edge, NextLine
<1>4. line' \in [Lines -> LineType]
  BY <1>2, <1>3
<1>5. \A i \in Lines : LineOK(line'[i], i)
  BY <1>2
<1> QED BY <1>4, <1>5 DEF LinesInv, LineOK

LEMMA TypeStep ==
  ASSUME IInv, NEW a \in pending \cup {None}, NEW ready \in BOOLEAN,
         NEW r \in Offered(a, ready) \cup {None}, Edge(r, a, ready)
  PROVE  TypeInv'
<1>1. PICK err \in BOOLEAN : PortEffect(r, a, err)
  BY PortEffects
<1>2. r # None => Sane(r)
  BY OfferedFacts DEF IInv
<1>3. mem' \in [Words -> Below!Word]
  BY <1>1, <1>2, MemEffect
<1>4. pending' \subseteq Replies
  BY MatchedStep
<1>5. line' \in [Lines -> LineType]
  BY LinesStep
<1>6. meta' \in [Slots -> Entries \cup {None}]
  BY MetaEffects DEF MetaEffect
<1>7. hit_rsp' \in Replies \cup {None} /\ waiter_rsp' \in Replies \cup {None}
  BY HitEffect, WaiterEffect
<1>8. workload' \in Workloads
  BY DEF Edge, IInv, TypeInv
<1>9. outstanding' \subseteq Tokens
  <2>1. outstanding' = Removed(Taken(a, ready)) \cup (IF r = None THEN {} ELSE {r.tok})
    BY DEF Edge
  <2>2. outstanding \subseteq Tokens
    BY DEF IInv, TypeInv
  <2>3. Removed(Taken(a, ready)) \subseteq outstanding
    BY DEF Removed
  <2> QED BY <1>2, <2>1, <2>2, <2>3 DEF Sane
<1>10. store_generation' \in 0 .. Gens - 1
  <2>1. store_generation' = NextGen \/ store_generation' = store_generation
    BY DEF Edge
  <2> QED BY <2>1, NextGenType DEF IInv, TypeInv
<1> QED BY <1>3, <1>4, <1>5, <1>6, <1>7, <1>8, <1>9, <1>10 DEF TypeInv

-----------------------------------------------------------------------------
(* The invariant is inductive.                                             *)

LEMMA InitInv == Init => IInv /\ GensInv /\ ShownLineIsMemory /\ HiddenInv
<1> SUFFICES ASSUME Init PROVE IInv /\ GensInv /\ ShownLineIsMemory /\ HiddenInv
  OBVIOUS
<1>1. /\ mem \in [Words -> Below!Word] /\ pending = {} /\ workload \in Workloads
      /\ line = [i \in Lines |-> NewLine] /\ meta = [s \in Slots |-> None]
      /\ hit_rsp = None /\ waiter_rsp = None /\ outstanding = {} /\ store_generation = 0
  BY DEF Init, Below!Init
<1>2. NewLine \in LineType
  BY ConstantFacts, LineMade DEF NewLine
<1>3. /\ NewLine.valid = FALSE /\ NewLine.tag = None /\ NewLine.origin = "cold"
  BY DEF NewLine
<1>4. Occupied = {} /\ Waiting = {}
  BY <1>1 DEF Occupied, Waiting
<1>5. TypeInv
  BY <1>1, <1>2, ConstantFacts DEF TypeInv
<1>6. LinesInv
  BY <1>1, <1>3 DEF LinesInv, LineOK
<1>7. Matched
  BY <1>1, <1>4 DEF Matched
<1>8. Owed
  BY <1>1, <1>4 DEF Owed, Apart, BelowToks, WaitToks, HitToks, WaiterToks
<1>9. EntriesInv
  BY <1>4 DEF EntriesInv
<1>10. ShownLineIsMemory /\ HiddenInv
  BY <1>1, <1>3 DEF ShownLineIsMemory, HiddenInv, Hidden
<1>11. GensInv
  BY <1>1 DEF GensInv
<1> QED BY <1>5, <1>6, <1>7, <1>8, <1>9, <1>10, <1>11 DEF IInv

LEMMA StutterInv ==
  ASSUME UNCHANGED vars
  PROVE  /\ IInv => IInv'
         /\ GensInv => GensInv'
         /\ ShownLineIsMemory => ShownLineIsMemory'
         /\ HiddenInv => HiddenInv'
<1>1. /\ mem' = mem /\ pending' = pending /\ line' = line /\ meta' = meta /\ hit_rsp' = hit_rsp
      /\ waiter_rsp' = waiter_rsp /\ workload' = workload /\ outstanding' = outstanding
      /\ store_generation' = store_generation
  BY DEF vars
<1>2. TypeInv => TypeInv'
  BY <1>1 DEF TypeInv
<1>3. LinesInv => LinesInv'
  BY <1>1 DEF LinesInv
<1>4. Matched => Matched'
  BY <1>1 DEF Matched, Occupied
<1>5. Owed => Owed'
  <2>1. /\ BelowToks' = BelowToks /\ WaitToks' = WaitToks /\ Waiting' = Waiting
        /\ HitToks' = HitToks /\ WaiterToks' = WaiterToks
    BY <1>1 DEF BelowToks, WaitToks, HitToks, WaiterToks, Waiting, Occupied
  <2> QED BY <1>1, <2>1 DEF Owed, Apart
<1>6. EntriesInv => EntriesInv'
  BY <1>1 DEF EntriesInv, EntryOK, Occupied
<1>7. IInv => IInv'
  BY <1>2, <1>3, <1>4, <1>5, <1>6 DEF IInv
<1>8. GensInv => GensInv'
  BY <1>1 DEF GensInv
<1>9. ShownLineIsMemory => ShownLineIsMemory'
  BY <1>1 DEF ShownLineIsMemory
<1>10. HiddenInv => HiddenInv'
  BY <1>1 DEF HiddenInv, Hidden, OwnedBy, Occupied
<1> QED BY <1>7, <1>8, <1>9, <1>10

LEMMA Inductive == IInv /\ [Next]_vars => IInv'
<1> SUFFICES ASSUME IInv, [Next]_vars PROVE IInv'
  OBVIOUS
<1>1. CASE Next
  <2>1. PICK a \in pending \cup {None}, ready \in BOOLEAN :
          \E r \in Offered(a, ready) \cup {None} : Edge(r, a, ready)
    BY <1>1 DEF Next
  <2>2. PICK r \in Offered(a, ready) \cup {None} : Edge(r, a, ready)
    BY <2>1
  <2>3. TypeInv' /\ LinesInv'
    BY <2>2, TypeStep, LinesStep
  <2>4. Matched' /\ Owed' /\ EntriesInv'
    BY <2>2, MatchedStep, OwedStep, EntriesStep
  <2> QED BY <2>3, <2>4 DEF IInv
<1>2. CASE UNCHANGED vars
  BY <1>2, StutterInv
<1> QED BY <1>1, <1>2

LEMMA Invariant == Spec => []IInv
<1>1. Init => IInv
  BY InitInv
<1> QED BY <1>1, Inductive, PTL DEF Spec

-----------------------------------------------------------------------------
(* What the lines hold.                                                    *)

(* The step is not one on which the generation comes back to 0.            *)
NoWrap == store_generation' # store_generation => store_generation' # 0

LEMMA GensStep ==
  ASSUME IInv, GensInv, NEW a \in pending \cup {None}, NEW ready \in BOOLEAN,
         NEW r \in Offered(a, ready) \cup {None}, Edge(r, a, ready), NoWrap
  PROVE  GensInv'
<1>1. outstanding' = Removed(Taken(a, ready)) \cup (IF r = None THEN {} ELSE {r.tok})
  BY DEF Edge
<1>2. Removed(Taken(a, ready)) \subseteq outstanding
  BY DEF Removed
<1>3. ASSUME r # None, r.tok.client = "store"
      PROVE  r.tok.id # 0
  <2>1. r.tok.id = NextGen
    BY <1>3, OfferedFacts DEF IInv
  <2>2. store_generation' = NextGen
    BY <1>3 DEF Edge
  <2>3. store_generation \in 0 .. Gens - 1 /\ Gens \in Nat /\ 1 \in 0 .. Gens - 1
    BY ConstantFacts DEF IInv, TypeInv
  <2> QED BY <2>1, <2>2, <2>3 DEF NextGen, NoWrap
<1> QED BY <1>1, <1>2, <1>3 DEF GensInv

LEMMA ShownStep ==
  ASSUME ContentInv, NEW a \in pending \cup {None}, NEW ready \in BOOLEAN,
         NEW r \in Offered(a, ready) \cup {None}, Edge(r, a, ready)
  PROVE  ShownLineIsMemory'
<1> DEFINE m == meta[rsp_meta_slot(a)]
<1>1. IInv /\ (r # None => Sane(r))
  BY OfferedFacts DEF ContentInv, IInv
<1>2. PICK err \in BOOLEAN : PortEffect(r, a, err)
  BY <1>1, PortEffects
<1>3. \A w \in Pmem : ~write_conflict(r, w) => mem'[w] = mem[w]
  BY <1>1, <1>2, MemEffect
<1>4. ASSUME NEW i \in Lines, line'[i].valid
      PROVE  line'[i].data = mem'[line'[i].tag]
  <2>1. line[i] \in LineType /\ LineOK(line[i], i)
    BY <1>1 DEF IInv, TypeInv, LinesInv
  <2>2. CASE IsCleared(i, r)
    <3>1. line'[i] = Cleared(line[i])
      BY <2>2 DEF IsCleared
    <3>2. Cleared(line[i]).valid = FALSE
      BY <2>1, ClearedFields, Zenon
    <3> QED BY <1>4, <3>1, <3>2
  (* The owner of the hidden line has its bytes in the memory already, and *)
  (* the line has those of every store.                                    *)
  <2>3. CASE IsShown(i, r, a)
    <3>1. line'[i] = ShownBy(line[i], m) /\ store_rsp_update(r, a) /\ LineOf[m.word] = i
      BY <2>3 DEF IsShown
    <3>2. /\ a # None /\ rsp_meta_slot(a) \in Occupied /\ m.tok = a.tok /\ a.tok.client = "store"
          /\ m.word \in Pmem /\ m.store \in Writes
          /\ ~line[i].valid /\ line[i].origin = "store" /\ line[i].tag = m.word
          /\ line[i].gen = a.tok.id /\ line[i].data \in Below!Word /\ ~write_conflict(r, m.word)
      BY <1>1, <3>1, ShowFacts
    <3>3. a.tok.id # 0
      <4>1. a.tok \in outstanding
        BY <1>1, <3>2, OwedFacts
      <4> QED BY <3>2, <4>1 DEF ContentInv, GensInv
    <3>4. Hidden(line[i])
      BY <3>2, <3>3 DEF Hidden
    <3>5. PICK s \in Occupied : OwnedBy(line[i], meta[s])
      BY <3>4 DEF ContentInv, HiddenInv
    <3>6. line[i].data = mem[m.word]
      BY <3>2, <3>4 DEF ContentInv, HiddenInv
    <3>7. s = rsp_meta_slot(a)
      <4>1. meta[s].tok = Token("store", a.tok.id)
        BY <3>2, <3>5 DEF OwnedBy
      <4>2. a.tok = Token("store", a.tok.id)
        <5>1. a.tok \in Tokens
          BY <1>1, <3>2, ReplyFacts DEF IInv
        <5> QED BY <3>2, <5>1 DEF Tokens, Token
      <4>3. meta[s].tok = m.tok
        BY <3>2, <4>1, <4>2
      <4> QED BY <1>1, <3>2, <4>3 DEF IInv, Matched
    <3>8. Below!Merge(mem[m.word], m.store) = mem[m.word]
      BY <3>2, <3>5, <3>7 DEF OwnedBy
    <3> DEFINE n == ShownBy(line[i], m)
    <3>9. n.tag = line[i].tag /\ n.data = Below!Merge(line[i].data, m.store)
      BY <2>1, <3>2, ShownFields, Zenon
    <3>10. line'[i].tag = m.word /\ line'[i].data = mem[m.word]
      BY <3>1, <3>2, <3>6, <3>8, <3>9
    <3> QED BY <1>3, <3>2, <3>10
  <2>4. CASE IsHidden(i, r)
    <3>1. line'[i] = HiddenBy(line[i], r)
      BY <2>4 DEF IsHidden
    <3> QED BY <1>4, <3>1 DEF HiddenBy
  (* The answer is as old as the request, but was not overtaken.           *)
  <2>5. CASE IsFilled(i, r, a)
    <3>1. line'[i] = Filled(m.word, a.data) /\ fill(r, a)
      BY <2>5 DEF IsFilled
    <3>2. m.word \in Pmem /\ a.data = mem[m.word] /\ a.data \in Below!Word
          /\ ~write_conflict(r, m.word)
      BY <1>1, <3>1, FillFacts
    <3> DEFINE n == Filled(m.word, a.data)
    <3>3. n.tag = m.word /\ n.data = a.data
      BY <3>2, FilledFields, Zenon
    <3> QED BY <1>3, <3>1, <3>2, <3>3
  (* A store to the word of a shown line hides it.                         *)
  <2>6. CASE IsKept(i, r, a)
    <3>1. line'[i] = line[i] /\ line[i].valid
      BY <1>4, <2>6 DEF IsKept
    <3>2. line[i].data = mem[line[i].tag]
      BY <3>1 DEF ContentInv, ShownLineIsMemory
    <3>3. line[i].tag \in Pmem /\ LineOf[line[i].tag] = i
      BY <2>1, <3>1 DEF LineOK, LineType
    <3>4. ~write_conflict(r, line[i].tag)
      <4> SUFFICES ASSUME store_invalidate(r), r.word = line[i].tag PROVE FALSE
        BY <2>6 DEF IsKept, write_conflict
      <4>1. store_owner(r)
        BY <3>1, <3>3 DEF store_owner, LineAt
      <4> QED BY <2>6, <3>3, <4>1 DEF IsKept
    <3> QED BY <1>3, <3>1, <3>2, <3>3, <3>4
  <2> QED BY <2>2, <2>3, <2>4, <2>5, <2>6, LineEffect
<1>5. \A i \in Lines : line'[i].valid => line'[i].data = mem'[line'[i].tag]
  BY <1>4
<1> QED BY <1>5, Zenon DEF ShownLineIsMemory

LEMMA HiddenStep ==
  ASSUME ContentInv, NEW a \in pending \cup {None}, NEW ready \in BOOLEAN,
         NEW r \in Offered(a, ready) \cup {None}, Edge(r, a, ready)
  PROVE  HiddenInv'
<1> DEFINE m == meta[rsp_meta_slot(a)]
           left == effective_meta_valid(a)
           slot == meta_alloc_slot(a)
<1>1. IInv /\ (r # None => Sane(r)) /\ (r # None /\ r.tok.client = "store" => r.tok.id = NextGen)
  BY OfferedFacts DEF ContentInv, IInv
<1>2. PICK err \in BOOLEAN : PortEffect(r, a, err)
  BY <1>1, PortEffects
<1>3. /\ \A w \in Pmem : ~write_conflict(r, w) => mem'[w] = mem[w]
      /\ forwarded(r) /\ r.word \in Pmem /\ r.write => mem'[r.word] = Below!Merge(mem[r.word], r)
  BY <1>1, <1>2, MemEffect
<1>4. Occupied' = left \cup (IF forwarded(r) THEN {slot} ELSE {})
  BY <1>1, MetaEffects DEF MetaEffect
<1>5. \A s \in left : /\ meta'[s].tok = meta[s].tok /\ meta'[s].word = meta[s].word
                      /\ meta'[s].store = meta[s].store
                      /\ meta'[s].store_invalidation = meta[s].store_invalidation
  BY <1>1, MetaEffects DEF MetaEffect, Kept
<1>6. forwarded(r) => meta'[slot] = Entry(r)
  BY <1>1, MetaEffects DEF MetaEffect
<1> HIDE DEF left, slot
<1>7. ASSUME NEW i \in Lines, ~line'[i].valid, line'[i].origin = "store", line'[i].gen # 0
      PROVE  /\ line'[i].data = mem'[line'[i].tag]
             /\ \E s \in Occupied' :
                  /\ meta'[s].tok = Token("store", line'[i].gen) /\ meta'[s].word = line'[i].tag
                  /\ meta'[s].store_invalidation
                  /\ Below!Merge(mem'[line'[i].tag], meta'[s].store) = mem'[line'[i].tag]
  <2>1. line[i] \in LineType /\ LineOK(line[i], i)
    BY <1>1 DEF IInv, TypeInv, LinesInv
  <2>2. ~IsCleared(i, r)
    <3> SUFFICES ASSUME IsCleared(i, r) PROVE FALSE
      OBVIOUS
    <3>1. line'[i] = Cleared(line[i])
      BY DEF IsCleared
    <3>2. Cleared(line[i]).gen = 0
      BY <2>1, ClearedFields, Zenon
    <3> QED BY <1>7, <3>1, <3>2
  <2>3. ~IsShown(i, r, a)
    <3> SUFFICES ASSUME IsShown(i, r, a) PROVE FALSE
      OBVIOUS
    <3>1. line'[i] = ShownBy(line[i], m) /\ store_rsp_update(r, a) /\ LineOf[m.word] = i
      BY DEF IsShown
    <3>2. line[i].data \in Below!Word /\ m.store \in Writes
      BY <1>1, <3>1, ShowFacts
    <3>3. ShownBy(line[i], m).valid = TRUE
      BY <2>1, <3>2, ShownFields, Zenon
    <3> QED BY <1>7, <3>1, <3>3
  <2>4. ~IsFilled(i, r, a)
    <3> SUFFICES ASSUME IsFilled(i, r, a) PROVE FALSE
      OBVIOUS
    <3> QED BY <1>7 DEF IsFilled, Filled
  (* The store that hides the line merges its bytes into the memory and    *)
  (* into the line.                                                        *)
  <2>5. CASE IsHidden(i, r)
    <3>1. line'[i] = HiddenBy(line[i], r) /\ store_invalidate(r) /\ store_owner(r) /\ LineOf[r.word] = i
      BY <2>5 DEF IsHidden
    <3>2. r # None /\ Sane(r) /\ r.tok.id \in 0 .. Gens - 1
      BY <1>1, <3>1, NextGenType DEF store_invalidate, forwarded, IInv
    <3>3. /\ r \in Writes /\ r.write /\ r.word \in Pmem /\ forwarded(r)
          /\ r.tok = Token("store", r.tok.id)
          /\ line[i].tag = r.word /\ line[i].data \in Below!Word
          /\ line[i].valid \/ Hidden(line[i])
      BY <1>1, <3>1, <3>2, HideFacts
    <3>4. line[i].data = mem[r.word]
      <4>1. CASE line[i].valid
        BY <3>3, <4>1 DEF ContentInv, ShownLineIsMemory
      <4>2. CASE Hidden(line[i])
        BY <3>3, <4>2 DEF ContentInv, HiddenInv
      <4> QED BY <3>3, <4>1, <4>2
    <3> DEFINE n == HiddenBy(line[i], r)
    <3>5. n.tag = r.word /\ n.gen = r.tok.id /\ n.data = Below!Merge(line[i].data, r)
      BY <3>2, <3>3, HiddenFields, Zenon
    <3>6. line'[i].tag = r.word /\ line'[i].gen = r.tok.id /\ line'[i].data = mem'[r.word]
      BY <1>3, <3>1, <3>3, <3>4, <3>5
    <3>7. Below!Merge(mem'[r.word], r) = mem'[r.word]
      BY <1>3, <3>3, <3>4, MergeFacts
    <3>8. /\ meta'[slot].tok = r.tok /\ meta'[slot].word = r.word /\ meta'[slot].store = r
          /\ meta'[slot].store_invalidation /\ slot \in Occupied'
      <4>1. /\ Entry(r).word = r.word /\ Entry(r).tok = r.tok
            /\ Entry(r).store_invalidation = (store_invalidate(r) /\ store_owner(r))
            /\ Entry(r).store = IF r.write THEN r ELSE None
        BY DEF Entry
      <4>2. meta'[slot] = Entry(r) /\ slot \in Occupied'
        BY <1>4, <1>6, <3>3
      <4>3. Entry(r).store = r /\ Entry(r).store_invalidation
        BY <3>1, <3>3, <4>1
      <4> QED BY <4>1, <4>2, <4>3
    <3> QED BY <3>3, <3>6, <3>7, <3>8
  (* The owner is still below: its answer would have shown the line.       *)
  <2>6. CASE IsKept(i, r, a)
    <3>1. line'[i] = line[i] /\ Hidden(line[i])
      BY <1>7, <2>6 DEF IsKept, Hidden
    <3>2. line[i].tag \in Pmem /\ LineOf[line[i].tag] = i
      BY <2>1, <3>1 DEF LineOK, LineType, Hidden
    <3>3. ~write_conflict(r, line[i].tag)
      <4> SUFFICES ASSUME store_invalidate(r), r.word = line[i].tag PROVE FALSE
        BY <2>6 DEF IsKept, write_conflict
      <4>1. store_owner(r)
        BY <3>1, <3>2 DEF store_owner, store_chain_match, LineAt, Hidden
      <4> QED BY <2>6, <3>2, <4>1 DEF IsKept
    <3>4. mem'[line[i].tag] = mem[line[i].tag]
      BY <1>3, <3>2, <3>3
    <3>5. PICK s \in Occupied : OwnedBy(line[i], meta[s])
      BY <3>1 DEF ContentInv, HiddenInv
    <3>6. s \in left
      <4> SUFFICES ASSUME s \notin left PROVE FALSE
        OBVIOUS
      <4>1. a # None /\ a \in pending /\ s = rsp_meta_slot(a)
        BY <1>1, Survivors DEF left
      <4>2. m.tok = a.tok
        BY <1>1, <4>1, AnswerFinds
      <4>3. /\ m.tok = Token("store", line[i].gen) /\ m.word = line[i].tag /\ m.store_invalidation
        BY <3>5, <4>1 DEF OwnedBy
      <4>4. a.tok.client = "store" /\ a.tok.id = line[i].gen
        BY <4>2, <4>3 DEF Token
      <4>5. ~a.err
        <5>1. EntryOK(m, a)
          BY <1>1, <4>1, <4>2 DEF IInv, EntriesInv
        <5>2. m.word \notin MayFail
          BY <3>2, <4>3, ConstantFacts
        <5> QED BY <5>1, <5>2 DEF EntryOK
      <4>6. store_rsp_origin_match(a)
        BY <3>1, <3>2, <4>1, <4>3, <4>4 DEF store_rsp_origin_match, LineAt, Hidden
      <4>7. store_rsp_update(r, a)
        BY <3>3, <4>3, <4>5, <4>6 DEF store_rsp_update
      <4> QED BY <2>6, <3>2, <4>3, <4>7 DEF IsKept
    <3>7. /\ meta[s].tok = Token("store", line[i].gen) /\ meta[s].word = line[i].tag
          /\ meta[s].store_invalidation
          /\ Below!Merge(mem[line[i].tag], meta[s].store) = mem[line[i].tag]
      BY <3>5 DEF OwnedBy
    <3>8. s \in Occupied' /\ meta'[s].tok = meta[s].tok /\ meta'[s].word = meta[s].word
          /\ meta'[s].store = meta[s].store
          /\ meta'[s].store_invalidation = meta[s].store_invalidation
      BY <1>4, <1>5, <3>6
    <3>9. line[i].data = mem[line[i].tag]
      BY <3>1 DEF ContentInv, HiddenInv
    <3> QED BY <3>1, <3>4, <3>7, <3>8, <3>9
  <2> QED BY <2>2, <2>3, <2>4, <2>5, <2>6, LineEffect
<1>8. \A i \in Lines : (~line'[i].valid /\ line'[i].origin = "store" /\ line'[i].gen # 0) =>
        /\ line'[i].data = mem'[line'[i].tag]
        /\ \E s \in Occupied' :
             /\ meta'[s].tok = Token("store", line'[i].gen) /\ meta'[s].word = line'[i].tag
             /\ meta'[s].store_invalidation
             /\ Below!Merge(mem'[line'[i].tag], meta'[s].store) = mem'[line'[i].tag]
  BY <1>7
<1> QED BY <1>8, Zenon DEF HiddenInv, Hidden, OwnedBy

LEMMA Content == ContentInv /\ [Next]_vars /\ NoWrap => ContentInv'
<1> SUFFICES ASSUME ContentInv, [Next]_vars, NoWrap PROVE ContentInv'
  OBVIOUS
<1>1. IInv'
  BY Inductive DEF ContentInv
<1>2. CASE Next
  <2>1. PICK a \in pending \cup {None}, ready \in BOOLEAN :
          \E r \in Offered(a, ready) \cup {None} : Edge(r, a, ready)
    BY <1>2 DEF Next
  <2>2. PICK r \in Offered(a, ready) \cup {None} : Edge(r, a, ready)
    BY <2>1
  <2>3. GensInv'
    BY <2>2, GensStep DEF ContentInv
  <2>4. ShownLineIsMemory' /\ HiddenInv'
    BY <2>2, ShownStep, HiddenStep
  <2> QED BY <1>1, <2>3, <2>4 DEF ContentInv
<1>3. CASE UNCHANGED vars
  BY <1>1, <1>3, StutterInv DEF ContentInv
<1> QED BY <1>2, <1>3

LEMMA ContentInvariant ==
  Spec /\ [][store_generation' # 0]_store_generation => []ContentInv
<1>1. Init => ContentInv
  BY InitInv DEF ContentInv
<1>2. [store_generation' # 0]_store_generation => NoWrap
  BY DEF NoWrap
<1> QED BY <1>1, <1>2, Content, PTL DEF Spec

(* A counter that skips 0 never comes back to it.                          *)
LEMMA SkippingZero ==
  ASSUME FirstGen = 1
  PROVE  Spec => [][store_generation' # 0]_store_generation
<1>1. IInv /\ [Next]_vars => [store_generation' # 0]_store_generation
  <2> SUFFICES ASSUME IInv, [Next]_vars, store_generation' # store_generation
               PROVE  store_generation' # 0
    OBVIOUS
  <2>1. Next
    BY DEF vars
  <2>2. PICK a \in pending \cup {None}, ready \in BOOLEAN :
          \E r \in Offered(a, ready) \cup {None} : Edge(r, a, ready)
    BY <2>1 DEF Next
  <2>3. store_generation' = NextGen
    BY <2>2 DEF Edge
  <2> QED BY <2>3 DEF NextGen, IInv, TypeInv
<1> QED BY <1>1, Invariant, PTL DEF Spec

-----------------------------------------------------------------------------
(* The answers that are due above.                                         *)

CopyOf(s) == {[p EXCEPT !.tok = meta[s].waiter] : p \in AnswersTo(meta[s])}
Copies    == UNION {CopyOf(s) : s \in Waiting}
Held      == {hit_rsp, waiter_rsp} \ {None}

LEMMA DueParts == Due = pending \cup Held \cup Copies
BY DEF Due, Held, Copies, CopyOf

(* The copy that is owed to a waiter.                                      *)
LEMMA CopyFacts ==
  ASSUME IInv, NEW s \in Waiting
  PROVE  \E p \in pending : /\ p.tok = meta[s].tok /\ AnswersTo(meta[s]) = {p}
                            /\ CopyOf(s) = {[p EXCEPT !.tok = meta[s].waiter]}
                            /\ [p EXCEPT !.tok = meta[s].waiter] \in Replies
                            /\ [p EXCEPT !.tok = meta[s].waiter].tok = meta[s].waiter
<1>1. s \in Occupied /\ meta[s].waiter # None
  BY DEF Waiting
<1>2. PICK p \in pending : p.tok = meta[s].tok
  BY <1>1 DEF IInv, Matched
<1>3. AnswersTo(meta[s]) = {p}
  BY <1>2 DEF AnswersTo, IInv, Matched
<1>4. CopyOf(s) = {[p EXCEPT !.tok = meta[s].waiter]}
  BY <1>3 DEF CopyOf
<1>5. p \in Replies /\ meta[s].waiter \in Tokens
  BY <1>1, EntryFacts, ReplyFacts DEF IInv
<1> DEFINE d == [p EXCEPT !.tok = meta[s].waiter]
<1>6. d = [tok |-> meta[s].waiter, err |-> p.err, data |-> p.data] /\ d \in Replies
  BY <1>5, Redirected
<1>7. d.tok = meta[s].waiter
  BY <1>6
<1> QED BY <1>2, <1>3, <1>4, <1>6, <1>7

(* Which register an answer that is due is in shows in its token.          *)
LEMMA DueToks ==
  ASSUME IInv
  PROVE  /\ \A p \in pending : p.tok \in BelowToks
         /\ \A d \in Copies : d.tok \in WaitToks /\ d \in Replies
         /\ \A t \in BelowToks : \E p \in pending : p.tok = t
         /\ \A t \in WaitToks : \E d \in Copies : d.tok = t
         /\ \A d, e \in Copies : d.tok = e.tok => d = e
<1>1. \A p \in pending : p.tok \in BelowToks
  BY DEF IInv, Matched, BelowToks
<1>2. \A t \in BelowToks : \E p \in pending : p.tok = t
  BY DEF IInv, Matched, BelowToks
<1>3. ASSUME NEW d \in Copies
      PROVE  \E s \in Waiting : d.tok = meta[s].waiter /\ d \in Replies /\ CopyOf(s) = {d}
  <2>1. PICK s \in Waiting : d \in CopyOf(s)
    BY DEF Copies
  <2>2. PICK p \in pending : /\ CopyOf(s) = {[p EXCEPT !.tok = meta[s].waiter]}
                             /\ [p EXCEPT !.tok = meta[s].waiter] \in Replies
                             /\ [p EXCEPT !.tok = meta[s].waiter].tok = meta[s].waiter
    BY CopyFacts
  <2>3. d = [p EXCEPT !.tok = meta[s].waiter]
    BY <2>1, <2>2
  <2> QED BY <2>2, <2>3
<1>4. ASSUME NEW t \in WaitToks PROVE \E d \in Copies : d.tok = t
  <2>1. PICK s \in Waiting : t = meta[s].waiter
    BY DEF WaitToks
  <2>2. PICK p \in pending : /\ CopyOf(s) = {[p EXCEPT !.tok = meta[s].waiter]}
                             /\ [p EXCEPT !.tok = meta[s].waiter].tok = meta[s].waiter
    BY CopyFacts
  <2> QED BY <2>1, <2>2 DEF Copies
<1>5. \A d \in Copies : d.tok \in WaitToks /\ d \in Replies
  BY <1>3 DEF WaitToks
<1>6. ASSUME NEW d \in Copies, NEW e \in Copies, d.tok = e.tok PROVE d = e
  <2>1. PICK s \in Waiting : d.tok = meta[s].waiter /\ CopyOf(s) = {d}
    BY <1>3
  <2>2. PICK t \in Waiting : e.tok = meta[t].waiter /\ CopyOf(t) = {e}
    BY <1>3
  <2>3. s = t
    BY <1>6, <2>1, <2>2 DEF IInv, Owed
  <2> QED BY <2>1, <2>2, <2>3
<1> QED BY <1>1, <1>2, <1>4, <1>5, <1>6

LEMMA HeldToks ==
  /\ hit_rsp # None => hit_rsp.tok \in HitToks
  /\ waiter_rsp # None => waiter_rsp.tok \in WaiterToks
  /\ HitToks \cup WaiterToks = {d.tok : d \in Held}
<1>1. hit_rsp # None => hit_rsp.tok \in HitToks
  BY DEF HitToks
<1>2. waiter_rsp # None => waiter_rsp.tok \in WaiterToks
  BY DEF WaiterToks
<1>3. HitToks \cup WaiterToks = {d.tok : d \in Held}
  <2>1. CASE hit_rsp = None /\ waiter_rsp = None
    BY <2>1 DEF HitToks, WaiterToks, Held
  <2>2. CASE hit_rsp # None /\ waiter_rsp = None
    <3>1. Held = {hit_rsp}
      BY <2>2 DEF Held
    <3> QED BY <2>2, <3>1 DEF HitToks, WaiterToks
  <2>3. CASE hit_rsp = None /\ waiter_rsp # None
    <3>1. Held = {waiter_rsp}
      BY <2>3 DEF Held
    <3> QED BY <2>3, <3>1 DEF HitToks, WaiterToks
  <2>4. CASE hit_rsp # None /\ waiter_rsp # None
    <3>1. Held = {hit_rsp, waiter_rsp}
      BY <2>4 DEF Held
    <3> QED BY <2>4, <3>1 DEF HitToks, WaiterToks
  <2> QED BY <2>1, <2>2, <2>3, <2>4
<1> QED BY <1>1, <1>2, <1>3

LEMMA DueUnique ==
  ASSUME IInv, NEW d \in Due, NEW e \in Due, d.tok = e.tok
  PROVE  d = e
<1>1. d \in pending \cup Held \cup Copies /\ e \in pending \cup Held \cup Copies
  BY DueParts
<1>2. /\ BelowToks \cap WaitToks = {}
      /\ (BelowToks \cup WaitToks) \cap (HitToks \cup WaiterToks) = {}
      /\ HitToks \cap WaiterToks = {}
  BY DEF IInv, Owed, Apart
<1>3. /\ \A p \in pending : p.tok \in BelowToks
      /\ \A c \in Copies : c.tok \in WaitToks
      /\ \A c, f \in Copies : c.tok = f.tok => c = f
  BY DueToks
<1>4. \A p, q \in pending : p.tok = q.tok => p = q
  BY DEF IInv, Matched
<1>5. \A h \in Held : \/ h = hit_rsp /\ h.tok \in HitToks
                      \/ h = waiter_rsp /\ h.tok \in WaiterToks
  BY HeldToks DEF Held
<1> QED BY <1>1, <1>2, <1>3, <1>4, <1>5

LEMMA DueOwed ==
  ASSUME IInv
  PROVE  {d.tok : d \in Due} = outstanding
<1>1. Due = pending \cup Held \cup Copies
  BY DueParts
<1>2. outstanding = BelowToks \cup WaitToks \cup (HitToks \cup WaiterToks)
  BY DEF IInv, Owed
<1>3. BelowToks = {p.tok : p \in pending}
  BY DueToks
<1>4. WaitToks = {c.tok : c \in Copies}
  BY DueToks
<1>5. HitToks \cup WaiterToks = {h.tok : h \in Held}
  BY HeldToks
<1> QED BY <1>1, <1>2, <1>3, <1>4, <1>5

LEMMA OwedFinite ==
  ASSUME IInv
  PROVE  IsFiniteSet(outstanding)
<1>1. IsFiniteSet(Slots)
  <2>1. 0 \in Int /\ 1 \in Int
    OBVIOUS
  <2> QED BY <2>1, FS_Interval DEF Slots
<1>2. IsFiniteSet(Occupied) /\ IsFiniteSet(Waiting)
  BY <1>1, FS_Subset DEF Occupied, Waiting
<1>3. IsFiniteSet(BelowToks)
  <2> DEFINE f == [s \in Occupied |-> meta[s].tok]
  <2>1. f \in Surjection(Occupied, BelowToks)
    BY DEF Surjection, BelowToks
  <2> QED BY <1>2, <2>1, FS_Surjection
<1>4. IsFiniteSet(WaitToks)
  <2> DEFINE f == [s \in Waiting |-> meta[s].waiter]
  <2>1. f \in Surjection(Waiting, WaitToks)
    BY DEF Surjection, WaitToks
  <2> QED BY <1>2, <2>1, FS_Surjection
<1>5. IsFiniteSet(HitToks) /\ IsFiniteSet(WaiterToks)
  BY FS_EmptySet, FS_Singleton DEF HitToks, WaiterToks
<1>6. IsFiniteSet(BelowToks \cup WaitToks)
  BY <1>3, <1>4, FS_Union
<1>7. IsFiniteSet(BelowToks \cup WaitToks \cup HitToks)
  BY <1>5, <1>6, FS_Union
<1>8. IsFiniteSet(BelowToks \cup WaitToks \cup HitToks \cup WaiterToks)
  BY <1>5, <1>7, FS_Union
<1> QED BY <1>8 DEF IInv, Owed

LEMMA Lossless == IInv => NothingLost
<1> SUFFICES ASSUME IInv PROVE NothingLost
  OBVIOUS
<1> DEFINE f == [d \in Due |-> d.tok]
<1>1. {d.tok : d \in Due} = outstanding
  BY DueOwed
<1>2. \A d, e \in Due : d.tok = e.tok => d = e
  BY DueUnique
<1>3. f \in Injection(Due, outstanding) /\ f \in Surjection(Due, outstanding)
  <2> HIDE DEF Due
  <2>1. f \in [Due -> outstanding]
    BY <1>1
  <2>2. \A d, e \in Due : f[d] = f[e] => d = e
    BY <1>2
  <2>3. \A t \in outstanding : \E d \in Due : f[d] = t
    BY <1>1
  <2> HIDE DEF f
  <2> QED BY <2>1, <2>2, <2>3 DEF Injection, Surjection, IsInjective
<1>4. Cardinality(Due) = Cardinality(outstanding)
  BY <1>3, OwedFinite, FS_Injection
<1> QED BY <1>1, <1>4 DEF NothingLost

LEMMA Fresh == IInv => FillFresh
<1> SUFFICES ASSUME IInv, NEW s \in Slots, meta[s] # None, meta[s].cacheable_load,
                    NEW p \in AnswersTo(meta[s])
             PROVE  p.data = mem[meta[s].word]
  BY DEF FillFresh
<1>1. s \in Occupied /\ p \in pending /\ p.tok = meta[s].tok
  BY DEF Occupied, AnswersTo
<1>2. EntryOK(meta[s], p)
  BY <1>1 DEF IInv, EntriesInv
<1> QED BY <1>2 DEF EntryOK

LEMMA Types == IInv => TypeOK
<1> SUFFICES ASSUME IInv PROVE TypeOK
  OBVIOUS
<1>1. mem \in [Words -> Below!Word] /\ store_generation \in 0 .. Gens - 1
  BY DEF IInv, TypeInv
<1>2. ASSUME NEW i \in Lines
      PROVE  /\ line[i].valid \in BOOLEAN /\ line[i].gen \in 0 .. Gens - 1
             /\ \/ line[i].tag = None
                \/ line[i].tag \in Pmem /\ LineOf[line[i].tag] = i /\ line[i].data \in Below!Word
  <2>1. line[i] \in LineType /\ LineOK(line[i], i)
    BY DEF IInv, TypeInv, LinesInv
  <2>2. /\ line[i].valid \in BOOLEAN /\ line[i].gen \in 0 .. Gens - 1
        /\ line[i].tag \in Pmem \cup {None}
    BY <2>1 DEF LineType
  <2> QED BY <2>1, <2>2 DEF LineOK
<1>3. {meta[s].tok : s \in Occupied} = {p.tok : p \in pending}
  BY DEF IInv, Matched
<1> QED BY <1>1, <1>2, <1>3 DEF TypeOK

LEMMA Chain == ContentInv => HiddenChainExact
<1> SUFFICES ASSUME ContentInv, NEW i \in Lines, NEW s \in Slots,
                    ~line[i].valid, line[i].origin = "store", meta[s] # None,
                    meta[s].tok = Token("store", line[i].gen)
             PROVE  line[i].data = mem[line[i].tag]
  BY DEF HiddenChainExact
<1>1. s \in Occupied
  BY DEF Occupied
<1>2. meta[s].tok \in outstanding
  BY <1>1, OwedFacts DEF ContentInv
<1>3. meta[s].tok.client = "store" /\ meta[s].tok.id = line[i].gen
  BY DEF Token
<1>4. line[i].gen # 0
  BY <1>2, <1>3 DEF ContentInv, GensInv
<1> QED BY <1>4 DEF ContentInv, HiddenInv, Hidden

-----------------------------------------------------------------------------
(* The port above.                                                         *)

(* The copies that stay, that become the waiter's answer, and that is new. *)
Staying(a) == UNION {CopyOf(s) : s \in Waiting \cap effective_meta_valid(a)}

LEMMA InCopies ==
  /\ \A d : d \in Copies <=> \E s \in Waiting : d \in CopyOf(s)
  /\ \A a, d : d \in Staying(a) <=>
               \E s \in Waiting \cap effective_meta_valid(a) : d \in CopyOf(s)
BY DEF Copies, Staying

LEMMA CopiesLeaving ==
  ASSUME IInv, NEW a \in pending \cup {None}
  PROVE  Copies = Staying(a) \cup
                  (IF Released(a) = {} THEN {}
                   ELSE {[a EXCEPT !.tok = meta[rsp_meta_slot(a)].waiter]})
<1> DEFINE left == effective_meta_valid(a)
           s == rsp_meta_slot(a)
<1>1. /\ left \subseteq Occupied
      /\ a = None => left = Occupied
      /\ a # None => left = Occupied \ {s} /\ s \in Occupied /\ meta[s].tok = a.tok
  BY Survivors, AnswerFinds
<1>2. Waiting = {t \in Occupied : meta[t].waiter # None}
  BY DEF Waiting
<1>3. CASE Released(a) = {}
  <2>1. Waiting \cap left = Waiting
    BY <1>1, <1>2, <1>3 DEF Released
  <2> HIDE DEF left
  <2>2. Copies = Staying(a)
    BY <2>1, InCopies DEF left
  <2> QED BY <1>3, <2>2
<1>4. CASE Released(a) # {}
  <2>1. a # None /\ a \in pending /\ s \in Waiting
    BY <1>1, <1>2, <1>4 DEF Released
  <2>2. Waiting = (Waiting \cap left) \cup {s}
    BY <1>1, <1>2, <2>1
  <2>3. CopyOf(s) = {[a EXCEPT !.tok = meta[s].waiter]}
    <3>1. AnswersTo(meta[s]) = {a}
      BY <1>1, <2>1 DEF AnswersTo, IInv, Matched
    <3> QED BY <3>1 DEF CopyOf
  <2> HIDE DEF left, s
  <2>4. \A d : d \in Copies <=> d \in Staying(a) \/ d \in CopyOf(s)
    BY <2>2, InCopies DEF left
  <2>5. Copies = Staying(a) \cup CopyOf(s)
    BY <2>4
  <2> QED BY <1>4, <2>3, <2>5 DEF s
<1> QED BY <1>3, <1>4

(* A second load of a word gets the answer it would have got itself.       *)
LEMMA CopyIsAnswer ==
  ASSUME IInv, NEW r, Sane(r), coalesces(r), NEW p \in pending, p.tok = meta[coalesce_slot(r)].tok
  PROVE  [p EXCEPT !.tok = r.tok] = Below!Answer(mem, r, FALSE)
<1> DEFINE s == coalesce_slot(r)
<1>1. s \in Occupied /\ cacheable_load(r) /\ meta[s].cacheable_load /\ meta[s].word = r.word
  BY Joins
<1>2. EntryOK(meta[s], p)
  BY <1>1 DEF IInv, EntriesInv
<1>3. p.data = mem[r.word] /\ (p.err => r.word \in MayFail) /\ r.word \in Pmem
  BY <1>1, <1>2 DEF EntryOK
<1>4. p \in Replies /\ p.err \in BOOLEAN
  BY ReplyFacts DEF IInv, Replies
<1>5. p.err = FALSE
  BY <1>3, <1>4, ConstantFacts
<1>6. r.tok \in Tokens /\ ~r.write
  BY <1>1 DEF Sane, cacheable_load
<1>7. [p EXCEPT !.tok = r.tok] = [tok |-> r.tok, err |-> p.err, data |-> p.data]
  BY <1>4, <1>6, Redirected
<1> QED BY <1>3, <1>5, <1>6, <1>7 DEF Below!Answer

LEMMA HitIsAnswer ==
  ASSUME ContentInv, NEW r, Sane(r), array_hit(r)
  PROVE  Reply(r.tok, LineAt(r.word).data) = Below!Answer(mem, r, FALSE)
<1>1. r.word \in Words /\ IInv
  BY DEF Sane, ContentInv
<1> DEFINE i == LineOf[r.word]
<1>2. i \in Lines /\ LineAt(r.word) = line[i] /\ line[i].valid /\ line[i].tag = r.word
      /\ r.tok.client = "load"
  BY <1>1, HitFacts
<1>3. line[i].data = mem[r.word]
  BY <1>2 DEF ContentInv, ShownLineIsMemory
<1>4. ~r.write
  BY <1>2 DEF Sane
<1> QED BY <1>2, <1>3, <1>4 DEF Reply, Below!Answer

LEMMA CopiesArriving ==
  ASSUME IInv, NEW a \in pending \cup {None}, NEW ready \in BOOLEAN,
         NEW r \in Offered(a, ready) \cup {None}, Edge(r, a, ready)
  PROVE  Copies' = Staying(a) \cup (IF Parks(r, a) THEN {Below!Answer(mem, r, FALSE)} ELSE {})
<1> DEFINE left == effective_meta_valid(a)
           c == coalesce_slot(r)
           N == Below!Answer(mem, r, FALSE)
           Of(s) == {[p EXCEPT !.tok = meta'[s].waiter] : p \in {q \in pending' : q.tok = meta'[s].tok}}
<1>1. /\ Waiting' = (Waiting \cap left) \cup (IF Parks(r, a) THEN {c} ELSE {})
      /\ Parks(r, a) => c \in left /\ c \notin Waiting /\ meta'[c].waiter = r.tok
      /\ \A s \in Waiting \cap left : meta'[s].waiter = meta[s].waiter
  BY WaitEffect
<1>2. left \subseteq Occupied /\ (a # None => \A s \in left : meta[s].tok # a.tok)
  BY Survivors
<1>3. \A s \in left : meta'[s].tok = meta[s].tok
  BY MetaEffects DEF MetaEffect, Kept
<1>4. PICK err \in BOOLEAN : PortEffect(r, a, err)
  BY PortEffects
<1>5. pending' = (pending \ {a}) \cup (IF forwarded(r) THEN {Below!Answer(mem, r, err)} ELSE {})
  BY <1>4 DEF PortEffect
<1>6. forwarded(r) => Below!Answer(mem, r, err).tok = r.tok /\ r.tok \notin outstanding
  BY Routes DEF Below!Answer
<1>7. \A s \in Occupied : meta[s].tok \in outstanding
  BY OwedFacts
<1>8. None \notin pending
  BY ReplyFacts DEF IInv
<1> HIDE DEF left, c, N
<1>9. \A s \in left : {q \in pending' : q.tok = meta'[s].tok} = AnswersTo(meta[s])
  BY <1>2, <1>3, <1>5, <1>6, <1>7, <1>8 DEF AnswersTo
<1>10. \A s \in Waiting \cap left : Of(s) = CopyOf(s)
  BY <1>1, <1>9 DEF CopyOf
<1>11. Parks(r, a) => Of(c) = {N}
  <2> SUFFICES ASSUME Parks(r, a) PROVE Of(c) = {N}
    OBVIOUS
  <2>1. coalesces(r) /\ Sane(r) /\ c \in Occupied /\ c \in left
    BY <1>1, <1>2, OfferedFacts DEF Parks, Coalesces, IInv
  <2>2. PICK p \in pending : p.tok = meta[c].tok /\ AnswersTo(meta[c]) = {p}
    BY <2>1 DEF IInv, Matched, AnswersTo
  <2>3. [p EXCEPT !.tok = r.tok] = N
    BY <2>1, <2>2, CopyIsAnswer DEF c, N
  <2> QED BY <1>1, <1>9, <2>1, <2>2, <2>3
<1>12. \A d : d \in Copies' <=> \E s \in Waiting' : d \in Of(s)
  BY DEF Copies, CopyOf, AnswersTo
<1> HIDE DEF Of
<1>13. \A d : d \in Copies' <=> d \in Staying(a) \/ (Parks(r, a) /\ d = N)
  <2>1. \A d : d \in Staying(a) <=> \E s \in Waiting \cap left : d \in Of(s)
    BY <1>10, InCopies DEF left
  <2> QED BY <1>1, <1>11, <1>12, <2>1
<1>14. Copies' = Staying(a) \cup (IF Parks(r, a) THEN {N} ELSE {})
  BY <1>13
<1> QED BY <1>14 DEF N

(* What an edge does to the answers that are due: the one that is taken    *)
(* leaves and that of the accepted request, which was known when it was    *)
(* accepted, arrives.                                                      *)
LEMMA DueStep ==
  ASSUME ContentInv, NEW a \in pending \cup {None}, NEW ready \in BOOLEAN,
         NEW r \in Offered(a, ready) \cup {None}, Edge(r, a, ready),
         NEW err \in BOOLEAN, PortEffect(r, a, err)
  PROVE  Due' = (Due \ {Taken(a, ready)}) \cup
                (IF r = None THEN {} ELSE {Below!Answer(mem, r, err)})
<1> DEFINE N     == Below!Answer(mem, r, err)
           joins == Coalesces(r) /\ ~Parks(r, a)
           hits  == r # None /\ array_hit(r)
           out   == meta[rsp_meta_slot(a)].waiter
           S     == Staying(a)
           x     == Taken(a, ready)
<1>1. IInv /\ (r # None => Sane(r)) /\ (a # None => mem_rsp_ready(ready))
  BY OfferedFacts DEF ContentInv, IInv, Edge
<1>2. Due = pending \cup Held \cup Copies /\ Due' = pending' \cup Held' \cup Copies'
  <2>1. Due' = pending' \cup Held' \cup Copies'
    BY DEF Due, Held, Copies, CopyOf
  <2> QED BY <2>1, DueParts
<1>3. /\ r # None => r.tok \notin outstanding /\ (forwarded(r) \/ Parks(r, a) \/ joins \/ hits)
      /\ forwarded(r) => r # None /\ ~Parks(r, a) /\ ~joins /\ ~hits
      /\ Parks(r, a) => r # None /\ ~joins /\ ~hits
      /\ joins => r # None /\ ~hits
      /\ hits => hit_rsp = None \/ hit_rsp_fire(ready)
  BY <1>1, Routes DEF Parks
<1>4. ~forwarded(r) => err = FALSE
  BY DEF PortEffect
<1>5. pending' = (pending \ {a}) \cup (IF forwarded(r) THEN {N} ELSE {})
  BY DEF PortEffect
<1>6. Copies' = S \cup (IF Parks(r, a) THEN {N} ELSE {})
  <2>1. Copies' = Staying(a) \cup (IF Parks(r, a) THEN {Below!Answer(mem, r, FALSE)} ELSE {})
    BY <1>1, CopiesArriving
  <2> QED BY <1>3, <1>4, <2>1
<1>7. Copies = S \cup (IF Released(a) = {} THEN {} ELSE {[a EXCEPT !.tok = out]})
  BY <1>1, CopiesLeaving
<1>8. /\ hits => hit_rsp' = N /\ hit_rsp' # None
      /\ ~hits /\ hit_rsp_fire(ready) => hit_rsp' = None
      /\ ~hits /\ ~hit_rsp_fire(ready) => hit_rsp' = hit_rsp
  <2>1. hits => hit_rsp' = Reply(r.tok, LineAt(r.word).data) /\ hit_rsp' # None
    BY <1>1, HitEffect
  <2>2. hits => Reply(r.tok, LineAt(r.word).data) = Below!Answer(mem, r, FALSE)
    BY <1>1, HitIsAnswer
  <2>3. hits => err = FALSE
    BY <1>3, <1>4
  <2>4. /\ ~hits /\ hit_rsp_fire(ready) => hit_rsp' = None
        /\ ~hits /\ ~hit_rsp_fire(ready) => hit_rsp' = hit_rsp
    BY <1>1, HitEffect
  <2> QED BY <2>1, <2>2, <2>3, <2>4
<1>9. /\ joins => a # None /\ waiter_rsp' = N /\ waiter_rsp' # None /\ Released(a) = {}
      /\ Released(a) # {} => a # None /\ waiter_rsp' = [a EXCEPT !.tok = out] /\ waiter_rsp' # None
      /\ ~joins /\ Released(a) = {} /\ waiter_rsp_fire(ready) => waiter_rsp' = None
      /\ ~joins /\ Released(a) = {} /\ ~waiter_rsp_fire(ready) => waiter_rsp' = waiter_rsp
  <2>1. /\ joins => /\ a # None /\ waiter_rsp' = [a EXCEPT !.tok = r.tok] /\ waiter_rsp' # None
                    /\ Released(a) = {}
        /\ Released(a) # {} => a # None /\ waiter_rsp' = [a EXCEPT !.tok = out] /\ waiter_rsp' # None
        /\ ~joins /\ Released(a) = {} /\ waiter_rsp_fire(ready) => waiter_rsp' = None
        /\ ~joins /\ Released(a) = {} /\ ~waiter_rsp_fire(ready) => waiter_rsp' = waiter_rsp
    BY <1>1, WaiterEffect
  <2>2. joins => [a EXCEPT !.tok = r.tok] = Below!Answer(mem, r, FALSE)
    <3> SUFFICES ASSUME joins PROVE [a EXCEPT !.tok = r.tok] = Below!Answer(mem, r, FALSE)
      OBVIOUS
    <3>1. a # None /\ a \in pending /\ coalesce_slot(r) = rsp_meta_slot(a) /\ coalesces(r) /\ Sane(r)
      BY <1>1, <2>1 DEF Parks, coalesce_on_primary_rsp, Coalesces
    <3>2. a.tok = meta[coalesce_slot(r)].tok
      BY <1>1, <3>1, AnswerFinds
    <3> QED BY <1>1, <3>1, <3>2, CopyIsAnswer
  <2>3. joins => err = FALSE
    BY <1>3, <1>4
  <2> QED BY <2>1, <2>2, <2>3
<1>10. /\ a # None => /\ waiter_rsp = None /\ hit_rsp = None /\ x = a
                      /\ ~waiter_rsp_fire(ready) /\ ~hit_rsp_fire(ready)
       /\ waiter_rsp_fire(ready) => /\ a = None /\ x = waiter_rsp
                                    /\ waiter_rsp # None /\ ~hit_rsp_fire(ready)
       /\ hit_rsp_fire(ready) => a = None /\ x = hit_rsp /\ hit_rsp # None /\ waiter_rsp = None
       /\ a = None /\ ~waiter_rsp_fire(ready) /\ ~hit_rsp_fire(ready) => x = None
  BY <1>1, TakenCases
<1>11. a = None => Released(a) = {}
  BY DEF Released
(* The registers have no answer in common.                                 *)
<1>12. /\ \A p \in pending : p \notin Copies /\ p # hit_rsp /\ p # waiter_rsp /\ p # None
       /\ \A c \in Copies : c # hit_rsp /\ c # waiter_rsp /\ c # None
       /\ hit_rsp # None => hit_rsp # waiter_rsp
  <2>1. /\ BelowToks \cap WaitToks = {}
        /\ (BelowToks \cup WaitToks) \cap (HitToks \cup WaiterToks) = {}
        /\ HitToks \cap WaiterToks = {}
    BY <1>1 DEF IInv, Owed, Apart
  <2>2. /\ \A p \in pending : p.tok \in BelowToks /\ p # None
        /\ \A c \in Copies : c.tok \in WaitToks /\ c # None
    BY <1>1, DueToks, ReplyFacts, NoneIsNothing DEF IInv
  <2>3. /\ hit_rsp # None => hit_rsp.tok \in HitToks
        /\ waiter_rsp # None => waiter_rsp.tok \in WaiterToks
    BY HeldToks
  <2> QED BY <2>1, <2>2, <2>3
<1>13. Held = {hit_rsp, waiter_rsp} \ {None} /\ Held' = {hit_rsp', waiter_rsp'} \ {None}
  BY DEF Held
<1> DEFINE new == IF r = None THEN {} ELSE {N}
           D0  == pending \cup Held \cup Copies
           D1  == pending' \cup Held' \cup Copies'
<1> HIDE DEF N, joins, hits, out, S, x
(* What is left when the answer has been taken.                            *)
<1>14. CASE a # None
  <2>1. Held = {} /\ x = a /\ a \notin Copies /\ a \in pending
    BY <1>10, <1>12, <1>13, <1>14
  <2>2. D0 \ {x} = (pending \ {a}) \cup Copies
    BY <2>1
  <2>3. CASE joins
    <3>1. Held' = {N} /\ Copies' = S /\ Copies = S /\ pending' = pending \ {a} /\ new = {N}
      BY <1>3, <1>5, <1>6, <1>7, <1>8, <1>9, <1>10, <1>13, <1>14, <2>3
    <3>2. D1 = (D0 \ {x}) \cup new
      BY <2>2, <3>1
    <3> QED BY <1>2, <3>2 DEF N, x
  <2>4. CASE ~joins
    <3>1. waiter_rsp' = (IF Released(a) = {} THEN None ELSE [a EXCEPT !.tok = out])
          /\ (Released(a) # {} => waiter_rsp' # None)
      BY <1>9, <1>10, <1>14, <2>4
    <3>2. hit_rsp' = (IF hits THEN N ELSE None) /\ (hits => N # None)
      BY <1>8, <1>10, <1>14
    <3>3. Held' = (IF Released(a) = {} THEN {} ELSE {[a EXCEPT !.tok = out]})
                  \cup (IF hits THEN {N} ELSE {})
      BY <1>13, <3>1, <3>2
    <3>4. D1 = (pending \ {a}) \cup Copies \cup new
      <4>1. Copies = S \cup (IF Released(a) = {} THEN {} ELSE {[a EXCEPT !.tok = out]})
        BY <1>7 DEF S, out
      <4>2. Copies' \cup Held' = Copies \cup (IF Parks(r, a) THEN {N} ELSE {})
                                          \cup (IF hits THEN {N} ELSE {})
        BY <1>6, <3>3, <4>1
      <4>3. (IF forwarded(r) THEN {N} ELSE {}) \cup (IF Parks(r, a) THEN {N} ELSE {})
              \cup (IF hits THEN {N} ELSE {}) = new
        BY <1>3, <2>4 DEF hits
      <4> QED BY <1>5, <4>2, <4>3
    <3>5. D1 = (D0 \ {x}) \cup new
      BY <2>2, <3>4
    <3> QED BY <1>2, <3>5 DEF N, x
  <2> QED BY <2>3, <2>4
<1>15. CASE a = None
  <2>1. Copies = S /\ ~joins /\ pending \ {a} = pending
    BY <1>7, <1>9, <1>11, <1>12, <1>15
  <2> DEFINE H0 == IF hit_rsp_fire(ready) THEN None ELSE hit_rsp
             V0 == IF waiter_rsp_fire(ready) THEN None ELSE waiter_rsp
  <2>2. D0 \ {x} = pending \cup Copies \cup ({H0, V0} \ {None})
    <3>1. CASE waiter_rsp_fire(ready)
      BY <1>10, <1>12, <1>13, <3>1
    <3>2. CASE hit_rsp_fire(ready)
      BY <1>10, <1>12, <1>13, <3>2
    <3>3. CASE ~waiter_rsp_fire(ready) /\ ~hit_rsp_fire(ready)
      BY <1>10, <1>12, <1>13, <1>15, <3>3
    <3> QED BY <3>1, <3>2, <3>3
  <2>3. waiter_rsp' = V0 /\ (~hits => hit_rsp' = H0)
        /\ (hits => hit_rsp' = N /\ N # None /\ H0 = None)
    BY <1>3, <1>8, <1>9, <1>11, <1>15, <2>1
  <2> HIDE DEF H0, V0
  <2>4. Held' = ({H0, V0} \ {None}) \cup (IF hits THEN {N} ELSE {})
    BY <1>13, <2>3
  <2>5. D1 = pending \cup Copies \cup ({H0, V0} \ {None}) \cup new
    BY <1>3, <1>5, <1>6, <2>1, <2>4 DEF hits
  <2>6. D1 = (D0 \ {x}) \cup new
    BY <2>2, <2>5
  <2> QED BY <1>2, <2>6 DEF N, x
<1> QED BY <1>14, <1>15

LEMMA StepAbove ==
  ASSUME ContentInv, NEW a \in pending \cup {None}, NEW ready \in BOOLEAN,
         NEW r \in Offered(a, ready) \cup {None}, Edge(r, a, ready)
  PROVE  Above!Next(Requests)
<1> DEFINE x == Taken(a, ready)
<1>1. IInv /\ (r # None => Sane(r) /\ r \in Requests /\ r.tok \notin outstanding)
  BY OfferedFacts DEF ContentInv, IInv
<1>2. PICK err \in BOOLEAN : PortEffect(r, a, err)
  BY <1>1, PortEffects
<1>3. Due' = (Due \ {x}) \cup (IF r = None THEN {} ELSE {Above!Answer(mem, r, err)})
  <2>1. Due' = (Due \ {x}) \cup (IF r = None THEN {} ELSE {Below!Answer(mem, r, err)})
    BY <1>2, DueStep
  <2>2. Above!Answer(mem, r, err) = Below!Answer(mem, r, err)
    BY DEF Above!Answer, Below!Answer
  <2> QED BY <2>1, <2>2
<1>4. err => r # None /\ r.word \in MayFail
  BY <1>2 DEF PortEffect, forwarded
<1>5. mem' = Above!Performed(mem, r, err)
  <2>1. CASE forwarded(r)
    BY <1>2, <2>1 DEF PortEffect, Above!Performed, Below!Performed,
                         Above!Merge, Below!Merge
  <2>2. CASE ~forwarded(r)
    <3>1. mem' = mem
      BY <1>2, <2>2 DEF PortEffect
    <3>2. r # None => ~r.write
      <4>1. r # None => r.tok.client = "load"
        BY <2>2 DEF forwarded, array_hit, coalesces, coalesce_match, cacheable_load
      <4> QED BY <1>1, <4>1 DEF Sane
    <3> QED BY <3>1, <3>2 DEF Above!Performed
  <2> QED BY <2>1, <2>2
<1>6. x # None => x \in Due
  <2>1. x # None => x \in {hit_rsp, waiter_rsp} \ {None} \/ (x = a /\ a \in pending)
    BY DEF Taken
  <2>2. x # None => x \in pending \cup Held \cup Copies
    BY <2>1 DEF Held
  <2> QED BY <2>2, DueParts
<1>7. r # None => \A b \in Due : b.tok # r.tok
  BY <1>1, DueOwed
<1> HIDE DEF x
<1>8. Above!Step(r, x)
  BY <1>3, <1>4, <1>5, <1>6, <1>7 DEF Above!Step
<1>9. r \in Requests \cup {None} /\ x \in Due \cup {None}
  BY <1>1, <1>6
<1> QED BY <1>8, <1>9 DEF Above!Next

-----------------------------------------------------------------------------
(* The theorems.  The first three need nothing of the store generations.   *)

(* The lines, the memory and the generation keep their shapes, and the two *)
(* entries are those of the requests that are below.                       *)
THEOREM TypesHold == Spec => []TypeOK
BY Invariant, Types, PTL

(* Every request that is accepted is owed exactly one answer, with its own *)
(* token, until it takes it: whether it hits, joins a miss - also on the   *)
(* edge of the answer it waits for - or is forwarded.                      *)
THEOREM NothingIsLost == Spec => []NothingLost
BY Invariant, Lossless, PTL

(* The permission to fill is revoked by every write that passes the load.  *)
THEOREM FillsAreFresh == Spec => []FillFresh
BY Invariant, Fresh, PTL

(* The next three hold as long as the generation of the stores has not come*)
(* back to 0, which marks a line that no store hides: for 2^32 stores.     *)

(* A hit returns the memory's word.                                        *)
THEOREM ShownLinesAreMemory ==
  Spec /\ [][store_generation' # 0]_store_generation => []ShownLineIsMemory
<1>1. ContentInv => ShownLineIsMemory
  BY DEF ContentInv
<1> QED BY <1>1, ContentInvariant, PTL

(* The line that the answer of a store will show has the bytes of every    *)
(* store to its word.                                                      *)
THEOREM HiddenLinesAreComplete ==
  Spec /\ [][store_generation' # 0]_store_generation => []HiddenChainExact
BY ContentInvariant, Chain, PTL

(* The cache cannot be told from the memory.                               *)
THEOREM CacheIsMemoryPort ==
  Spec /\ [][store_generation' # 0]_store_generation => PortAbove
<1>1. Init => Above!Init
  <2> SUFFICES ASSUME Init PROVE Above!Init
    OBVIOUS
  <2>1. /\ mem \in [Words -> Below!Word] /\ pending = {} /\ hit_rsp = None /\ waiter_rsp = None
        /\ meta = [s \in Slots |-> None]
    BY DEF Init, Below!Init
  <2>2. Occupied = {} /\ Waiting = {}
    BY <2>1 DEF Occupied, Waiting
  <2>3. Due = {}
    BY <2>1, <2>2, InCopies, DueParts DEF Held
  <2> QED BY <2>1, <2>3 DEF Above!Init, Above!Word, Below!Word
<1>2. ContentInv /\ [Next]_vars => [Above!Next(Requests)]_<<mem, Due>>
  <2> SUFFICES ASSUME ContentInv, [Next]_vars PROVE [Above!Next(Requests)]_<<mem, Due>>
    OBVIOUS
  <2>1. CASE Next
    <3>1. PICK a \in pending \cup {None}, ready \in BOOLEAN :
            \E r \in Offered(a, ready) \cup {None} : Edge(r, a, ready)
      BY <2>1 DEF Next
    <3> QED BY <3>1, StepAbove
  <2>2. CASE UNCHANGED vars
    <3>1. mem' = mem /\ pending' = pending /\ meta' = meta
          /\ hit_rsp' = hit_rsp /\ waiter_rsp' = waiter_rsp
      BY <2>2 DEF vars
    <3>2. Due' = Due
      BY <3>1 DEF Due, Waiting, Occupied, AnswersTo
    <3> QED BY <3>1, <3>2
  <2> QED BY <2>1, <2>2
<1> QED BY <1>1, <1>2, ContentInvariant, PTL DEF Spec, PortAbove

=============================================================================
