---------------------------- MODULE DataLineCache ----------------------------
(***************************************************************************)
(* The line cache in front of the tagged data transport:                   *)
(* rtl/profiles/rv32im_ooo_4k/memory/ooo_data_line_cache.sv, direct-mapped *)
(* and with every option on, as the simulated core instantiates it.        *)
(*                                                                         *)
(* It holds aligned words of PMEM.  A load that misses is forwarded, and   *)
(* another load of the same word may wait for its answer.  A store is      *)
(* always forwarded; it hides a line it hits but keeps merging bytes into  *)
(* it, and the answer of the youngest such store shows the line again.  An *)
(* atomic access hides everything.                                         *)
(*                                                                         *)
(* Below is a MemoryPort; the promise is that above there is one too.      *)
(***************************************************************************)
EXTENDS Naturals, FiniteSets

CONSTANTS
  Words, Bytes, Values, None,
  Pmem,       \* the words in [PMEM_BASE, PMEM_BASE + PMEM_BYTES)
  MayFail,    \* the words whose accesses may be answered with an error
  Lines,      \* the cache's indices (1024)
  LineOf,     \* word -> index
  LoadTokens, \* tokens of loads
  Gens,       \* store generations 0 .. Gens - 1 (2^32)
  FirstGen,   \* what follows generation Gens - 1: 0 in the code; 1 stands for
              \* a core that has performed fewer than 2^32 stores
  MaxStores,  \* stores outstanding together (two posted responses)
  Workloads   \* what the client does: the words it uses, the sets of byte
              \* lanes it stores, how many loads it has outstanding together
              \* (3), and the words its atomic accesses write

(* A buffered store cannot fail (ooo_precise_store_buffer_4entry.sv:6-10). *)
ASSUME CacheConstants == /\ Pmem \subseteq Words /\ MayFail \subseteq Words \ Pmem
                         /\ LineOf \in [Words -> Lines]
                         /\ Gens \in Nat /\ MaxStores \in Nat /\ MaxStores < Gens - 1
                         /\ FirstGen \in {0, 1}
                         /\ \A l \in Workloads : /\ l.words \subseteq Words
                                                /\ l.shapes \subseteq SUBSET Bytes
                                                /\ l.loads \in Nat
                                                /\ l.atomics \subseteq [Bytes -> Values]

VARIABLES
  mem, pending,     \* the port below
  line,             \* the lines
  meta,             \* meta_*_q: the two requests that are below
  hit_rsp,          \* the answer of a hit
  waiter_rsp,       \* the answer of a coalesced load
  workload,         \* the client: what it does,
  outstanding,      \* the tokens whose answers it waits for,
  store_generation  \* and the generation of its last store

vars == <<mem, pending, line, meta, hit_rsp, waiter_rsp, workload, outstanding, store_generation>>

Below == INSTANCE MemoryPort WITH answers <- pending

Slots == 0 .. 1

-----------------------------------------------------------------------------
(* The client: the load/store unit and the atomic unit.                    *)

Token(client, id) == [client |-> client, id |-> id]
NextGen == IF store_generation = Gens - 1 THEN FirstGen ELSE store_generation + 1
Store(g, w, bs, d) == [tok |-> Token("store", g), write |-> TRUE, word |-> w,
                       bytes |-> bs, data |-> d]
Load(l, w) == [tok |-> Token("load", l), write |-> FALSE, word |-> w]

(* An atomic access reads, then may write the word it read.                *)
Atomic(w, d) == [tok |-> Token("atomic", 0), write |-> TRUE, word |-> w,
                 bytes |-> Bytes, data |-> d]
AtomicRead(w) == [tok |-> Token("atomic", 0), write |-> FALSE, word |-> w]

LoadRequests   == {Load(l, w) : l \in LoadTokens, w \in workload.words}
StoresOf(g)    == UNION {{Store(g, w, bs, d) : w \in workload.words, d \in [bs -> Values]} :
                           bs \in workload.shapes}
AtomicRequests == IF workload.atomics = {} THEN {}
                  ELSE {AtomicRead(w) : w \in workload.words}
                       \cup {Atomic(w, d) : w \in workload.words, d \in workload.atomics}
Requests == LoadRequests \cup AtomicRequests \cup UNION {StoresOf(g) : g \in 0 .. Gens - 1}

(* The shapes of what is exchanged and kept.                               *)
Tokens  == [client : {"load"}, id : LoadTokens] \cup [client : {"store"}, id : 0 .. Gens - 1]
           \cup [client : {"atomic"}, id : {0}]
Writes  == UNION {[tok : Tokens, write : {TRUE}, word : Words, bytes : {bs},
                   data : [bs -> Values]] : bs \in SUBSET Bytes}
Reads   == [tok : Tokens, write : {FALSE}, word : Words]
Replies == [tok : Tokens, err : BOOLEAN, data : Below!Word \cup {None}]
Entries == [tok : Tokens, word : Words, cacheable_load : BOOLEAN, store_invalidation : BOOLEAN,
            store : Writes \cup {None}, waiter : Tokens \cup {None}]

ASSUME NoneIsNothing == /\ None \notin Words /\ None \notin Tokens /\ None \notin Reads
                        /\ None \notin Writes /\ None \notin Replies /\ None \notin Entries

-----------------------------------------------------------------------------
(* The request.                                                            *)

cacheable_range(r) == r.word \in Pmem
cacheable_load(r)  == r.tok.client = "load" /\ cacheable_range(r)
LineAt(w)          == line[LineOf[w]]

array_hit(r) == cacheable_load(r) /\ LineAt(r.word).valid /\ LineAt(r.word).tag = r.word

(* A miss for the same word is below and nobody waits for it yet.          *)
coalesce_match(r) == {s \in Slots : /\ cacheable_load(r)
                                    /\ meta[s] # None /\ meta[s].cacheable_load
                                    /\ meta[s].word = r.word /\ meta[s].waiter = None}
coalesces(r) == ~array_hit(r) /\ coalesce_match(r) # {}
coalesce_slot(r) == CHOOSE s \in coalesce_match(r) : \A t \in coalesce_match(r) : s <= t

(* The tokens the cache compares a request with.                           *)
Occupied == {s \in Slots : meta[s] # None}
Known == {meta[s].tok : s \in Occupied} \cup {meta[s].waiter : s \in Occupied}
         \cup {h.tok : h \in {hit_rsp, waiter_rsp} \ {None}}
req_duplicate(r) == r.tok \in Known

-----------------------------------------------------------------------------
(* The answers.  A waiter's goes first, then that of a hit; only then is   *)
(* the port below listened to.                                             *)

waiter_rsp_fire(ready) == waiter_rsp # None /\ ready
hit_rsp_fire(ready)    == hit_rsp # None /\ waiter_rsp = None /\ ready
hit_slot_available(ready) == hit_rsp = None \/ hit_rsp_fire(ready)
mem_rsp_readyUnderWaiterBug(ready) == hit_rsp = None /\ ready
mem_rsp_ready(ready)   == waiter_rsp = None /\ hit_rsp = None /\ ready

rsp_meta_slot(a) == CHOOSE s \in Slots : meta[s] # None /\ meta[s].tok = a.tok

(* A slot that is answered on this edge may be taken by this request.      *)
effective_meta_valid(a) == Occupied \ (IF a = None THEN {} ELSE {rsp_meta_slot(a)})
meta_alloc_slotTakenBug(a) == IF meta[0] # None THEN 1 ELSE 0
meta_alloc_slot(a) == IF 0 \in effective_meta_valid(a) THEN 1 ELSE 0

req_ready(r, a, rsp_ready) ==
  /\ ~req_duplicate(r)
  /\ IF array_hit(r) THEN hit_slot_available(rsp_ready)
     ELSE coalesces(r) \/ effective_meta_valid(a) # Slots

forwarded(r) == r # None /\ ~array_hit(r) /\ ~coalesces(r)
amo_invalidateStoresBug(r) == forwarded(r) /\ r.tok.client = "atomic" /\ ~r.write
amo_invalidate(r)   == forwarded(r) /\ r.tok.client = "atomic"
store_invalidate(r) == forwarded(r) /\ r.tok.client = "store" /\ cacheable_range(r)

-----------------------------------------------------------------------------
(* The lines.                                                              *)

NewLine == [valid |-> FALSE, tag |-> None, data |-> None, origin |-> "cold", gen |-> 0]

(* A store owns the line it hits, and the line an earlier store hid.       *)
store_chain_match(l, w) == ~l.valid /\ l.origin = "store" /\ l.tag = w /\ l.gen # 0
store_ownerShownOnlyBug(r) == LineAt(r.word).valid /\ LineAt(r.word).tag = r.word
store_owner(r) == LET l == LineAt(r.word)
                  IN (l.valid /\ l.tag = r.word) \/ store_chain_match(l, r.word)

(* The word that is written on this edge.                                  *)
write_conflictAtomicOnlyBug(r, w) == amo_invalidate(r)
write_conflict(r, w) == amo_invalidate(r) \/ (store_invalidate(r) /\ r.word = w)

fill(r, a) == /\ a # None /\ ~a.err
              /\ LET m == meta[rsp_meta_slot(a)]
                 IN m.cacheable_load /\ ~write_conflict(r, m.word)

(* The answer of the youngest store that wrote to a hidden line.           *)
store_rsp_origin_match(a) ==
  /\ a # None /\ a.tok.client = "store"
  /\ LET m == meta[rsp_meta_slot(a)]
         l == LineAt(m.word)
     IN /\ m.store_invalidation
        /\ ~l.valid /\ l.origin = "store" /\ l.tag = m.word /\ l.gen = a.tok.id
store_rsp_update(r, a) == /\ store_rsp_origin_match(a) /\ ~a.err
                          /\ ~write_conflict(r, meta[rsp_meta_slot(a)].word)

Filled(w, d)    == [valid |-> TRUE, tag |-> w, data |-> d, origin |-> "cold", gen |-> 0]
HiddenByUnmergedBug(l, r) == [l EXCEPT !.valid = FALSE, !.tag = r.word, !.origin = "store",
                                        !.gen = r.tok.id]
HiddenBy(l, r)  == [valid |-> FALSE, tag |-> r.word, data |-> Below!Merge(l.data, r),
                    origin |-> "store", gen |-> r.tok.id]
ShownBy(l, m)   == [l EXCEPT !.valid = TRUE, !.data = Below!Merge(@, m.store),
                             !.origin = "cold", !.gen = 0]
Cleared(l)      == [l EXCEPT !.valid = FALSE, !.gen = 0,
                             !.origin = IF l.valid THEN "amo" ELSE @]

(* At most one of these happens to a line on an edge, but for a fill that  *)
(* meets a store to the word it would replace: the store has priority.     *)
NextLine(r, a) ==
  [i \in Lines |->
     LET l == line[i]
         m == meta[rsp_meta_slot(a)]
     IN IF amo_invalidate(r) THEN Cleared(l)
        ELSE IF store_rsp_update(r, a) /\ LineOf[m.word] = i THEN ShownBy(l, m)
        ELSE IF store_invalidate(r) /\ store_owner(r) /\ LineOf[r.word] = i THEN HiddenBy(l, r)
        ELSE IF fill(r, a) /\ LineOf[m.word] = i THEN Filled(m.word, a.data)
        ELSE l]

-----------------------------------------------------------------------------
(* The requests below and the answers above.                               *)

Entry(r) == [tok |-> r.tok, word |-> r.word, cacheable_load |-> cacheable_load(r),
             store_invalidation |-> store_invalidate(r) /\ store_owner(r),
             store |-> IF r.write THEN r ELSE None, waiter |-> None]

(* A write revokes the permission to fill of the loads that are below.     *)
PoisonedOnlyAtFillBug(m, r) == m
Poisoned(m, r) == IF m # None /\ write_conflict(r, m.word)
                  THEN [m EXCEPT !.cacheable_load = FALSE] ELSE m

coalesce_on_primary_rsp(r, a) == a # None /\ coalesce_slot(r) = rsp_meta_slot(a)

Coalesces(r) == r # None /\ coalesces(r)
NextMeta(r, a) ==
  [s \in Slots |->
     IF forwarded(r) /\ s = meta_alloc_slot(a) THEN Entry(r)
     ELSE IF a # None /\ s = rsp_meta_slot(a) THEN None
     ELSE IF Coalesces(r) /\ s = coalesce_slot(r) THEN [meta[s] EXCEPT !.waiter = r.tok]
     ELSE Poisoned(meta[s], r)]

Reply(t, d) == [tok |-> t, err |-> FALSE, data |-> d]
NextHit(r, ready) ==
  IF r # None /\ array_hit(r) THEN Reply(r.tok, LineAt(r.word).data)
  ELSE IF hit_rsp_fire(ready) THEN None ELSE hit_rsp

NextWaiter(r, a, ready) ==
  IF Coalesces(r) /\ coalesce_on_primary_rsp(r, a) THEN [a EXCEPT !.tok = r.tok]
  ELSE IF a # None /\ meta[rsp_meta_slot(a)].waiter # None
       THEN [a EXCEPT !.tok = meta[rsp_meta_slot(a)].waiter]
  ELSE IF waiter_rsp_fire(ready) THEN None ELSE waiter_rsp

(* The answer that is shown above and whether it is taken.                 *)
Taken(a, ready) == IF ~ready THEN None ELSE IF waiter_rsp # None THEN waiter_rsp
                   ELSE IF hit_rsp # None THEN hit_rsp ELSE a
Removed(x) == outstanding \ (IF x = None THEN {} ELSE {x.tok})

(* What the arbiter above lets through: three loads and stores together, a *)
(* store only next to one other request, an atomic access alone.  It may   *)
(* count a request out on the edge on which its answer is taken if that is *)
(* a store's.                                                              *)
OutstandingOf(client) == {t \in outstanding : t.client = client}
Offered(a, ready) ==
  LET x    == Taken(a, ready)
      left == IF x # None /\ x.tok.client = "store" THEN Removed(x) ELSE outstanding
  IN {r \in (IF Cardinality(outstanding) < workload.loads /\ OutstandingOf("atomic") = {}
              THEN LoadRequests ELSE {})
             \cup (IF /\ Cardinality(left) < 2 /\ Cardinality(OutstandingOf("store")) < MaxStores
                      /\ OutstandingOf("atomic") = {}
                   THEN StoresOf(NextGen) ELSE {})
             \cup (IF outstanding = {} THEN AtomicRequests ELSE {}) :
       r.tok \notin outstanding}

(* One edge: r is the request accepted, a the answer taken from below,     *)
(* ready that the client takes the answer it is shown.                     *)
Edge(r, a, ready) ==
  /\ r # None => req_ready(r, a, ready)
  /\ a # None => mem_rsp_ready(ready)
  /\ Below!Step(IF forwarded(r) THEN r ELSE None, a)
  /\ line' = NextLine(r, a)
  /\ meta' = NextMeta(r, a)
  /\ hit_rsp' = NextHit(r, ready)
  /\ waiter_rsp' = NextWaiter(r, a, ready)
  /\ outstanding' = Removed(Taken(a, ready)) \cup (IF r = None THEN {} ELSE {r.tok})
  /\ store_generation' = IF r # None /\ r.tok.client = "store" THEN NextGen
                         ELSE store_generation
  /\ UNCHANGED workload

(* Every content of the memory is reached by stores.                       *)
Init == /\ Below!Init /\ \E d \in Below!Word : mem = [w \in Words |-> d]
        /\ workload \in Workloads
        /\ line = [i \in Lines |-> NewLine] /\ meta = [s \in Slots |-> None]
        /\ hit_rsp = None /\ waiter_rsp = None /\ outstanding = {} /\ store_generation = 0

Next == \E a \in pending \cup {None}, ready \in BOOLEAN :
          \E r \in Offered(a, ready) \cup {None} : Edge(r, a, ready)

Spec == Init /\ [][Next]_vars

-----------------------------------------------------------------------------
(* What is promised above: the answers that are due there are those below, *)
(* a copy of them for the loads that wait, and the two that are held.      *)

Waiting == {s \in Occupied : meta[s].waiter # None}
AnswersTo(m) == {p \in pending : p.tok = m.tok}
Due == pending \cup ({hit_rsp, waiter_rsp} \ {None})
       \cup UNION {{[p EXCEPT !.tok = meta[s].waiter] : p \in AnswersTo(meta[s])} : s \in Waiting}

Above == INSTANCE MemoryPort WITH answers <- Due

(* The cache cannot be told from the memory: whatever mix of hits, misses, *)
(* coalesced loads, stores and atomic accesses is outstanding, each        *)
(* request is answered once, with its own token, and each load with the    *)
(* word as the requests accepted before it left it.                        *)
PortAbove == Above!Init /\ [][Above!Next(Requests)]_<<mem, Due>>

(* What the client waits for is what it will get: no answer is dropped or  *)
(* doubled when a load is coalesced on the edge of the answer it waits     *)
(* for, or when answers of a waiter, a hit and the port below compete.     *)
NothingLost == /\ {d.tok : d \in Due} = outstanding
               /\ Cardinality(Due) = Cardinality(outstanding)

(* The registers hold what their declarations say, every line is at its    *)
(* word's index, and the requests below are exactly those with an answer.  *)
TypeOK ==
  /\ mem \in [Words -> Below!Word]
  /\ \A i \in Lines : LET l == line[i] IN
       /\ l.valid \in BOOLEAN /\ l.gen \in 0 .. Gens - 1
       /\ l.tag = None \/ (l.tag \in Pmem /\ LineOf[l.tag] = i /\ l.data \in Below!Word)
  /\ {meta[s].tok : s \in Occupied} = {p.tok : p \in pending}
  /\ store_generation \in 0 .. Gens - 1

(* A shown line is the memory's word.  It is shown by a fill whose answer  *)
(* may be older than stores that passed it, or by the answer of one of     *)
(* several stores whose bytes it collected.                                *)
ShownLineIsMemory == \A i \in Lines : line[i].valid => line[i].data = mem[line[i].tag]

(* A line hidden by a store that is still below has collected the bytes of *)
(* every store to its word, so the answer may show it without a refill.    *)
HiddenChainExact ==
  \A i \in Lines, s \in Slots :
    LET l == line[i] IN
    /\ ~l.valid /\ l.origin = "store" /\ meta[s] # None
    /\ meta[s].store_invalidation /\ meta[s].word = l.tag /\ meta[s].tok = Token("store", l.gen)
    => l.data = mem[l.tag]

(* An answer that may still fill a line, or be given to a second load, was *)
(* not overtaken by a write to its word.                                   *)
FillFresh ==
  \A s \in Slots : meta[s] # None /\ meta[s].cacheable_load =>
    \A p \in AnswersTo(meta[s]) : p.data = mem[meta[s].word]

=============================================================================
