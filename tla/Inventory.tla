----------------------------- MODULE Inventory -----------------------------
(* Lesson 62, the gRPC inventory server: a map of products under an RWMutex *)
(* and four kinds of RPC that run side by side.  A product is a pointer to a *)
(* record: BulkUpsert replaces the pointer, Reserve and WatchStock write    *)
(* through it, GetProduct and WatchStock's event go on using it after the   *)
(* lock is released.                                                        *)
EXTENDS Integers, FiniteSets

CONSTANTS
    Products,       \* ids
    Streams,        \* Reserve streams
    Keys,           \* idempotency keys a client uses on its stream
    Watchers,       \* WatchStock streams, one product each
    MaxRecords,     \* bound: product records ever made
    MaxEvents,      \* events of a WatchStock stream (5 unless the client says)
    MaxStock        \* bound: the stock an upsert brings

\* What the constants have to be.
InventoryAssumption == {MaxRecords, MaxEvents, MaxStock} \subseteq Nat

VARIABLES
    open,       \* Reserve: the streams that are open
    record,     \* the records: their stock
    products,   \* the map: the record of a product, 0 when there is none
    seen,       \* Reserve: the answer kept for a key of a stream, {} for none
    reserved,   \* history: units of each key of each stream that were taken
    sent,       \* Reserve: the answers sent for a key of a stream
    watch       \* WatchStock streams

vars == <<open, record, products, seen, reserved, sent, watch>>

Answer(ok, n) == [ok |-> ok, remaining |-> n]

Records == DOMAIN record

Init ==
    /\ open = {}
    /\ record = [i \in 1..1 |-> MaxStock]
    /\ products \in {f \in [Products -> {0, 1}] : Cardinality({p \in Products : f[p] = 1}) = 1}
    /\ seen = [s \in Streams |-> [k \in Keys |-> {}]]
    /\ reserved = [s \in Streams |-> [k \in Keys |-> 0]]
    /\ sent = [s \in Streams |-> [k \in Keys |-> {}]]
    /\ watch = [w \in Watchers |-> [pc |-> "tick", i |-> 0, at |-> 0]]

\* s.reserve: the whole of it is one critical section.
Refused(p, quantity) ==
    products[p] = 0 \/ quantity <= 0 \/ record[products[p]] < quantity

RemainingOf(p) == IF products[p] = 0 THEN 0 ELSE record[products[p]]

\* A new stream passes authStream with the right token and no other; what its
\* keys mean starts empty, whatever an earlier stream of the client did.
OpenStream(s, token) ==
    /\ s \notin open
    /\ open' = IF token THEN open \cup {s} ELSE open
    /\ seen' = [seen EXCEPT ![s] = [k \in Keys |-> {}]]
    /\ sent' = [sent EXCEPT ![s] = [k \in Keys |-> {}]]
    /\ reserved' = [reserved EXCEPT ![s] = [k \in Keys |-> 0]]
    /\ UNCHANGED <<record, products, watch>>

\* The client closes it, the connection breaks, a panic is recovered.
EndStream(s) ==
    /\ s \in open /\ open' = open \ {s}
    /\ UNCHANGED <<record, products, seen, reserved, sent, watch>>

\* Mutant: only a reservation that succeeded is remembered.
ReserveNewForgetful(s, k, p, quantity) ==
    /\ s \in open /\ seen[s][k] = {}
    /\ LET ok == ~Refused(p, quantity)
           taken == IF ok THEN quantity ELSE 0
           answer == Answer(ok, RemainingOf(p) - taken)
       IN  /\ record' = IF ok THEN [record EXCEPT ![products[p]] = @ - taken] ELSE record
           /\ reserved' = [reserved EXCEPT ![s][k] = @ + taken]
           /\ seen' = IF ok THEN [seen EXCEPT ![s][k] = {answer}] ELSE seen
           /\ sent' = [sent EXCEPT ![s][k] = @ \cup {answer}]
    /\ UNCHANGED <<open, products, watch>>

\* Reserve, a key that is new on this stream: do it, keep the answer, send it.
\* Without a key (the client sends "") nothing is kept, which is not modelled.
ReserveNew(s, k, p, quantity) ==
    /\ s \in open /\ seen[s][k] = {}
    /\ LET ok == ~Refused(p, quantity)
           taken == IF ok THEN quantity ELSE 0
           answer == Answer(ok, RemainingOf(p) - taken)
       IN  /\ record' = IF ok THEN [record EXCEPT ![products[p]] = @ - taken] ELSE record
           /\ reserved' = [reserved EXCEPT ![s][k] = @ + taken]
           /\ seen' = [seen EXCEPT ![s][k] = {answer}]
           /\ sent' = [sent EXCEPT ![s][k] = @ \cup {answer}]
    /\ UNCHANGED <<open, products, watch>>

\* A retry: the previous answer is replayed, whatever the stock is now.
ReserveAgain(s, k) ==
    /\ s \in open /\ seen[s][k] # {}
    /\ sent' = [sent EXCEPT ![s][k] = @ \cup seen[s][k]]
    /\ UNCHANGED <<open, record, products, seen, reserved, watch>>

\* BulkUpsert: a valid product of the stream becomes a new record.
Upsert(p, stock) ==
    /\ Cardinality(Records) < MaxRecords
    /\ LET new == Cardinality(Records) + 1 IN
       /\ record' = [i \in 1..new |-> IF i = new THEN stock ELSE record[i]]
       /\ products' = [products EXCEPT ![p] = new]
    /\ UNCHANGED <<open, seen, reserved, sent, watch>>

Delta(i) == -1 - (i % 3)

\* WatchStock, a tick of the next of its ids: the stock goes down by 1 to 3, below zero as well.
WatchTick(w, p) ==
    /\ watch[w].pc = "tick" /\ watch[w].i < MaxEvents
    /\ IF products[p] = 0
       THEN /\ watch' = [watch EXCEPT ![w].i = @ + 1]
            /\ UNCHANGED record
       ELSE /\ record' = [record EXCEPT ![products[p]] = @ + Delta(watch[w].i)]
            /\ watch' = [watch EXCEPT ![w].pc = "send", ![w].at = products[p]]
    /\ UNCHANGED <<open, products, seen, reserved, sent>>

\* The event takes the stock from the record it still points to, unlocked.
WatchSend(w) ==
    /\ watch[w].pc = "send"
    /\ watch' = [watch EXCEPT ![w].pc = "tick", ![w].i = @ + 1, ![w].at = 0]
    /\ UNCHANGED <<open, record, products, seen, reserved, sent>>

\* The client hangs up, or its deadline passes.
WatchEnds(w) ==
    /\ watch[w].pc # "over"
    /\ watch' = [watch EXCEPT ![w].pc = "over", ![w].at = 0]
    /\ UNCHANGED <<open, record, products, seen, reserved, sent>>

Next ==
    \/ \E s \in Streams, k \in Keys :
        ReserveAgain(s, k) \/ \E p \in Products, q \in 0..2 : ReserveNew(s, k, p, q)
    \/ \E s \in Streams : EndStream(s) \/ \E token \in BOOLEAN : OpenStream(s, token)
    \/ \E p \in Products, n \in 0..MaxStock : Upsert(p, n)
    \/ \E w \in Watchers : WatchSend(w) \/ WatchEnds(w) \/ \E p \in Products : WatchTick(w, p)

Spec == Init /\ [][Next]_vars

-----------------------------------------------------------------------------
(* Properties *)

InventoryTypeOK ==
    /\ record \in [1..Cardinality(Records) -> Int]
    /\ products \in [Products -> 0..Cardinality(Records)]
    /\ \A w \in Watchers : watch[w].at \in 0..Cardinality(Records) /\ watch[w].i \in 0..MaxEvents

(***************************************************************************)
(* A client that retries a reservation on its stream, after whatever other *)
(* streams, upserts and watchers did to the stock, has reserved once and   *)
(* is told the same each time (server.go:205).                             *)
(***************************************************************************)
RetriesRepeat ==
    \A s \in Streams, k \in Keys :
        /\ Cardinality(sent[s][k]) <= 1
        /\ reserved[s][k] > 0 => \E a \in sent[s][k] : a.ok

(***************************************************************************)
(* A reservation never promises units that are not there, although watchers*)
(* take the stock below zero.                                              *)
(***************************************************************************)
NeverOversold == \A s \in Streams, k \in Keys : \A a \in sent[s][k] : a.ok => a.remaining >= 0
=============================================================================
