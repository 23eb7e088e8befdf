----------------------------- MODULE ShopOrders -----------------------------
(* Placing orders in go-crud: internal/order creates an order in a Postgres  *)
(* transaction of many statements (Read Committed), while internal/product   *)
(* and internal/user change the rows it works on and other requests run the  *)
(* same code on other connections.  One action is one SQL statement, or the  *)
(* Go code between two.                                                      *)
(*                                                                           *)
(* The variables row, price, stock and orders are the COMMITTED tables.      *)
(* What an open transaction has written and what it locks follow from how    *)
(* far it got, so they are operators of its record, not variables.           *)
EXTENDS Naturals, FiniteSets, Sequences

CONSTANTS
    Users, Products, Prices, Statuses,
    MaxStock,   \* bound: the largest stock a request or the table gives
    Carts,      \* the item lists of the requests, one unit of a product each
    MaxOrders,  \* bound: orders ever placed
    Clients     \* HTTP requests being served, each on a connection of its own

ASSUME ShopAssumption ==
    /\ 0 \in Prices
    /\ MaxStock \in Nat /\ MaxOrders \in Nat
    /\ Users # {} /\ Users \cap Products = {} /\ "pending" \in Statuses
    /\ Carts # {} /\ Carts \subseteq Seq(Products) \ {<<>>}

VARIABLES row, price, stock, orders, lastId, call

tables == <<row, price, stock, orders, lastId>>
vars == <<tables, call>>

\* The committed tables are the ledger's.
Ledger == INSTANCE StockLedger WITH
    row <- row, price <- price, stock <- stock, orders <- orders, lastId <- lastId

Live(x) == row[x] = "live"
UnitsOf(p, cart, n) == Ledger!UnitsOf(p, cart, n)

(***************************************************************************)
(* A request: where its handler is, its user and cart, the unit prices it  *)
(* has read, and whether its transaction is open.                          *)
(***************************************************************************)
Phases == {"idle", "select", "adjust", "insert", "commit"}

Calls == [phase : Phases, user : Users, cart : Carts, paid : Seq(Prices), open : BOOLEAN]

Idle == [phase |-> "idle", user |-> CHOOSE u \in Users : TRUE,
         cart |-> CHOOSE cart \in Carts : TRUE, paid |-> <<>>, open |-> FALSE]

\* Units taken: the UPDATEs that succeeded, one behind the reads while one is due.
Taken(c) == IF call[c].phase = "adjust" THEN Len(call[c].paid) - 1 ELSE Len(call[c].paid)

\* Mutant: a plain SELECT, so that only the UPDATE locks the row.
LockedByUpdate(c) == Taken(c)

\* Rows locked: SELECT ... FOR UPDATE locks what it reads.
Locked(c) == Len(call[c].paid)

Holds(c, p) == call[c].open /\ \E i \in 1..Locked(c) : call[c].cart[i] = p

Free(p, c) == \A d \in Clients \ {c} : ~Holds(d, p)

\* The product of the statement that is due.
Wanted(c) == call[c].cart[Taken(c) + 1]

\* c waits for a row lock that d holds.
Waits(c, d) == c # d /\ call[c].phase \in {"select", "adjust"} /\ Holds(d, Wanted(c))

\* The stock of a product as c's own transaction sees it.
StockSeen(p, c) == stock[p] - UnitsOf(p, call[c].cart, Taken(c))

\* The users row is share-locked once the orders row that refers to it is in.
UserPinned(u) == \E c \in Clients : call[c].open /\ call[c].phase = "commit" /\ call[c].user = u

Init ==
    /\ Ledger!Init
    /\ call = [c \in Clients |-> Idle]

-----------------------------------------------------------------------------
(* POST /orders *)

\* A valid body arrives and its user is looked up, before and outside the
\* transaction (an invalid body and an unknown user are answered at once).
Request(c, u, cart) ==
    /\ call[c].phase = "idle" /\ Live(u)
    /\ call' = [call EXCEPT ![c] = [phase |-> "select", user |-> u, cart |-> cart,
                                    paid |-> <<>>, open |-> TRUE]]
    /\ UNCHANGED tables

\* Every return of Create: the deferred Rollback, and the answer.
Return(c) == call' = [call EXCEPT ![c] = Idle]

\* SELECT price ... FOR UPDATE: waits for the row, then reads and keeps it.
SelectPrice(c) ==
    /\ call[c].phase = "select"
    /\ Free(Wanted(c), c)
    /\ IF Live(Wanted(c))
       THEN call' = [call EXCEPT ![c].phase = "adjust", ![c].paid = Append(@, price[Wanted(c)])]
       ELSE Return(c)
    /\ UNCHANGED tables

\* Mutant: the UPDATE lets the stock fall to -1.
AdjustStockOffByOne(c) ==
    /\ call[c].phase = "adjust"
    /\ Free(Wanted(c), c)
    /\ IF StockSeen(Wanted(c), c) + 1 >= 1
       THEN call' = [call EXCEPT ![c].phase =
                        IF Len(call[c].paid) = Len(call[c].cart) THEN "insert" ELSE "select"]
       ELSE Return(c)
    /\ UNCHANGED tables

\* AdjustStock: takes a unit unless that would leave the stock below zero.
AdjustStock(c) ==
    /\ call[c].phase = "adjust"
    /\ Free(Wanted(c), c)
    /\ IF StockSeen(Wanted(c), c) >= 1
       THEN call' = [call EXCEPT ![c].phase =
                        IF Len(call[c].paid) = Len(call[c].cart) THEN "insert" ELSE "select"]
       ELSE Return(c)
    /\ UNCHANGED tables

\* Mutant: orders.user_id refers to nothing.
InsertOrderUnchecked(c) ==
    /\ call[c].phase = "insert"
    /\ call' = [call EXCEPT ![c].phase = "commit"]
    /\ UNCHANGED tables

\* The orders row and its items; the user may be gone by now (foreign key).
InsertOrder(c) ==
    /\ call[c].phase = "insert"
    /\ IF Live(call[c].user)
       THEN call' = [call EXCEPT ![c].phase = "commit"]
       ELSE Return(c)
    /\ UNCHANGED tables

\* Commit publishes all of it (and the deferred Rollback then finds nothing).
Commit(c) ==
    /\ call[c].phase = "commit" /\ lastId < MaxOrders
    /\ stock' = [p \in Products |-> StockSeen(p, c)]
    /\ lastId' = lastId + 1
    /\ orders' = orders \cup {[id |-> lastId + 1, user |-> call[c].user, cart |-> call[c].cart,
                               paid |-> call[c].paid, status |-> "pending"]}
    /\ Return(c)
    /\ UNCHANGED <<row, price>>

\* At the bound the sequence has no number left, which is an error like another.
OutOfNumbers(c) ==
    call[c].phase = "commit" /\ lastId = MaxOrders /\ Return(c) /\ UNCHANGED tables

\* Any statement may fail: a lost connection, a database that restarts.
StatementFails(c) ==
    /\ call[c].phase # "idle"
    /\ Return(c)
    /\ UNCHANGED tables

\* Mutant: nobody looks for cycles.
DeadlockUnseen(c) == c \notin Clients /\ UNCHANGED vars

\* Postgres finds a cycle of waits and aborts one transaction of it.
DeadlockAbort(c) ==
    /\ \E S \in SUBSET Clients :
        /\ c \in S
        /\ \A d \in S : (\E e \in S : Waits(d, e)) /\ (\E e \in S : Waits(e, d))
    /\ Return(c)
    /\ UNCHANGED tables

-----------------------------------------------------------------------------
(* The other handlers: one autocommitted statement each, which waits for the *)
(* rows an open transaction has locked.                                      *)

Unlocked(p) == \A c \in Clients : ~Holds(c, p)

CreateProduct(p, cost, units) ==
    /\ row[p] = "new"
    /\ Ledger!SetProduct(p, cost, units) /\ UNCHANGED call

\* Mutant: PUT does not wait for the orders that have read the price.
UpdateProductUnlocked(p, cost, units) ==
    /\ Live(p)
    /\ price' = [price EXCEPT ![p] = cost]
    /\ stock' = [stock EXCEPT ![p] = units]
    /\ UNCHANGED <<row, orders, lastId, call>>

\* PUT overwrites price AND stock with what the client sent.
UpdateProduct(p, cost, units) ==
    /\ Live(p) /\ Unlocked(p)
    /\ price' = [price EXCEPT ![p] = cost]
    /\ stock' = [stock EXCEPT ![p] = units]
    /\ UNCHANGED <<row, orders, lastId, call>>

\* order_items.product_id is ON DELETE RESTRICT.
DeleteProduct(p) ==
    /\ Live(p) /\ Unlocked(p)
    /\ \A o \in orders : \A i \in DOMAIN o.cart : o.cart[i] # p
    /\ row' = [row EXCEPT ![p] = "gone"]
    /\ price' = [price EXCEPT ![p] = 0]
    /\ stock' = [stock EXCEPT ![p] = 0]
    /\ UNCHANGED <<orders, lastId, call>>

CreateUser(u) == Ledger!AddUser(u) /\ UNCHANGED call

\* orders.user_id is ON DELETE CASCADE.
DeleteUser(u) ==
    /\ Live(u) /\ ~UserPinned(u)
    /\ row' = [row EXCEPT ![u] = "gone"]
    /\ orders' = {o \in orders : o.user # u}
    /\ UNCHANGED <<price, stock, lastId, call>>

\* Neither a cancelled nor a deleted order gives its stock back.
UpdateStatus(id, s) ==
    /\ \E o \in orders : o.id = id
    /\ orders' = {IF o.id = id THEN [o EXCEPT !.status = s] ELSE o : o \in orders}
    /\ UNCHANGED <<row, price, stock, lastId, call>>

DeleteOrder(id) ==
    /\ \E o \in orders : o.id = id
    /\ orders' = {o \in orders : o.id # id}
    /\ UNCHANGED <<row, price, stock, lastId, call>>

\* The server dies: Postgres rolls back whatever its connections left open.
Crash ==
    /\ call' = [c \in Clients |-> Idle]
    /\ UNCHANGED tables

-----------------------------------------------------------------------------
Statement(c) == AdjustStock(c) \/ InsertOrder(c) \/ Commit(c)
                \/ OutOfNumbers(c) \/ DeadlockAbort(c)

BackOffice ==
    \/ \E p \in Products, cost \in Prices, units \in 0..MaxStock :
        CreateProduct(p, cost, units) \/ UpdateProduct(p, cost, units)
    \/ \E p \in Products : DeleteProduct(p)
    \/ \E u \in Users : CreateUser(u) \/ DeleteUser(u)
    \/ \E id \in 1..MaxOrders : DeleteOrder(id) \/ \E s \in Statuses : UpdateStatus(id, s)

Next ==
    \/ \E c \in Clients :
        \/ \E u \in Users, cart \in Carts : Request(c, u, cart)
        \/ SelectPrice(c) \/ Statement(c) \/ StatementFails(c)
    \/ BackOffice
    \/ Crash

(***************************************************************************)
(* The goroutine of a request goes on, and the database answers it.  A     *)
(* wait for a row is strongly fair: Postgres queues those who wait for it. *)
(* Nobody has to send a request, to fail or to crash.                      *)
(***************************************************************************)
Fairness == \A c \in Clients : WF_vars(Statement(c)) /\ SF_vars(SelectPrice(c))

Spec == Init /\ [][Next]_vars /\ Fairness

-----------------------------------------------------------------------------
(* Properties *)

ShopTypeOK ==
    /\ row \in [Users \cup Products -> {"new", "live", "gone"}]
    /\ price \in [Products -> Prices]
    /\ stock \in [Products -> Nat]
    /\ orders \subseteq Ledger!Orders
    /\ lastId \in 0..MaxOrders
    /\ call \in [Clients -> Calls]

(***************************************************************************)
(* What an open transaction relies on stays true until it ends: nobody     *)
(* else holds a row it holds, the prices it read are the committed ones,   *)
(* and the stock covers every unit it has taken (order/repository.go:51,   *)
(* product/repository.go:94).                                              *)
(***************************************************************************)
RowsHeld ==
    \A c \in Clients : call[c].open =>
        \A i \in 1..Locked(c) :
            LET p == call[c].cart[i] IN
            /\ Free(p, c) /\ Live(p)
            /\ call[c].paid[i] = price[p]
            /\ UnitsOf(p, call[c].cart, Taken(c)) <= stock[p]

(***************************************************************************)
(* The schema's references hold in every committed state: the user and the *)
(* products of an order exist (0003_create_orders.sql, 0004_...), although *)
(* the handler checks the user before the transaction begins.              *)
(***************************************************************************)
RefsKept ==
    \A o \in orders : Live(o.user) /\ \A i \in DOMAIN o.cart : Live(o.cart[i])

(***************************************************************************)
(* Whatever interleaves, fails or crashes, the tables change only as the   *)
(* ledger does: an order with all its stock in one step, or nothing.       *)
(***************************************************************************)
LedgerKept == Ledger!Spec

(***************************************************************************)
(* Every request for an order gets its answer: two orders that lock the    *)
(* same rows in opposite orders wait for one another only until Postgres   *)
(* aborts one, and every return closes the transaction.                    *)
(***************************************************************************)
EveryOrderAnswered == \A c \in Clients : call[c].phase # "idle" ~> call[c].phase = "idle"
=============================================================================
