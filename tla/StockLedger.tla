---------------------------- MODULE StockLedger ----------------------------
(* What the go-crud shop promises whoever reads its committed tables: an     *)
(* order is placed in ONE step, whole or not at all, by an account that      *)
(* exists, for products that exist, at the prices of that very moment and    *)
(* with stock for every unit.  Locks, statements, transactions and crashes   *)
(* do not appear here: ShopOrders has them and implements this module.       *)
(*                                                                           *)
(* An order line of quantity q is q successive units of the same product.    *)
EXTENDS Naturals, FiniteSets, Sequences

CONSTANTS
    Users,      \* keys of the users table
    Products,   \* keys of the products table
    Prices,     \* what a unit may cost
    Statuses,   \* of an order: pending first, then whatever a client sets
    MaxStock,   \* bound: the largest stock a product is given
    Carts,      \* the carts that are ordered: sequences of products
    MaxOrders   \* bound: orders ever placed

VARIABLES
    row,        \* users and products: not created yet, live, or deleted
    price,      \* products.price, 0 where there is no row
    stock,      \* products.stock, 0 where there is no row
    orders,     \* the orders rows with their order_items
    lastId      \* the sequence that numbers the orders

vars == <<row, price, stock, orders, lastId>>

Orders == [id : 1..MaxOrders, user : Users, cart : Carts,
           paid : Seq(Prices), status : Statuses]

Live(x) == row[x] = "live"

\* How often product p occurs among the first n units of a cart.
UnitsOf(p, cart, n) == Cardinality({i \in 1..n : cart[i] = p})

Init ==
    /\ row = [x \in Users \cup Products |-> "new"]
    /\ price = [p \in Products |-> 0]
    /\ stock = [p \in Products |-> 0]
    /\ orders = {}
    /\ lastId = 0

\* The one step an order is: every unit is there, and is paid at its price.
Place(u, cart) ==
    /\ Live(u) /\ lastId < MaxOrders
    /\ \A i \in DOMAIN cart : Live(cart[i])
    /\ \A p \in Products : UnitsOf(p, cart, Len(cart)) <= stock[p]
    /\ stock' = [p \in Products |-> stock[p] - UnitsOf(p, cart, Len(cart))]
    /\ lastId' = lastId + 1
    /\ orders' = orders \cup {[id |-> lastId + 1, user |-> u, cart |-> cart,
                  paid |-> [i \in DOMAIN cart |-> price[cart[i]]], status |-> "pending"]}
    /\ UNCHANGED <<row, price>>

\* The back office lists a product, or overwrites its price and stock.
SetProduct(p, cost, units) ==
    /\ row[p] # "gone"
    /\ row' = [row EXCEPT ![p] = "live"]
    /\ price' = [price EXCEPT ![p] = cost]
    /\ stock' = [stock EXCEPT ![p] = units]
    /\ UNCHANGED <<orders, lastId>>

\* A product leaves the catalogue only when no order mentions it.
RemoveProduct(p) ==
    /\ Live(p) /\ \A o \in orders : \A i \in DOMAIN o.cart : o.cart[i] # p
    /\ row' = [row EXCEPT ![p] = "gone"]
    /\ price' = [price EXCEPT ![p] = 0]
    /\ stock' = [stock EXCEPT ![p] = 0]
    /\ UNCHANGED <<orders, lastId>>

AddUser(u) ==
    /\ row[u] = "new"
    /\ row' = [row EXCEPT ![u] = "live"]
    /\ UNCHANGED <<price, stock, orders, lastId>>

\* A user leaves together with every order that is theirs.
RemoveUser(u) ==
    /\ Live(u)
    /\ row' = [row EXCEPT ![u] = "gone"]
    /\ orders' = {o \in orders : o.user # u}
    /\ UNCHANGED <<price, stock, lastId>>

SetStatus(id, s) ==
    /\ orders' = {IF o.id = id THEN [o EXCEPT !.status = s] ELSE o : o \in orders}
    /\ UNCHANGED <<row, price, stock, lastId>>

RemoveOrder(id) ==
    /\ orders' = {o \in orders : o.id # id}
    /\ UNCHANGED <<row, price, stock, lastId>>

Next ==
    \/ \E u \in Users, cart \in Carts : Place(u, cart)
    \/ \E p \in Products, cost \in Prices, units \in 0..MaxStock : SetProduct(p, cost, units)
    \/ \E p \in Products : RemoveProduct(p)
    \/ \E u \in Users : AddUser(u) \/ RemoveUser(u)
    \/ \E id \in 1..MaxOrders : RemoveOrder(id) \/ \E s \in Statuses : SetStatus(id, s)

Spec == Init /\ [][Next]_vars
=============================================================================
