-------------------------- MODULE ShopOrdersProofs --------------------------
(***************************************************************************)
(* Proofs about ShopOrders: for any users, products, prices, carts, stock  *)
(* and number of requests, what a transaction has locked stays as it saw   *)
(* it, the references hold, and the tables move as StockLedger says.       *)
(***************************************************************************)
EXTENDS ShopOrders, FiniteSetTheorems, SequenceTheorems, TLAPS

-----------------------------------------------------------------------------
(* Units of a product in a cart *)

\* The instance has a Cardinality of its own, which is the same.
LEMMA UnitsCount ==
  ASSUME NEW p, NEW cart, NEW n
  PROVE  UnitsOf(p, cart, n) = Cardinality({i \in 1..n : cart[i] = p})
<1>1. \A S : Ledger!Cardinality(S) = Cardinality(S)
  BY Zenon DEF Ledger!Cardinality, Cardinality
<1> QED
  BY <1>1 DEF UnitsOf, Ledger!UnitsOf

LEMMA PlacesFinite ==
  ASSUME NEW p, NEW cart, NEW n \in Nat
  PROVE  IsFiniteSet({i \in 1..n : cart[i] = p})
<1>1. IsFiniteSet(1..n)
  BY FS_Interval
<1>2. {i \in 1..n : cart[i] = p} \in SUBSET (1..n)
  OBVIOUS
<1> QED
  BY <1>1, <1>2, FS_Subset

LEMMA UnitsType ==
  ASSUME NEW p, NEW cart, NEW n \in Nat
  PROVE  UnitsOf(p, cart, n) \in Nat
<1> DEFINE S == {i \in 1..n : cart[i] = p}
<1>1. UnitsOf(p, cart, n) = Cardinality(S)
  BY UnitsCount
<1>2. IsFiniteSet(S)
  BY PlacesFinite
<1>3. Cardinality(S) \in Nat
  BY <1>2, FS_CardinalityType
<1> HIDE DEF S
<1> QED
  BY <1>1, <1>3

\* One item further there is one unit more of the product that is there.
LEMMA UnitsNext ==
  ASSUME NEW p, NEW cart, NEW n \in Nat
  PROVE  UnitsOf(p, cart, n + 1) = UnitsOf(p, cart, n) + (IF cart[n + 1] = p THEN 1 ELSE 0)
<1> DEFINE S == {i \in 1..n : cart[i] = p}
           T == {i \in 1..(n + 1) : cart[i] = p}
<1>0. IsFiniteSet(S)
  BY PlacesFinite
<1>1. n + 1 \notin S
  OBVIOUS
<1>2. UnitsOf(p, cart, n) = Cardinality(S) /\ UnitsOf(p, cart, n + 1) = Cardinality(T)
  BY UnitsCount
<1>3. T = IF cart[n + 1] = p THEN S \cup {n + 1} ELSE S
  OBVIOUS
<1>4. UnitsOf(p, cart, n) \in Nat
  BY UnitsType
<1> HIDE DEF S, T
<1>5. Cardinality(S \cup {n + 1}) = Cardinality(S) + 1
  BY <1>0, <1>1, FS_AddElement
<1> QED
  BY <1>2, <1>3, <1>4, <1>5

LEMMA UnitsNone ==
  ASSUME NEW p, NEW cart, NEW n \in Nat, \A i \in 1..n : cart[i] # p
  PROVE  UnitsOf(p, cart, n) = 0
<1>1. {i \in 1..n : cart[i] = p} = {}
  OBVIOUS
<1> QED
  BY <1>1, FS_EmptySet, UnitsCount

-----------------------------------------------------------------------------
(* The invariant *)

\* Where a handler is tells how much of its cart it has been through.
Shape(h) ==
    /\ h.open <=> h.phase # "idle"
    /\ Len(h.paid) <= Len(h.cart)
    /\ h.phase = "select" => Len(h.paid) < Len(h.cart)
    /\ h.phase = "adjust" => Len(h.paid) >= 1
    /\ h.phase \in {"insert", "commit"} => Len(h.paid) = Len(h.cart)

TakenOf(h) == IF h.phase = "adjust" THEN Len(h.paid) - 1 ELSE Len(h.paid)

\* What a request in state h relies on, beside that nobody else holds its rows.
Relies(h) ==
    /\ h.open => \A i \in 1..Len(h.paid) :
        /\ Live(h.cart[i]) /\ h.paid[i] = price[h.cart[i]]
        /\ UnitsOf(h.cart[i], h.cart, TakenOf(h)) <= stock[h.cart[i]]
    /\ h.phase = "commit" => Live(h.user)

\* No row is held by two transactions.
Exclusive ==
    \A c, d \in Clients : c # d /\ call[c].open /\ call[d].open =>
        \A i \in 1..Len(call[c].paid), j \in 1..Len(call[d].paid) :
            call[c].cart[i] # call[d].cart[j]

ShopInv ==
    /\ ShopTypeOK
    /\ \A c \in Clients : Shape(call[c]) /\ Relies(call[c])
    /\ Exclusive
    /\ RefsKept

LEMMA CartItems ==
  ASSUME NEW cart \in Carts
  PROVE  /\ cart \in Seq(Products) /\ Len(cart) \in Nat
         /\ DOMAIN cart = 1..Len(cart) /\ Len(cart) > 0
         /\ \A i \in 1..Len(cart) : cart[i] \in Products
<1>1. cart \in Seq(Products) /\ cart # <<>>
  BY ShopAssumption
<1>2. Len(cart) \in Nat \ {0}
  BY <1>1, EmptySeq
<1> QED
  BY <1>1, <1>2, LenProperties, ElementOfSeq

LEMMA CallFacts ==
  ASSUME NEW h \in Calls
  PROVE  /\ h.phase \in Phases /\ h.user \in Users /\ h.cart \in Carts
         /\ h.paid \in Seq(Prices) /\ h.open \in BOOLEAN
         /\ Len(h.paid) \in Nat /\ DOMAIN h.paid = 1..Len(h.paid)
  BY LenProperties DEF Calls

LEMMA IdleFacts == Idle \in Calls /\ Shape(Idle) /\ Relies(Idle) /\ ~Idle.open
<1>1. (CHOOSE u \in Users : TRUE) \in Users /\ (CHOOSE cart \in Carts : TRUE) \in Carts
  BY ShopAssumption
<1>2. <<>> \in Seq(Prices) /\ Len(<<>>) = 0
  BY EmptySeq
<1>3. Idle \in Calls /\ Idle.phase = "idle" /\ Idle.open = FALSE /\ Idle.paid = <<>>
  BY <1>1, <1>2 DEF Idle, Calls, Phases
<1>4. Len(Idle.cart) \in Nat
  BY <1>3, CallFacts, CartItems
<1> QED
  BY <1>2, <1>3, <1>4 DEF Shape, Relies

LEMMA ShopInit == Init => ShopInv
<1> SUFFICES ASSUME Init
             PROVE  ShopInv
  OBVIOUS
<1>1. \A c \in Clients : call[c] = Idle
  BY DEF Init
<1>2. ShopTypeOK
  BY IdleFacts, ShopAssumption DEF Init, Ledger!Init, ShopTypeOK
<1>3. Exclusive /\ RefsKept
  BY <1>1, IdleFacts DEF Init, Ledger!Init, Exclusive, RefsKept
<1> QED
  BY <1>1, <1>2, <1>3, IdleFacts DEF ShopInv

-----------------------------------------------------------------------------
(* Steps of one request *)

\* A request moves on to h while the tables stay as they are.
LEMMA RequestMoves ==
  ASSUME ShopInv, NEW c \in Clients, NEW h \in Calls,
         call' = [call EXCEPT ![c] = h], UNCHANGED tables,
         Shape(h), Relies(h),
         h.open => \A i \in 1..Len(h.paid) : Free(h.cart[i], c)
  PROVE  ShopInv'
<1>1. call' \in [Clients -> Calls] /\ call'[c] = h
      /\ \A d \in Clients \ {c} : call'[d] = call[d]
  BY DEF ShopInv, ShopTypeOK
<1>2. ShopTypeOK'
  BY <1>1 DEF ShopInv, ShopTypeOK, tables
<1>3. \A g : Relies(g) => Relies(g)'
  BY DEF Relies, tables, Live, UnitsOf, Ledger!UnitsOf
<1>4. \A d \in Clients : Shape(call'[d]) /\ Relies(call'[d])
  BY <1>1 DEF ShopInv
<1>5. \A d \in Clients : Shape(call[d])' /\ Relies(call[d])'
  BY <1>3, <1>4 DEF Shape
<1>6. ASSUME NEW d \in Clients \ {c}, h.open, call[d].open,
             NEW i \in 1..Len(h.paid), NEW j \in 1..Len(call[d].paid)
      PROVE  h.cart[i] # call[d].cart[j]
  BY <1>6 DEF Free, Holds, Locked
<1>7. Exclusive'
  BY <1>1, <1>6 DEF ShopInv, Exclusive
<1>8. RefsKept'
  BY DEF ShopInv, RefsKept, tables, Live
<1> QED
  BY <1>2, <1>5, <1>7, <1>8 DEF ShopInv

LEMMA ReturnKeeps ==
  ASSUME ShopInv, NEW c \in Clients, Return(c), UNCHANGED tables
  PROVE  ShopInv'
  BY RequestMoves, IdleFacts DEF Return

\* What c holds nobody else holds.
LEMMA OwnRowsFree ==
  ASSUME ShopInv, NEW c \in Clients, call[c].open, NEW i \in 1..Len(call[c].paid)
  PROVE  Free(call[c].cart[i], c)
  BY DEF ShopInv, Exclusive, Free, Holds, Locked

LEMMA RequestKeeps ==
  ASSUME ShopInv, NEW c \in Clients, NEW u \in Users, NEW cart \in Carts, Request(c, u, cart)
  PROVE  ShopInv'
<1> DEFINE h == [phase |-> "select", user |-> u, cart |-> cart, paid |-> <<>>, open |-> TRUE]
<1>1. h \in Calls /\ Len(h.paid) = 0
  BY EmptySeq DEF Calls, Phases
<1>2. Shape(h) /\ Relies(h)
  BY <1>1, CartItems DEF Shape, Relies
<1>3. call' = [call EXCEPT ![c] = h] /\ UNCHANGED tables
  BY DEF Request
<1> HIDE DEF h
<1>4. \A i \in 1..Len(h.paid) : FALSE
  BY <1>1
<1> QED
  BY <1>1, <1>2, <1>3, <1>4, RequestMoves

LEMMA SelectKeeps ==
  ASSUME ShopInv, NEW c \in Clients, SelectPrice(c)
  PROVE  ShopInv'
<1> DEFINE w == Wanted(c)
<1>1. UNCHANGED tables /\ call[c].phase = "select" /\ Free(w, c)
  BY DEF SelectPrice
<1>2. CASE ~Live(w)
  BY <1>1, <1>2, ReturnKeeps DEF SelectPrice
<1>3. CASE Live(w)
  <2> DEFINE old == call[c]
             h == [old EXCEPT !.phase = "adjust", !.paid = Append(old.paid, price[w])]
  <2>1. old \in Calls /\ Shape(old) /\ Relies(old)
    BY DEF ShopInv, ShopTypeOK
  <2>2. old.paid \in Seq(Prices) /\ Len(old.paid) \in Nat /\ old.cart \in Carts
    BY <2>1, CallFacts
  <2>3. w = old.cart[Len(old.paid) + 1] /\ Len(old.paid) + 1 \in 1..Len(old.cart)
    BY <1>1, <2>1, <2>2, CartItems DEF Wanted, Taken, Shape
  <2>4. w \in Products /\ price[w] \in Prices /\ stock[w] \in Nat
    BY <2>2, <2>3, CartItems DEF ShopInv, ShopTypeOK
  <2>5. /\ Append(old.paid, price[w]) \in Seq(Prices)
        /\ Len(Append(old.paid, price[w])) = Len(old.paid) + 1
        /\ Append(old.paid, price[w])[Len(old.paid) + 1] = price[w]
        /\ \A i \in 1..Len(old.paid) : Append(old.paid, price[w])[i] = old.paid[i]
    BY <2>2, <2>4
  <2>6. /\ h \in Calls /\ h.phase = "adjust" /\ h.cart = old.cart /\ h.open = old.open
        /\ h.user = old.user /\ h.paid = Append(old.paid, price[w])
    BY <2>1, <2>5 DEF Calls, Phases
  <2>7. call' = [call EXCEPT ![c] = h]
    BY <1>1, <1>3 DEF SelectPrice
  <2> HIDE DEF h
  <2>8. Shape(h)
    BY <1>1, <2>1, <2>2, <2>3, <2>5, <2>6 DEF Shape
  <2>9. old.open /\ TakenOf(h) = Len(old.paid) /\ TakenOf(old) = Len(old.paid)
    BY <1>1, <2>1, <2>2, <2>5, <2>6 DEF Shape, TakenOf
  <2>10. UnitsOf(w, old.cart, Len(old.paid)) <= stock[w]
    <3>1. CASE \E i \in 1..Len(old.paid) : old.cart[i] = w
      BY <2>1, <2>9, <3>1 DEF Relies
    <3>2. CASE \A i \in 1..Len(old.paid) : old.cart[i] # w
      <4>1. UnitsOf(w, old.cart, Len(old.paid)) = 0
        BY <2>2, <3>2, UnitsNone
      <4> QED
        BY <2>4, <4>1
    <3> QED
      BY <3>1, <3>2
  <2>11. ASSUME NEW i \in 1..Len(h.paid)
         PROVE  /\ Live(h.cart[i]) /\ h.paid[i] = price[h.cart[i]]
                /\ UnitsOf(h.cart[i], h.cart, TakenOf(h)) <= stock[h.cart[i]]
                /\ Free(h.cart[i], c)
    <3>1. CASE i = Len(old.paid) + 1
      BY <1>1, <1>3, <2>3, <2>5, <2>6, <2>9, <2>10, <3>1
    <3>2. CASE i \in 1..Len(old.paid)
      <4>1. Free(old.cart[i], c)
        BY <2>9, <3>2, OwnRowsFree
      <4> QED
        BY <2>1, <2>5, <2>6, <2>9, <3>2, <4>1 DEF Relies
    <3> QED
      BY <2>2, <2>5, <2>6, <3>1, <3>2
  <2>12. Relies(h)
    BY <2>6, <2>11 DEF Relies
  <2> QED
    BY <1>1, <2>6, <2>7, <2>8, <2>11, <2>12, RequestMoves
<1> QED
  BY <1>2, <1>3

\* A request goes on to another phase with what it holds.
LEMMA PhaseMoves ==
  ASSUME ShopInv, NEW c \in Clients, NEW phase \in Phases,
         call' = [call EXCEPT ![c].phase = phase], UNCHANGED tables,
         Shape([call[c] EXCEPT !.phase = phase]),
         Relies([call[c] EXCEPT !.phase = phase])
  PROVE  ShopInv'
<1> DEFINE h == [call[c] EXCEPT !.phase = phase]
<1>1. call[c] \in Calls
  BY DEF ShopInv, ShopTypeOK
<1>2. h \in Calls /\ h.open = call[c].open /\ h.paid = call[c].paid /\ h.cart = call[c].cart
  BY <1>1 DEF Calls
<1>3. call' = [call EXCEPT ![c] = h]
  OBVIOUS
<1>4. Shape(h) /\ Relies(h)
  OBVIOUS
<1> HIDE DEF h
<1>5. h.open => \A i \in 1..Len(h.paid) : Free(h.cart[i], c)
  BY <1>2, OwnRowsFree
<1> QED
  BY <1>2, <1>3, <1>4, <1>5, RequestMoves

LEMMA AdjustKeeps ==
  ASSUME ShopInv, NEW c \in Clients, AdjustStock(c)
  PROVE  ShopInv'
<1> DEFINE w == Wanted(c)
           old == call[c]
<1>1. UNCHANGED tables /\ old.phase = "adjust"
  BY DEF AdjustStock
<1>2. CASE ~(StockSeen(w, c) >= 1)
  BY <1>1, <1>2, ReturnKeeps DEF AdjustStock
<1>3. CASE StockSeen(w, c) >= 1
  <2> DEFINE phase == IF Len(old.paid) = Len(old.cart) THEN "insert" ELSE "select"
             h == [old EXCEPT !.phase = phase]
             n == Len(old.paid)
  <2>1. old \in Calls /\ Shape(old) /\ Relies(old)
    BY DEF ShopInv, ShopTypeOK
  <2>2. /\ n \in Nat /\ n >= 1 /\ n <= Len(old.cart) /\ old.open
        /\ old.cart \in Carts /\ Len(old.cart) \in Nat
    BY <1>1, <2>1, CallFacts, CartItems DEF Shape
  <2>3. w = old.cart[n] /\ Taken(c) = n - 1 /\ TakenOf(old) = n - 1 /\ w \in Products
    BY <1>1, <2>2, CartItems DEF Wanted, Taken, TakenOf
  <2>4. phase \in Phases /\ call' = [call EXCEPT ![c].phase = phase]
    BY <1>1, <1>3 DEF AdjustStock, Phases
  <2>5. /\ h.phase = phase /\ h.paid = old.paid /\ h.cart = old.cart /\ h.open = old.open
        /\ phase \in {"insert", "select"} /\ TakenOf(h) = n
    BY <2>1 DEF Calls, TakenOf
  <2> HIDE DEF h
  <2>6. Shape(h)
    BY <2>2, <2>5, <2>1 DEF Shape
  <2>7. ASSUME NEW i \in 1..n
        PROVE  UnitsOf(old.cart[i], old.cart, n) <= stock[old.cart[i]]
    <3> DEFINE p == old.cart[i]
    <3>1. n - 1 \in Nat /\ (n - 1) + 1 = n
      BY <2>2
    <3>2. UnitsOf(p, old.cart, n) =
            UnitsOf(p, old.cart, n - 1) + (IF w = p THEN 1 ELSE 0)
      BY <2>3, <3>1, UnitsNext
    <3>3. UnitsOf(p, old.cart, n - 1) \in Nat /\ UnitsOf(p, old.cart, n - 1) <= stock[p]
      BY <2>1, <2>2, <2>3, <3>1, UnitsType DEF Relies
    <3>4. stock[w] - UnitsOf(w, old.cart, n - 1) >= 1
      BY <1>3, <2>3 DEF StockSeen
    <3>5. stock[p] \in Nat
      BY <2>2, CartItems DEF ShopInv, ShopTypeOK
    <3> QED
      BY <3>2, <3>3, <3>4, <3>5
  <2>8. Relies(h)
    BY <2>1, <2>2, <2>5, <2>7 DEF Relies
  <2> QED
    BY <1>1, <2>4, <2>6, <2>8, PhaseMoves DEF h
<1> QED
  BY <1>2, <1>3

LEMMA InsertKeeps ==
  ASSUME ShopInv, NEW c \in Clients, InsertOrder(c)
  PROVE  ShopInv'
<1>1. UNCHANGED tables /\ call[c].phase = "insert"
  BY DEF InsertOrder
<1>2. CASE ~Live(call[c].user)
  BY <1>1, <1>2, ReturnKeeps DEF InsertOrder
<1>3. CASE Live(call[c].user)
  <2> DEFINE h == [call[c] EXCEPT !.phase = "commit"]
  <2>1. call[c] \in Calls /\ Shape(call[c]) /\ Relies(call[c])
    BY DEF ShopInv, ShopTypeOK
  <2>2. /\ h.phase = "commit" /\ h.paid = call[c].paid /\ h.cart = call[c].cart
        /\ h.open = call[c].open /\ h.user = call[c].user /\ TakenOf(h) = TakenOf(call[c])
    BY <1>1, <2>1 DEF Calls, TakenOf
  <2>3. call' = [call EXCEPT ![c].phase = "commit"] /\ "commit" \in Phases
    BY <1>1, <1>3 DEF InsertOrder, Phases
  <2> HIDE DEF h
  <2>4. Shape(h) /\ Relies(h)
    BY <1>1, <1>3, <2>1, <2>2 DEF Shape, Relies
  <2> QED
    BY <1>1, <2>3, <2>4, PhaseMoves DEF h
<1> QED
  BY <1>2, <1>3

LEMMA CommitKeeps ==
  ASSUME ShopInv, NEW c \in Clients, Commit(c)
  PROVE  ShopInv'
<1> DEFINE old == call[c]
           n == Len(old.paid)
           new == [id |-> lastId + 1, user |-> old.user, cart |-> old.cart,
                   paid |-> old.paid, status |-> "pending"]
<1>1. old \in Calls /\ Shape(old) /\ Relies(old) /\ old.phase = "commit" /\ old.open
  BY DEF ShopInv, ShopTypeOK, Commit, Shape
<1>2. /\ n \in Nat /\ n = Len(old.cart) /\ old.cart \in Carts /\ Taken(c) = n
      /\ TakenOf(old) = n /\ Live(old.user)
  BY <1>1, CallFacts DEF Shape, Taken, TakenOf, Relies
<1>3. /\ lastId' = lastId + 1 /\ lastId < MaxOrders
      /\ orders' = orders \cup {new}
      /\ stock' = [p \in Products |-> StockSeen(p, c)]
      /\ call' = [call EXCEPT ![c] = Idle]
      /\ UNCHANGED <<row, price>>
  BY DEF Commit, Return
<1>4. \A p \in Products : stock'[p] = stock[p] - UnitsOf(p, old.cart, n)
  BY <1>2, <1>3 DEF StockSeen
<1>5. ASSUME NEW p \in Products
      PROVE  /\ UnitsOf(p, old.cart, n) <= stock[p]
             /\ stock'[p] \in Nat
             /\ (\A i \in 1..n : old.cart[i] # p) => stock'[p] = stock[p]
  <2>1. stock[p] \in Nat /\ UnitsOf(p, old.cart, n) \in Nat
    BY <1>2, UnitsType DEF ShopInv, ShopTypeOK
  <2>2. CASE \E i \in 1..n : old.cart[i] = p
    BY <1>1, <1>2, <1>4, <2>1, <2>2 DEF Relies
  <2>3. CASE \A i \in 1..n : old.cart[i] # p
    <3>1. UnitsOf(p, old.cart, n) = 0
      BY <1>2, <2>3, UnitsNone
    <3> QED
      BY <1>4, <2>1, <3>1
  <2> QED
    BY <2>2, <2>3
<1>6. /\ call' \in [Clients -> Calls] /\ call'[c] = Idle
      /\ \A d \in Clients \ {c} : call'[d] = call[d]
  BY <1>3, IdleFacts DEF ShopInv, ShopTypeOK
<1>7. ShopTypeOK'
  <2>1. lastId + 1 \in 1..MaxOrders
    BY <1>3, ShopAssumption DEF ShopInv, ShopTypeOK
  <2>2. new \in Ledger!Orders
    BY <1>1, <1>2, <2>1, CallFacts, ShopAssumption DEF Ledger!Orders
  <2> HIDE DEF new
  <2>3. orders' \subseteq Ledger!Orders
    BY <1>3, <2>2 DEF ShopInv, ShopTypeOK
  <2>4. stock' \in [Products -> Nat]
    BY <1>3, <1>5
  <2> QED
    BY <1>3, <1>6, <2>1, <2>3, <2>4, ShopAssumption DEF ShopInv, ShopTypeOK
<1>8. ASSUME NEW d \in Clients \ {c}
      PROVE  Relies(call[d])'
  <2>1. call[d] \in Calls /\ Relies(call[d]) /\ call'[d] = call[d]
    BY <1>6 DEF ShopInv, ShopTypeOK
  <2>2. ASSUME call[d].open, NEW i \in 1..Len(call[d].paid)
        PROVE  stock'[call[d].cart[i]] = stock[call[d].cart[i]]
    <3>1. call[d].cart[i] \in Products
      <4>1. Len(call[d].paid) <= Len(call[d].cart) /\ Len(call[d].paid) \in Nat
        BY <2>1, CallFacts DEF ShopInv, Shape
      <4>2. call[d].cart \in Carts
        BY <2>1, CallFacts
      <4> QED
        BY <4>1, <4>2, CartItems
    <3>2. \A j \in 1..n : old.cart[j] # call[d].cart[i]
      BY <1>1, <2>2 DEF ShopInv, Exclusive
    <3> QED
      BY <1>5, <3>1, <3>2
  <2> QED
    BY <1>3, <2>1, <2>2 DEF Relies, Live, TakenOf, UnitsOf, Ledger!UnitsOf
<1>9. Relies(call[c])' /\ \A d \in Clients : Shape(call[d])'
  BY <1>6, IdleFacts DEF Relies, Shape, ShopInv, Idle
<1>10. Exclusive'
  BY <1>6, IdleFacts DEF ShopInv, Exclusive
<1>11. RefsKept'
  <2>1. Live(new.user)
    BY <1>2
  <2>2. \A i \in DOMAIN new.cart : Live(new.cart[i])
    BY <1>1, <1>2, CartItems DEF Relies
  <2> HIDE DEF new
  <2> QED
    BY <1>3, <2>1, <2>2 DEF ShopInv, RefsKept, Live
<1> QED
  BY <1>7, <1>8, <1>9, <1>10, <1>11 DEF ShopInv

-----------------------------------------------------------------------------
(* Steps of the other handlers *)

\* The tables move while the requests stay, and no row that one of them has
\* locked is concerned.
LEMMA TablesMove ==
  ASSUME ShopInv, UNCHANGED call, ShopTypeOK', RefsKept',
         \A p \in Products : Unlocked(p) \/ (/\ row'[p] = row[p] /\ price'[p] = price[p]
                                            /\ stock'[p] = stock[p]),
         \A u \in Users : UserPinned(u) => row'[u] = row[u]
  PROVE  ShopInv'
<1>1. ASSUME NEW c \in Clients
      PROVE  Shape(call[c])' /\ Relies(call[c])'
  <2> PICK h : h = call[c]
    OBVIOUS
  <2>1. h \in Calls /\ Shape(h) /\ Relies(h) /\ call'[c] = h
    BY DEF ShopInv, ShopTypeOK
  <2>2. h.cart \in Carts /\ Len(h.paid) \in Nat /\ Len(h.paid) <= Len(h.cart) /\ h.user \in Users
    BY <2>1, CallFacts DEF Shape
  <2>3. ASSUME h.open, NEW i \in 1..Len(h.paid)
        PROVE  LET p == h.cart[i] IN
               row'[p] = row[p] /\ price'[p] = price[p] /\ stock'[p] = stock[p]
    <3>1. h.cart[i] \in Products
      BY <2>2, CartItems
    <3>2. ~Unlocked(h.cart[i])
      BY <2>3 DEF Unlocked, Holds, Locked
    <3> QED
      BY <3>1, <3>2
  <2>4. h.phase = "commit" => row'[h.user] = row[h.user]
    BY <2>1, <2>2 DEF Shape, UserPinned
  <2>5. Relies(h)'
    BY <2>1, <2>3, <2>4 DEF Relies, Live, TakenOf, UnitsOf, Ledger!UnitsOf
  <2> QED
    BY <2>1, <2>5 DEF Shape, Relies, Live, TakenOf, UnitsOf, Ledger!UnitsOf
<1>2. Exclusive'
  BY DEF ShopInv, Exclusive
<1> QED
  BY <1>1, <1>2 DEF ShopInv

LEMMA HeldRowsLive ==
  ASSUME ShopInv, NEW p \in Products, ~Live(p)
  PROVE  Unlocked(p)
  BY DEF ShopInv, Relies, Unlocked, Holds, Locked

\* The units of SetProduct and friends are stock, and the rows stay rows.
LEMMA BackOfficeKeeps == ShopInv /\ BackOffice => ShopInv'
<1> SUFFICES ASSUME ShopInv, BackOffice
             PROVE  ShopInv'
  OBVIOUS
<1>0. ShopTypeOK /\ RefsKept
  BY DEF ShopInv
<1>a. \A units \in 0..MaxStock : units \in Nat
  BY ShopAssumption
<1>b. ASSUME NEW o \in orders
      PROVE  /\ o.user \in Users /\ \A i \in DOMAIN o.cart : o.cart[i] \in Products
             /\ o.id \in 1..MaxOrders /\ o.cart \in Carts /\ o.paid \in Seq(Prices)
  BY <1>0, CartItems DEF ShopTypeOK, Ledger!Orders
<1>1. ASSUME NEW p \in Products, NEW cost \in Prices, NEW units \in 0..MaxStock,
             CreateProduct(p, cost, units)
      PROVE  ShopInv'
  <2>1. /\ row[p] = "new" /\ row' = [row EXCEPT ![p] = "live"]
        /\ price' = [price EXCEPT ![p] = cost] /\ stock' = [stock EXCEPT ![p] = units]
        /\ UNCHANGED <<orders, lastId, call>>
    BY <1>1 DEF CreateProduct, Ledger!SetProduct
  <2>2. ShopTypeOK' /\ RefsKept'
    BY <1>0, <1>a, <2>1 DEF ShopTypeOK, RefsKept, Live
  <2>3. Unlocked(p) /\ \A u \in Users : row'[u] = row[u]
    BY <1>0, <2>1, HeldRowsLive, ShopAssumption DEF Live, ShopTypeOK
  <2> QED
    BY <1>0, <2>1, <2>2, <2>3, TablesMove DEF ShopTypeOK
<1>2. ASSUME NEW p \in Products, NEW cost \in Prices, NEW units \in 0..MaxStock,
             UpdateProduct(p, cost, units)
      PROVE  ShopInv'
  <2>1. /\ Unlocked(p) /\ UNCHANGED <<row, orders, lastId, call>>
        /\ price' = [price EXCEPT ![p] = cost] /\ stock' = [stock EXCEPT ![p] = units]
    BY <1>2 DEF UpdateProduct
  <2>2. ShopTypeOK' /\ RefsKept'
    BY <1>0, <1>a, <2>1 DEF ShopTypeOK, RefsKept, Live
  <2> QED
    BY <1>0, <2>1, <2>2, TablesMove DEF ShopTypeOK
<1>3. ASSUME NEW p \in Products, DeleteProduct(p)
      PROVE  ShopInv'
  <2>1. /\ Unlocked(p) /\ row' = [row EXCEPT ![p] = "gone"]
        /\ price' = [price EXCEPT ![p] = 0] /\ stock' = [stock EXCEPT ![p] = 0]
        /\ \A o \in orders : \A i \in DOMAIN o.cart : o.cart[i] # p
        /\ UNCHANGED <<orders, lastId, call>>
    BY <1>3 DEF DeleteProduct
  <2>2. ShopTypeOK'
    BY <1>0, <2>1, ShopAssumption DEF ShopTypeOK
  <2>3. \A u \in Users : row'[u] = row[u]
    BY <1>0, <2>1, ShopAssumption DEF ShopTypeOK
  <2>4. RefsKept'
    BY <1>0, <1>b, <2>1, <2>3 DEF ShopTypeOK, RefsKept, Live
  <2> QED
    BY <1>0, <2>1, <2>2, <2>3, <2>4, TablesMove DEF ShopTypeOK
<1>4. ASSUME NEW u \in Users, CreateUser(u)
      PROVE  ShopInv'
  <2>1. /\ row[u] = "new" /\ row' = [row EXCEPT ![u] = "live"]
        /\ UNCHANGED <<price, stock, orders, lastId, call>>
    BY <1>4 DEF CreateUser, Ledger!AddUser
  <2>2. ShopTypeOK' /\ RefsKept'
    BY <1>0, <2>1 DEF ShopTypeOK, RefsKept, Live
  <2>3. ~UserPinned(u)
    BY <2>1 DEF UserPinned, ShopInv, Relies, Live
  <2> QED
    BY <1>0, <2>1, <2>2, <2>3, TablesMove, ShopAssumption DEF ShopTypeOK
<1>5. ASSUME NEW u \in Users, DeleteUser(u)
      PROVE  ShopInv'
  <2>1. /\ ~UserPinned(u) /\ row' = [row EXCEPT ![u] = "gone"]
        /\ orders' = {o \in orders : o.user # u}
        /\ UNCHANGED <<price, stock, lastId, call>>
    BY <1>5 DEF DeleteUser
  <2>2. ShopTypeOK'
    BY <1>0, <2>1 DEF ShopTypeOK
  <2>3. RefsKept'
    BY <1>0, <1>b, <2>1, ShopAssumption DEF ShopTypeOK, RefsKept, Live
  <2> QED
    BY <1>0, <2>1, <2>2, <2>3, TablesMove, ShopAssumption DEF ShopTypeOK
<1>6. ASSUME NEW id \in 1..MaxOrders, NEW s \in Statuses, UpdateStatus(id, s)
      PROVE  ShopInv'
  <2> DEFINE F(o) == IF o.id = id THEN [o EXCEPT !.status = s] ELSE o
  <2>1. orders' = {F(o) : o \in orders} /\ UNCHANGED <<row, price, stock, lastId, call>>
    BY <1>6 DEF UpdateStatus
  <2>2. ASSUME NEW o \in orders
        PROVE  F(o) \in Ledger!Orders /\ F(o).user = o.user /\ F(o).cart = o.cart
    BY <1>0 DEF ShopTypeOK, Ledger!Orders
  <2> HIDE DEF F
  <2>3. ShopTypeOK'
    BY <1>0, <2>1, <2>2 DEF ShopTypeOK
  <2>4. RefsKept'
    BY <1>0, <2>1, <2>2 DEF RefsKept, Live
  <2> QED
    BY <2>1, <2>3, <2>4, TablesMove
<1>7. ASSUME NEW id \in 1..MaxOrders, DeleteOrder(id)
      PROVE  ShopInv'
  <2>1. orders' \subseteq orders /\ UNCHANGED <<row, price, stock, lastId, call>>
    BY <1>7 DEF DeleteOrder
  <2>2. ShopTypeOK' /\ RefsKept'
    BY <1>0, <2>1 DEF ShopTypeOK, RefsKept, Live
  <2> QED
    BY <2>1, <2>2, TablesMove
<1> QED
  BY <1>1, <1>2, <1>3, <1>4, <1>5, <1>6, <1>7 DEF BackOffice

LEMMA CrashKeeps == ShopInv /\ Crash => ShopInv'
<1> SUFFICES ASSUME ShopInv, Crash
             PROVE  ShopInv'
  OBVIOUS
<1>1. UNCHANGED tables /\ \A c \in Clients : call'[c] = Idle
  BY DEF Crash
<1>2. ShopTypeOK'
  BY <1>1, IdleFacts DEF Crash, ShopInv, ShopTypeOK, tables
<1>3. \A c \in Clients : Shape(call[c])' /\ Relies(call[c])'
  BY <1>1, IdleFacts DEF Shape, Relies, Idle
<1>4. Exclusive' /\ RefsKept'
  BY <1>1, IdleFacts DEF ShopInv, Exclusive, RefsKept, tables, Live
<1> QED
  BY <1>2, <1>3, <1>4 DEF ShopInv

LEMMA ShopStep == ShopInv /\ [Next]_vars => ShopInv'
<1> SUFFICES ASSUME ShopInv, [Next]_vars
             PROVE  ShopInv'
  OBVIOUS
<1>1. CASE UNCHANGED vars
  <2>1. UNCHANGED <<row, price, stock, orders, lastId, call>>
    BY <1>1 DEF vars, tables
  <2>2. ShopTypeOK' /\ RefsKept'
    BY <2>1 DEF ShopInv, ShopTypeOK, RefsKept, Live
  <2> QED
    BY <2>1, <2>2, TablesMove
<1>2. ASSUME NEW c \in Clients, NEW u \in Users, NEW cart \in Carts, Request(c, u, cart)
      PROVE  ShopInv'
  BY <1>2, RequestKeeps
<1>3. ASSUME NEW c \in Clients, SelectPrice(c) \/ AdjustStock(c) \/ InsertOrder(c) \/ Commit(c)
      PROVE  ShopInv'
  BY <1>3, SelectKeeps, AdjustKeeps, InsertKeeps, CommitKeeps
<1>4. ASSUME NEW c \in Clients, OutOfNumbers(c) \/ DeadlockAbort(c) \/ StatementFails(c)
      PROVE  ShopInv'
  BY <1>4, ReturnKeeps DEF OutOfNumbers, DeadlockAbort, StatementFails
<1>5. CASE BackOffice
  BY <1>5, BackOfficeKeeps
<1>6. CASE Crash
  BY <1>6, CrashKeeps
<1> QED
  BY <1>1, <1>2, <1>3, <1>4, <1>5, <1>6 DEF Next, Statement

LEMMA Invariant == Spec => []ShopInv
  BY ShopInit, ShopStep, PTL DEF Spec

-----------------------------------------------------------------------------
(* Theorems *)

\* Every variable of the shop keeps its type, and no stock falls below zero.
THEOREM TypeCorrect == Spec => []ShopTypeOK
  BY Invariant, PTL DEF ShopInv

\* What an open transaction has locked and read is still so.
THEOREM RowsStayHeld == Spec => []RowsHeld
<1>1. ShopInv => RowsHeld
  <2> SUFFICES ASSUME ShopInv, NEW c \in Clients, call[c].open, NEW i \in 1..Locked(c)
               PROVE  LET p == call[c].cart[i] IN
                      /\ Free(p, c) /\ Live(p)
                      /\ call[c].paid[i] = price[p]
                      /\ UnitsOf(p, call[c].cart, Taken(c)) <= stock[p]
    BY DEF RowsHeld
  <2>1. i \in 1..Len(call[c].paid) /\ Taken(c) = TakenOf(call[c])
    BY DEF Locked, Taken, TakenOf
  <2>2. Free(call[c].cart[i], c)
    BY <2>1, OwnRowsFree
  <2> QED
    BY <2>1, <2>2 DEF ShopInv, Relies
<1> QED
  BY Invariant, <1>1, PTL

\* An order's user and products exist.
THEOREM ReferencesHold == Spec => []RefsKept
  BY Invariant, PTL DEF ShopInv

-----------------------------------------------------------------------------
(* The refinement *)

LEMMA CommitPlaces ==
  ASSUME ShopInv, NEW c \in Clients, Commit(c)
  PROVE  Ledger!Place(call[c].user, call[c].cart)
<1> DEFINE old == call[c]
           n == Len(old.cart)
<1>1. old \in Calls /\ Shape(old) /\ Relies(old) /\ old.phase = "commit" /\ old.open
  BY DEF ShopInv, ShopTypeOK, Commit, Shape
<1>2. /\ old.cart \in Carts /\ old.paid \in Seq(Prices) /\ Len(old.paid) = n
      /\ n \in Nat /\ DOMAIN old.cart = 1..n /\ DOMAIN old.paid = 1..n
      /\ Taken(c) = n /\ TakenOf(old) = n
  BY <1>1, CallFacts, CartItems DEF Shape, Taken, TakenOf
<1>3. /\ \A i \in 1..n : Live(old.cart[i]) /\ old.paid[i] = price[old.cart[i]]
      /\ \A i \in 1..n : UnitsOf(old.cart[i], old.cart, n) <= stock[old.cart[i]]
      /\ Live(old.user)
  BY <1>1, <1>2 DEF Relies
<1>4. ASSUME NEW p \in Products
      PROVE  UnitsOf(p, old.cart, n) <= stock[p]
  <2>1. CASE \E i \in 1..n : old.cart[i] = p
    BY <1>3, <2>1
  <2>2. CASE \A i \in 1..n : old.cart[i] # p
    <3>1. UnitsOf(p, old.cart, n) = 0 /\ stock[p] \in Nat
      BY <1>2, <2>2, UnitsNone DEF ShopInv, ShopTypeOK
    <3> QED
      BY <3>1
  <2> QED
    BY <2>1, <2>2
<1>5. old.paid = [i \in DOMAIN old.cart |-> price[old.cart[i]]]
  <2>1. old.paid \in [1..n -> Prices]
    BY <1>2, LenProperties
  <2> QED
    BY <1>2, <1>3, <2>1
<1>6. /\ lastId' = lastId + 1 /\ lastId < MaxOrders
      /\ orders' = orders \cup {[id |-> lastId + 1, user |-> old.user, cart |-> old.cart,
                                  paid |-> old.paid, status |-> "pending"]}
      /\ stock' = [p \in Products |-> stock[p] - UnitsOf(p, old.cart, n)]
      /\ UNCHANGED <<row, price>>
  BY <1>2 DEF Commit, StockSeen
<1> QED
  BY <1>2, <1>3, <1>4, <1>5, <1>6 DEF Ledger!Place, Ledger!Live, Live, UnitsOf

LEMMA BackOfficeMoves == ShopInv /\ BackOffice => Ledger!Next
<1> SUFFICES ASSUME ShopInv, BackOffice
             PROVE  Ledger!Next
  OBVIOUS
<1>0. ShopTypeOK
  BY DEF ShopInv
<1>1. ASSUME NEW p \in Products, NEW cost \in Prices, NEW units \in 0..MaxStock,
             CreateProduct(p, cost, units) \/ UpdateProduct(p, cost, units)
      PROVE  Ledger!SetProduct(p, cost, units)
  BY <1>0, <1>1 DEF CreateProduct, UpdateProduct, Ledger!SetProduct, Live, ShopTypeOK
<1>2. ASSUME NEW p \in Products, DeleteProduct(p)
      PROVE  Ledger!RemoveProduct(p)
  BY <1>2 DEF DeleteProduct, Ledger!RemoveProduct, Ledger!Live, Live
<1>3. ASSUME NEW u \in Users, CreateUser(u) \/ DeleteUser(u)
      PROVE  Ledger!AddUser(u) \/ Ledger!RemoveUser(u)
  BY <1>3 DEF CreateUser, DeleteUser, Ledger!RemoveUser, Ledger!Live, Live
<1>4. ASSUME NEW id \in 1..MaxOrders, NEW s \in Statuses, UpdateStatus(id, s)
      PROVE  Ledger!SetStatus(id, s)
  BY <1>4 DEF UpdateStatus, Ledger!SetStatus
<1>5. ASSUME NEW id \in 1..MaxOrders, DeleteOrder(id)
      PROVE  Ledger!RemoveOrder(id)
  BY <1>5 DEF DeleteOrder, Ledger!RemoveOrder
<1> QED
  BY <1>1, <1>2, <1>3, <1>4, <1>5 DEF BackOffice, Ledger!Next

LEMMA StepMaps == ShopInv /\ [Next]_vars => [Ledger!Next]_(Ledger!vars)
<1> SUFFICES ASSUME ShopInv, [Next]_vars
             PROVE  Ledger!Next \/ UNCHANGED tables
  BY DEF Ledger!vars, tables
<1>1. ASSUME NEW c \in Clients, Commit(c)
      PROVE  Ledger!Next
  <2>1. call[c].user \in Users /\ call[c].cart \in Carts
    BY CallFacts DEF ShopInv, ShopTypeOK
  <2> QED
    BY <1>1, <2>1, CommitPlaces DEF Ledger!Next
<1>2. CASE BackOffice
  BY <1>2, BackOfficeMoves
<1>3. ASSUME NEW c \in Clients,
             SelectPrice(c) \/ AdjustStock(c) \/ InsertOrder(c) \/ OutOfNumbers(c)
             \/ DeadlockAbort(c) \/ StatementFails(c)
      PROVE  UNCHANGED tables
  BY <1>3 DEF SelectPrice, AdjustStock, InsertOrder, OutOfNumbers, DeadlockAbort, StatementFails
<1>4. ASSUME NEW c \in Clients, NEW u \in Users, NEW cart \in Carts, Request(c, u, cart)
      PROVE  UNCHANGED tables
  BY <1>4 DEF Request
<1>5. CASE Crash \/ UNCHANGED vars
  BY <1>5 DEF Crash, vars
<1> QED
  BY <1>1, <1>2, <1>3, <1>4, <1>5 DEF Next, Statement

\* go-crud's transactions, locks and failures implement the ledger: the
\* committed tables never show an order in part, unpaid for or uncovered.
THEOREM ImplementsLedger == Spec => LedgerKept
<1>1. Init => Ledger!Init
  BY DEF Init
<1> QED
  BY Invariant, <1>1, StepMaps, PTL DEF Spec, LedgerKept, Ledger!Spec
=============================================================================
