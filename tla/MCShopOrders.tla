--------------------------- MODULE MCShopOrders ---------------------------
(* Two requests over two products: carts that lock the rows in opposite    *)
(* orders, and one that has the same product twice.                        *)
EXTENDS ShopOrders, TLC

CONSTANTS ann, pen, ink, c1, c2

OneUser == {ann}
TwoProducts == {pen, ink}
TwoCarts == {<<pen, ink>>, <<ink, pen>>, <<ink, ink>>}
TwoClients == {c1, c2}
TwoPrices == {0, 1}
OneStatus == {"pending"}

\* The two requests are alike.
Symm == Permutations(TwoClients)
=============================================================================
