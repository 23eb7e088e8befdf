--------------------------- MODULE MCOrderService ---------------------------
(* Instances of OrderService for TLC. *)
EXTENDS OrderService, TLC

CONSTANTS c1, c2, c3, k1, k2, u1, u2, nobody

\* c1 and c2 are one order sent twice; c3 is a larger order of the same user.
SameKey == [c \in Calls |-> IF c = c3 THEN k2 ELSE k1]
OneUser == [c \in Calls |-> u1]
SmallTwice == [c \in Calls |-> IF c = c3 THEN 2 ELSE 1]
LargeFirst == [c \in Calls |-> IF c = c1 THEN 2 ELSE 1]

OneThenTwo == [c \in Calls |-> IF c = c1 THEN 1 ELSE 2]

\* c3 is for a user the user service does not know; c2 reuses the key of c1 for
\* a disabled one, which nothing stops a client from doing.
OtherUsers == [c \in Calls |-> IF c = c1 THEN u1 ELSE IF c = c2 THEN u2 ELSE nobody]

LimitTwo == [u \in Users |-> 2]
=============================================================================
