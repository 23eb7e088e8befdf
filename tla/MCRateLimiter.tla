--------------------------- MODULE MCRateLimiter ---------------------------
(* Instances of RateLimiter for TLC. *)
EXTENDS RateLimiter, TLC

CONSTANTS r1, r2, r3, r4, s1, s2, k1, none

\* One server, one key: everybody contends for one breaker and one counter.
OneHost == [r \in Requests |-> s1]
OneKey == [r \in Requests |-> k1]
Symm == Permutations(Requests)

\* Two servers count in the same row; one request has no key.
TwoHosts == [r \in Requests |-> IF r = r1 THEN s1 ELSE s2]
OneAnonymous == [r \in Requests |-> IF r = r3 THEN none ELSE k1]
=============================================================================
