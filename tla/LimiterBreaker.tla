--------------------------- MODULE LimiterBreaker ---------------------------
(***************************************************************************)
(* The circuit breaker in front of the rate limiter's database             *)
(* (system-design/fixed-window-counter/internal/service/breaker.go).       *)
(*                                                                         *)
(* Every method of the breaker runs under one mutex, so each is one atomic *)
(* step.  A breaker is a record and each method an operator that gives the *)
(* record after the call; RateLimiter.tla holds one breaker per server     *)
(* process and calls these operators from its actions.                     *)
(***************************************************************************)
EXTENDS Naturals

CONSTANTS
    Threshold,   \* Options.BreakerThreshold: failures in a row that trip it
    Cooldown     \* Options.BreakerCooldown, in clock ticks

ASSUME BreakerAssumption ==
    /\ Threshold \in Nat \ {0}
    /\ Cooldown \in Nat \ {0}

BreakerStates == {"closed", "open", "halfOpen"}

\* Fewer failures than the threshold are ever remembered: trip() clears them.
Breakers ==
    [state : BreakerStates, failures : 0 .. Threshold - 1,
     openedAt : Nat, probing : BOOLEAN]

NewBreaker ==
    [state |-> "closed", failures |-> 0, openedAt |-> 0, probing |-> FALSE]

Cooling(b, now) == b.state = "open" /\ now - b.openedAt < Cooldown

\* The answer of Allow().
Allows(b, now) ==
    \/ b.state = "closed"
    \/ b.state = "open" /\ ~Cooling(b, now)
    \/ b.state = "halfOpen" /\ ~b.probing

\* The breaker after Allow() answered true.
AfterAllow(b) ==
    IF b.state = "closed" THEN b
    ELSE [b EXCEPT !.state = "halfOpen", !.probing = TRUE]

\* Only a probe is let through any state but closed.
AdmitsAsProbe(b) == b.state # "closed"

AfterSuccess(b) ==
    [b EXCEPT !.state = "closed", !.failures = 0, !.probing = FALSE]

\* Mutant: trip() without "b.failures = 0".
TrippedKeepsCount(b, now) ==
    [b EXCEPT !.state = "open", !.failures = @ + 1, !.openedAt = now,
              !.probing = FALSE]

\* trip(); its callers have cleared probing.
Tripped(b, now) ==
    [b EXCEPT !.state = "open", !.failures = 0, !.openedAt = now,
              !.probing = FALSE]

AfterFailure(b, now) ==
    IF b.state = "halfOpen" \/ b.failures + 1 >= Threshold
    THEN Tripped(b, now)
    ELSE [b EXCEPT !.failures = @ + 1, !.probing = FALSE]

\* Mutant: a cancelled probe does not give its slot back.
ReleaseKeepsProbe(b) == b

AfterRelease(b) == [b EXCEPT !.probing = FALSE]
=============================================================================
