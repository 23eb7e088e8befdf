--------------------------- MODULE PlatformBreaker ---------------------------
(***************************************************************************)
(* The circuit breaker and the error classes of the microservices'         *)
(* platform package (63_microservices/internal/platform/resilience.go).    *)
(*                                                                         *)
(* Like the limiter's breaker it is a record whose methods, each atomic    *)
(* under the mutex, are operators.  It differs from that one where the     *)
(* code does: tripping keeps the failure count, a failure reported while   *)
(* open only counts, and Do decides what an error says about the           *)
(* dependency.                                                             *)
(***************************************************************************)
EXTENDS Naturals

CONSTANTS
    Threshold,   \* consecutive failures before opening
    Cooldown     \* how long to stay open, in clock ticks

ASSUME BreakerAssumption ==
    /\ Threshold \in Nat \ {0}
    /\ Cooldown \in Nat \ {0}

BreakerStates == {"Closed", "Open", "HalfOpen"}

Breakers ==
    [state : BreakerStates, failures : Nat, openedAt : Nat,
     probeInFlight : BOOLEAN]

NewBreaker ==
    [state |-> "Closed", failures |-> 0, openedAt |-> 0, probeInFlight |-> FALSE]

\* allow() returns no error.
Allows(b, now) ==
    \/ b.state = "Closed"
    \/ b.state = "Open" /\ now - b.openedAt >= Cooldown
    \/ b.state = "HalfOpen" /\ ~b.probeInFlight

\* The breaker after allow() returned no error.
AfterAllow(b) ==
    IF b.state = "Closed" THEN b
    ELSE [b EXCEPT !.state = "HalfOpen", !.probeInFlight = TRUE]

\* Mutant: release() forgets the slot of a cancelled probe.
ReleaseKeepsProbe(b) == b

AfterRelease(b) == [b EXCEPT !.probeInFlight = FALSE]

AfterSuccess(b) ==
    [b EXCEPT !.state = "Closed", !.failures = 0, !.probeInFlight = FALSE]

\* Mutant: the threshold is compared before the failure is counted.
FailureTripsLate(b, now) ==
    IF b.state = "HalfOpen" \/ (b.failures > Threshold /\ b.state = "Closed")
    THEN [b EXCEPT !.state = "Open", !.openedAt = now, !.probeInFlight = FALSE]
    ELSE [b EXCEPT !.failures = @ + 1, !.probeInFlight = FALSE]

AfterFailure(b, now) ==
    IF b.state = "HalfOpen"
    THEN [b EXCEPT !.state = "Open", !.openedAt = now, !.probeInFlight = FALSE]
    ELSE LET n == b.failures + 1
         IN IF n >= Threshold /\ b.state = "Closed"
            THEN [b EXCEPT !.state = "Open", !.failures = n, !.openedAt = now,
                           !.probeInFlight = FALSE]
            ELSE [b EXCEPT !.failures = n, !.probeInFlight = FALSE]

-----------------------------------------------------------------------------
(* Error classes.  "CutByDeadline" and "CutByCancel" are what retry.Do      *)
(* returns when the context ends during a backoff: the context's error is   *)
(* wrapped, so its gRPC code is Unknown.                                    *)

Retryable(code) == code \in {"Unavailable", "ResourceExhausted", "Aborted"}

\* errors.Is(err, context.Canceled): a gRPC status Canceled is not one.
CallerGaveUp(code) == code = "CutByCancel"

\* Do counts the error against the dependency.
SaysSick(code) == Retryable(code) \/ code \in {"DeadlineExceeded", "Internal"}

\* The bookkeeping of Do once fn has returned.
AfterDo(b, code, now) ==
    IF CallerGaveUp(code) THEN AfterRelease(b)
    ELSE IF SaysSick(code) THEN AfterFailure(b, now)
    ELSE AfterSuccess(b)
=============================================================================
