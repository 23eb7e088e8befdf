----------------------------- MODULE Contention -----------------------------
(* Lessons 55 to 57: workers that contend for locks.  "ordered" takes two   *)
(* mutexes in one order, "polite" tries a spin lock a bounded number of     *)
(* times, "backoff" tries it for ever after random pauses, "ticket" passes  *)
(* a single ticket round through a buffered channel until it is told to     *)
(* stop, and "greedy" locks a mutex in a tight loop until then.             *)
EXTENDS Naturals, FiniteSets

CONSTANTS
    Workers,
    MaxAttempts     \* tries of a polite worker (200 in the lesson)

\* What the constants have to be.
ContentionAssumption == MaxAttempts \in Nat \ {0} /\ IsFiniteSet(Workers)

VARIABLES
    policy,
    holder,     \* who has each lock (the spin lock and the ticket are lock 1)
    pc,
    attempts,   \* failed tries of a polite worker
    wins,       \* workers that had the lock at least once
    stop        \* the stop channel is closed

vars == <<policy, holder, pc, attempts, wins, stop>>

Policies == {"ordered", "polite", "backoff", "ticket", "greedy"}

Init ==
    /\ policy \in Policies
    /\ holder = [l \in {1, 2} |-> {}]
    /\ pc = [w \in Workers |-> "try"]
    /\ attempts = [w \in Workers |-> 0]
    /\ wins = {} /\ stop = FALSE

Goes(w, from, to) == pc[w] = from /\ pc' = [pc EXCEPT ![w] = to]
Takes(w, l) == holder[l] = {} /\ holder' = [holder EXCEPT ![l] = {w}]
Leaves(w, l) == holder' = [holder EXCEPT ![l] = @ \ {w}]

\* Lesson 55: mu1 then mu2, and the reverse on the way out.
Ordered(w) ==
    /\ policy = "ordered"
    /\ \/ Goes(w, "try", "one") /\ Takes(w, 1) /\ UNCHANGED wins
       \/ Goes(w, "one", "in") /\ Takes(w, 2) /\ wins' = wins \cup {w}
       \/ Goes(w, "in", "out") /\ Leaves(w, 2) /\ UNCHANGED wins
       \/ Goes(w, "out", "done") /\ Leaves(w, 1) /\ UNCHANGED wins
    /\ UNCHANGED <<policy, attempts, stop>>

\* Lesson 56, tryLock: a compare-and-swap that may find the lock taken.
TryLock(w) ==
    /\ policy \in {"polite", "backoff"} /\ pc[w] = "try"
    /\ IF holder[1] = {}
       THEN Takes(w, 1) /\ Goes(w, "try", "in") /\ wins' = wins \cup {w} /\ UNCHANGED attempts
       ELSE /\ policy = "polite"
            /\ attempts' = [attempts EXCEPT ![w] = @ + 1]
            /\ pc' = [pc EXCEPT ![w] = IF attempts'[w] < MaxAttempts THEN "try" ELSE "gaveUp"]
            /\ UNCHANGED <<holder, wins>>
    /\ UNCHANGED <<policy, stop>>

\* A polite worker lets go at once, the other after its work.
Unlock(w) ==
    /\ policy \in {"polite", "backoff"} /\ Goes(w, "in", "done") /\ Leaves(w, 1)
    /\ UNCHANGED <<policy, attempts, wins, stop>>

\* Lesson 57: select takes the ticket or sees the stop, either if both are ready.
TakeTicket(w) ==
    /\ policy = "ticket" /\ Goes(w, "try", "in") /\ Takes(w, 1) /\ wins' = wins \cup {w}
    /\ UNCHANGED <<policy, attempts, stop>>

\* The greedy loop looks at stop first, then waits for the mutex.
LockGreedily(w) ==
    /\ policy = "greedy" /\ attempts' = attempts /\ UNCHANGED <<policy, stop>>
    /\ \/ ~stop /\ Goes(w, "try", "waiting") /\ UNCHANGED <<holder, wins>>
       \/ Goes(w, "waiting", "in") /\ Takes(w, 1) /\ wins' = wins \cup {w}

ReturnTicket(w) ==
    /\ policy \in {"ticket", "greedy"} /\ Goes(w, "in", "try") /\ Leaves(w, 1)
    /\ UNCHANGED <<policy, attempts, wins, stop>>

SeeStop(w) ==
    /\ policy \in {"ticket", "greedy"} /\ stop /\ Goes(w, "try", "done")
    /\ UNCHANGED <<policy, holder, attempts, wins, stop>>

\* main sleeps 50 ms and closes the channel.
Stop ==
    /\ policy \in {"ticket", "greedy"} /\ ~stop /\ stop' = TRUE
    /\ UNCHANGED <<policy, holder, pc, attempts, wins>>

Work(w) ==
    Ordered(w) \/ TryLock(w) \/ Unlock(w) \/ TakeTicket(w) \/ LockGreedily(w) \/ ReturnTicket(w)

Next == Stop \/ \E w \in Workers : Work(w) \/ SeeStop(w)

\* Every goroutine runs.  The select that has both a ticket and the stop to
\* choose from is random, so it sees the stop some time (strong fairness).
Spec ==
    /\ Init /\ [][Next]_vars /\ WF_vars(Stop)
    /\ \A w \in Workers : WF_vars(Work(w)) /\ SF_vars(SeeStop(w))

-----------------------------------------------------------------------------
(* Properties *)

ContentionTypeOK ==
    /\ policy \in Policies /\ stop \in BOOLEAN /\ wins \subseteq Workers
    /\ \A l \in {1, 2} : Cardinality(holder[l]) <= 1
    /\ attempts \in [Workers -> 0..MaxAttempts]

Over(w) == pc[w] \in {"done", "gaveUp"}

(***************************************************************************)
(* No deadlock, no livelock: every worker comes to an end and leaves the   *)
(* locks free, and gets in before it does, except a polite one that spends *)
(* its tries and one that is told to stop.                                 *)
(***************************************************************************)
EveryWorkerGetsOut ==
    <>(/\ \A w \in Workers : Over(w)
       /\ \A l \in {1, 2} : holder[l] = {}
       /\ policy \in {"ordered", "backoff"} => wins = Workers)
=============================================================================
