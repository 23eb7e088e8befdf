---------------------------- MODULE OrderService ----------------------------
(***************************************************************************)
(* Placing an order in 63_microservices: the gateway's calls of            *)
(* CreateOrder, the order service with its breaker, retries and            *)
(* idempotency map, and the user service that reserves credit.             *)
(*                                                                         *)
(*   gateway --CreateOrder--> orderservice --ValidateCredit--> userservice *)
(*                                                                         *)
(* A call c of CreateOrder goes through these values of pc[c]:             *)
(*   new       not received yet                                            *)
(*   checked   its idempotency key was not in the map                      *)
(*   calling   one attempt of ValidateCredit is outstanding                *)
(*   backoff   retry.Do waits before the next attempt                      *)
(*   decided   the order's status is settled, persist has not run yet      *)
(*   done      answered; answer[c] says how                                *)
(*                                                                         *)
(* An attempt the order service gave up on is not recalled: its message    *)
(* stays in rpcs and the user service may still execute it.                *)
(***************************************************************************)
EXTENDS Integers, Sequences, FiniteSets, Functions, PlatformBreaker

CONSTANTS
    Calls,        \* calls of CreateOrder, a client's repetitions included
    Keys,         \* idempotency keys; the gateway always sends one
    KeyOf,        \* KeyOf[c]: the key of call c
    Users,        \* users the user service knows
    UserOf,       \* UserOf[c]: the user of call c, known or not
    ActiveUsers,  \* users whose account is active
    CreditLimit,  \* CreditLimit[u]
    TotalOf,      \* TotalOf[c]: the total of the lines of call c, positive
    PendingCap,   \* largest total accepted unverified (10_000 in the code)
    MaxAttempts,  \* RetryPolicy.MaxAttempts
    MaxClock      \* bound: the last tick of a behaviour

ASSUME OrderAssumption ==
    /\ IsFiniteSet(Calls)
    /\ KeyOf \in [Calls -> Keys]
    /\ DOMAIN UserOf = Calls
    /\ ActiveUsers \subseteq Users
    /\ CreditLimit \in [Users -> Nat]
    /\ TotalOf \in [Calls -> Nat \ {0}]
    /\ PendingCap \in Nat
    /\ MaxAttempts \in Nat \ {0}
    /\ MaxClock \in Nat

VARIABLES
    clock,    \* wall clock of the order service
    brk,      \* the breaker "user-service"
    pc,       \* pc[c]: where call c stands
    ctx,      \* ctx[c]: live, or why the caller's context is done
    attempt,  \* attempt[c]: number of the current attempt
    inbox,    \* inbox[c]: the user service's answer on its way to the attempt
    plan,     \* plan[c]: the status persist will give the order
    answer,   \* answer[c]: the gRPC code and order that c returned
    rpcs,     \* ValidateCredit messages the user service has not executed
    spent,    \* spent[u]: credit the user service has reserved
    orders,   \* the orders, in the order of their ids
    idem,     \* idem[k]: id of the order of key k, 0 if none
    seen,     \* seen[c]: number of orders when c looked up its key (history)
    probe     \* probe[c]: the breaker let c through as a probe (history)

vars == <<clock, brk, pc, ctx, attempt, inbox, plan, answer, rpcs, spent,
          orders, idem, seen, probe>>

service == <<clock, brk, plan, answer, orders, idem, seen, probe>>

Statuses == {"PENDING", "CONFIRMED", "REJECTED"}
Orders == [key : Keys, call : Calls, total : Nat, status : Statuses]

\* What ValidateCredit answers when it gets to answer.
CreditVerdicts == {"Approved", "Declined", "NotFound", "FailedPrecondition"}

NoAnswer == [code |-> "none", order |-> 0]

AnswerCodes == {"none", "OK", "NotFound", "FailedPrecondition", "Unavailable",
                "DeadlineExceeded", "Canceled", "Internal"}

InFlight(c) == pc[c] \in {"calling", "backoff"}

Init ==
    /\ clock = 0
    /\ brk = NewBreaker
    /\ pc = [c \in Calls |-> "new"]
    /\ ctx = [c \in Calls |-> "live"]
    /\ attempt = [c \in Calls |-> 0]
    /\ inbox = [c \in Calls |-> "none"]
    /\ plan = [c \in Calls |-> "none"]
    /\ answer = [c \in Calls |-> NoAnswer]
    /\ rpcs = {}
    /\ spent = [u \in Users |-> 0]
    /\ orders = <<>>
    /\ idem = [k \in Keys |-> 0]
    /\ seen = [c \in Calls |-> 0]
    /\ probe = [c \in Calls |-> FALSE]

-----------------------------------------------------------------------------
(* CreateOrder.                                                            *)

Return(c, code, id) ==
    /\ pc' = [pc EXCEPT ![c] = "done"]
    /\ answer' = [answer EXCEPT ![c] = [code |-> code, order |-> id]]

\* The key is known: the call returns the order it names.
Replay(c) ==
    /\ pc[c] = "new"
    /\ idem[KeyOf[c]] # 0
    /\ Return(c, "OK", idem[KeyOf[c]])
    /\ UNCHANGED <<clock, brk, ctx, attempt, inbox, plan, rpcs, spent, orders,
                   idem, seen, probe>>

\* Mutant: the key is not looked up.
CheckKeyBlindly(c) ==
    /\ pc[c] = "new"
    /\ pc' = [pc EXCEPT ![c] = "checked"]
    /\ seen' = [seen EXCEPT ![c] = Len(orders)]
    /\ UNCHANGED <<clock, brk, ctx, attempt, inbox, plan, answer, rpcs, spent,
                   orders, idem, probe>>

\* The key is not known.  The read lock is released; nothing marks the key as
\* being worked on.
CheckKey(c) ==
    /\ pc[c] = "new"
    /\ idem[KeyOf[c]] = 0
    /\ pc' = [pc EXCEPT ![c] = "checked"]
    /\ seen' = [seen EXCEPT ![c] = Len(orders)]
    /\ UNCHANGED <<clock, brk, ctx, attempt, inbox, plan, answer, rpcs, spent,
                   orders, idem, probe>>

\* One attempt: the message goes out unless the context is done already.
SendAttempt(c, n) ==
    /\ pc' = [pc EXCEPT ![c] = "calling"]
    /\ attempt' = [attempt EXCEPT ![c] = n]
    /\ inbox' = [inbox EXCEPT ![c] = "none"]
    /\ rpcs' = IF ctx[c] = "live" THEN rpcs \cup {[call |-> c, att |-> n]} ELSE rpcs

\* breaker.Do: allow() agrees and the first attempt starts.
Allow(c) ==
    /\ pc[c] = "checked"
    /\ Allows(brk, clock)
    /\ brk' = AfterAllow(brk)
    /\ probe' = [probe EXCEPT ![c] = brk.state # "Closed"]
    /\ SendAttempt(c, 1)
    /\ UNCHANGED <<clock, ctx, plan, answer, spent, orders, idem, seen>>

\* Mutant: degraded mode forgets the cap.
DegradeAny(c) ==
    /\ pc' = [pc EXCEPT ![c] = "decided"]
    /\ plan' = [plan EXCEPT ![c] = "PENDING"]
    /\ UNCHANGED answer

\* Degraded mode: the dependency is down, the amount decides.
Degrade(c) ==
    \/ /\ TotalOf[c] <= PendingCap
       /\ pc' = [pc EXCEPT ![c] = "decided"]
       /\ plan' = [plan EXCEPT ![c] = "PENDING"]
       /\ UNCHANGED answer
    \/ /\ TotalOf[c] > PendingCap
       /\ Return(c, "Unavailable", 0)
       /\ UNCHANGED plan

\* breaker.Do: the circuit is open.
FailFast(c) ==
    /\ pc[c] = "checked"
    /\ ~Allows(brk, clock)
    /\ Degrade(c)
    /\ UNCHANGED <<clock, brk, ctx, attempt, inbox, rpcs, spent, orders, idem,
                   seen, probe>>

Decide(c, status) ==
    /\ pc' = [pc EXCEPT ![c] = "decided"]
    /\ plan' = [plan EXCEPT ![c] = status]
    /\ UNCHANGED answer

\* What CreateOrder makes of the credit check: an order to persist, or the
\* code it preserves, or Internal.
Conclude(c, code) ==
    \/ code = "Approved" /\ Decide(c, "CONFIRMED")
    \/ code = "Declined" /\ Decide(c, "REJECTED")
    \/ code = "Unavailable" /\ Degrade(c)
    \/ /\ code \in {"NotFound", "FailedPrecondition", "DeadlineExceeded", "Canceled"}
       /\ Return(c, code, 0)
       /\ UNCHANGED plan
    \/ /\ code \in {"CutByDeadline", "CutByCancel"}
       /\ Return(c, "Internal", 0)
       /\ UNCHANGED plan

\* fn has returned to breaker.Do.
Settle(c, code) ==
    /\ brk' = AfterDo(brk, code, clock)
    /\ Conclude(c, code)
    /\ UNCHANGED <<clock, orders, idem, seen, probe>>

\* retry.Do looks at the outcome of an attempt.
EndAttempt(c, code) ==
    \/ /\ Retryable(code) /\ attempt[c] < MaxAttempts
       /\ pc' = [pc EXCEPT ![c] = "backoff"]
       /\ UNCHANGED service
    \/ /\ ~(Retryable(code) /\ attempt[c] < MaxAttempts)
       /\ Settle(c, code)

\* The user service's answer arrives.
Receive(c) ==
    /\ pc[c] = "calling"
    /\ inbox[c] # "none"
    /\ EndAttempt(c, inbox[c])
    /\ UNCHANGED <<ctx, attempt, inbox, rpcs, spent>>

\* Mutant: no context.WithTimeout around the attempt.
LoseAttemptOnCancel(c) ==
    /\ pc[c] = "calling"
    /\ ctx[c] # "live"
    /\ inbox' = [inbox EXCEPT ![c] = "none"]
    /\ EndAttempt(c, IF ctx[c] = "expired" THEN "DeadlineExceeded" ELSE "Canceled")
    /\ UNCHANGED <<ctx, attempt, rpcs, spent>>

\* The attempt ends without a verdict: the user service refuses (chaos) or the
\* connection drops, the attempt's or the caller's deadline passes, or the
\* caller cancels.  The message may or may not be executed later.
LoseAttempt(c) ==
    /\ pc[c] = "calling"
    /\ inbox' = [inbox EXCEPT ![c] = "none"]
    /\ \/ EndAttempt(c, "Unavailable")
       \/ ctx[c] # "cancelled" /\ EndAttempt(c, "DeadlineExceeded")
       \/ ctx[c] = "cancelled" /\ EndAttempt(c, "Canceled")
    /\ UNCHANGED <<ctx, attempt, rpcs, spent>>

\* The backoff timer fires.
Retry(c) ==
    /\ pc[c] = "backoff"
    /\ SendAttempt(c, attempt[c] + 1)
    /\ UNCHANGED <<service, ctx, spent>>

\* The context ends first: retry.Do wraps the context's error.
CutBackoff(c) ==
    /\ pc[c] = "backoff"
    /\ \/ ctx[c] = "expired" /\ Settle(c, "CutByDeadline")
       \/ ctx[c] = "cancelled" /\ Settle(c, "CutByCancel")
    /\ UNCHANGED <<ctx, attempt, inbox, rpcs, spent>>

\* Mutant: the sequence number is taken before it is counted up.
PersistOldSeq(c) ==
    /\ pc[c] = "decided"
    /\ orders' = Append(orders, [key |-> KeyOf[c], call |-> c,
                                 total |-> TotalOf[c], status |-> plan[c]])
    /\ idem' = [idem EXCEPT ![KeyOf[c]] = Len(orders)]
    /\ Return(c, "OK", Len(orders))
    /\ UNCHANGED <<clock, brk, ctx, attempt, inbox, plan, rpcs, spent, seen,
                   probe>>

\* persist: under the lock, without looking at the key again.
Persist(c) ==
    LET id == Len(orders) + 1 IN
    /\ pc[c] = "decided"
    /\ orders' = Append(orders, [key |-> KeyOf[c], call |-> c,
                                 total |-> TotalOf[c], status |-> plan[c]])
    /\ idem' = [idem EXCEPT ![KeyOf[c]] = id]
    /\ Return(c, IF plan[c] = "REJECTED" THEN "FailedPrecondition" ELSE "OK", id)
    /\ UNCHANGED <<clock, brk, ctx, attempt, inbox, plan, rpcs, spent, seen,
                   probe>>

\* The gateway's deadline passes or its client disconnects.  Before the first
\* attempt this differs from ending right after it only in that the message is
\* certainly not executed; after the last one nobody looks at the context.
EndContext(c, why) ==
    /\ InFlight(c)
    /\ ctx[c] = "live"
    /\ ctx' = [ctx EXCEPT ![c] = why]
    /\ UNCHANGED <<service, pc, attempt, inbox, rpcs, spent>>

-----------------------------------------------------------------------------
(* The user service.                                                       *)

\* Mutant: what is reserved already is forgotten.
CreditVerdictForgetful(c) ==
    LET u == UserOf[c] IN
    IF u \notin Users THEN "NotFound"
    ELSE IF u \notin ActiveUsers THEN "FailedPrecondition"
    ELSE IF TotalOf[c] > CreditLimit[u] THEN "Declined"
    ELSE "Approved"

\* The answer of ValidateCredit, under the service's lock.
CreditVerdict(c) ==
    LET u == UserOf[c] IN
    IF u \notin Users THEN "NotFound"
    ELSE IF u \notin ActiveUsers THEN "FailedPrecondition"
    ELSE IF TotalOf[c] > CreditLimit[u] - spent[u] THEN "Declined"
    ELSE "Approved"

\* ValidateCredit executes; an approval reserves the amount.
ValidateCredit(m) ==
    LET code == CreditVerdict(m.call)
        u == UserOf[m.call]
    IN
    /\ spent' = IF code = "Approved"
                THEN [spent EXCEPT ![u] = @ + TotalOf[m.call]] ELSE spent
    /\ rpcs' = rpcs \ {m}
    /\ inbox' = IF pc[m.call] = "calling" /\ attempt[m.call] = m.att
                THEN [inbox EXCEPT ![m.call] = code] ELSE inbox
    /\ UNCHANGED <<service, pc, ctx, attempt>>

Tick ==
    /\ clock < MaxClock
    /\ clock' = clock + 1
    /\ UNCHANGED <<brk, pc, ctx, attempt, inbox, plan, answer, rpcs, spent,
                   orders, idem, seen, probe>>

\* The steps of a handler that is running.
Handle(c) ==
    \/ Allow(c) \/ FailFast(c) \/ Receive(c) \/ LoseAttempt(c)
    \/ Retry(c) \/ CutBackoff(c) \/ Persist(c)

Next ==
    \/ \E c \in Calls : Replay(c) \/ CheckKey(c) \/ Handle(c)
    \/ \E c \in Calls, why \in {"expired", "cancelled"} : EndContext(c, why)
    \/ \E m \in rpcs : ValidateCredit(m)
    \/ Tick

\* A handler that runs goes on: every attempt has a deadline and every backoff
\* a timer.  Callers, the user service and the clock promise nothing.
Fairness == \A c \in Calls : WF_vars(Handle(c))

Spec == Init /\ [][Next]_vars /\ Fairness

-----------------------------------------------------------------------------
(* Properties.                                                             *)

\* Every variable keeps its type; a closed breaker is below its threshold.
TypeOK ==
    /\ clock \in 0 .. MaxClock
    /\ brk \in Breakers
    /\ brk.state = "Closed" => brk.failures < Threshold
    /\ pc \in [Calls -> {"new", "checked", "calling", "backoff", "decided", "done"}]
    /\ ctx \in [Calls -> {"live", "expired", "cancelled"}]
    /\ attempt \in [Calls -> 0 .. MaxAttempts]
    /\ inbox \in [Calls -> CreditVerdicts \cup {"none"}]
    /\ plan \in [Calls -> Statuses \cup {"none"}]
    /\ answer \in [Calls -> [code : AnswerCodes, order : Nat]]
    /\ rpcs \subseteq [call : Calls, att : 1 .. MaxAttempts]
    /\ spent \in [Users -> Nat]
    /\ orders \in Seq(Orders)
    /\ idem \in [Keys -> Nat]
    /\ seen \in [Calls -> Nat]
    /\ probe \in [Calls -> BOOLEAN]

\* A call that looks up its key once the key's order exists never makes a
\* second one, however the calls that made orders interleaved: two orders of
\* one key mean that the second call had looked before the first order was
\* there (service.go, comments of idem and of the idempotency check).
DuplicatesOverlap ==
    \A i, j \in 1 .. Len(orders) :
        i < j /\ orders[i].key = orders[j].key => seen[orders[j].call] < i

\* A call makes at most one order, and what it returns as its order is an
\* order of its own key: its own, or the one it replays.
AnswerIsOwnOrder ==
    /\ \A i, j \in 1 .. Len(orders) : orders[i].call = orders[j].call => i = j
    /\ \A c \in Calls : answer[c].order # 0 =>
           /\ answer[c].order <= Len(orders)
           /\ orders[answer[c].order].key = KeyOf[c]

OrdersOf(u, status) ==
    {i \in 1 .. Len(orders) : /\ orders[i].status = status
                              /\ UserOf[orders[i].call] = u}

\* Across the two services: the confirmed orders of a user are covered by
\* credit the user service has reserved, and that never exceeds the limit,
\* whichever answers are lost, late or asked for twice.
ConfirmedCovered ==
    \A u \in Users :
        /\ SumFunctionOnSet([i \in 1 .. Len(orders) |-> orders[i].total],
                            OrdersOf(u, "CONFIRMED")) <= spent[u]
        /\ spent[u] <= CreditLimit[u]

\* An order accepted without a credit check is a small one, and a user the
\* user service does not know or has disabled gets no order but such a one.
UnverifiedOrdersSmall ==
    \A i \in 1 .. Len(orders) :
        \/ UserOf[orders[i].call] \in ActiveUsers /\ orders[i].status # "PENDING"
        \/ orders[i].status = "PENDING" /\ orders[i].total <= PendingCap

\* A half-open breaker that refuses callers has a probe on its way that will
\* free the slot, so it cannot refuse everybody forever.
ProbeOnItsWay ==
    brk.probeInFlight =>
        /\ brk.state = "HalfOpen"
        /\ \E c \in Calls : probe[c] /\ InFlight(c)

\* A call whose handler runs is answered, whatever the user service does.
EveryCallAnswered == \A c \in Calls : pc[c] = "checked" ~> pc[c] = "done"

\* A re-sent CreateOrder returns the same order instead of making a second
\* one (service.go, comment of idem).
OneOrderPerKey ==
    \A i, j \in 1 .. Len(orders) : orders[i].key = orders[j].key => i = j

\* A retry cannot double-charge (cmd/demo/main.go, step 7): the credit reserved
\* for a user is never more than the calls for that user ask for.
ChargedOnce ==
    \A u \in Users :
        spent[u] <= SumFunctionOnSet(TotalOf, {c \in Calls : UserOf[c] = u})

\* The circuit closes when a probe succeeded (resilience.go, state machine):
\* only in a step in which an answer of the user service reaches a call.
ClosesOnAnswer ==
    [][brk.state # "Closed" /\ brk'.state = "Closed" =>
         \E c \in Calls : pc[c] = "calling" /\ pc'[c] # "calling"
                          /\ inbox[c] # "none" /\ inbox'[c] = inbox[c]]_vars
=============================================================================
