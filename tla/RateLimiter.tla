---------------------------- MODULE RateLimiter ----------------------------
(***************************************************************************)
(* The fixed-window rate limiter: several server processes, each with its  *)
(* own breaker, that count requests in one shared Postgres table.          *)
(*                                                                         *)
(*   middleware.RateLimit -> service.Check -> breaker + increment -> store *)
(*                                                                         *)
(* A request goes through the following values of pc[r]:                   *)
(*   new       the HTTP handler has not called Check yet                   *)
(*   calling   inside counter.Increment, waiting for the database          *)
(*   backoff   inside opts.Sleep, between two attempts                     *)
(*   done      answered; verdict[r] says how                               *)
(*                                                                         *)
(* A statement the service gave up on is not recalled: it stays in stmts   *)
(* and the database may still commit it.  One that rolls back unheard is    *)
(* one that stays there for ever.                                          *)
(***************************************************************************)
EXTENDS Integers, FiniteSets, Functions, LimiterBreaker

CONSTANTS
    Requests,        \* one-shot HTTP requests
    Servers,         \* server processes
    Keys,            \* API keys
    NoKey,           \* a request without the X-API-Key header
    Host,            \* Host[r]: the server that gets request r
    KeyOf,           \* KeyOf[r]: the X-API-Key of request r
    Limit,           \* rule.Limit
    TicksPerSecond,  \* resolution of the clock
    Window,          \* rule.Window, in ticks
    MaxAttempts,     \* Options.MaxAttempts
    FailOpen,        \* Options.FailOpen
    MaxClock         \* bound: the last tick of a behaviour

\* What config.validate and the request routing guarantee.
ASSUME LimiterAssumption ==
    /\ IsFiniteSet(Requests)
    /\ NoKey \notin Keys
    /\ Host \in [Requests -> Servers]
    /\ KeyOf \in [Requests -> Keys \cup {NoKey}]
    /\ Limit \in Nat \ {0}
    /\ TicksPerSecond \in Nat \ {0}
    /\ Window \in Nat /\ Window >= TicksPerSecond
    /\ MaxAttempts \in Nat \ {0}
    /\ FailOpen \in BOOLEAN
    /\ MaxClock \in Nat

VARIABLES
    clock,     \* wall clock, read by the servers and by the database
    brk,       \* brk[s]: the breaker of server s
    pc,        \* pc[r]: where request r stands
    attempt,   \* attempt[r]: number of the current attempt, 0 before the first
    gone,      \* gone[r]: the client hung up, r's context is done
    reply,     \* reply[r]: what the current attempt has heard
    verdict,   \* verdict[r]: how r was answered
    probe,     \* probe[r]: the breaker let r through as a probe (history)
    stmts,     \* statements the database is still working on
    rows       \* rows[k][w]: request_count of key k in the window from w

vars == <<clock, brk, pc, attempt, gone, reply, verdict, probe, stmts, rows>>

Times == 0 .. MaxClock
Attempts == 1 .. MaxAttempts
Statements == [req : Requests, att : Attempts, sent : Times]

\* What one attempt can come back with.  "lost": deadline or dropped
\* connection; "transient": an SQLSTATE that retryable() lists; "fatal": any
\* other database error.
ReplyKinds == {"none", "ok", "lost", "transient", "fatal"}
Replies == [kind : ReplyKinds, count : Nat, now : Times]
NoReply == [kind |-> "none", count |-> 0, now |-> 0]

Verdicts == {"none", "unauthorized", "allowed", "denied", "degraded",
             "unavailable", "cancelled"}

-----------------------------------------------------------------------------
(* Pure window arithmetic: internal/limiter and the SQL expression.        *)

\* floor(epoch / window) * window
WindowStart(t) == (t \div Window) * Window

\* Mutant: the count is taken for the number of earlier requests.
AllowedOffByOne(count) == count <= Limit + 1

\* Decision.Allowed
Allowed(count) == count <= Limit

\* Decision.RetryAfter of a denied request
RetryAfter(now) ==
    LET left == WindowStart(now) + Window - now
    IN IF left > 0 THEN left ELSE 0

\* Mutant: the header rounds down.
RetryAfterHeaderFloor(now) ==
    LET secs == RetryAfter(now) \div TicksPerSecond
    IN IF secs > 1 THEN secs ELSE 1

\* The Retry-After header: whole seconds, rounded up, at least one.
RetryAfterHeader(now) ==
    LET secs == (RetryAfter(now) + TicksPerSecond - 1) \div TicksPerSecond
    IN IF secs > 1 THEN secs ELSE 1

-----------------------------------------------------------------------------
Init ==
    /\ clock = 0
    /\ brk = [s \in Servers |-> NewBreaker]
    /\ pc = [r \in Requests |-> "new"]
    /\ attempt = [r \in Requests |-> 0]
    /\ gone = [r \in Requests |-> FALSE]
    /\ reply = [r \in Requests |-> NoReply]
    /\ verdict = [r \in Requests |-> "none"]
    /\ probe = [r \in Requests |-> FALSE]
    /\ stmts = {}
    /\ rows = [k \in Keys |-> [w \in Times |-> 0]]

\* Mutant: every error counts as an outage.
RetryableAnyError(kind) == kind # "ok"

\* retryable()
Retryable(kind) == kind \in {"lost", "transient"}

\* degrade(): let it through uncounted, or answer 503.
DegradedVerdict == IF FailOpen THEN "degraded" ELSE "unavailable"

Answer(r, v) ==
    /\ pc' = [pc EXCEPT ![r] = "done"]
    /\ verdict' = [verdict EXCEPT ![r] = v]

\* counter.Increment sends the upsert; a context that is done already sends
\* nothing.
SendIncrement(r, n) ==
    /\ pc' = [pc EXCEPT ![r] = "calling"]
    /\ attempt' = [attempt EXCEPT ![r] = n]
    /\ reply' = [reply EXCEPT ![r] = NoReply]
    /\ stmts' = IF gone[r] THEN stmts
                ELSE stmts \cup {[req |-> r, att |-> n, sent |-> clock]}

\* The middleware refuses a request without an API key.
Refuse(r) ==
    /\ pc[r] = "new"
    /\ KeyOf[r] = NoKey
    /\ Answer(r, "unauthorized")
    /\ UNCHANGED <<clock, brk, attempt, gone, reply, probe, stmts, rows>>

\* Check: the breaker lets the request through and the first attempt starts.
Admit(r) ==
    /\ pc[r] = "new"
    /\ KeyOf[r] # NoKey
    /\ Allows(brk[Host[r]], clock)
    /\ brk' = [brk EXCEPT ![Host[r]] = AfterAllow(@)]
    /\ probe' = [probe EXCEPT ![r] = AdmitsAsProbe(brk[Host[r]])]
    /\ SendIncrement(r, 1)
    /\ UNCHANGED <<clock, gone, verdict, rows>>

\* Check: the breaker refuses, the failure policy answers at once.
FailFast(r) ==
    /\ pc[r] = "new"
    /\ KeyOf[r] # NoKey
    /\ ~Allows(brk[Host[r]], clock)
    /\ Answer(r, DegradedVerdict)
    /\ UNCHANGED <<clock, brk, attempt, gone, reply, probe, stmts, rows>>

InFlight(r) == pc[r] \in {"calling", "backoff"}

\* The client closes the connection while Check is working on its request.
\* A request whose client is gone before Check is one whose statement, sent in
\* Admit, never commits.
HangUp(r) ==
    /\ InFlight(r)
    /\ ~gone[r]
    /\ gone' = [gone EXCEPT ![r] = TRUE]
    /\ UNCHANGED <<clock, brk, pc, attempt, reply, verdict, probe, stmts, rows>>

\* increment tries again after this reply.
TriesAgain(r, kind) ==
    Retryable(kind) /\ ~gone[r] /\ attempt[r] < MaxAttempts

\* Check's switch on the result of increment, one disjunct per case.
Settle(r, kind) ==
    LET s == Host[r] IN
    \/ /\ kind = "ok"
       /\ brk' = [brk EXCEPT ![s] = AfterSuccess(@)]
       /\ Answer(r, IF Allowed(reply[r].count) THEN "allowed" ELSE "denied")
    \/ /\ kind # "ok" /\ gone[r]
       /\ brk' = [brk EXCEPT ![s] = AfterRelease(@)]
       /\ Answer(r, "cancelled")
    \/ /\ kind # "ok" /\ ~gone[r] /\ Retryable(kind)
       /\ brk' = [brk EXCEPT ![s] = AfterFailure(@, clock)]
       /\ Answer(r, DegradedVerdict)
    \/ /\ kind # "ok" /\ ~gone[r] /\ ~Retryable(kind)
       /\ brk' = [brk EXCEPT ![s] = AfterSuccess(@)]
       /\ Answer(r, DegradedVerdict)

\* Request st.req is still waiting for statement st.
Awaits(st) ==
    /\ pc[st.req] = "calling"
    /\ attempt[st.req] = st.att

\* What increment and Check do with an attempt that came back.  The service
\* reads nothing shared between the return of increment and the switch.
EndAttempt(r, kind) ==
    \/ /\ TriesAgain(r, kind)
       /\ pc' = [pc EXCEPT ![r] = "backoff"]
       /\ UNCHANGED <<brk, verdict>>
    \/ /\ ~TriesAgain(r, kind)
       /\ Settle(r, kind)

\* The count reaches the service.
Receive(r) ==
    /\ pc[r] = "calling"
    /\ reply[r].kind = "ok"
    /\ EndAttempt(r, "ok")
    /\ UNCHANGED <<clock, attempt, gone, reply, probe, stmts, rows>>

\* The statement of the current attempt rolls back and its error reaches the
\* service.
Fail(r, kind) ==
    \E st \in stmts :
        /\ st.req = r /\ Awaits(st)
        /\ stmts' = stmts \ {st}
        /\ reply' = [reply EXCEPT ![r] = [NoReply EXCEPT !.kind = kind]]
        /\ EndAttempt(r, kind)
        /\ UNCHANGED <<clock, attempt, gone, probe, rows>>

\* Mutant: no context.WithTimeout around the attempt.
GiveUpOnCancelOnly(r) ==
    /\ pc[r] = "calling"
    /\ gone[r]
    /\ reply' = [reply EXCEPT ![r] = [NoReply EXCEPT !.kind = "lost"]]
    /\ EndAttempt(r, "lost")
    /\ UNCHANGED <<clock, attempt, gone, probe, stmts, rows>>

\* The attempt ends without the database's answer: CallTimeout, a dropped
\* connection, or the client's context is done.  An answer on its way is lost.
GiveUp(r) ==
    /\ pc[r] = "calling"
    /\ reply' = [reply EXCEPT ![r] = [NoReply EXCEPT !.kind = "lost"]]
    /\ EndAttempt(r, "lost")
    /\ UNCHANGED <<clock, attempt, gone, probe, stmts, rows>>

\* The backoff timer fires: the next attempt of increment.
Retry(r) ==
    /\ pc[r] = "backoff"
    /\ SendIncrement(r, attempt[r] + 1)
    /\ UNCHANGED <<clock, brk, gone, verdict, probe, rows>>

\* sleepCtx returns early because the client is gone.
SleepCut(r) ==
    /\ pc[r] = "backoff"
    /\ gone[r]
    /\ Settle(r, reply[r].kind)
    /\ UNCHANGED <<clock, attempt, gone, reply, probe, stmts, rows>>

-----------------------------------------------------------------------------
(* The database and the clock.                                             *)

\* Mutant: the statement is sent to the database a second time.
CommitRunsAgain(st, now) ==
    /\ now \in st.sent .. clock
    /\ rows' = [rows EXCEPT ![KeyOf[st.req]][WindowStart(now)] = @ + 1]
    /\ UNCHANGED <<clock, brk, pc, attempt, gone, reply, verdict, probe, stmts>>

\* The upsert commits: insert with count 1 or add 1 under the row lock.  Its
\* now() is when it began, which the network and the lock put anywhere between
\* sending and commit.
Commit(st, now) ==
    LET k == KeyOf[st.req]
        w == WindowStart(now)
    IN
    /\ now \in st.sent .. clock
    /\ rows' = [rows EXCEPT ![k][w] = @ + 1]
    /\ reply' = IF Awaits(st)
                THEN [reply EXCEPT ![st.req] =
                        [kind |-> "ok", count |-> rows[k][w] + 1, now |-> now]]
                ELSE reply
    /\ stmts' = stmts \ {st}
    /\ UNCHANGED <<clock, brk, pc, attempt, gone, verdict, probe>>

Tick ==
    /\ clock < MaxClock
    /\ clock' = clock + 1
    /\ UNCHANGED <<brk, pc, attempt, gone, reply, verdict, probe, stmts, rows>>

Arrive(r) == Refuse(r) \/ Admit(r) \/ FailFast(r)

Handle(r) ==
    \/ Receive(r) \/ GiveUp(r) \/ Retry(r) \/ SleepCut(r)
    \/ \E kind \in {"transient", "fatal"} : Fail(r, kind)

Next ==
    \/ \E r \in Requests : Arrive(r) \/ Handle(r) \/ HangUp(r)
    \/ \E st \in stmts, now \in Times : Commit(st, now)
    \/ Tick

\* Every attempt has a deadline and every timer fires, so the handler of a
\* request never stops; clients, the database (Commit, Fail) and the clock
\* promise nothing.
Fairness ==
    \A r \in Requests :
        WF_vars(Receive(r) \/ GiveUp(r) \/ Retry(r) \/ SleepCut(r))

Spec == Init /\ [][Next]_vars /\ Fairness

-----------------------------------------------------------------------------
(* Properties.                                                             *)

\* Every variable keeps its type; in particular a breaker never remembers
\* Threshold failures, because the failure that reaches it trips and resets.
TypeOK ==
    /\ clock \in Times
    /\ brk \in [Servers -> Breakers]
    /\ pc \in [Requests -> {"new", "calling", "backoff", "done"}]
    /\ attempt \in [Requests -> 0 .. MaxAttempts]
    /\ gone \in [Requests -> BOOLEAN]
    /\ reply \in [Requests -> Replies]
    /\ verdict \in [Requests -> Verdicts]
    /\ probe \in [Requests -> BOOLEAN]
    /\ stmts \subseteq Statements
    /\ rows \in [Keys -> [Times -> Nat]]

\* Requests let through on the strength of a count of key k in the window
\* that starts at w.
Grants(k, w) ==
    {r \in Requests : /\ KeyOf[r] = k
                      /\ verdict[r] = "allowed"
                      /\ WindowStart(reply[r].now) = w}

\* Whatever attempts time out, commit late or are repeated, and however many
\* servers count at once, no window of a key grants more than its limit: a
\* retry can only over-count (service.go, comment of increment).
GrantsWithinLimit ==
    \A k \in Keys, w \in Times : Cardinality(Grants(k, w)) <= Limit

\* The price of fixed windows, and no more than that: in any stretch of one
\* window's length, wherever it starts, a key is granted at most 2 x limit.
BoundaryBurst ==
    \A k \in Keys, t \in Times :
        Cardinality({r \in Requests : /\ KeyOf[r] = k
                                      /\ verdict[r] = "allowed"
                                      /\ reply[r].now \in t .. t + Window - 1})
            <= 2 * Limit

\* A statement counts at most once and only for an attempt that was made, so
\* one request is counted at most MaxAttempts times however its attempts end.
CountsAreAttempts ==
    \A k \in Keys :
        LET mine == {r \in Requests : KeyOf[r] = k}
        IN SumFunction(rows[k]) + Cardinality({st \in stmts : st.req \in mine})
               <= SumFunctionOnSet(attempt, mine)

\* A denied client that waits for the number of seconds in its Retry-After
\* header never comes back inside the window that denied it (limiter.go,
\* comment of RetryAfterSeconds).
RetryAfterNotEarly ==
    \A r \in Requests : verdict[r] = "denied" =>
        LET back == reply[r].now + RetryAfterHeader(reply[r].now) * TicksPerSecond
        IN back >= WindowStart(reply[r].now) + Window

\* Requests of server s that used up their attempts on an ailing database
\* while their client was still waiting.
Outages(s) ==
    {r \in Requests : /\ Host[r] = s
                      /\ ~gone[r] /\ verdict[r] = DegradedVerdict
                      /\ reply[r].kind \in {"lost", "transient"}}

\* Clients that hang up and errors the database answers with never open the
\* circuit: it takes Threshold requests that failed for want of a database.
OpenNeedsOutage ==
    \A s \in Servers :
        brk[s].state # "closed" => Cardinality(Outages(s)) >= Threshold

\* Every true of Allow is followed by Success, Failure or Release: a half-open
\* breaker that waits for a probe has one on the way, so that it cannot refuse
\* everybody forever (breaker.go, comments of Allow and Release).
ProbeOnItsWay ==
    \A s \in Servers : brk[s].probing =>
        /\ brk[s].state = "halfOpen"
        /\ \E r \in Requests : /\ Host[r] = s
                               /\ probe[r]
                               /\ InFlight(r)

\* Every request that got past the breaker is answered, whatever the database
\* does: each wait in Check is bounded by a timer.
EveryRequestAnswered ==
    \A r \in Requests : pc[r] = "calling" ~> pc[r] = "done"
=============================================================================
