------------------------- MODULE RateLimiterProofs -------------------------
(***************************************************************************)
(* Proofs about RateLimiter, for every number of requests, servers, keys   *)
(* and attempts and every limit, window, threshold and cooldown.           *)
(*                                                                         *)
(* Layout: facts about the window arithmetic and the breaker's operators,  *)
(* type correctness, then one section per invariant: its inductive         *)
(* strengthening, and the theorem that it holds in every behaviour.        *)
(***************************************************************************)
EXTENDS RateLimiter, FiniteSetTheorems, Sums, TLAPS

-----------------------------------------------------------------------------
(* Window arithmetic.                                                      *)

\* A product with the window is monotonic in the other factor; the only
\* nonlinear fact the window arithmetic needs.
LEMMA WindowMonotonic ==
    ASSUME NEW a \in Int, NEW b \in Int, a <= b
    PROVE  a * Window <= b * Window
  BY LimiterAssumption

\* A window starts at or before each of its instants and is still open then.
LEMMA WindowContains ==
    ASSUME NEW t \in Nat
    PROVE  /\ WindowStart(t) \in Nat
           /\ WindowStart(t) <= t
           /\ t < WindowStart(t) + Window
  BY LimiterAssumption DEF WindowStart

\* The start of the window of an instant of the behaviour is such an instant.
LEMMA WindowStartInTimes ==
    ASSUME NEW t \in Times
    PROVE  WindowStart(t) \in Times
  BY WindowContains, LimiterAssumption DEF Times

-----------------------------------------------------------------------------
(* The breaker's methods keep the type of a breaker.                       *)

LEMMA BreakerTyped ==
    ASSUME NEW b \in Breakers, NEW now \in Nat
    PROVE  /\ AfterAllow(b) \in Breakers
           /\ AfterSuccess(b) \in Breakers
           /\ AfterRelease(b) \in Breakers
           /\ AfterFailure(b, now) \in Breakers
<1>0. 0 \in 0 .. Threshold - 1
  BY BreakerAssumption
<1> USE <1>0 DEF Breakers, BreakerStates
<1>1. AfterAllow(b) \in Breakers
  BY DEF AfterAllow
<1>2. AfterSuccess(b) \in Breakers
  BY DEF AfterSuccess
<1>3. AfterRelease(b) \in Breakers
  BY DEF AfterRelease
<1>4. AfterFailure(b, now) \in Breakers
  <2>1. CASE b.state = "halfOpen" \/ b.failures + 1 >= Threshold
    BY <2>1 DEF AfterFailure, Tripped
  <2>2. CASE ~(b.state = "halfOpen" \/ b.failures + 1 >= Threshold)
    <3>1. b.failures + 1 \in 0 .. Threshold - 1
      BY <2>2, BreakerAssumption
    <3>2. QED
      BY <2>2, <3>1 DEF AfterFailure
  <2>3. QED
    BY <2>1, <2>2
<1>5. QED
  BY <1>1, <1>2, <1>3, <1>4

-----------------------------------------------------------------------------
(* Type correctness.                                                       *)

\* What Check does with the end of an attempt, as far as types go.
LEMMA EndAttemptTyped ==
    ASSUME TypeOK, NEW r \in Requests, NEW kind \in ReplyKinds,
           EndAttempt(r, kind) \/ Settle(r, kind)
    PROVE  /\ brk' \in [Servers -> Breakers]
           /\ pc' \in [Requests -> {"new", "calling", "backoff", "done"}]
           /\ verdict' \in [Requests -> Verdicts]
<1>1. clock \in Nat /\ Host[r] \in Servers /\ brk[Host[r]] \in Breakers
  BY LimiterAssumption DEF TypeOK, Times
<1>2. CASE Settle(r, kind)
  <2>1. brk' \in [Servers -> Breakers]
    BY <1>1, <1>2, BreakerTyped DEF Settle, TypeOK
  <2>2. QED
    BY <1>2, <2>1 DEF Settle, Answer, DegradedVerdict, Verdicts, TypeOK
<1>3. CASE EndAttempt(r, kind)
  BY <1>2, <1>3 DEF EndAttempt, TypeOK
<1>4. QED
  BY <1>2, <1>3

\* TypeOK is not inductive: Retry counts attempt up, and Commit looks up the
\* row of its request's key.
TypeInv ==
    /\ TypeOK
    /\ \A r \in Requests : pc[r] = "backoff" => attempt[r] < MaxAttempts
    /\ \A r \in Requests : InFlight(r) => KeyOf[r] \in Keys
    /\ \A st \in stmts : KeyOf[st.req] \in Keys

LEMMA TypeInit == Init => TypeInv
<1> SUFFICES ASSUME Init
             PROVE  TypeInv
  OBVIOUS
<1> USE LimiterAssumption, BreakerAssumption DEF Init
<1>1. brk \in [Servers -> Breakers]
  BY DEF NewBreaker, Breakers, BreakerStates
<1>2. reply \in [Requests -> Replies]
  BY DEF NoReply, Replies, ReplyKinds, Times
<1>3. TypeOK
  BY <1>1, <1>2 DEF TypeOK, Times, Verdicts
<1>4. QED
  BY <1>3 DEF TypeInv, InFlight

LEMMA TypeStep == TypeInv /\ [Next]_vars => TypeOK'
<1> SUFFICES ASSUME TypeInv, [Next]_vars
             PROVE  TypeOK'
  OBVIOUS
<1>0. TypeOK
  BY DEF TypeInv
<1> USE <1>0, LimiterAssumption
<1>1. ASSUME NEW r \in Requests, Refuse(r)
      PROVE  TypeOK'
  BY <1>1 DEF Refuse, Answer, TypeOK, Verdicts
<1>2. ASSUME NEW r \in Requests, Admit(r)
      PROVE  TypeOK'
  <2>1. Host[r] \in Servers /\ clock \in Nat
    BY DEF TypeOK, Times
  <2>2. brk' \in [Servers -> Breakers]
    BY <1>2, <2>1, BreakerTyped DEF Admit, TypeOK
  <2>3. stmts' \subseteq Statements
    BY <1>2 DEF Admit, SendIncrement, TypeOK, Statements, Attempts
  <2>4. reply' \in [Requests -> Replies]
    BY <1>2 DEF Admit, SendIncrement, TypeOK, Replies, ReplyKinds, NoReply, Times
  <2>5. probe' \in [Requests -> BOOLEAN]
    BY <1>2 DEF Admit, AdmitsAsProbe, TypeOK
  <2>6. QED
    BY <1>2, <2>2, <2>3, <2>4, <2>5 DEF Admit, SendIncrement, TypeOK
<1>3. ASSUME NEW r \in Requests, FailFast(r)
      PROVE  TypeOK'
  BY <1>3 DEF FailFast, Answer, DegradedVerdict, TypeOK, Verdicts
<1>4. ASSUME NEW r \in Requests, Receive(r)
      PROVE  TypeOK'
  BY <1>4, EndAttemptTyped DEF Receive, TypeOK, ReplyKinds
<1>5. ASSUME NEW r \in Requests, GiveUp(r)
      PROVE  TypeOK'
  <2>1. reply' \in [Requests -> Replies]
    BY <1>5 DEF GiveUp, TypeOK, Replies, ReplyKinds, NoReply, Times
  <2>2. QED
    BY <1>5, <2>1, EndAttemptTyped DEF GiveUp, TypeOK, ReplyKinds
<1>6. ASSUME NEW r \in Requests, Retry(r)
      PROVE  TypeOK'
  <2>1. attempt[r] + 1 \in Attempts
    BY <1>6 DEF Retry, TypeInv, TypeOK, Attempts
  <2>2. stmts' \subseteq Statements
    BY <1>6, <2>1 DEF Retry, SendIncrement, TypeOK, Statements
  <2>3. reply' \in [Requests -> Replies]
    BY <1>6 DEF Retry, SendIncrement, TypeOK, Replies, ReplyKinds, NoReply, Times
  <2>4. attempt' \in [Requests -> 0 .. MaxAttempts]
    BY <1>6, <2>1 DEF Retry, SendIncrement, TypeOK, Attempts
  <2>5. QED
    BY <1>6, <2>2, <2>3, <2>4 DEF Retry, SendIncrement, TypeOK
<1>7. ASSUME NEW r \in Requests, SleepCut(r)
      PROVE  TypeOK'
  BY <1>7, EndAttemptTyped DEF SleepCut, TypeOK, Replies
<1>8. ASSUME NEW r \in Requests, NEW kind \in {"transient", "fatal"},
             Fail(r, kind)
      PROVE  TypeOK'
  <2>0. [NoReply EXCEPT !.kind = kind] \in Replies
    BY DEF NoReply, Replies, ReplyKinds, Times
  <2>1. reply' \in [Requests -> Replies]
    BY <1>8, <2>0 DEF Fail, TypeOK
  <2>2. QED
    BY <1>8, <2>1, EndAttemptTyped DEF Fail, TypeOK, ReplyKinds
<1>9. ASSUME NEW r \in Requests, HangUp(r)
      PROVE  TypeOK'
  BY <1>9 DEF HangUp, TypeOK
<1>10. ASSUME NEW st \in stmts, NEW now \in Times, Commit(st, now)
       PROVE  TypeOK'
  <2> DEFINE k == KeyOf[st.req]
             w == WindowStart(now)
  <2>1. /\ st.req \in Requests
        /\ k \in Keys /\ w \in Times
    BY <1>10, WindowStartInTimes DEF TypeInv, TypeOK, Statements
  <2>2. rows[k][w] + 1 \in Nat
    BY <2>1 DEF TypeOK
  <2>3. rows' \in [Keys -> [Times -> Nat]]
    BY <1>10, <2>1, <2>2 DEF Commit, TypeOK
  <2>4. reply' \in [Requests -> Replies]
    BY <1>10, <2>1, <2>2 DEF Commit, TypeOK, Replies, ReplyKinds
  <2>5. QED
    BY <1>10, <2>3, <2>4 DEF Commit, TypeOK
<1>11. CASE Tick
  BY <1>11 DEF Tick, TypeOK, Times
<1>12. CASE UNCHANGED vars
  BY <1>12 DEF vars, TypeOK
<1>13. QED
  BY <1>1, <1>2, <1>3, <1>4, <1>5, <1>6, <1>7, <1>8, <1>9, <1>10, <1>11, <1>12
     DEF Next, Arrive, Handle

\* Where the end of an attempt of r leaves r: waiting for another attempt
\* that it still has, or answered.
LEMMA EndAttemptMoves ==
    ASSUME TypeOK, NEW r \in Requests, NEW kind \in ReplyKinds,
           EndAttempt(r, kind) \/ Settle(r, kind)
    PROVE  \/ /\ pc' = [pc EXCEPT ![r] = "backoff"]
              /\ attempt[r] < MaxAttempts
              /\ kind # "ok"
              /\ UNCHANGED <<brk, verdict>>
           \/ /\ pc' = [pc EXCEPT ![r] = "done"]
              /\ Settle(r, kind)
  BY DEF EndAttempt, Settle, TriesAgain, Answer, Retryable

\* The steps of Handle as one: only the request's own entries move, and it is
\* in flight before.
LEMMA HandleMoves ==
    ASSUME TypeInv, NEW r \in Requests, Handle(r)
    PROVE  /\ InFlight(r)
           /\ \A q \in Requests \ {r} : /\ pc'[q] = pc[q]
                                        /\ attempt'[q] = attempt[q]
                                        /\ verdict'[q] = verdict[q]
                                        /\ reply'[q] = reply[q]
           /\ pc'[r] = "backoff" => attempt'[r] < MaxAttempts
           /\ UNCHANGED <<clock, gone, probe, rows>>
<1> USE DEF TypeInv, TypeOK, InFlight
<1>1. CASE Receive(r)
  BY <1>1, EndAttemptMoves DEF Receive, ReplyKinds, Settle, Answer
<1>2. CASE GiveUp(r)
  BY <1>2, EndAttemptMoves DEF GiveUp, ReplyKinds, Settle, Answer
<1>3. CASE Retry(r)
  BY <1>3 DEF Retry, SendIncrement
<1>4. CASE SleepCut(r)
  <2>1. reply[r].kind \in ReplyKinds
    BY DEF Replies
  <2>2. QED
    BY <1>4, <2>1 DEF SleepCut, Settle, Answer
<1>5. CASE \E kind \in {"transient", "fatal"} : Fail(r, kind)
  BY <1>5, EndAttemptMoves DEF Fail, Awaits, ReplyKinds, Settle, Answer
<1>6. QED
  BY <1>1, <1>2, <1>3, <1>4, <1>5 DEF Handle

LEMMA TypeInvStep == TypeInv /\ [Next]_vars => TypeInv'
<1> SUFFICES ASSUME TypeInv, [Next]_vars
             PROVE  TypeInv'
  OBVIOUS
<1>0. TypeOK /\ TypeOK'
  BY TypeStep DEF TypeInv
<1> USE <1>0, LimiterAssumption
<1>1. ASSUME NEW r \in Requests, Arrive(r)
      PROVE  TypeInv'
  <2>1. CASE Refuse(r)
    BY <1>1, <2>1 DEF Refuse, Answer, TypeInv, TypeOK, InFlight
  <2>2. CASE FailFast(r)
    BY <1>1, <2>2 DEF FailFast, Answer, TypeInv, TypeOK, InFlight
  <2>3. CASE Admit(r)
    <3>1. KeyOf[r] \in Keys
      BY <2>3 DEF Admit
    <3>2. QED
      BY <2>3, <3>1 DEF Admit, SendIncrement, TypeInv, TypeOK, InFlight
  <2>4. QED
    BY <1>1, <2>1, <2>2, <2>3 DEF Arrive
<1>2. ASSUME NEW r \in Requests, Handle(r)
      PROVE  TypeInv'
  <2>1. \A q \in Requests : InFlight(q)' => InFlight(q)
    BY <1>2, HandleMoves DEF InFlight
  <2>2. \A q \in Requests : pc'[q] = "backoff" => attempt'[q] < MaxAttempts
    BY <1>2, HandleMoves DEF TypeInv
  <2>3. \A st \in stmts' : KeyOf[st.req] \in Keys
    BY <1>2, HandleMoves
       DEF TypeInv, Handle, Receive, GiveUp, Retry, SendIncrement, SleepCut, Fail
  <2>4. QED
    BY <2>1, <2>2, <2>3 DEF TypeInv
<1>3. ASSUME NEW r \in Requests, HangUp(r)
      PROVE  TypeInv'
  BY <1>3 DEF HangUp, TypeInv, InFlight
<1>4. ASSUME NEW st \in stmts, NEW now \in Times, Commit(st, now)
      PROVE  TypeInv'
  BY <1>4 DEF Commit, TypeInv, InFlight
<1>5. CASE Tick
  BY <1>5 DEF Tick, TypeInv, InFlight
<1>6. CASE UNCHANGED vars
  BY <1>6 DEF vars, TypeInv, InFlight
<1>7. QED
  BY <1>1, <1>2, <1>3, <1>4, <1>5, <1>6 DEF Next

LEMMA TypeInvCorrect == Spec => []TypeInv
<1>1. Init => TypeInv
  BY TypeInit
<1>2. TypeInv /\ [Next]_vars => TypeInv'
  BY TypeInvStep
<1>3. QED
  BY <1>1, <1>2, PTL DEF Spec

\* Every variable of the limiter keeps its type, and no breaker ever remembers
\* Threshold failures.
THEOREM TypeCorrect == Spec => []TypeOK
<1>1. TypeInv => TypeOK
  BY DEF TypeInv
<1>2. QED
  BY <1>1, TypeInvCorrect, PTL

-----------------------------------------------------------------------------
(* No window grants more than the limit.                                   *)

\* Each count the service has heard is one the row has reached, and no two
\* requests have heard the same count of the same row; that is what one upsert
\* under the row lock gives, and a retry can only leave counts unused.
CountInv ==
    /\ \A r \in Requests : verdict[r] # "none" => pc[r] = "done"
    /\ \A r \in Requests :
           verdict[r] = "allowed" => reply[r].kind = "ok" /\ Allowed(reply[r].count)
    /\ \A r \in Requests : reply[r].kind = "ok" =>
           /\ KeyOf[r] \in Keys
           /\ reply[r].count \in 1 .. rows[KeyOf[r]][WindowStart(reply[r].now)]
    /\ \A q, r \in Requests :
           /\ q # r
           /\ reply[q].kind = "ok" /\ reply[r].kind = "ok"
           /\ KeyOf[q] = KeyOf[r]
           /\ WindowStart(reply[q].now) = WindowStart(reply[r].now)
           => reply[q].count # reply[r].count

LEMMA CountInit == Init => CountInv
  BY DEF Init, CountInv, NoReply

\* The steps that leave the rows alone: a request's reply is kept, or is no
\* longer a count, and "allowed" is only answered to a count within the limit.
LEMMA CountKept ==
    ASSUME TypeInv, CountInv, UNCHANGED rows, NEW r \in Requests,
           \A q \in Requests \ {r} : /\ pc'[q] = pc[q]
                                     /\ verdict'[q] = verdict[q]
                                     /\ reply'[q] = reply[q],
           reply'[r] = reply[r] \/ reply'[r].kind # "ok",
           verdict'[r] # "none" => pc'[r] = "done",
           verdict'[r] = "allowed" =>
               reply'[r].kind = "ok" /\ Allowed(reply'[r].count)
    PROVE  CountInv'
  BY DEF CountInv, Allowed

LEMMA CountStep == TypeInv /\ CountInv /\ [Next]_vars => CountInv'
<1> SUFFICES ASSUME TypeInv, CountInv, [Next]_vars
             PROVE  CountInv'
  OBVIOUS
<1>0. TypeOK
  BY DEF TypeInv
<1> USE <1>0
<1>1. ASSUME NEW r \in Requests, Arrive(r)
      PROVE  CountInv'
  <2>1. CASE Refuse(r)
    BY <2>1, CountKept DEF Refuse, Answer, TypeOK, CountInv
  <2>2. CASE FailFast(r)
    BY <2>2, CountKept DEF FailFast, Answer, DegradedVerdict, TypeOK, CountInv
  <2>3. CASE Admit(r)
    BY <2>3, CountKept DEF Admit, SendIncrement, NoReply, TypeOK, CountInv
  <2>4. QED
    BY <1>1, <2>1, <2>2, <2>3 DEF Arrive
<1>2. ASSUME NEW r \in Requests, Handle(r)
      PROVE  CountInv'
  <2>1. /\ InFlight(r)
        /\ \A q \in Requests \ {r} : /\ pc'[q] = pc[q]
                                     /\ verdict'[q] = verdict[q]
                                     /\ reply'[q] = reply[q]
        /\ UNCHANGED rows
    BY <1>2, HandleMoves
  <2>2. verdict[r] = "none"
    BY <2>1 DEF CountInv, InFlight
  <2>3. reply'[r] = reply[r] \/ reply'[r].kind # "ok"
    BY <1>2 DEF Handle, Receive, GiveUp, Retry, SendIncrement, SleepCut, Fail,
                NoReply, TypeOK
  <2>4. /\ verdict'[r] # "none" => pc'[r] = "done"
        /\ verdict'[r] = "allowed" =>
               reply'[r].kind = "ok" /\ Allowed(reply'[r].count)
    BY <1>2, <2>2
       DEF Handle, Receive, GiveUp, Retry, SendIncrement, SleepCut, Fail,
           EndAttempt, Settle, Answer, DegradedVerdict, NoReply, TypeOK
  <2>5. QED
    BY <2>1, <2>3, <2>4, CountKept
<1>3. ASSUME NEW r \in Requests, HangUp(r)
      PROVE  CountInv'
  BY <1>3 DEF HangUp, CountInv
<1>4. ASSUME NEW st \in stmts, NEW now \in Times, Commit(st, now)
      PROVE  CountInv'
  <2> DEFINE k == KeyOf[st.req]
             w == WindowStart(now)
  <2>1. /\ st.req \in Requests
        /\ k \in Keys /\ w \in Times
    BY <1>4, WindowStartInTimes DEF TypeInv, TypeOK, Statements
  <2>2. /\ rows[k][w] \in Nat
        /\ rows'[k][w] = rows[k][w] + 1
    BY <1>4, <2>1 DEF Commit, TypeOK
  <2>3. ASSUME NEW j \in Keys, NEW v \in Times
        PROVE  /\ rows[j][v] \in Nat /\ rows'[j][v] \in Nat
               /\ rows'[j][v] >= rows[j][v]
    BY <1>4, <2>1, <2>2 DEF Commit, TypeOK
  <2>4. CASE ~Awaits(st)
    <3>1. UNCHANGED <<pc, verdict, reply>>
      BY <1>4, <2>4 DEF Commit
    <3>2. ASSUME NEW r \in Requests, reply[r].kind = "ok"
          PROVE  /\ KeyOf[r] \in Keys
                 /\ reply[r].count \in 1 .. rows'[KeyOf[r]][WindowStart(reply[r].now)]
      <4> DEFINE j == KeyOf[r]
                 v == WindowStart(reply[r].now)
      <4>1. /\ j \in Keys /\ v \in Times
            /\ reply[r].count \in 1 .. rows[j][v]
        BY <3>2, WindowStartInTimes DEF CountInv, TypeOK, Replies
      <4>2. /\ rows[j][v] \in Nat /\ rows'[j][v] \in Nat
            /\ rows'[j][v] >= rows[j][v]
        BY <2>3, <4>1
      <4>3. QED
        BY <4>1, <4>2
    <3>3. QED
      BY <3>1, <3>2 DEF CountInv
  <2>5. CASE Awaits(st)
    <3>1. /\ verdict[st.req] = "none"
          /\ reply'[st.req].kind = "ok"
          /\ reply'[st.req].count = rows[k][w] + 1
          /\ reply'[st.req].now = now
          /\ \A q \in Requests \ {st.req} : reply'[q] = reply[q]
          /\ UNCHANGED <<pc, verdict>>
      BY <1>4, <2>1, <2>5 DEF Commit, Awaits, CountInv, TypeOK
    <3>2. ASSUME NEW r \in Requests, reply'[r].kind = "ok"
          PROVE  /\ KeyOf[r] \in Keys
                 /\ reply'[r].count
                        \in 1 .. rows'[KeyOf[r]][WindowStart(reply'[r].now)]
      <4>1. CASE r = st.req
        BY <2>1, <2>2, <3>1, <4>1
      <4>2. CASE r # st.req
        <5> DEFINE j == KeyOf[r]
                   v == WindowStart(reply[r].now)
        <5>1. /\ j \in Keys /\ v \in Times
              /\ reply[r].count \in 1 .. rows[j][v]
          BY <3>1, <3>2, <4>2, WindowStartInTimes DEF CountInv, TypeOK, Replies
        <5>2. /\ rows[j][v] \in Nat /\ rows'[j][v] \in Nat
              /\ rows'[j][v] >= rows[j][v]
          BY <2>3, <5>1
        <5>3. reply'[r].count \in 1 .. rows'[j][v]
          BY <3>1, <4>2, <5>1, <5>2
        <5>4. QED
          BY <3>1, <4>2, <5>1, <5>3
      <4>3. QED
        BY <4>1, <4>2
    <3>3. ASSUME NEW r \in Requests \ {st.req}, reply[r].kind = "ok",
                 KeyOf[r] = k, WindowStart(reply[r].now) = w
          PROVE  reply[r].count <= rows[k][w] /\ reply[r].count \in Nat
      BY <3>3 DEF CountInv, TypeOK, Replies
    <3>4. ASSUME NEW q \in Requests, NEW r \in Requests, q # r,
                 reply'[q].kind = "ok", reply'[r].kind = "ok",
                 KeyOf[q] = KeyOf[r],
                 WindowStart(reply'[q].now) = WindowStart(reply'[r].now)
          PROVE  reply'[q].count # reply'[r].count
      BY <2>1, <2>2, <3>1, <3>3, <3>4 DEF CountInv
    <3>5. QED
      BY <3>1, <3>2, <3>4 DEF CountInv
  <2>6. QED
    BY <2>4, <2>5
<1>5. CASE Tick
  BY <1>5 DEF Tick, CountInv
<1>6. CASE UNCHANGED vars
  BY <1>6 DEF vars, CountInv
<1>7. QED
  BY <1>1, <1>2, <1>3, <1>4, <1>5, <1>6 DEF Next

LEMMA CountInvCorrect == Spec => []CountInv
<1>1. Init => CountInv
  BY CountInit
<1>2. TypeInv /\ CountInv /\ [Next]_vars => CountInv'
  BY CountStep
<1>3. QED
  BY <1>1, <1>2, TypeInvCorrect, PTL DEF Spec

LEMMA GrantsBounded ==
    ASSUME TypeOK, CountInv, NEW k \in Keys, NEW w \in Times
    PROVE  IsFiniteSet(Grants(k, w)) /\ Cardinality(Grants(k, w)) <= Limit
<1> DEFINE G == Grants(k, w)
           f == [r \in G |-> reply[r].count]
<1>1. \A r \in G : f[r] \in 1 .. Limit
  BY LimiterAssumption, WindowStartInTimes
     DEF Grants, CountInv, Allowed, TypeOK, Replies
<1>2. \A q, r \in G : f[q] = f[r] => q = r
  BY DEF Grants, CountInv
<1>3. f \in Injection(G, 1 .. Limit)
  BY <1>1, <1>2, Zenon DEF Injection, IsInjective
<1>4. IsFiniteSet(1 .. Limit) /\ Cardinality(1 .. Limit) = Limit
  BY FS_Interval, LimiterAssumption
<1>5. QED
  BY <1>3, <1>4, FS_Injection

\* However attempts time out, are repeated or commit late, and however many
\* servers count at once, no window of a key grants more than the limit.
THEOREM LimitHolds == Spec => []GrantsWithinLimit
<1>1. TypeOK /\ CountInv => GrantsWithinLimit
  BY GrantsBounded DEF GrantsWithinLimit
<1>2. QED
  BY <1>1, TypeCorrect, CountInvCorrect, PTL

-----------------------------------------------------------------------------
(* A stretch of one window's length meets at most two windows.             *)

LEMMA TwoWindows ==
    ASSUME NEW t \in Nat, NEW u \in Nat, t <= u, u < t + Window
    PROVE  WindowStart(u) \in {WindowStart(t), WindowStart(t) + Window}
<1> DEFINE p == t \div Window
           q == u \div Window
<1>1. p \in Nat /\ q \in Nat
  BY LimiterAssumption
<1>2. /\ p * Window <= t /\ t < p * Window + Window
      /\ q * Window <= u /\ u < q * Window + Window
  BY LimiterAssumption
<1>3. /\ (p + 1) * Window = p * Window + Window
      /\ (p + 2) * Window = p * Window + 2 * Window
      /\ (q + 1) * Window = q * Window + Window
  BY <1>1, LimiterAssumption
<1>4. p <= q
  <2>1. ~(q + 1 <= p)
    BY <1>1, <1>2, <1>3, WindowMonotonic, LimiterAssumption
  <2>2. QED
    BY <1>1, <2>1
<1>5. q <= p + 1
  <2>1. ~(p + 2 <= q)
    BY <1>1, <1>2, <1>3, WindowMonotonic, LimiterAssumption
  <2>2. QED
    BY <1>1, <2>1
<1>6. q = p \/ q = p + 1
  BY <1>1, <1>4, <1>5
<1>7. QED
  BY <1>3, <1>6 DEF WindowStart

\* In any stretch of one window's length a key is granted at most twice its
\* limit: the burst at a window boundary is the whole price of the algorithm.
THEOREM BurstBounded == Spec => []BoundaryBurst
<1>1. ASSUME TypeOK, CountInv
      PROVE  BoundaryBurst
  <2> SUFFICES ASSUME NEW k \in Keys, NEW t \in Times
               PROVE  Cardinality({r \in Requests :
                          /\ KeyOf[r] = k
                          /\ verdict[r] = "allowed"
                          /\ reply[r].now \in t .. t + Window - 1}) <= 2 * Limit
    BY DEF BoundaryBurst
  <2> DEFINE B == {r \in Requests :
                       /\ KeyOf[r] = k
                       /\ verdict[r] = "allowed"
                       /\ reply[r].now \in t .. t + Window - 1}
             w == WindowStart(t)
             G == Grants(k, w)
             H == Grants(k, w + Window)
  <2>1. w \in Times /\ t \in Nat
    BY <1>1, WindowStartInTimes DEF Times
  <2>2. B \subseteq G \cup H
    <3> SUFFICES ASSUME NEW r \in B
                 PROVE  r \in G \cup H
      OBVIOUS
    <3>1. reply[r].now \in Nat /\ t <= reply[r].now /\ reply[r].now < t + Window
      BY <1>1, <2>1, LimiterAssumption DEF TypeOK, Replies, Times
    <3>2. WindowStart(reply[r].now) \in {w, w + Window}
      BY <2>1, <3>1, TwoWindows
    <3>3. QED
      BY <3>2 DEF Grants
  <2>3. IsFiniteSet(G) /\ Cardinality(G) <= Limit
    BY <1>1, <2>1, GrantsBounded
  <2>4. IsFiniteSet(H) /\ Cardinality(H) <= Limit
    <3>1. CASE w + Window \in Times
      BY <1>1, <3>1, GrantsBounded
    <3>2. CASE w + Window \notin Times
      <4>1. H = {}
        BY <1>1, <3>2, WindowStartInTimes DEF Grants, TypeOK, Replies
      <4>2. QED
        BY <4>1, FS_EmptySet, LimiterAssumption
    <3>3. QED
      BY <3>1, <3>2
  <2>5. /\ IsFiniteSet(G \cup H)
        /\ Cardinality(G \cup H) <= 2 * Limit
    <3>1. IsFiniteSet(G \cap H)
      BY <2>3, FS_Intersection
    <3>2. /\ Cardinality(G) \in Nat /\ Cardinality(H) \in Nat
          /\ Cardinality(G \cap H) \in Nat
      BY <2>3, <2>4, <3>1, FS_CardinalityType
    <3>3. /\ IsFiniteSet(G \cup H)
          /\ Cardinality(G \cup H) =
                 Cardinality(G) + Cardinality(H) - Cardinality(G \cap H)
      <4> HIDE DEF G, H
      <4>1. QED
        BY <2>3, <2>4, FS_Union
    <3>4. Limit \in Nat
      BY LimiterAssumption
    <3>5. QED
      <4> HIDE DEF G, H
      <4>1. QED
        BY <2>3, <2>4, <3>2, <3>3, <3>4
  <2>6. /\ IsFiniteSet(B)
        /\ Cardinality(B) <= Cardinality(G \cup H)
    BY <2>2, <2>5, FS_Subset
  <2>7. Cardinality(B) \in Nat /\ Cardinality(G \cup H) \in Nat
    BY <2>5, <2>6, FS_CardinalityType
  <2>8. QED
    BY <2>5, <2>6, <2>7, LimiterAssumption
<1>2. QED
  BY <1>1, TypeCorrect, CountInvCorrect, PTL

-----------------------------------------------------------------------------
(* The breaker.                                                            *)

\* A step of Handle either leaves the breakers alone, and r in flight, or
\* settles r on the breaker of its server.
LEMMA HandleBreaker ==
    ASSUME TypeInv, NEW r \in Requests, Handle(r)
    PROVE  \/ UNCHANGED <<brk, verdict>> /\ InFlight(r)'
           \/ \E kind \in ReplyKinds : /\ Settle(r, kind)
                                       /\ reply'[r].kind = kind
                                       /\ pc'[r] = "done"
<1> USE DEF TypeInv, TypeOK
<1>0. reply[r].kind \in ReplyKinds
  BY DEF Replies
<1>1. CASE Receive(r)
  BY <1>0, <1>1, EndAttemptMoves DEF Receive, InFlight
<1>2. CASE GiveUp(r)
  BY <1>2, EndAttemptMoves DEF GiveUp, ReplyKinds, InFlight, NoReply
<1>3. CASE Retry(r)
  BY <1>3 DEF Retry, SendIncrement, InFlight
<1>4. CASE SleepCut(r)
  BY <1>0, <1>4 DEF SleepCut, Settle, Answer
<1>5. CASE \E kind \in {"transient", "fatal"} : Fail(r, kind)
  BY <1>5, EndAttemptMoves DEF Fail, ReplyKinds, InFlight, NoReply
<1>6. QED
  BY <1>1, <1>2, <1>3, <1>4, <1>5 DEF Handle

\* Whatever a settled request reports to its breaker, the probe slot is free.
LEMMA SettleFreesProbe ==
    ASSUME TypeOK, NEW r \in Requests, NEW kind \in ReplyKinds, Settle(r, kind)
    PROVE  /\ brk'[Host[r]].probing = FALSE
           /\ \A s \in Servers \ {Host[r]} : brk'[s] = brk[s]
<1>1. Host[r] \in Servers /\ brk[Host[r]] \in Breakers
  BY LimiterAssumption DEF TypeOK
<1>2. /\ AfterSuccess(brk[Host[r]]).probing = FALSE
      /\ AfterRelease(brk[Host[r]]).probing = FALSE
      /\ AfterFailure(brk[Host[r]], clock).probing = FALSE
  BY <1>1 DEF AfterSuccess, AfterRelease, AfterFailure, Tripped, Breakers
<1>3. QED
  BY <1>1, <1>2 DEF Settle, TypeOK

LEMMA ProbeStep == TypeInv /\ ProbeOnItsWay /\ [Next]_vars => ProbeOnItsWay'
<1> SUFFICES ASSUME TypeInv, ProbeOnItsWay, [Next]_vars
             PROVE  ProbeOnItsWay'
  OBVIOUS
<1>0. TypeOK
  BY DEF TypeInv
<1> USE <1>0
<1>1. ASSUME NEW r \in Requests, Arrive(r)
      PROVE  ProbeOnItsWay'
  <2>1. CASE Refuse(r)
    BY <2>1 DEF Refuse, Answer, ProbeOnItsWay, InFlight, TypeOK
  <2>2. CASE FailFast(r)
    BY <2>2 DEF FailFast, Answer, ProbeOnItsWay, InFlight, TypeOK
  <2>3. CASE Admit(r)
    <3>1. /\ Host[r] \in Servers
          /\ brk[Host[r]] \in Breakers
          /\ brk'[Host[r]] = AfterAllow(brk[Host[r]])
          /\ \A s \in Servers \ {Host[r]} : brk'[s] = brk[s]
          /\ pc[r] = "new" /\ InFlight(r)'
          /\ probe'[r] = (brk[Host[r]].state # "closed")
          /\ \A q \in Requests \ {r} : probe'[q] = probe[q] /\ pc'[q] = pc[q]
      BY <2>3, LimiterAssumption
         DEF Admit, SendIncrement, AdmitsAsProbe, InFlight, TypeOK
    <3>2. ASSUME NEW s \in Servers, brk'[s].probing, brk'[s] = brk[s]
          PROVE  /\ brk'[s].state = "halfOpen"
                 /\ \E q \in Requests : Host[q] = s /\ probe'[q] /\ InFlight(q)'
      BY <3>1, <3>2 DEF ProbeOnItsWay, InFlight
    <3>3. ASSUME brk'[Host[r]] # brk[Host[r]]
          PROVE  brk'[Host[r]].state = "halfOpen" /\ probe'[r]
      BY <3>1, <3>3 DEF AfterAllow, Breakers
    <3>4. QED
      BY <3>1, <3>2, <3>3 DEF ProbeOnItsWay
  <2>4. QED
    BY <1>1, <2>1, <2>2, <2>3 DEF Arrive
<1>2. ASSUME NEW r \in Requests, Handle(r)
      PROVE  ProbeOnItsWay'
  <2>1. /\ \A q \in Requests \ {r} : pc'[q] = pc[q]
        /\ UNCHANGED probe
    BY <1>2, HandleMoves
  <2>2. CASE UNCHANGED <<brk, verdict>> /\ InFlight(r)'
    BY <2>1, <2>2 DEF ProbeOnItsWay, InFlight
  <2>3. CASE \E kind \in ReplyKinds : Settle(r, kind)
    <3>1. /\ brk'[Host[r]].probing = FALSE
          /\ \A s \in Servers \ {Host[r]} : brk'[s] = brk[s]
      BY <2>3, SettleFreesProbe
    <3>2. SUFFICES ASSUME NEW s \in Servers, brk'[s].probing
                   PROVE  /\ brk'[s].state = "halfOpen"
                          /\ \E q \in Requests :
                                Host[q] = s /\ probe'[q] /\ InFlight(q)'
      BY DEF ProbeOnItsWay
    <3>3. s # Host[r] /\ brk'[s] = brk[s]
      BY <3>1, <3>2
    <3>4. PICK q \in Requests : Host[q] = s /\ probe[q] /\ InFlight(q)
      BY <3>2, <3>3 DEF ProbeOnItsWay
    <3>5. q # r /\ InFlight(q)' /\ probe'[q]
      BY <2>1, <3>3, <3>4 DEF InFlight
    <3>6. QED
      BY <3>2, <3>3, <3>4, <3>5 DEF ProbeOnItsWay
  <2>4. QED
    BY <1>2, <2>2, <2>3, HandleBreaker
<1>3. ASSUME NEW r \in Requests, HangUp(r)
      PROVE  ProbeOnItsWay'
  BY <1>3 DEF HangUp, ProbeOnItsWay, InFlight
<1>4. ASSUME NEW st \in stmts, NEW now \in Times, Commit(st, now)
      PROVE  ProbeOnItsWay'
  BY <1>4 DEF Commit, ProbeOnItsWay, InFlight
<1>5. CASE Tick
  BY <1>5 DEF Tick, ProbeOnItsWay, InFlight
<1>6. CASE UNCHANGED vars
  BY <1>6 DEF vars, ProbeOnItsWay, InFlight
<1>7. QED
  BY <1>1, <1>2, <1>3, <1>4, <1>5, <1>6 DEF Next

\* A half-open breaker that refuses callers has a probe in flight that will
\* free it: no order of hang-ups, late answers and failures leaves it stuck.
THEOREM ProbeNeverStuck == Spec => []ProbeOnItsWay
<1>1. Init => ProbeOnItsWay
  BY DEF Init, ProbeOnItsWay, NewBreaker
<1>2. TypeInv /\ ProbeOnItsWay /\ [Next]_vars => ProbeOnItsWay'
  BY ProbeStep
<1>3. QED
  BY <1>1, <1>2, TypeInvCorrect, PTL DEF Spec

-----------------------------------------------------------------------------
(* The circuit opens only on outages.                                      *)

\* n outages account for breaker b.
Accounted(b, n) ==
    /\ b.failures <= n
    /\ b.state # "closed" => n >= Threshold

OutageInv == \A s \in Servers : Accounted(brk[s], Cardinality(Outages(s)))

LEMMA BreakerAccounted ==
    ASSUME NEW b \in Breakers, NEW now \in Nat, NEW n \in Nat, NEW m \in Nat,
           Accounted(b, n), n <= m
    PROVE  /\ Accounted(b, m)
           /\ Accounted(AfterAllow(b), m)
           /\ Accounted(AfterSuccess(b), m)
           /\ Accounted(AfterRelease(b), m)
           /\ n < m => Accounted(AfterFailure(b, now), m)
<1> USE BreakerAssumption DEF Accounted, Breakers
<1>1. Accounted(b, m) /\ Accounted(AfterRelease(b), m)
  BY DEF AfterRelease
<1>2. Accounted(AfterAllow(b), m)
  BY DEF AfterAllow
<1>3. Accounted(AfterSuccess(b), m)
  BY DEF AfterSuccess
<1>4. ASSUME n < m
      PROVE  Accounted(AfterFailure(b, now), m)
  BY <1>4 DEF AfterFailure, Tripped
<1>5. QED
  BY <1>1, <1>2, <1>3, <1>4

LEMMA OutagesFinite ==
    ASSUME NEW s
    PROVE  /\ IsFiniteSet(Outages(s)) /\ Cardinality(Outages(s)) \in Nat
           /\ IsFiniteSet(Outages(s)') /\ Cardinality(Outages(s)') \in Nat
  BY FS_Subset, FS_CardinalityType, LimiterAssumption DEF Outages

\* An outage on record stays on record.
LEMMA OutagesGrow ==
    ASSUME TypeInv, CountInv, [Next]_vars, NEW s
    PROVE  Outages(s) \subseteq Outages(s)'
<1> SUFFICES ASSUME NEW q \in Outages(s)
             PROVE  verdict'[q] = verdict[q] /\ reply'[q] = reply[q] /\ gone'[q] = gone[q]
  BY DEF Outages
<1>1. q \in Requests /\ pc[q] = "done"
  BY DEF Outages, CountInv, DegradedVerdict
<1> USE <1>1 DEF TypeInv, TypeOK
<1>2. ASSUME NEW r \in Requests, Arrive(r)
      PROVE  verdict'[q] = verdict[q] /\ reply'[q] = reply[q] /\ gone'[q] = gone[q]
  BY <1>2 DEF Arrive, Refuse, FailFast, Admit, Answer, SendIncrement
<1>3. ASSUME NEW r \in Requests, Handle(r)
      PROVE  verdict'[q] = verdict[q] /\ reply'[q] = reply[q] /\ gone'[q] = gone[q]
  BY <1>3, HandleMoves DEF InFlight
<1>4. ASSUME NEW st \in stmts, NEW now \in Times, Commit(st, now)
      PROVE  verdict'[q] = verdict[q] /\ reply'[q] = reply[q] /\ gone'[q] = gone[q]
  BY <1>4 DEF Commit, Awaits
<1>5. ASSUME NEW r \in Requests, HangUp(r)
      PROVE  verdict'[q] = verdict[q] /\ reply'[q] = reply[q] /\ gone'[q] = gone[q]
  BY <1>5 DEF HangUp, InFlight
<1>6. QED
  BY <1>2, <1>3, <1>4, <1>5 DEF Next, Tick, vars

LEMMA OutageStep == TypeInv /\ CountInv /\ OutageInv /\ [Next]_vars => OutageInv'
<1> SUFFICES ASSUME TypeInv, CountInv, OutageInv, [Next]_vars, NEW s \in Servers
             PROVE  Accounted(brk'[s], Cardinality(Outages(s)'))
  BY DEF OutageInv
<1> DEFINE n == Cardinality(Outages(s))
           m == Cardinality(Outages(s)')
<1>1. /\ n \in Nat /\ m \in Nat /\ n <= m
      /\ IsFiniteSet(Outages(s)) /\ IsFiniteSet(Outages(s)')
  BY OutagesFinite, OutagesGrow, FS_Subset
<1>2. /\ TypeOK
      /\ brk[s] \in Breakers /\ clock \in Nat
      /\ Accounted(brk[s], n)
  BY DEF TypeInv, TypeOK, OutageInv, Times
<1> HIDE DEF n, m
<1>3. CASE \/ brk'[s] = brk[s]
           \/ brk'[s] = AfterAllow(brk[s])
           \/ brk'[s] = AfterSuccess(brk[s])
           \/ brk'[s] = AfterRelease(brk[s])
  BY <1>1, <1>2, <1>3, BreakerAccounted DEF m
<1>4. CASE \E r \in Requests, kind \in ReplyKinds :
              /\ Handle(r) /\ Settle(r, kind) /\ reply'[r].kind = kind
              /\ Host[r] = s
              /\ kind # "ok" /\ ~gone[r] /\ Retryable(kind)
              /\ brk'[s] = AfterFailure(brk[s], clock)
  <2>1. PICK r \in Requests, kind \in ReplyKinds :
              /\ Handle(r) /\ Settle(r, kind) /\ reply'[r].kind = kind
              /\ Host[r] = s
              /\ kind # "ok" /\ ~gone[r] /\ Retryable(kind)
              /\ brk'[s] = AfterFailure(brk[s], clock)
    BY <1>4
  <2>2. r \notin Outages(s)
    BY <2>1, HandleMoves DEF CountInv, InFlight, Outages, DegradedVerdict
  <2>3. r \in Outages(s)'
    <3>1. ~gone'[r]
      BY <2>1, HandleMoves
    <3>2. QED
      BY <1>2, <2>1, <3>1 DEF Settle, Answer, Retryable, Outages, TypeOK
  <2>4. Outages(s) \cup {r} \subseteq Outages(s)'
    BY <2>3, OutagesGrow
  <2>5. n < m
    <3>1. Cardinality(Outages(s) \cup {r}) = n + 1
      BY <1>1, <2>2, FS_AddElement DEF n
    <3>2. Cardinality(Outages(s) \cup {r}) <= m
      BY <1>1, <2>4, FS_Subset DEF m
    <3>3. QED
      BY <1>1, <3>1, <3>2
  <2>6. QED
    BY <1>1, <1>2, <2>1, <2>5, BreakerAccounted DEF m
<1>5. ASSUME NEW r \in Requests, Arrive(r)
      PROVE  brk'[s] = brk[s] \/ brk'[s] = AfterAllow(brk[s])
  BY <1>2, <1>5, LimiterAssumption DEF Arrive, Refuse, FailFast, Admit, TypeOK
<1>6. ASSUME NEW r \in Requests, Handle(r), brk'[s] # brk[s]
      PROVE  \E kind \in ReplyKinds :
                /\ Settle(r, kind) /\ reply'[r].kind = kind
                /\ Host[r] = s
  BY <1>2, <1>6, HandleBreaker, LimiterAssumption DEF Settle, TypeOK
<1>7. ASSUME NEW r \in Requests, NEW kind \in ReplyKinds, Settle(r, kind),
             Host[r] = s
      PROVE  \/ brk'[s] = AfterSuccess(brk[s])
             \/ brk'[s] = AfterRelease(brk[s])
             \/ /\ kind # "ok" /\ ~gone[r] /\ Retryable(kind)
                /\ brk'[s] = AfterFailure(brk[s], clock)
  BY <1>2, <1>7 DEF Settle, TypeOK
<1>8. ASSUME \/ \E r \in Requests : HangUp(r)
             \/ \E st \in stmts, now \in Times : Commit(st, now)
             \/ Tick \/ UNCHANGED vars
      PROVE  brk' = brk
  BY <1>8 DEF HangUp, Commit, Tick, vars
<1>9. QED
  BY <1>3, <1>4, <1>5, <1>6, <1>7, <1>8 DEF Next

\* A circuit away from closed has seen at least Threshold requests use up
\* their attempts on an ailing database: clients that hang up, and errors the
\* database answers with, cannot open it.
THEOREM OutageOpens == Spec => []OpenNeedsOutage
<1>1. Init => OutageInv
  <2> SUFFICES ASSUME Init, NEW s \in Servers
               PROVE  Accounted(brk[s], Cardinality(Outages(s)))
    BY DEF OutageInv
  <2>1. Cardinality(Outages(s)) \in Nat
    BY OutagesFinite
  <2>2. QED
    BY <2>1 DEF Init, NewBreaker, Accounted
<1>2. TypeInv /\ CountInv /\ OutageInv /\ [Next]_vars => OutageInv'
  BY OutageStep
<1>3. OutageInv => OpenNeedsOutage
  BY DEF OutageInv, OpenNeedsOutage, Accounted
<1>4. QED
  BY <1>1, <1>2, <1>3, TypeInvCorrect, CountInvCorrect, PTL DEF Spec
-----------------------------------------------------------------------------
(* What the rows count.                                                    *)

\* The requests of key k, what the database has counted for them, and the
\* statements that may still be counted.
Mine(k) == {r \in Requests : KeyOf[r] = k}

Pending(k) == {st \in stmts : st.req \in Mine(k)}

\* CountsAreAttempts is inductive once a request that has not called Check is
\* known to have made no attempt.
AttemptInv ==
    /\ IsFiniteSet(stmts)
    /\ \A r \in Requests : pc[r] = "new" => attempt[r] = 0
    /\ \A k \in Keys : SumFunction(rows[k]) + Cardinality(Pending(k))
                           <= SumFunctionOnSet(attempt, Mine(k))

\* A finite set that gains at most one element.
LEMMA AtMostOneMore ==
    ASSUME NEW S, IsFiniteSet(S), NEW x, NEW T, T \subseteq S \cup {x}
    PROVE  /\ IsFiniteSet(T)
           /\ Cardinality(T) \in Nat /\ Cardinality(S) \in Nat
           /\ Cardinality(T) <= Cardinality(S) + 1
<1>1. /\ IsFiniteSet(S \cup {x})
      /\ x \in S => Cardinality(S \cup {x}) = Cardinality(S)
      /\ x \notin S => Cardinality(S \cup {x}) = Cardinality(S) + 1
  BY FS_AddElement
<1>2. IsFiniteSet(T) /\ Cardinality(T) <= Cardinality(S \cup {x})
  BY <1>1, FS_Subset
<1>3. /\ Cardinality(S) \in Nat /\ Cardinality(T) \in Nat
      /\ Cardinality(S \cup {x}) \in Nat
  BY <1>1, <1>2, FS_CardinalityType
<1>4. QED
  BY <1>1, <1>2, <1>3

\* The three numbers are naturals.
LEMMA CountsTyped ==
    ASSUME TypeOK, IsFiniteSet(stmts), NEW k \in Keys
    PROVE  /\ SumFunction(rows[k]) = SumFunctionOnSet(rows[k], Times)
           /\ SumFunction(rows[k]) \in Nat
           /\ IsFiniteSet(Pending(k)) /\ Cardinality(Pending(k)) \in Nat
           /\ IsFiniteSet(Mine(k)) /\ SumFunctionOnSet(attempt, Mine(k)) \in Nat
<1>1. IsFiniteSet(Times)
  BY FS_Interval, LimiterAssumption DEF Times
<1>2. rows[k] \in [Times -> Nat]
  BY DEF TypeOK
<1>3. SumFunction(rows[k]) = SumFunctionOnSet(rows[k], Times)
  BY <1>2 DEF SumFunction
<1>4. SumFunctionOnSet(rows[k], Times) \in Nat
  BY <1>1, <1>2, SumNat
<1>5. IsFiniteSet(Pending(k)) /\ Cardinality(Pending(k)) \in Nat
  BY FS_Subset, FS_CardinalityType DEF Pending
<1>6. IsFiniteSet(Mine(k))
  BY FS_Subset, LimiterAssumption DEF Mine
<1>7. \A r \in Mine(k) : attempt[r] \in Nat
  BY LimiterAssumption DEF Mine, TypeOK
<1>8. SumFunctionOnSet(attempt, Mine(k)) \in Nat
  BY <1>6, <1>7, SumNat
<1>9. QED
  BY <1>3, <1>4, <1>5, <1>6, <1>8

LEMMA AttemptInit == Init => AttemptInv
<1> SUFFICES ASSUME Init
             PROVE  AttemptInv
  OBVIOUS
<1>1. TypeOK
  BY TypeInit DEF TypeInv
<1>2. IsFiniteSet(stmts) /\ \A r \in Requests : attempt[r] = 0
  BY FS_EmptySet DEF Init
<1>3. ASSUME NEW k \in Keys
      PROVE  SumFunction(rows[k]) + Cardinality(Pending(k))
                 <= SumFunctionOnSet(attempt, Mine(k))
  <2>1. SumFunctionOnSet(rows[k], Times) = 0
    <3>1. IsFiniteSet(Times) /\ \A w \in Times : rows[k][w] = 0
      BY FS_Interval, LimiterAssumption DEF Times, Init
    <3>2. QED
      BY <3>1, SumZero
  <2>2. Cardinality(Pending(k)) = 0
    BY FS_EmptySet DEF Init, Pending
  <2>3. QED
    BY <1>1, <1>2, <2>1, <2>2, CountsTyped
<1>4. QED
  BY <1>2, <1>3 DEF AttemptInv

\* Statements that are settled or given up, and steps that send nothing, leave
\* the inequality standing.
LEMMA AttemptKept ==
    ASSUME TypeOK, TypeOK', AttemptInv, UNCHANGED <<rows, attempt>>,
           stmts' \subseteq stmts,
           \A r \in Requests : pc'[r] = "new" => pc[r] = "new"
    PROVE  AttemptInv'
<1>1. IsFiniteSet(stmts')
  BY FS_Subset DEF AttemptInv
<1>2. \A r \in Requests : pc'[r] = "new" => attempt'[r] = 0
  BY DEF AttemptInv
<1>3. ASSUME NEW k \in Keys
      PROVE  SumFunction(rows'[k]) + Cardinality(Pending(k)')
                 <= SumFunctionOnSet(attempt', Mine(k))
  <2>1. Pending(k)' \subseteq Pending(k)
    BY DEF Pending
  <2>2. Cardinality(Pending(k)') <= Cardinality(Pending(k))
    BY <2>1, CountsTyped, FS_Subset DEF AttemptInv
  <2>3. Cardinality(Pending(k)') \in Nat /\ Cardinality(Pending(k)) \in Nat
    BY <1>1, <2>1, CountsTyped, FS_Subset, FS_CardinalityType DEF AttemptInv
  <2>4. SumFunction(rows[k]) \in Nat /\ SumFunctionOnSet(attempt, Mine(k)) \in Nat
    BY CountsTyped DEF AttemptInv
  <2>5. QED
    BY <2>2, <2>3, <2>4 DEF AttemptInv
<1>4. QED
  BY <1>1, <1>2, <1>3 DEF AttemptInv, Mine

\* An attempt that is made is counted before its statement is sent.
LEMMA AttemptMade ==
    ASSUME TypeOK, TypeOK', AttemptInv, NEW r \in Requests, UNCHANGED rows,
           SendIncrement(r, attempt[r] + 1)
    PROVE  AttemptInv'
<1> DEFINE st == [req |-> r, att |-> attempt[r] + 1, sent |-> clock]
<1>1. /\ stmts' \subseteq stmts \cup {st}
      /\ attempt' = [attempt EXCEPT ![r] = attempt[r] + 1]
      /\ pc' = [pc EXCEPT ![r] = "calling"]
  BY DEF SendIncrement
<1> HIDE DEF st
<1>2. IsFiniteSet(stmts')
  BY <1>1, AtMostOneMore DEF AttemptInv
<1>3. \A q \in Requests : pc'[q] = "new" => attempt'[q] = 0
  BY <1>1 DEF AttemptInv, TypeOK
<1>4. ASSUME NEW k \in Keys
      PROVE  SumFunction(rows'[k]) + Cardinality(Pending(k)')
                 <= SumFunctionOnSet(attempt', Mine(k))
  <2>1. /\ IsFiniteSet(Mine(k)) /\ IsFiniteSet(Pending(k))
        /\ Cardinality(Pending(k)) \in Nat
        /\ SumFunctionOnSet(attempt, Mine(k)) \in Nat
        /\ SumFunction(rows[k]) \in Nat
    BY CountsTyped DEF AttemptInv
  <2>2. \A q \in Mine(k) : attempt[q] \in Int /\ attempt'[q] \in Int
    BY LimiterAssumption DEF Mine, TypeOK
  <2>3. IsFiniteSet(Pending(k)') /\ Cardinality(Pending(k)') \in Nat
    BY <1>2, FS_Subset, FS_CardinalityType DEF Pending
  <2>4. CASE r \in Mine(k)
    <3>1. SumFunctionOnSet(attempt', Mine(k))
              = SumFunctionOnSet(attempt, Mine(k)) + attempt'[r] - attempt[r]
      <4>1. \A q \in Mine(k) \ {r} : attempt[q] = attempt'[q]
        BY <1>1 DEF Mine, TypeOK
      <4>2. QED
        BY <2>1, <2>2, <2>4, <4>1, SumUpdate
    <3>2. attempt'[r] = attempt[r] + 1 /\ attempt[r] \in Nat
      BY <1>1, LimiterAssumption DEF TypeOK
    <3>3. Cardinality(Pending(k)') <= Cardinality(Pending(k)) + 1
      <4>1. Pending(k)' \subseteq Pending(k) \cup {st}
        BY <1>1 DEF Pending
      <4>2. QED
        BY <2>1, <4>1, AtMostOneMore
    <3>4. SumFunction(rows[k]) + Cardinality(Pending(k))
              <= SumFunctionOnSet(attempt, Mine(k))
      BY DEF AttemptInv
    <3>5. QED
      BY <2>1, <2>3, <3>1, <3>2, <3>3, <3>4
  <2>5. CASE r \notin Mine(k)
    <3>1. \A q \in Mine(k) : attempt[q] = attempt'[q]
      BY <1>1, <2>5 DEF Mine, TypeOK
    <3>2. SumFunctionOnSet(attempt', Mine(k)) = SumFunctionOnSet(attempt, Mine(k))
      BY <2>1, <3>1, SumSame
    <3>3. Pending(k)' \subseteq Pending(k)
      <4>1. st.req \notin Mine(k)
        BY <2>5 DEF st
      <4>2. QED
        BY <1>1, <4>1 DEF Pending, Mine
    <3>4. Cardinality(Pending(k)') <= Cardinality(Pending(k))
      BY <2>1, <3>3, FS_Subset
    <3>5. SumFunction(rows[k]) + Cardinality(Pending(k))
              <= SumFunctionOnSet(attempt, Mine(k))
      BY DEF AttemptInv
    <3>6. QED
      BY <2>1, <2>3, <3>2, <3>4, <3>5
  <2>6. QED
    BY <2>4, <2>5
<1>5. QED
  BY <1>2, <1>3, <1>4 DEF AttemptInv, Mine

\* A statement that commits moves from the pending ones to the counted ones.
LEMMA AttemptCounted ==
    ASSUME TypeInv, TypeOK', AttemptInv, NEW st \in stmts, NEW now \in Times,
           Commit(st, now)
    PROVE  AttemptInv'
<1> DEFINE c == KeyOf[st.req]
           w == WindowStart(now)
<1>1. /\ TypeOK /\ st.req \in Requests /\ c \in Keys /\ w \in Times
      /\ rows' = [rows EXCEPT ![c][w] = @ + 1]
      /\ stmts' = stmts \ {st}
      /\ UNCHANGED <<pc, attempt>>
  BY WindowStartInTimes DEF Commit, TypeInv, TypeOK, Statements
<1>2. IsFiniteSet(stmts')
  BY <1>1, FS_Subset DEF AttemptInv
<1>3. \A q \in Requests : pc'[q] = "new" => attempt'[q] = 0
  BY <1>1 DEF AttemptInv
<1>4. ASSUME NEW k \in Keys
      PROVE  SumFunction(rows'[k]) + Cardinality(Pending(k)')
                 <= SumFunctionOnSet(attempt', Mine(k))
  <2>1. /\ IsFiniteSet(Pending(k)) /\ Cardinality(Pending(k)) \in Nat
        /\ SumFunctionOnSet(attempt, Mine(k)) \in Nat
        /\ SumFunction(rows[k]) = SumFunctionOnSet(rows[k], Times)
        /\ SumFunctionOnSet(rows[k], Times) \in Nat
    BY <1>1, CountsTyped DEF AttemptInv
  <2>2. SumFunction(rows[k]) + Cardinality(Pending(k))
            <= SumFunctionOnSet(attempt, Mine(k))
    BY DEF AttemptInv
  <2>3. CASE k = c
    <3>1. Pending(k)' = Pending(k) \ {st} /\ st \in Pending(k)
      BY <1>1, <2>3 DEF Pending, Mine
    <3>2. Cardinality(Pending(k)') = Cardinality(Pending(k)) - 1
      BY <2>1, <3>1, FS_RemoveElement
    <3>3. /\ \A v \in Times : rows[k][v] \in Int /\ rows'[k][v] \in Int
          /\ \A v \in Times \ {w} : rows[k][v] = rows'[k][v]
          /\ rows'[k][w] = rows[k][w] + 1
          /\ DOMAIN rows'[k] = Times
      <4>1. rows \in [Keys -> [Times -> Nat]]
        BY <1>1 DEF TypeOK
      <4>2. rows'[k] = [rows[k] EXCEPT ![w] = rows[k][w] + 1]
        BY <1>1, <2>3, <4>1
      <4>3. QED
        BY <1>1, <4>1, <4>2
    <3>4. SumFunctionOnSet(rows'[k], Times)
              = SumFunctionOnSet(rows[k], Times) + rows'[k][w] - rows[k][w]
      <4>1. IsFiniteSet(Times)
        BY FS_Interval, LimiterAssumption DEF Times
      <4>2. QED
        BY <1>1, <3>3, <4>1, SumUpdate
    <3>5. SumFunction(rows'[k]) = SumFunctionOnSet(rows[k], Times) + 1
      BY <1>1, <2>1, <3>3, <3>4 DEF SumFunction
    <3>6. QED
      BY <1>1, <2>1, <2>2, <3>2, <3>5
  <2>4. CASE k # c
    <3>1. rows'[k] = rows[k] /\ Pending(k)' = Pending(k)
      BY <1>1, <2>4 DEF TypeOK, Pending, Mine
    <3>2. QED
      BY <1>1, <2>2, <3>1
  <2>5. QED
    BY <2>3, <2>4
<1>5. QED
  BY <1>2, <1>3, <1>4 DEF AttemptInv, Mine

LEMMA AttemptStep == TypeInv /\ AttemptInv /\ [Next]_vars => AttemptInv'
<1> SUFFICES ASSUME TypeInv, AttemptInv, [Next]_vars
             PROVE  AttemptInv'
  OBVIOUS
<1>0. TypeOK /\ TypeOK'
  BY TypeStep DEF TypeInv
<1> USE <1>0
<1>1. ASSUME NEW r \in Requests, Admit(r)
      PROVE  AttemptInv'
  <2>1. attempt[r] + 1 = 1 /\ UNCHANGED rows
    BY <1>1 DEF Admit, AttemptInv
  <2>2. SendIncrement(r, attempt[r] + 1)
    BY <1>1, <2>1 DEF Admit
  <2>3. QED
    BY <2>1, <2>2, AttemptMade
<1>2. ASSUME NEW r \in Requests, Retry(r)
      PROVE  AttemptInv'
  BY <1>2, AttemptMade DEF Retry
<1>3. ASSUME NEW r \in Requests,
             \/ Refuse(r) \/ FailFast(r) \/ HangUp(r)
             \/ Receive(r) \/ GiveUp(r) \/ SleepCut(r)
             \/ \E kind \in {"transient", "fatal"} : Fail(r, kind)
      PROVE  AttemptInv'
  <2>1. UNCHANGED <<rows, attempt>> /\ stmts' \subseteq stmts
    BY <1>3 DEF Refuse, FailFast, HangUp, Receive, GiveUp, SleepCut, Fail
  <2>2. \A q \in Requests : pc'[q] = "new" => pc[q] = "new"
    BY <1>3 DEF Refuse, FailFast, HangUp, Receive, GiveUp, SleepCut, Fail,
                EndAttempt, Settle, Answer, TypeOK
  <2>3. QED
    BY <2>1, <2>2, AttemptKept
<1>4. ASSUME NEW st \in stmts, NEW now \in Times, Commit(st, now)
      PROVE  AttemptInv'
  BY <1>4, AttemptCounted
<1>5. CASE Tick \/ UNCHANGED vars
  BY <1>5, AttemptKept DEF Tick, vars
<1>6. QED
  BY <1>1, <1>2, <1>3, <1>4, <1>5 DEF Next, Arrive, Handle

\* What a key's rows add up to, together with the statements the database may
\* still commit, is at most the number of attempts made for it: a statement
\* counts at most once, however late it commits and however often it was given
\* up on.
THEOREM AttemptsCounted == Spec => []CountsAreAttempts
<1>1. TypeInv /\ AttemptInv /\ [Next]_vars => AttemptInv'
  BY AttemptStep
<1>2. AttemptInv => CountsAreAttempts
  BY DEF AttemptInv, CountsAreAttempts, Pending, Mine
<1>3. QED
  BY <1>1, <1>2, AttemptInit, TypeInvCorrect, PTL DEF Spec

-----------------------------------------------------------------------------
(* The Retry-After header.                                                 *)

\* Rounding up to whole seconds never falls short.
LEMMA CeilingCovers ==
    ASSUME NEW n \in Nat
    PROVE  /\ (n + TicksPerSecond - 1) \div TicksPerSecond \in Nat
           /\ ((n + TicksPerSecond - 1) \div TicksPerSecond) * TicksPerSecond >= n
  BY LimiterAssumption

\* The header is a whole number of seconds that reaches the end of the window.
LEMMA HeaderCovers ==
    ASSUME NEW now \in Nat
    PROVE  now + RetryAfterHeader(now) * TicksPerSecond >= WindowStart(now) + Window
<1> DEFINE left == WindowStart(now) + Window - now
           secs == (left + TicksPerSecond - 1) \div TicksPerSecond
<1>1. left \in Nat /\ left > 0 /\ RetryAfter(now) = left
  BY WindowContains, LimiterAssumption DEF RetryAfter
<1>2. secs \in Nat /\ secs * TicksPerSecond >= left
  BY <1>1, CeilingCovers
<1>3. RetryAfterHeader(now) = IF secs > 1 THEN secs ELSE 1
  BY <1>1 DEF RetryAfterHeader
<1> HIDE DEF secs
<1>4. RetryAfterHeader(now) * TicksPerSecond >= left
  <2>1. CASE secs > 1
    BY <1>2, <1>3, <2>1
  <2>2. CASE ~(secs > 1)
    <3>1. secs = 0 \/ secs = 1
      BY <1>2, <2>2
    <3>2. QED
      BY <1>1, <1>2, <1>3, <2>2, <3>1, LimiterAssumption
  <2>3. QED
    BY <2>1, <2>2
<1>5. RetryAfterHeader(now) * TicksPerSecond \in Nat
  BY <1>2, <1>3, LimiterAssumption
<1>6. QED
  BY <1>1, <1>4, <1>5, WindowContains, LimiterAssumption

\* A client that was denied and waits for the seconds its Retry-After header
\* names comes back when the window that denied it is over.
THEOREM RetryAfterHonest == Spec => []RetryAfterNotEarly
<1>1. TypeOK => RetryAfterNotEarly
  BY HeaderCovers DEF TypeOK, RetryAfterNotEarly, Replies, Times
<1>2. QED
  BY <1>1, TypeCorrect, PTL
=============================================================================
