------------------------- MODULE OrderServiceProofs -------------------------
(***************************************************************************)
(* Proofs about OrderService, for any calls, keys, users, totals, limits   *)
(* and breaker settings.                                                   *)
(***************************************************************************)
EXTENDS OrderService, Sums, TLAPS

\* A closed breaker is below its threshold.
GoodBreaker(b) == b \in Breakers /\ (b.state = "Closed" => b.failures < Threshold)

\* Whatever Do reports to a breaker leaves a good one.
LEMMA BreakerTyped ==
    ASSUME NEW b, GoodBreaker(b), NEW now \in Nat, NEW code
    PROVE  GoodBreaker(AfterAllow(b)) /\ GoodBreaker(AfterDo(b, code, now))
<1>0. /\ b \in Breakers /\ b.failures \in Nat
      /\ Threshold \in Nat \ {0}
  BY BreakerAssumption DEF GoodBreaker, Breakers
<1>1. GoodBreaker(AfterAllow(b))
  BY <1>0 DEF GoodBreaker, AfterAllow, Breakers, BreakerStates
<1>2. GoodBreaker(AfterRelease(b))
  BY <1>0 DEF GoodBreaker, AfterRelease, Breakers, BreakerStates
<1>3. GoodBreaker(AfterSuccess(b))
  <2>1. AfterSuccess(b) \in Breakers
    BY <1>0 DEF AfterSuccess, Breakers, BreakerStates
  <2>2. AfterSuccess(b).failures = 0
    BY <1>0 DEF AfterSuccess, Breakers
  <2>3. QED
    BY <1>0, <2>1, <2>2 DEF GoodBreaker
<1>4. GoodBreaker(AfterFailure(b, now))
  <2> DEFINE a == AfterFailure(b, now)
  <2> DEFINE n == b.failures + 1
  <2>0. n \in Nat
    BY <1>0
  <2>1. CASE b.state = "HalfOpen"
    <3>1. a = [b EXCEPT !.state = "Open", !.openedAt = now, !.probeInFlight = FALSE]
      BY <2>1 DEF AfterFailure
    <3>2. QED
      BY <1>0, <3>1 DEF GoodBreaker, Breakers, BreakerStates
  <2>2. CASE b.state # "HalfOpen" /\ n >= Threshold /\ b.state = "Closed"
    <3>1. a = [b EXCEPT !.state = "Open", !.failures = n, !.openedAt = now,
                        !.probeInFlight = FALSE]
      BY <2>2 DEF AfterFailure
    <3> HIDE DEF n
    <3>2. QED
      BY <1>0, <2>0, <3>1 DEF GoodBreaker, Breakers, BreakerStates
  <2>3. CASE b.state # "HalfOpen" /\ ~(n >= Threshold /\ b.state = "Closed")
    <3>1. a = [b EXCEPT !.failures = n, !.probeInFlight = FALSE]
      BY <2>3 DEF AfterFailure
    <3>2. b.state = "Closed" => n < Threshold
      BY <1>0, <2>3
    <3> HIDE DEF n
    <3>3. QED
      BY <1>0, <2>0, <3>1, <3>2 DEF GoodBreaker, Breakers, BreakerStates
  <2>4. QED
    BY <2>1, <2>2, <2>3
<1>5. QED
  BY <1>1, <1>2, <1>3, <1>4 DEF AfterDo

-----------------------------------------------------------------------------
(* Types.                                                                  *)

\* What TypeOK lacks to be inductive: a call that will try again may, and a
\* call that is decided has a status to persist.
TypeInv ==
    /\ TypeOK
    /\ \A c \in Calls : pc[c] = "backoff" => attempt[c] < MaxAttempts
    /\ \A c \in Calls : pc[c] = "decided" => plan[c] \in Statuses

PcValues == {"new", "checked", "calling", "backoff", "decided", "done"}

\* Call c is decided or answered, and no other call is concerned.
Settled(c) ==
    /\ pc' \in [Calls -> PcValues]
    /\ plan' \in [Calls -> Statuses \cup {"none"}]
    /\ answer' \in [Calls -> [code : AnswerCodes, order : Nat]]
    /\ pc'[c] \in {"decided", "done"}
    /\ pc'[c] = "decided" => plan'[c] \in Statuses
    /\ \A d \in Calls \ {c} : pc'[d] = pc[d] /\ plan'[d] = plan[d]

LEMMA ReturnSettles ==
    ASSUME TypeInv, NEW c \in Calls, NEW code \in AnswerCodes, NEW id \in Nat,
           Return(c, code, id), UNCHANGED plan
    PROVE  Settled(c)
<1>1. [code |-> code, order |-> id] \in [code : AnswerCodes, order : Nat]
  OBVIOUS
<1>2. QED
  BY <1>1 DEF Return, Settled, TypeInv, TypeOK, PcValues

LEMMA DecideSettles ==
    ASSUME TypeInv, NEW c \in Calls, NEW status \in Statuses, Decide(c, status)
    PROVE  Settled(c)
  BY DEF Decide, Settled, TypeInv, TypeOK, PcValues

LEMMA DegradeSettles ==
    ASSUME TypeInv, NEW c \in Calls, Degrade(c)
    PROVE  Settled(c)
<1>1. CASE Decide(c, "PENDING")
  BY <1>1, DecideSettles DEF Statuses
<1>2. CASE Return(c, "Unavailable", 0) /\ UNCHANGED plan
  BY <1>2, ReturnSettles DEF AnswerCodes
<1>3. QED
  BY <1>1, <1>2 DEF Degrade, Decide

LEMMA ConcludeSettles ==
    ASSUME TypeInv, NEW c \in Calls, NEW code, Conclude(c, code)
    PROVE  Settled(c)
<1>1. CASE Decide(c, "CONFIRMED") \/ Decide(c, "REJECTED")
  BY <1>1, DecideSettles DEF Statuses
<1>2. CASE Degrade(c)
  BY <1>2, DegradeSettles
<1>3. CASE /\ code \in {"NotFound", "FailedPrecondition", "DeadlineExceeded", "Canceled"}
           /\ Return(c, code, 0)
           /\ UNCHANGED plan
  BY <1>3, ReturnSettles DEF AnswerCodes
<1>4. CASE Return(c, "Internal", 0) /\ UNCHANGED plan
  BY <1>4, ReturnSettles DEF AnswerCodes
<1>5. QED
  BY <1>1, <1>2, <1>3, <1>4 DEF Conclude

\* The end of an attempt concerns its call and the breaker only.
LEMMA EndAttemptTyped ==
    ASSUME TypeInv, NEW c \in Calls, NEW code,
           EndAttempt(c, code) \/ Settle(c, code)
    PROVE  /\ GoodBreaker(brk')
           /\ pc' \in [Calls -> PcValues]
           /\ plan' \in [Calls -> Statuses \cup {"none"}]
           /\ answer' \in [Calls -> [code : AnswerCodes, order : Nat]]
           /\ \A d \in Calls : pc'[d] = "backoff" => attempt[d] < MaxAttempts
           /\ \A d \in Calls : pc'[d] = "decided" => plan'[d] \in Statuses
           /\ UNCHANGED <<clock, orders, idem, seen, probe>>
<1>1. CASE Settle(c, code)
  <2>1. GoodBreaker(brk) /\ clock \in Nat
    BY OrderAssumption DEF TypeInv, TypeOK, GoodBreaker
  <2>2. GoodBreaker(brk')
    BY <1>1, <2>1, BreakerTyped DEF Settle
  <2>3. Settled(c)
    BY <1>1, ConcludeSettles DEF Settle
  <2>4. ASSUME NEW d \in Calls
        PROVE  /\ pc'[d] = "backoff" => attempt[d] < MaxAttempts
               /\ pc'[d] = "decided" => plan'[d] \in Statuses
    <3>1. CASE d = c
      BY <2>3, <3>1 DEF Settled
    <3>2. CASE d # c
      BY <2>3, <3>2 DEF Settled, TypeInv
    <3>3. QED
      BY <3>1, <3>2
  <2>5. QED
    BY <1>1, <2>2, <2>3, <2>4 DEF Settle, Settled
<1>2. CASE EndAttempt(c, code) /\ ~Settle(c, code)
  <2>1. /\ attempt[c] < MaxAttempts
        /\ pc' = [pc EXCEPT ![c] = "backoff"]
        /\ UNCHANGED <<clock, brk, plan, answer, orders, idem, seen, probe>>
    BY <1>2 DEF EndAttempt, service
  <2>2. QED
    BY <2>1 DEF GoodBreaker, TypeInv, TypeOK, PcValues
<1>3. QED
  BY <1>1, <1>2

LEMMA TypeInit == Init => TypeInv
<1> SUFFICES ASSUME Init
             PROVE  TypeInv
  OBVIOUS
<1> USE OrderAssumption, BreakerAssumption DEF Init
<1>1. brk \in Breakers /\ brk.failures < Threshold
  BY DEF NewBreaker, Breakers, BreakerStates
<1>2. answer \in [Calls -> [code : AnswerCodes, order : Nat]]
  BY DEF NoAnswer, AnswerCodes
<1>3. orders \in Seq(Orders)
  OBVIOUS
<1>4. QED
  BY <1>1, <1>2, <1>3 DEF TypeInv, TypeOK

\* The steps of one call's handler.
LEMMA HandleTyped ==
    ASSUME TypeInv, NEW c \in Calls, Handle(c)
    PROVE  TypeInv'
<1> USE OrderAssumption DEF TypeInv, TypeOK
<1>1. CASE Allow(c)
  <2>1. GoodBreaker(brk')
    BY <1>1, BreakerTyped DEF Allow, GoodBreaker
  <2>2. QED
    BY <1>1, <2>1 DEF Allow, SendAttempt, GoodBreaker
<1>2. CASE FailFast(c)
  <2>1. Settled(c)
    BY <1>2, DegradeSettles DEF FailFast
  <2>2. QED
    BY <1>2, <2>1 DEF FailFast, Settled, PcValues
<1>3. CASE Receive(c)
  BY <1>3, EndAttemptTyped DEF Receive, GoodBreaker, PcValues
<1>4. CASE LoseAttempt(c)
  <2>1. PICK code : EndAttempt(c, code)
    BY <1>4 DEF LoseAttempt
  <2>2. /\ inbox' \in [Calls -> CreditVerdicts \cup {"none"}]
        /\ UNCHANGED <<ctx, attempt, rpcs, spent>>
    BY <1>4 DEF LoseAttempt
  <2>3. QED
    BY <2>1, <2>2, EndAttemptTyped DEF GoodBreaker, PcValues
<1>5. CASE Retry(c)
  <2>1. attempt[c] + 1 \in 1 .. MaxAttempts
    BY <1>5 DEF Retry
  <2>2. /\ pc' \in [Calls -> PcValues]
        /\ attempt' \in [Calls -> 0 .. MaxAttempts]
        /\ inbox' \in [Calls -> CreditVerdicts \cup {"none"}]
    BY <1>5, <2>1 DEF Retry, SendAttempt, PcValues
  <2>3. rpcs' \subseteq [call : Calls, att : 1 .. MaxAttempts]
    BY <1>5, <2>1 DEF Retry, SendAttempt
  <2>4. ASSUME NEW d \in Calls
        PROVE  /\ pc'[d] = "backoff" => attempt'[d] < MaxAttempts
               /\ pc'[d] = "decided" => plan'[d] \in Statuses
    BY <1>5 DEF Retry, SendAttempt, service
  <2>5. UNCHANGED <<clock, brk, ctx, plan, answer, spent, orders, idem, seen, probe>>
    BY <1>5 DEF Retry, service
  <2>6. QED
    BY <2>2, <2>3, <2>4, <2>5 DEF PcValues
<1>6. CASE CutBackoff(c)
  <2>1. PICK code : Settle(c, code)
    BY <1>6 DEF CutBackoff
  <2>2. UNCHANGED <<ctx, attempt, inbox, rpcs, spent>>
    BY <1>6 DEF CutBackoff
  <2>3. QED
    BY <2>1, <2>2, EndAttemptTyped DEF GoodBreaker, PcValues
<1>7. CASE Persist(c)
  <2> DEFINE o == [key |-> KeyOf[c], call |-> c, total |-> TotalOf[c],
                   status |-> plan[c]]
  <2>1. o \in Orders
    BY <1>7 DEF Persist, Orders
  <2>2. orders' \in Seq(Orders) /\ Len(orders) + 1 \in Nat
    BY <1>7, <2>1 DEF Persist
  <2>3. QED
    BY <1>7, <2>2 DEF Persist, Return, AnswerCodes
<1>8. QED
  BY <1>1, <1>2, <1>3, <1>4, <1>5, <1>6, <1>7 DEF Handle

LEMMA TypeStep == TypeInv /\ [Next]_vars => TypeInv'
<1> SUFFICES ASSUME TypeInv, [Next]_vars
             PROVE  TypeInv'
  OBVIOUS
<1> USE OrderAssumption DEF TypeInv, TypeOK
<1>1. ASSUME NEW c \in Calls, Replay(c)
      PROVE  TypeInv'
  BY <1>1 DEF Replay, Return, AnswerCodes
<1>2. ASSUME NEW c \in Calls, CheckKey(c)
      PROVE  TypeInv'
  <2>1. /\ pc' \in [Calls -> PcValues] /\ seen' \in [Calls -> Nat]
        /\ \A d \in Calls : pc'[d] \in {pc[d], "checked"}
    BY <1>2 DEF CheckKey, PcValues
  <2>2. UNCHANGED <<clock, brk, ctx, attempt, inbox, plan, answer, rpcs, spent,
                    orders, idem, probe>>
    BY <1>2 DEF CheckKey
  <2>3. QED
    BY <2>1, <2>2 DEF PcValues
<1>3. ASSUME NEW c \in Calls, Handle(c)
      PROVE  TypeInv'
  BY <1>3, HandleTyped
<1>4. ASSUME NEW c \in Calls, NEW why \in {"expired", "cancelled"},
             EndContext(c, why)
      PROVE  TypeInv'
  BY <1>4 DEF EndContext, service
<1>5. ASSUME NEW msg \in rpcs, ValidateCredit(msg)
      PROVE  TypeInv'
  <2>1. msg.call \in Calls
    OBVIOUS
  <2>2. CreditVerdict(msg.call) \in CreditVerdicts
    BY DEF CreditVerdict, CreditVerdicts
  <2>3. spent' \in [Users -> Nat]
    BY <1>5, <2>1 DEF ValidateCredit, CreditVerdict
  <2>4. inbox' \in [Calls -> CreditVerdicts \cup {"none"}]
    BY <1>5, <2>1, <2>2 DEF ValidateCredit
  <2>5. QED
    BY <1>5, <2>3, <2>4 DEF ValidateCredit, service
<1>6. CASE Tick
  BY <1>6 DEF Tick
<1>7. CASE UNCHANGED vars
  BY <1>7 DEF vars
<1>8. QED
  BY <1>1, <1>2, <1>3, <1>4, <1>5, <1>6, <1>7 DEF Next

LEMMA TypeInvCorrect == Spec => []TypeInv
  BY TypeInit, TypeStep, PTL DEF Spec

\* Every variable of the order flow keeps its type, and a closed breaker is
\* below its threshold.
THEOREM TypeCorrect == Spec => []TypeOK
<1>1. TypeInv => TypeOK
  BY DEF TypeInv
<1>2. QED
  BY <1>1, TypeInvCorrect, PTL

-----------------------------------------------------------------------------
(* Orders and keys.                                                        *)

\* Calls that have looked up their key and not found it.
Working == {c \in Calls : pc[c] \in {"checked", "calling", "backoff", "decided"}}

\* Every order is in the map under its key or behind a later one, a call has
\* made its order when it is done and not before, and a call at work saw no
\* order of its key among those there were when it looked.
KeyInv ==
    /\ \A i \in 1 .. Len(orders) :
           /\ idem[orders[i].key] # 0
           /\ orders[i].key = KeyOf[orders[i].call]
           /\ pc[orders[i].call] = "done"
    /\ \A k \in Keys : idem[k] # 0 =>
           idem[k] <= Len(orders) /\ orders[idem[k]].key = k
    /\ \A c \in Calls : seen[c] <= Len(orders)
    /\ \A c \in Working, i \in 1 .. Len(orders) :
           orders[i].key = KeyOf[c] => seen[c] < i
    /\ DuplicatesOverlap
    /\ AnswerIsOwnOrder

LEMMA KeyInit == Init => KeyInv
  BY OrderAssumption
     DEF Init, KeyInv, Working, DuplicatesOverlap, AnswerIsOwnOrder, NoAnswer

\* What the two invariants say of the orders and of the map, spelt out.
LEMMA OrderFacts ==
    ASSUME TypeInv, KeyInv
    PROVE  /\ Len(orders) \in Nat
           /\ \A i \in 1 .. Len(orders) :
                  /\ orders[i] \in Orders
                  /\ orders[i].call \in Calls /\ orders[i].key \in Keys
                  /\ orders[i].key = KeyOf[orders[i].call]
                  /\ pc[orders[i].call] = "done"
                  /\ idem[orders[i].key] # 0
           /\ \A k \in Keys : idem[k] # 0 =>
                  idem[k] \in 1 .. Len(orders) /\ orders[idem[k]].key = k
           /\ \A d \in Calls :
                  /\ KeyOf[d] \in Keys
                  /\ seen[d] \in 0 .. Len(orders)
                  /\ answer[d].order # 0 =>
                         /\ answer[d].order \in 1 .. Len(orders)
                         /\ orders[answer[d].order].key = KeyOf[d]
<1>1. /\ orders \in Seq(Orders) /\ idem \in [Keys -> Nat] /\ seen \in [Calls -> Nat]
      /\ answer \in [Calls -> [code : AnswerCodes, order : Nat]]
      /\ KeyOf \in [Calls -> Keys]
  BY OrderAssumption DEF TypeInv, TypeOK
<1>2. Len(orders) \in Nat /\ \A i \in 1 .. Len(orders) : orders[i] \in Orders
  BY <1>1
<1>3. ASSUME NEW i \in 1 .. Len(orders)
      PROVE  orders[i].call \in Calls /\ orders[i].key \in Keys
  BY <1>2 DEF Orders
<1>4. ASSUME NEW k \in Keys, idem[k] # 0
      PROVE  idem[k] \in 1 .. Len(orders) /\ orders[idem[k]].key = k
  BY <1>1, <1>2, <1>4 DEF KeyInv
<1>5. ASSUME NEW d \in Calls
      PROVE  KeyOf[d] \in Keys /\ seen[d] \in 0 .. Len(orders)
  BY <1>1, <1>2 DEF KeyInv
<1>6. ASSUME NEW d \in Calls, answer[d].order # 0
      PROVE  /\ answer[d].order \in 1 .. Len(orders)
             /\ orders[answer[d].order].key = KeyOf[d]
  <2>1. answer[d].order \in Nat
    BY <1>1
  <2>2. QED
    BY <1>2, <1>6, <2>1 DEF KeyInv, AnswerIsOwnOrder
<1>7. QED
  BY <1>2, <1>3, <1>4, <1>5, <1>6 DEF KeyInv

\* The steps that make no order: a call that starts to work has looked up its
\* key, and an answer names an order of the call's key or none.
LEMMA KeyKept ==
    ASSUME TypeInv, KeyInv, NEW c \in Calls, UNCHANGED <<orders, idem>>,
           \A d \in Calls \ {c} : pc'[d] = pc[d] /\ seen'[d] = seen[d]
                                  /\ answer'[d] = answer[d],
           pc[c] = "done" => pc'[c] = "done",
           c \in Working' =>
               \/ c \in Working /\ seen'[c] = seen[c]
               \/ idem[KeyOf[c]] = 0,
           seen'[c] \in {seen[c], Len(orders)},
           pc[c] # "new" => seen'[c] = seen[c],
           answer'[c].order \in {0, answer[c].order, idem[KeyOf[c]]}
    PROVE  KeyInv'
<1>0. orders' = orders /\ idem' = idem
  OBVIOUS
<1>1. ASSUME NEW i \in 1 .. Len(orders)
      PROVE  /\ idem[orders[i].key] # 0
             /\ orders[i].key = KeyOf[orders[i].call]
             /\ pc'[orders[i].call] = "done"
             /\ seen'[orders[i].call] = seen[orders[i].call]
  <2>1. /\ orders[i].call \in Calls /\ pc[orders[i].call] = "done"
        /\ idem[orders[i].key] # 0
        /\ orders[i].key = KeyOf[orders[i].call]
    BY OrderFacts
  <2>2. CASE orders[i].call = c
    BY <2>1, <2>2
  <2>3. CASE orders[i].call # c
    BY <2>1, <2>3
  <2>4. QED
    BY <2>1, <2>2, <2>3
<1>2. ASSUME NEW d \in Calls
      PROVE  seen'[d] <= Len(orders)
  <2>1. seen[d] \in 0 .. Len(orders) /\ Len(orders) \in Nat
    BY OrderFacts
  <2>2. seen'[d] \in {seen[d], Len(orders)}
    OBVIOUS
  <2>3. QED
    BY <2>1, <2>2
<1>3. ASSUME NEW d \in Working', NEW i \in 1 .. Len(orders),
             orders[i].key = KeyOf[d]
      PROVE  seen'[d] < i
  <2>1. d \in Calls
    BY DEF Working
  <2>2. idem[KeyOf[d]] # 0
    BY <1>1, <1>3
  <2>3. d \in Working /\ seen'[d] = seen[d]
    <3>1. CASE d = c
      BY <2>2, <3>1
    <3>2. CASE d # c
      BY <2>1, <3>2 DEF Working
    <3>3. QED
      BY <3>1, <3>2
  <2>4. QED
    BY <1>3, <2>3 DEF KeyInv
<1>4. DuplicatesOverlap'
  <2>1. DuplicatesOverlap
    BY DEF KeyInv
  <2>2. QED
    BY <1>0, <1>1, <2>1 DEF DuplicatesOverlap
<1>5. ASSUME NEW d \in Calls, answer'[d].order # 0
      PROVE  /\ answer'[d].order <= Len(orders)
             /\ orders[answer'[d].order].key = KeyOf[d]
  <2>1. answer'[d].order \in {0, answer[d].order, idem[KeyOf[d]]}
    OBVIOUS
  <2>2. answer'[d].order \in 1 .. Len(orders) /\ orders[answer'[d].order].key = KeyOf[d]
    BY <1>5, <2>1, OrderFacts
  <2>3. Len(orders) \in Nat
    BY OrderFacts
  <2>4. QED
    BY <2>2, <2>3
<1>6. AnswerIsOwnOrder'
  BY <1>0, <1>5 DEF KeyInv, AnswerIsOwnOrder
<1>7. QED
  BY <1>0, <1>1, <1>2, <1>3, <1>4, <1>6 DEF KeyInv

LEMMA KeyPersist ==
    ASSUME TypeInv, KeyInv, NEW c \in Calls, Persist(c)
    PROVE  KeyInv'
<1> DEFINE o == [key |-> KeyOf[c], call |-> c, total |-> TotalOf[c],
                 status |-> plan[c]]
           n == Len(orders)
<1>0. /\ pc[c] = "decided" /\ c \in Working
      /\ orders' = Append(orders, o)
      /\ \A k \in Keys : idem'[k] = IF k = KeyOf[c] THEN n + 1 ELSE idem[k]
      /\ \A d \in Calls : pc'[d] = IF d = c THEN "done" ELSE pc[d]
      /\ answer'[c].order = n + 1
      /\ \A d \in Calls \ {c} : answer'[d] = answer[d]
      /\ seen' = seen
  BY DEF Persist, Return, Working, TypeInv, TypeOK
<1>1. /\ n \in Nat /\ Len(orders') = n + 1
      /\ \A i \in 1 .. n : orders'[i] = orders[i]
      /\ orders'[n + 1] = o
  <2>1. orders \in Seq(Orders)
    BY DEF TypeInv, TypeOK
  <2>2. QED
    BY <1>0, <2>1
<1>2. \A i \in 1 .. n + 1 : i \in 1 .. n \/ i = n + 1
  BY <1>1
<1>3. o.key = KeyOf[c] /\ o.call = c /\ KeyOf[c] \in Keys
  BY OrderFacts
<1>4. \A i \in 1 .. n :
          /\ orders[i].call \in Calls /\ orders[i].key \in Keys
          /\ orders[i].key = KeyOf[orders[i].call]
          /\ pc[orders[i].call] = "done"
          /\ idem[orders[i].key] # 0
  BY OrderFacts
<1>5. \A d \in Calls : seen[d] \in 0 .. n
  BY OrderFacts
<1>6. /\ \A k \in Keys : idem[k] # 0 => idem[k] \in 1 .. n /\ orders[idem[k]].key = k
      /\ \A d \in Calls : answer[d].order # 0 =>
             answer[d].order \in 1 .. n /\ orders[answer[d].order].key = KeyOf[d]
  BY OrderFacts
<1>7. /\ \A d \in Working, i \in 1 .. n : orders[i].key = KeyOf[d] => seen[d] < i
      /\ \A i, j \in 1 .. n :
             i < j /\ orders[i].key = orders[j].key => seen[orders[j].call] < i
      /\ \A i, j \in 1 .. n : orders[i].call = orders[j].call => i = j
  BY DEF KeyInv, DuplicatesOverlap, AnswerIsOwnOrder
<1> HIDE DEF o, n
<1>8. ASSUME NEW i \in 1 .. n + 1
      PROVE  /\ idem'[orders'[i].key] # 0
             /\ orders'[i].key = KeyOf[orders'[i].call]
             /\ pc'[orders'[i].call] = "done"
  <2>1. CASE i = n + 1
    BY <1>0, <1>1, <1>3, <2>1
  <2>2. CASE i \in 1 .. n
    BY <1>0, <1>1, <1>4, <2>2
  <2>3. QED
    BY <1>2, <2>1, <2>2
<1>9. ASSUME NEW k \in Keys, idem'[k] # 0
      PROVE  idem'[k] <= n + 1 /\ orders'[idem'[k]].key = k
  <2>1. CASE k = KeyOf[c]
    BY <1>0, <1>1, <1>3, <2>1
  <2>2. CASE k # KeyOf[c]
    <3>1. idem'[k] = idem[k] /\ idem[k] \in 1 .. n /\ orders[idem[k]].key = k
      BY <1>0, <1>6, <1>9, <2>2
    <3>2. QED
      BY <1>1, <3>1
  <2>3. QED
    BY <2>1, <2>2
<1>10. ASSUME NEW d \in Calls
       PROVE  seen'[d] <= n + 1
  BY <1>0, <1>1, <1>5
<1>11. ASSUME NEW d \in Working', NEW i \in 1 .. n + 1, orders'[i].key = KeyOf[d]
       PROVE  seen'[d] < i
  <2>1. d \in Working /\ d \in Calls
    BY <1>0 DEF Working
  <2>2. CASE i = n + 1
    BY <1>0, <1>1, <1>5, <2>1, <2>2
  <2>3. CASE i \in 1 .. n
    BY <1>0, <1>1, <1>7, <1>11, <2>1, <2>3
  <2>4. QED
    BY <1>2, <2>2, <2>3
<1>12. ASSUME NEW i \in 1 .. n + 1, NEW j \in 1 .. n + 1,
              i < j, orders'[i].key = orders'[j].key
       PROVE  seen'[orders'[j].call] < i
  <2>1. i \in 1 .. n
    BY <1>1, <1>12
  <2>2. CASE j = n + 1
    <3>1. orders[i].key = KeyOf[c] /\ orders'[j].call = c
      BY <1>1, <1>3, <1>12, <2>1, <2>2
    <3>2. QED
      BY <1>0, <1>7, <2>1, <3>1
  <2>3. CASE j \in 1 .. n
    BY <1>0, <1>1, <1>7, <1>12, <2>1, <2>3
  <2>4. QED
    BY <1>2, <2>2, <2>3
<1>13. ASSUME NEW i \in 1 .. n + 1, NEW j \in 1 .. n + 1,
              orders'[i].call = orders'[j].call
       PROVE  i = j
  <2>1. \A h \in 1 .. n : orders'[h].call # c /\ orders'[h].call = orders[h].call
    BY <1>0, <1>1, <1>4
  <2>2. orders'[n + 1].call = c
    BY <1>1, <1>3
  <2>3. QED
    BY <1>2, <1>7, <1>13, <2>1, <2>2
<1>14. ASSUME NEW d \in Calls, answer'[d].order # 0
       PROVE  /\ answer'[d].order <= n + 1
              /\ orders'[answer'[d].order].key = KeyOf[d]
  <2>1. CASE d = c
    BY <1>0, <1>1, <1>3, <2>1
  <2>2. CASE d # c
    <3>1. /\ answer'[d] = answer[d] /\ answer[d].order \in 1 .. n
          /\ orders[answer[d].order].key = KeyOf[d]
      BY <1>0, <1>6, <1>14, <2>2
    <3>2. QED
      BY <1>1, <3>1
  <2>3. QED
    BY <2>1, <2>2
<1>15. DuplicatesOverlap' /\ AnswerIsOwnOrder'
  BY <1>1, <1>12, <1>13, <1>14 DEF DuplicatesOverlap, AnswerIsOwnOrder
<1>16. QED
  BY <1>1, <1>8, <1>9, <1>10, <1>11, <1>15 DEF KeyInv

LEMMA KeyStep == TypeInv /\ KeyInv /\ [Next]_vars => KeyInv'
<1> SUFFICES ASSUME TypeInv, KeyInv, [Next]_vars
             PROVE  KeyInv'
  OBVIOUS
<1>0. /\ pc \in [Calls -> PcValues] /\ seen \in [Calls -> Nat]
      /\ answer \in [Calls -> [code : AnswerCodes, order : Nat]]
  BY DEF TypeInv, TypeOK, PcValues
<1>1. ASSUME NEW c \in Calls, Replay(c)
      PROVE  KeyInv'
  <2>1. /\ pc[c] = "new" /\ pc'[c] = "done" /\ c \notin Working'
        /\ answer'[c].order = idem[KeyOf[c]]
        /\ \A d \in Calls \ {c} : pc'[d] = pc[d] /\ answer'[d] = answer[d]
        /\ UNCHANGED <<orders, idem, seen>>
    BY <1>0, <1>1 DEF Replay, Return, Working
  <2>2. QED
    BY <2>1, KeyKept
<1>2. ASSUME NEW c \in Calls, CheckKey(c)
      PROVE  KeyInv'
  <2>1. /\ pc[c] = "new" /\ idem[KeyOf[c]] = 0
        /\ seen'[c] = Len(orders)
        /\ \A d \in Calls \ {c} : pc'[d] = pc[d] /\ seen'[d] = seen[d]
        /\ UNCHANGED <<orders, idem, answer>>
    BY <1>0, <1>2 DEF CheckKey
  <2>2. QED
    BY <2>1, KeyKept
<1>3. ASSUME NEW c \in Calls, Handle(c), ~Persist(c)
      PROVE  KeyInv'
  <2>1. /\ c \in Working /\ UNCHANGED <<orders, idem, seen>>
        /\ answer'[c].order \in {0, answer[c].order}
        /\ \A d \in Calls \ {c} : pc'[d] = pc[d] /\ answer'[d] = answer[d]
    BY <1>0, <1>3
       DEF Handle, Allow, FailFast, Receive, LoseAttempt, Retry, CutBackoff,
           SendAttempt, EndAttempt, Settle, Conclude, Degrade, Decide, Return,
           service, Working
  <2>2. pc[c] # "done" /\ pc[c] # "new"
    BY <2>1 DEF Working
  <2>3. QED
    BY <2>1, <2>2, KeyKept
<1>4. ASSUME UNCHANGED <<pc, answer, orders, idem, seen>>
      PROVE  KeyInv'
  BY <1>4 DEF KeyInv, Working, DuplicatesOverlap, AnswerIsOwnOrder
<1>5. ASSUME NEW c \in Calls, NEW why \in {"expired", "cancelled"},
             EndContext(c, why)
      PROVE  KeyInv'
  BY <1>4, <1>5 DEF EndContext, service
<1>6. ASSUME NEW msg \in rpcs, ValidateCredit(msg)
      PROVE  KeyInv'
  BY <1>4, <1>6 DEF ValidateCredit, service
<1>7. CASE Tick \/ UNCHANGED vars
  BY <1>4, <1>7 DEF Tick, vars
<1>8. QED
  BY <1>1, <1>2, <1>3, <1>5, <1>6, <1>7, KeyPersist DEF Next

LEMMA KeyInvCorrect == Spec => []KeyInv
  BY TypeInvCorrect, KeyInit, KeyStep, PTL DEF Spec

\* Two orders of one key were made by calls that overlapped: the second had
\* looked up its key before the first order was there.
THEOREM DuplicatesExplained == Spec => []DuplicatesOverlap
<1>1. KeyInv => DuplicatesOverlap
  BY DEF KeyInv
<1>2. QED
  BY <1>1, KeyInvCorrect, PTL

\* A call makes at most one order, and the order it returns is one of its key.
THEOREM AnswersOwned == Spec => []AnswerIsOwnOrder
<1>1. KeyInv => AnswerIsOwnOrder
  BY DEF KeyInv
<1>2. QED
  BY <1>1, KeyInvCorrect, PTL

-----------------------------------------------------------------------------
(* The breaker's probe.                                                    *)

\* The steps of one call's handler concern no other call, and but for Allow
\* they leave the breaker and a call in flight alone, or free the probe's slot.
LEMMA EndAttemptFrees ==
    ASSUME TypeInv, NEW c \in Calls, NEW code,
           EndAttempt(c, code) \/ Settle(c, code)
    PROVE  /\ UNCHANGED probe
           /\ \A d \in Calls \ {c} : pc'[d] = pc[d]
           /\ \/ brk'.probeInFlight = FALSE
              \/ brk' = brk /\ InFlight(c)'
<1>1. CASE Settle(c, code)
  <2>1. brk'.probeInFlight = FALSE
    <3>1. brk \in Breakers
      BY DEF TypeInv, TypeOK
    <3>2. /\ AfterRelease(brk).probeInFlight = FALSE
          /\ AfterSuccess(brk).probeInFlight = FALSE
          /\ AfterFailure(brk, clock).probeInFlight = FALSE
      BY <3>1 DEF AfterRelease, AfterSuccess, AfterFailure, Breakers
    <3>3. QED
      BY <1>1, <3>2 DEF Settle, AfterDo
  <2>2. Settled(c) /\ UNCHANGED probe
    BY <1>1, ConcludeSettles DEF Settle
  <2>3. QED
    BY <2>1, <2>2 DEF Settled
<1>2. CASE EndAttempt(c, code) /\ ~Settle(c, code)
  BY <1>2 DEF EndAttempt, service, InFlight, TypeInv, TypeOK
<1>3. QED
  BY <1>1, <1>2

LEMMA ProbeStep == TypeInv /\ ProbeOnItsWay /\ [Next]_vars => ProbeOnItsWay'
<1> SUFFICES ASSUME TypeInv, ProbeOnItsWay, [Next]_vars
             PROVE  ProbeOnItsWay'
  OBVIOUS
<1>0. brk \in Breakers /\ DOMAIN pc = Calls /\ DOMAIN probe = Calls
  BY DEF TypeInv, TypeOK
\* A call that is not in flight may move, and one in flight goes on.
<1>1. ASSUME NEW c \in Calls, UNCHANGED <<brk, probe>>, InFlight(c) => InFlight(c)',
             \A d \in Calls \ {c} : pc'[d] = pc[d]
      PROVE  ProbeOnItsWay'
  BY <1>1 DEF ProbeOnItsWay, InFlight
<1>2. ASSUME NEW c \in Calls, Replay(c) \/ CheckKey(c) \/ Persist(c)
      PROVE  ProbeOnItsWay'
  BY <1>0, <1>1, <1>2 DEF Replay, CheckKey, Persist, Return, InFlight
<1>3. ASSUME NEW c \in Calls, FailFast(c)
      PROVE  ProbeOnItsWay'
  BY <1>0, <1>1, <1>3 DEF FailFast, Degrade, Return, InFlight
<1>4. ASSUME NEW c \in Calls, Allow(c)
      PROVE  ProbeOnItsWay'
  <2>1. /\ pc'[c] = "calling" /\ probe'[c] = (brk.state # "Closed")
        /\ brk' = AfterAllow(brk)
    BY <1>0, <1>4 DEF Allow, SendAttempt
  <2>2. CASE brk.state = "Closed"
    BY <2>1, <2>2 DEF AfterAllow, ProbeOnItsWay
  <2>3. CASE brk.state # "Closed"
    <3>1. brk'.state = "HalfOpen"
      BY <1>0, <2>1, <2>3 DEF AfterAllow, Breakers
    <3>2. QED
      BY <2>1, <2>3, <3>1 DEF ProbeOnItsWay, InFlight
  <2>4. QED
    BY <2>2, <2>3
<1>5. ASSUME NEW c \in Calls, NEW code, EndAttempt(c, code) \/ Settle(c, code)
      PROVE  ProbeOnItsWay'
  <2>1. CASE brk'.probeInFlight = FALSE
    BY <2>1 DEF ProbeOnItsWay
  <2>2. CASE brk' = brk /\ InFlight(c)'
    BY <1>1, <1>5, <2>2, EndAttemptFrees
  <2>3. QED
    BY <1>5, <2>1, <2>2, EndAttemptFrees
<1>6. ASSUME NEW c \in Calls, Receive(c) \/ LoseAttempt(c) \/ CutBackoff(c)
      PROVE  ProbeOnItsWay'
  BY <1>5, <1>6 DEF Receive, LoseAttempt, CutBackoff
<1>7. ASSUME NEW c \in Calls, Retry(c)
      PROVE  ProbeOnItsWay'
  BY <1>0, <1>1, <1>7 DEF Retry, SendAttempt, service, InFlight
<1>8. ASSUME NEW c \in Calls, NEW why \in {"expired", "cancelled"}, EndContext(c, why)
      PROVE  ProbeOnItsWay'
  BY <1>8 DEF EndContext, service, ProbeOnItsWay, InFlight
<1>9. ASSUME NEW msg \in rpcs, ValidateCredit(msg)
      PROVE  ProbeOnItsWay'
  BY <1>9 DEF ValidateCredit, service, ProbeOnItsWay, InFlight
<1>10. CASE Tick \/ UNCHANGED vars
  BY <1>10 DEF Tick, vars, ProbeOnItsWay, InFlight
<1> QED
  BY <1>2, <1>3, <1>4, <1>6, <1>7, <1>8, <1>9, <1>10 DEF Next, Handle

\* A half-open breaker that refuses callers has a probe in flight: deadlines,
\* cancellations and late answers cannot leave the circuit stuck
\* (resilience.go, Do and release).
THEOREM ProbeNeverStuck == Spec => []ProbeOnItsWay
<1>1. Init => ProbeOnItsWay
  BY DEF Init, ProbeOnItsWay, NewBreaker
<1>2. QED
  BY <1>1, ProbeStep, TypeInvCorrect, PTL DEF Spec

-----------------------------------------------------------------------------
(* Orders nobody verified.                                                 *)

\* What persist may make an order of.
Vouched(c, status) ==
    \/ UserOf[c] \in ActiveUsers /\ status # "PENDING"
    \/ status = "PENDING" /\ TotalOf[c] <= PendingCap

\* The user service approves or declines only for active users, and what is
\* decided from its answer, or from the cap without one, is vouched for.
CreditInv ==
    /\ \A c \in Calls : inbox[c] \in {"Approved", "Declined"} => UserOf[c] \in ActiveUsers
    /\ \A c \in Calls : pc[c] = "decided" => Vouched(c, plan[c])
    /\ UnverifiedOrdersSmall

\* The end of an attempt decides nothing that is not vouched for.
LEMMA EndAttemptVouched ==
    ASSUME TypeInv, CreditInv, NEW c \in Calls, NEW code,
           code \in {"Approved", "Declined"} => UserOf[c] \in ActiveUsers,
           EndAttempt(c, code) \/ Settle(c, code)
    PROVE  /\ \A d \in Calls : pc'[d] = "decided" => Vouched(d, plan'[d])
           /\ UNCHANGED orders
<1>0. pc \in [Calls -> PcValues] /\ DOMAIN plan = Calls
  BY DEF TypeInv, TypeOK, PcValues
<1>1. ASSUME NEW status, Vouched(c, status), Decide(c, status)
      PROVE  \A d \in Calls : pc'[d] = "decided" => Vouched(d, plan'[d])
  BY <1>0, <1>1 DEF Decide, CreditInv
<1>2. ASSUME NEW other, NEW id, Return(c, other, id), UNCHANGED plan
      PROVE  \A d \in Calls : pc'[d] = "decided" => Vouched(d, plan'[d])
  BY <1>0, <1>2 DEF Return, CreditInv
<1>3. CASE Settle(c, code)
  <2>1. UNCHANGED orders /\ Conclude(c, code)
    BY <1>3 DEF Settle
  <2>2. CASE code = "Unavailable" /\ Degrade(c)
    <3>1. CASE TotalOf[c] <= PendingCap /\ Decide(c, "PENDING")
      BY <1>1, <2>1, <3>1 DEF Vouched
    <3>2. CASE Return(c, "Unavailable", 0) /\ UNCHANGED plan
      BY <1>2, <2>1, <3>2
    <3>3. QED
      BY <2>1, <2>2, <3>1, <3>2 DEF Degrade, Decide
  <2>3. CASE code = "Approved" /\ Decide(c, "CONFIRMED")
    BY <1>1, <2>1, <2>3 DEF Vouched
  <2>4. CASE code = "Declined" /\ Decide(c, "REJECTED")
    BY <1>1, <2>1, <2>4 DEF Vouched
  <2>5. CASE (Return(c, code, 0) \/ Return(c, "Internal", 0)) /\ UNCHANGED plan
    BY <1>2, <2>1, <2>5
  <2>6. QED
    BY <2>1, <2>2, <2>3, <2>4, <2>5 DEF Conclude
<1>4. CASE EndAttempt(c, code) /\ ~Settle(c, code)
  <2>1. pc' = [pc EXCEPT ![c] = "backoff"] /\ UNCHANGED <<plan, orders>>
    BY <1>4 DEF EndAttempt, service
  <2>2. QED
    BY <1>0, <2>1 DEF CreditInv
<1>5. QED
  BY <1>3, <1>4

LEMMA CreditStep == TypeInv /\ CreditInv /\ [Next]_vars => CreditInv'
<1> SUFFICES ASSUME TypeInv, CreditInv, [Next]_vars
             PROVE  CreditInv'
  OBVIOUS
<1>0. /\ pc \in [Calls -> PcValues] /\ DOMAIN plan = Calls /\ DOMAIN inbox = Calls
      /\ orders \in Seq(Orders)
  BY DEF TypeInv, TypeOK, PcValues
<1>1. ASSUME NEW c \in Calls, UNCHANGED <<inbox, plan, orders>>,
             \A d \in Calls : pc'[d] = "decided" => pc[d] = "decided"
      PROVE  CreditInv'
  BY <1>1 DEF CreditInv, UnverifiedOrdersSmall, Vouched
<1>2. ASSUME NEW c \in Calls, Replay(c) \/ CheckKey(c)
      PROVE  CreditInv'
  BY <1>0, <1>1, <1>2 DEF Replay, CheckKey, Return
<1>3. ASSUME NEW c \in Calls, Allow(c) \/ Retry(c)
      PROVE  CreditInv'
  <2>1. /\ pc' = [pc EXCEPT ![c] = "calling"] /\ inbox' = [inbox EXCEPT ![c] = "none"]
        /\ UNCHANGED <<plan, orders>>
    BY <1>3 DEF Allow, Retry, SendAttempt, service
  <2>2. QED
    BY <1>0, <2>1 DEF CreditInv, UnverifiedOrdersSmall, Vouched
<1>4. ASSUME NEW c \in Calls, FailFast(c)
      PROVE  CreditInv'
  <2>1. UNCHANGED <<inbox, orders>>
    BY <1>4 DEF FailFast
  <2>2. \/ Return(c, "Unavailable", 0) /\ UNCHANGED plan
        \/ Decide(c, "PENDING") /\ TotalOf[c] <= PendingCap
    BY <1>4 DEF FailFast, Degrade, Decide
  <2>3. QED
    BY <1>0, <2>1, <2>2 DEF Return, Decide, CreditInv, UnverifiedOrdersSmall, Vouched
<1>5. ASSUME NEW c \in Calls, NEW code, EndAttempt(c, code) \/ Settle(c, code),
             code \in {"Approved", "Declined"} => UserOf[c] \in ActiveUsers,
             \A d \in Calls : inbox'[d] \in {inbox[d], "none"}
      PROVE  CreditInv'
  BY <1>5, EndAttemptVouched DEF CreditInv, UnverifiedOrdersSmall
<1>6. ASSUME NEW c \in Calls, Receive(c)
      PROVE  CreditInv'
  BY <1>5, <1>6 DEF Receive, CreditInv
<1>7. ASSUME NEW c \in Calls, LoseAttempt(c)
      PROVE  CreditInv'
  <2>1. PICK code \in {"Unavailable", "DeadlineExceeded", "Canceled"} : EndAttempt(c, code)
    BY <1>7 DEF LoseAttempt
  <2>2. \A d \in Calls : inbox'[d] \in {inbox[d], "none"}
    BY <1>0, <1>7 DEF LoseAttempt
  <2>3. QED
    BY <1>5, <2>1, <2>2
<1>8. ASSUME NEW c \in Calls, CutBackoff(c)
      PROVE  CreditInv'
  <2>1. PICK code \in {"CutByDeadline", "CutByCancel"} : Settle(c, code)
    BY <1>8 DEF CutBackoff
  <2>2. QED
    BY <1>5, <1>8, <2>1 DEF CutBackoff
<1>9. ASSUME NEW c \in Calls, Persist(c)
      PROVE  CreditInv'
  <2> DEFINE o == [key |-> KeyOf[c], call |-> c, total |-> TotalOf[c], status |-> plan[c]]
  <2>1. /\ orders' = Append(orders, o) /\ pc[c] = "decided"
        /\ pc' = [pc EXCEPT ![c] = "done"] /\ UNCHANGED <<inbox, plan>>
    BY <1>9 DEF Persist, Return
  <2>2. Vouched(c, plan[c])
    BY <2>1 DEF CreditInv
  <2>3. ASSUME NEW i \in 1 .. Len(orders')
        PROVE  \/ UserOf[orders'[i].call] \in ActiveUsers /\ orders'[i].status # "PENDING"
               \/ orders'[i].status = "PENDING" /\ orders'[i].total <= PendingCap
    <3>1. CASE i \in 1 .. Len(orders)
      BY <1>0, <2>1, <3>1 DEF CreditInv, UnverifiedOrdersSmall
    <3>2. CASE i = Len(orders) + 1
      <4>1. orders'[i] = o
        BY <1>0, <2>1, <3>2
      <4>2. QED
        BY <2>2, <4>1 DEF Vouched
    <3>3. QED
      BY <1>0, <2>1, <3>1, <3>2
  <2>4. QED
    BY <1>0, <2>1, <2>3 DEF CreditInv, UnverifiedOrdersSmall, Vouched
<1>10. ASSUME NEW c \in Calls, NEW why \in {"expired", "cancelled"}, EndContext(c, why)
      PROVE  CreditInv'
  BY <1>10 DEF EndContext, service, CreditInv, UnverifiedOrdersSmall, Vouched
<1>11. ASSUME NEW msg \in rpcs, ValidateCredit(msg)
      PROVE  CreditInv'
  <2>1. CreditVerdict(msg.call) \in {"Approved", "Declined"}
           => UserOf[msg.call] \in ActiveUsers
    BY DEF CreditVerdict
  <2>2. \A d \in Calls : inbox'[d] = inbox[d] \/ (d = msg.call /\ inbox'[d] = CreditVerdict(d))
    BY <1>0, <1>11 DEF ValidateCredit
  <2>3. UNCHANGED <<pc, plan, orders>>
    BY <1>11 DEF ValidateCredit, service
  <2>4. QED
    BY <2>1, <2>2, <2>3 DEF CreditInv, UnverifiedOrdersSmall, Vouched
<1>12. CASE Tick \/ UNCHANGED vars
  BY <1>12 DEF Tick, vars, CreditInv, UnverifiedOrdersSmall, Vouched
<1> QED
  BY <1>2, <1>3, <1>4, <1>6, <1>7, <1>8, <1>9, <1>10, <1>11, <1>12 DEF Next, Handle

\* Orders accepted in degraded mode are small, and nobody but an active user
\* has an order that was decided on an answer (service.go, degraded mode).
THEOREM UnverifiedBounded == Spec => []UnverifiedOrdersSmall
<1>1. Init => CreditInv
  BY DEF Init, CreditInv, UnverifiedOrdersSmall
<1>2. CreditInv => UnverifiedOrdersSmall
  BY DEF CreditInv
<1>3. QED
  BY <1>1, <1>2, CreditStep, TypeInvCorrect, PTL DEF Spec
-----------------------------------------------------------------------------
(* Confirmed orders and reserved credit.                                   *)

\* Call c holds an approval that no order stands for yet.
Holding(c) ==
    \/ pc[c] = "calling" /\ inbox[c] = "Approved"
    \/ pc[c] = "decided" /\ plan[c] = "CONFIRMED"

Held(u) == {c \in Calls : UserOf[c] = u /\ Holding(c)}

Totals == [i \in 1 .. Len(orders) |-> orders[i].total]

Confirmed(u) == SumFunctionOnSet(Totals, OrdersOf(u, "CONFIRMED"))

\* ConfirmedCovered is inductive once the approvals on their way are counted in
\* with the orders: each was reserved when it was given, and only one of a
\* call's approvals is ever used.
CoverInv ==
    \A u \in Users :
        /\ Confirmed(u) + SumFunctionOnSet(TotalOf, Held(u)) <= spent[u]
        /\ spent[u] <= CreditLimit[u]

\* The three sums are naturals.
LEMMA CoverTyped ==
    ASSUME TypeOK, NEW u \in Users
    PROVE  /\ IsFiniteSet(Held(u)) /\ \A c \in Held(u) : TotalOf[c] \in Nat
           /\ SumFunctionOnSet(TotalOf, Held(u)) \in Nat
           /\ IsFiniteSet(OrdersOf(u, "CONFIRMED"))
           /\ \A i \in OrdersOf(u, "CONFIRMED") : Totals[i] \in Nat
           /\ Confirmed(u) \in Nat
           /\ spent[u] \in Nat /\ CreditLimit[u] \in Nat
<1>1. IsFiniteSet(Held(u)) /\ \A c \in Held(u) : TotalOf[c] \in Nat
  BY FS_Subset, OrderAssumption DEF Held
<1>2. SumFunctionOnSet(TotalOf, Held(u)) \in Nat
  BY <1>1, SumNat
<1>3. orders \in Seq(Orders) /\ Len(orders) \in Nat
  BY DEF TypeOK
<1>4. IsFiniteSet(OrdersOf(u, "CONFIRMED"))
  <2> DEFINE I == 1 .. Len(orders)
  <2>1. IsFiniteSet(I)
    BY <1>3, FS_Interval
  <2>2. OrdersOf(u, "CONFIRMED") \in SUBSET I
    BY DEF OrdersOf
  <2> HIDE DEF I
  <2>3. QED
    BY <2>1, <2>2, FS_Subset
<1>5. \A i \in OrdersOf(u, "CONFIRMED") : Totals[i] \in Nat
  <2>1. \A i \in 1 .. Len(orders) : orders[i] \in Orders
    BY <1>3
  <2>2. \A i \in 1 .. Len(orders) : orders[i].total \in Nat
    BY <2>1 DEF Orders
  <2>3. QED
    BY <2>2 DEF OrdersOf, Totals
<1>6. Confirmed(u) \in Nat
  BY <1>4, <1>5, SumNat DEF Confirmed
<1>7. QED
  BY <1>1, <1>2, <1>4, <1>5, <1>6, OrderAssumption DEF TypeOK

\* Steps that reserve nothing, persist nothing and hold no more approvals.
LEMMA CoverKept ==
    ASSUME TypeOK, CoverInv, UNCHANGED <<spent, orders>>,
           \A c \in Calls : Holding(c)' => Holding(c)
    PROVE  CoverInv'
<1> SUFFICES ASSUME NEW u \in Users
             PROVE  /\ Confirmed(u)' + SumFunctionOnSet(TotalOf, Held(u)') <= spent[u]
                    /\ spent[u] <= CreditLimit[u]
  BY DEF CoverInv
<1>1. Confirmed(u)' = Confirmed(u)
  BY DEF Confirmed, Totals, OrdersOf
<1>2. Held(u)' \in SUBSET Held(u)
  BY DEF Held
<1>3. SumFunctionOnSet(TotalOf, Held(u)') <= SumFunctionOnSet(TotalOf, Held(u))
  BY <1>2, CoverTyped, SumSubset
<1>4. SumFunctionOnSet(TotalOf, Held(u)') \in Nat
  <2>1. IsFiniteSet(Held(u)') /\ \A c \in Held(u)' : TotalOf[c] \in Nat
    BY <1>2, CoverTyped, FS_Subset
  <2>2. QED
    BY <2>1, SumNat
<1>5. /\ Confirmed(u) + SumFunctionOnSet(TotalOf, Held(u)) <= spent[u]
      /\ spent[u] <= CreditLimit[u]
  BY DEF CoverInv
<1>6. /\ Confirmed(u) \in Nat /\ spent[u] \in Nat
      /\ SumFunctionOnSet(TotalOf, Held(u)) \in Nat
  BY CoverTyped
<1>7. QED
  BY <1>1, <1>3, <1>4, <1>5, <1>6

\* The user service reserves an amount when it approves, and at most one call
\* holds an approval more.
LEMMA CoverReserved ==
    ASSUME TypeOK, CoverInv, NEW msg \in rpcs, ValidateCredit(msg)
    PROVE  CoverInv'
<1> DEFINE c == msg.call
<1>0. /\ c \in Calls /\ UNCHANGED <<pc, plan, orders>>
      /\ DOMAIN inbox = Calls
      /\ \A d \in Calls \ {c} : inbox'[d] = inbox[d]
      /\ inbox'[c] \in {inbox[c], CreditVerdict(c)}
      /\ TotalOf[c] \in Nat
  BY OrderAssumption DEF ValidateCredit, service, TypeOK
<1>1. CASE CreditVerdict(c) # "Approved"
  <2>1. spent' = spent
    BY <1>1 DEF ValidateCredit
  <2>2. \A d \in Calls : Holding(d)' => Holding(d)
    BY <1>0, <1>1 DEF Holding
  <2>3. QED
    BY <1>0, <2>1, <2>2, CoverKept
<1>2. CASE CreditVerdict(c) = "Approved"
  <2>1. /\ UserOf[c] \in Users
        /\ TotalOf[c] <= CreditLimit[UserOf[c]] - spent[UserOf[c]]
    <3>1. UserOf[c] \in Users
      BY <1>2 DEF CreditVerdict
    <3>2. ~(TotalOf[c] > CreditLimit[UserOf[c]] - spent[UserOf[c]])
      BY <1>2 DEF CreditVerdict
    <3>3. CreditLimit[UserOf[c]] \in Nat /\ spent[UserOf[c]] \in Nat
      BY <3>1, CoverTyped
    <3>4. QED
      BY <1>0, <3>1, <3>2, <3>3
  <2>2. spent' = [spent EXCEPT ![UserOf[c]] = @ + TotalOf[c]]
    BY <1>2 DEF ValidateCredit
  <2> HIDE DEF c
  <2>3. SUFFICES ASSUME NEW u \in Users
                 PROVE  /\ Confirmed(u)' + SumFunctionOnSet(TotalOf, Held(u)') <= spent'[u]
                        /\ spent'[u] <= CreditLimit[u]
    BY DEF CoverInv
  <2>4. /\ Confirmed(u) + SumFunctionOnSet(TotalOf, Held(u)) <= spent[u]
        /\ spent[u] <= CreditLimit[u]
    BY DEF CoverInv
  <2>5. Confirmed(u)' = Confirmed(u)
    BY <1>0 DEF Confirmed, Totals, OrdersOf
  <2>6. /\ IsFiniteSet(Held(u)) /\ \A d \in Held(u) : TotalOf[d] \in Nat
        /\ SumFunctionOnSet(TotalOf, Held(u)) \in Nat
        /\ Confirmed(u) \in Nat /\ spent[u] \in Nat /\ CreditLimit[u] \in Nat
    BY CoverTyped
  <2>7. CASE UserOf[c] = u
    <3>1. spent'[u] = spent[u] + TotalOf[c]
      BY <2>2, <2>7 DEF TypeOK
    <3>2. Held(u)' \subseteq Held(u) \cup {c}
      BY <1>0 DEF Held, Holding
    <3>3. SumFunctionOnSet(TotalOf, Held(u)')
              <= SumFunctionOnSet(TotalOf, Held(u)) + TotalOf[c]
      BY <1>0, <2>6, <3>2, SumAtMostOneMore
    <3>4. SumFunctionOnSet(TotalOf, Held(u)') \in Nat
      BY <1>0, <2>6, <3>2, SumAtMostOneMore
    <3>5. QED
      BY <1>0, <2>1, <2>4, <2>5, <2>6, <2>7, <3>1, <3>3, <3>4
  <2>8. CASE UserOf[c] # u
    <3>1. spent'[u] = spent[u]
      BY <2>2, <2>8 DEF TypeOK
    <3>2. Held(u)' = Held(u)
      BY <1>0, <2>8 DEF Held, Holding
    <3>3. QED
      BY <2>4, <2>5, <3>1, <3>2
  <2>9. QED
    BY <2>7, <2>8
<1>3. QED
  BY <1>1, <1>2

\* An order takes over the approval its call held.
LEMMA CoverPersisted ==
    ASSUME TypeOK, CoverInv, NEW c \in Calls, Persist(c)
    PROVE  CoverInv'
<1> DEFINE o == [key |-> KeyOf[c], call |-> c, total |-> TotalOf[c],
                 status |-> plan[c]]
           n == Len(orders)
<1>0. /\ pc[c] = "decided" /\ orders' = Append(orders, o)
      /\ pc'[c] = "done" /\ \A d \in Calls \ {c} : pc'[d] = pc[d]
      /\ UNCHANGED <<inbox, plan, spent>>
  BY DEF Persist, Return, TypeOK
<1>1. /\ n \in Nat /\ Len(orders') = n + 1
      /\ \A i \in 1 .. n : orders'[i] = orders[i]
      /\ orders'[n + 1] = o
  <2>1. orders \in Seq(Orders)
    BY DEF TypeOK
  <2>2. QED
    BY <1>0, <2>1
<1>2. o.call = c /\ o.total = TotalOf[c] /\ o.status = plan[c] /\ TotalOf[c] \in Nat
  BY OrderAssumption
<1> HIDE DEF o, n
<1>3. SUFFICES ASSUME NEW u \in Users
               PROVE  Confirmed(u)' + SumFunctionOnSet(TotalOf, Held(u)') <= spent[u]
  BY <1>0 DEF CoverInv
<1> DEFINE S == OrdersOf(u, "CONFIRMED")
<1>4. /\ IsFiniteSet(Held(u)) /\ \A d \in Held(u) : TotalOf[d] \in Nat
      /\ SumFunctionOnSet(TotalOf, Held(u)) \in Nat
      /\ IsFiniteSet(S) /\ \A i \in S : Totals[i] \in Nat
      /\ Confirmed(u) \in Nat /\ spent[u] \in Nat
  BY CoverTyped
<1>5. Confirmed(u) + SumFunctionOnSet(TotalOf, Held(u)) <= spent[u]
  BY DEF CoverInv
<1>6. \A i \in S : i \in 1 .. n /\ Totals'[i] = Totals[i]
  BY <1>1 DEF OrdersOf, Totals, n
<1>7. SumFunctionOnSet(Totals', S) = Confirmed(u)
  <2>1. SumFunctionOnSet(Totals, S) = SumFunctionOnSet(Totals', S)
    <3> HIDE DEF S
    <3>1. QED
      BY <1>4, <1>6, SumSame
  <2>2. QED
    BY <2>1 DEF Confirmed
<1>8. Totals'[n + 1] = TotalOf[c] /\ n + 1 \notin S
  <2>1. n + 1 \in 1 .. Len(orders') /\ n + 1 \notin 1 .. n
    BY <1>1
  <2>2. Totals'[n + 1] = orders'[n + 1].total
    BY <2>1 DEF Totals
  <2>3. QED
    BY <1>1, <1>2, <1>6, <2>1, <2>2
<1>9. CASE UserOf[c] = u /\ plan[c] = "CONFIRMED"
  <2>1. OrdersOf(u, "CONFIRMED")' = S \cup {n + 1}
    <3>1. \A i : i \in 1 .. n + 1 <=> i \in 1 .. n \/ i = n + 1
      BY <1>1
    <3>2. QED
      BY <1>1, <1>2, <1>9, <3>1 DEF OrdersOf, n
  <2>2. SumFunctionOnSet(Totals', S \cup {n + 1})
            = Totals'[n + 1] + SumFunctionOnSet(Totals', S)
    <3>1. \A i \in S \cup {n + 1} : Totals'[i] \in Int
      BY <1>2, <1>4, <1>6, <1>8
    <3> HIDE DEF S
    <3>2. QED
      BY <1>4, <1>8, <3>1, SumInsert
  <2>3. Confirmed(u)' = TotalOf[c] + Confirmed(u)
    BY <1>7, <1>8, <2>1, <2>2 DEF Confirmed
  <2>4. c \in Held(u) /\ Held(u)' = Held(u) \ {c}
    BY <1>0, <1>9 DEF Held, Holding
  <2>5. SumFunctionOnSet(TotalOf, Held(u))
            = TotalOf[c] + SumFunctionOnSet(TotalOf, Held(u) \ {c})
    BY <1>4, <2>4, SumRemove
  <2>6. SumFunctionOnSet(TotalOf, Held(u) \ {c}) \in Nat
    <3>1. IsFiniteSet(Held(u) \ {c}) /\ \A d \in Held(u) \ {c} : TotalOf[d] \in Nat
      BY <1>4, FS_Subset
    <3>2. QED
      BY <3>1, SumNat
  <2>7. QED
    BY <1>2, <1>4, <1>5, <2>3, <2>4, <2>5, <2>6
<1>10. CASE ~(UserOf[c] = u /\ plan[c] = "CONFIRMED")
  <2>1. OrdersOf(u, "CONFIRMED")' = S
    <3>1. \A i : i \in 1 .. n + 1 <=> i \in 1 .. n \/ i = n + 1
      BY <1>1
    <3>2. QED
      BY <1>1, <1>2, <1>10, <3>1 DEF OrdersOf, n
  <2>2. Confirmed(u)' = Confirmed(u)
    BY <1>7, <2>1 DEF Confirmed
  <2>3. Held(u)' = Held(u)
    BY <1>0, <1>10 DEF Held, Holding
  <2>4. QED
    BY <1>5, <2>2, <2>3
<1>11. QED
  BY <1>9, <1>10

\* The end of an attempt holds an approval only if it was held before.
LEMMA EndAttemptHolds ==
    ASSUME TypeInv, NEW c \in Calls, NEW code,
           pc[c] \in {"calling", "backoff"},
           code = "Approved" => Holding(c),
           EndAttempt(c, code) \/ Settle(c, code)
    PROVE  /\ pc'[c] # "calling"
           /\ pc'[c] = "decided" /\ plan'[c] = "CONFIRMED" => Holding(c)
           /\ \A d \in Calls \ {c} : pc'[d] = pc[d] /\ plan'[d] = plan[d]
           /\ UNCHANGED orders
<1>0. DOMAIN pc = Calls /\ DOMAIN plan = Calls
  BY DEF TypeInv, TypeOK
<1>1. CASE Settle(c, code)
  BY <1>0, <1>1 DEF Settle, Conclude, Decide, Degrade, Return
<1>2. CASE EndAttempt(c, code) /\ ~Settle(c, code)
  BY <1>0, <1>2 DEF EndAttempt, service
<1>3. QED
  BY <1>1, <1>2

LEMMA CoverStep == TypeInv /\ CoverInv /\ [Next]_vars => CoverInv'
<1> SUFFICES ASSUME TypeInv, CoverInv, [Next]_vars
             PROVE  CoverInv'
  OBVIOUS
<1>0. /\ TypeOK /\ DOMAIN pc = Calls /\ DOMAIN plan = Calls /\ DOMAIN inbox = Calls
  BY DEF TypeInv, TypeOK
<1>1. ASSUME NEW c \in Calls, Replay(c) \/ CheckKey(c) \/ Allow(c) \/ Retry(c)
      PROVE  CoverInv'
  <2>1. UNCHANGED <<spent, orders, plan>>
    BY <1>1 DEF Replay, CheckKey, Allow, Retry, service
  <2>2. \A d \in Calls : Holding(d)' => Holding(d)
    BY <1>0, <1>1 DEF Replay, CheckKey, Allow, Retry, SendAttempt, Return, service,
                      Holding
  <2>3. QED
    BY <1>0, <2>1, <2>2, CoverKept
<1>2. ASSUME NEW c \in Calls, FailFast(c)
      PROVE  CoverInv'
  <2>1. UNCHANGED <<spent, orders, inbox>>
    BY <1>2 DEF FailFast
  <2>2. \A d \in Calls : Holding(d)' => Holding(d)
    BY <1>0, <1>2 DEF FailFast, Degrade, Return, Holding
  <2>3. QED
    BY <1>0, <2>1, <2>2, CoverKept
<1>3. ASSUME NEW c \in Calls, NEW code, EndAttempt(c, code) \/ Settle(c, code),
             pc[c] \in {"calling", "backoff"},
             code = "Approved" => Holding(c),
             \A d \in Calls \ {c} : inbox'[d] = inbox[d], UNCHANGED spent
      PROVE  CoverInv'
  <2>1. \A d \in Calls : Holding(d)' => Holding(d)
    BY <1>3, EndAttemptHolds DEF Holding
  <2>2. UNCHANGED orders
    BY <1>3, EndAttemptHolds
  <2>3. QED
    BY <1>0, <1>3, <2>1, <2>2, CoverKept
<1>4. ASSUME NEW c \in Calls, Receive(c)
      PROVE  CoverInv'
  <2>1. inbox[c] = "Approved" => Holding(c)
    BY <1>4 DEF Receive, Holding
  <2>2. QED
    BY <1>3, <1>4, <2>1 DEF Receive
<1>5. ASSUME NEW c \in Calls, LoseAttempt(c)
      PROVE  CoverInv'
  <2>1. PICK code \in {"Unavailable", "DeadlineExceeded", "Canceled"} : EndAttempt(c, code)
    BY <1>5 DEF LoseAttempt
  <2>2. \A d \in Calls \ {c} : inbox'[d] = inbox[d]
    BY <1>0, <1>5 DEF LoseAttempt
  <2>3. QED
    BY <1>3, <1>5, <2>1, <2>2 DEF LoseAttempt
<1>6. ASSUME NEW c \in Calls, CutBackoff(c)
      PROVE  CoverInv'
  <2>1. PICK code \in {"CutByDeadline", "CutByCancel"} : Settle(c, code)
    BY <1>6 DEF CutBackoff
  <2>2. QED
    BY <1>3, <1>6, <2>1 DEF CutBackoff
<1>7. ASSUME NEW c \in Calls, Persist(c)
      PROVE  CoverInv'
  BY <1>0, <1>7, CoverPersisted
<1>8. ASSUME NEW msg \in rpcs, ValidateCredit(msg)
      PROVE  CoverInv'
  BY <1>0, <1>8, CoverReserved
<1>9. ASSUME UNCHANGED <<pc, plan, inbox, spent, orders>>
      PROVE  CoverInv'
  BY <1>0, <1>9, CoverKept DEF Holding
<1>10. ASSUME NEW c \in Calls, NEW why \in {"expired", "cancelled"}, EndContext(c, why)
      PROVE  CoverInv'
  BY <1>9, <1>10 DEF EndContext, service
<1>11. CASE Tick \/ UNCHANGED vars
  BY <1>9, <1>11 DEF Tick, vars
<1> QED
  BY <1>1, <1>2, <1>4, <1>5, <1>6, <1>7, <1>8, <1>10, <1>11 DEF Next, Handle

LEMMA CoverInit == Init => CoverInv
<1> SUFFICES ASSUME Init, NEW u \in Users
             PROVE  /\ Confirmed(u) + SumFunctionOnSet(TotalOf, Held(u)) <= spent[u]
                    /\ spent[u] <= CreditLimit[u]
  BY DEF CoverInv
<1>1. OrdersOf(u, "CONFIRMED") = {} /\ Held(u) = {} /\ spent[u] = 0
  BY DEF Init, OrdersOf, Held, Holding
<1>2. Confirmed(u) = 0 /\ SumFunctionOnSet(TotalOf, Held(u)) = 0
  BY <1>1, SumEmpty DEF Confirmed
<1>3. CreditLimit[u] \in Nat
  BY OrderAssumption
<1>4. QED
  BY <1>1, <1>2, <1>3

\* Across the two services: the totals of a user's confirmed orders add up to no
\* more than the credit the user service has reserved for it, and that is within
\* the limit, whichever answers are lost, late or asked for twice.
THEOREM ConfirmedIsCovered == Spec => []ConfirmedCovered
<1>1. TypeInv /\ CoverInv => ConfirmedCovered
  <2> SUFFICES ASSUME TypeInv, CoverInv, NEW u \in Users
               PROVE  Confirmed(u) <= spent[u] /\ spent[u] <= CreditLimit[u]
    BY DEF ConfirmedCovered, Confirmed, Totals
  <2>1. /\ Confirmed(u) \in Nat /\ SumFunctionOnSet(TotalOf, Held(u)) \in Nat
        /\ spent[u] \in Nat
    BY CoverTyped DEF TypeInv
  <2>2. QED
    BY <2>1 DEF CoverInv
<1>2. QED
  BY <1>1, CoverInit, CoverStep, TypeInvCorrect, PTL DEF Spec
=============================================================================
