--------------------------- MODULE ProgramsProofs ---------------------------
(* Proofs about the concurrent programs and lessons, in the specification    *)
(* that composes them: what a program promises holds in every behaviour that *)
(* runs it, for every value of its constants.  The first lemmas say what the *)
(* composition adds to each of them; after that each section is about one.   *)
EXTENDS MCPrograms, FiniteSetTheorems, SequenceTheorems, TLAPS

-----------------------------------------------------------------------------
(* The composition *)

\* A behaviour that begins with a program begins as that program does.
LEMMA ProgramsBegin ==
    ASSUME ProgramsInit
    PROVE  /\ program = "tokens" => Init
           /\ program = "stock" => Stock!Init
           /\ program = "queue" => Queue!Init
           /\ program = "pool" => Pool!Init
           /\ program = "join" => Join!Init
           /\ program = "cond" => Cond!Init
           /\ program = "lock" => Lock!Init
           /\ program = "fan" => Fan!Init
           /\ program = "chan" => Chan!Init
           /\ program = "client" => Cli!Init
  BY DEF ProgramsInit, Begins

\* The program stays the same, and steps are its steps or leave it alone.
LEMMA ProgramsMove ==
    ASSUME [ProgramsNext]_everything
    PROVE  /\ program' = program
           /\ program = "tokens" => [Next]_vars
           /\ program = "stock" => [Stock!Next]_(Stock!vars)
           /\ program = "queue" => [Queue!Next]_(Queue!vars)
           /\ program = "pool" => [Pool!Next]_(Pool!vars)
           /\ program = "join" => [Join!Next]_(Join!vars)
           /\ program = "cond" => [Cond!Next]_(Cond!vars)
           /\ program = "lock" => [Lock!Next]_(Lock!vars)
           /\ program = "fan" => [Fan!Next]_(Fan!vars)
           /\ program = "chan" => [Chan!Next]_(Chan!vars)
           /\ program = "client" => [Cli!Next]_(Cli!vars)
<1>1. CASE ProgramsNext
  BY <1>1 DEF ProgramsNext, Moves
<1>2. CASE UNCHANGED everything
  <2>1. /\ UNCHANGED <<program, vars>> /\ UNCHANGED <<stockVars, queueVars>>
        /\ UNCHANGED <<poolVars, joinVars>> /\ UNCHANGED <<condVars, lockVars>>
        /\ UNCHANGED <<fanVars, chanVars>> /\ UNCHANGED cliVars
    BY <1>2 DEF everything
  <2>2. UNCHANGED Stock!vars /\ UNCHANGED Queue!vars
    BY <2>1 DEF stockVars, queueVars, Stock!vars, Queue!vars
  <2>3. UNCHANGED Pool!vars /\ UNCHANGED Join!vars
    BY <2>1 DEF poolVars, joinVars, Pool!vars, Join!vars
  <2>4. UNCHANGED Cond!vars /\ UNCHANGED Lock!vars
    BY <2>1 DEF condVars, lockVars, Cond!vars, Lock!vars
  <2>5. UNCHANGED Fan!vars /\ UNCHANGED Chan!vars
    BY <2>1 DEF fanVars, chanVars, Fan!vars, Chan!vars
  <2>6. UNCHANGED Cli!vars
    BY <2>1 DEF cliVars, Cli!vars
  <2>7. QED
    BY <2>1, <2>2, <2>3, <2>4, <2>5, <2>6
<1>3. QED
  BY <1>1, <1>2

-----------------------------------------------------------------------------
(* The worker pools: OneResultPerJob.  First, sequences without repetition. *)

Members(s) == {s[i] : i \in DOMAIN s}
Distinct(s) == \A i, j \in DOMAIN s : s[i] = s[j] => i = j

LEMMA AppendFacts ==
    ASSUME NEW S, NEW s \in Seq(S), NEW x \in S
    PROVE  /\ Members(Append(s, x)) = Members(s) \cup {x}
           /\ Distinct(s) /\ x \notin Members(s) => Distinct(Append(s, x))
<1>1. /\ DOMAIN Append(s, x) = 1 .. Len(s) + 1 /\ DOMAIN s = 1 .. Len(s)
      /\ Append(s, x)[Len(s) + 1] = x /\ Len(s) \in Nat
      /\ \A i \in 1 .. Len(s) : Append(s, x)[i] = s[i]
  OBVIOUS
<1>2. Members(Append(s, x)) = Members(s) \cup {x}
  BY <1>1 DEF Members
<1>3. ASSUME Distinct(s), x \notin Members(s)
      PROVE  Distinct(Append(s, x))
  BY <1>1, <1>3 DEF Distinct, Members
<1>4. QED
  BY <1>2, <1>3

LEMMA TailFacts ==
    ASSUME NEW S, NEW s \in Seq(S), s # <<>>
    PROVE  /\ Head(s) \in S /\ Tail(s) \in Seq(S)
           /\ Members(s) = Members(Tail(s)) \cup {Head(s)}
           /\ Distinct(s) => Distinct(Tail(s)) /\ Head(s) \notin Members(Tail(s))
<1>1. /\ DOMAIN s = 1 .. Len(s) /\ DOMAIN Tail(s) = 1 .. Len(s) - 1
      /\ Len(s) \in Nat \ {0} /\ Head(s) = s[1]
      /\ \A i \in 1 .. Len(s) - 1 : Tail(s)[i] = s[i + 1]
  OBVIOUS
<1>2. ASSUME NEW i \in DOMAIN s
      PROVE  s[i] = Head(s) \/ (i - 1 \in DOMAIN Tail(s) /\ Tail(s)[i - 1] = s[i])
  BY <1>1
<1>3. ASSUME NEW i \in DOMAIN Tail(s)
      PROVE  i + 1 \in DOMAIN s /\ Tail(s)[i] = s[i + 1] /\ i + 1 # 1
  BY <1>1
<1>4. Members(s) \subseteq Members(Tail(s)) \cup {Head(s)}
  BY <1>2 DEF Members
<1>5. Head(s) \in Members(s) /\ Members(Tail(s)) \subseteq Members(s)
  BY <1>1, <1>3 DEF Members
<1>6. ASSUME Distinct(s)
      PROVE  Head(s) \notin Members(Tail(s))
  BY <1>1, <1>3, <1>6 DEF Distinct, Members
<1>7. ASSUME Distinct(s)
      PROVE  Distinct(Tail(s))
  <2> SUFFICES ASSUME NEW i \in DOMAIN Tail(s), NEW j \in DOMAIN Tail(s),
                      Tail(s)[i] = Tail(s)[j]
               PROVE  i = j
    BY DEF Distinct
  <2>1. i + 1 = j + 1
    BY <1>3, <1>7 DEF Distinct
  <2>2. QED
    BY <1>1, <2>1
<1>8. QED
  BY <1>4, <1>5, <1>6, <1>7

LEMMA ConcatDistinct ==
    ASSUME NEW S, NEW s \in Seq(S), NEW t \in Seq(S),
           Distinct(s), Distinct(t), Members(s) \cap Members(t) = {}
    PROVE  Distinct(s \o t)
<1>1. /\ DOMAIN (s \o t) = 1 .. Len(s) + Len(t)
      /\ Len(s) \in Nat /\ Len(t) \in Nat
      /\ DOMAIN s = 1 .. Len(s) /\ DOMAIN t = 1 .. Len(t)
      /\ \A i \in 1 .. Len(s) + Len(t) :
             (s \o t)[i] = IF i <= Len(s) THEN s[i] ELSE t[i - Len(s)]
  OBVIOUS
<1> SUFFICES ASSUME NEW i \in 1 .. Len(s) + Len(t), NEW j \in 1 .. Len(s) + Len(t),
                    (s \o t)[i] = (s \o t)[j]
             PROVE  i = j
  BY <1>1 DEF Distinct
<1>2. ASSUME NEW k \in 1 .. Len(s) + Len(t)
      PROVE  \/ k <= Len(s) /\ k \in DOMAIN s /\ (s \o t)[k] = s[k]
             \/ k > Len(s) /\ k - Len(s) \in DOMAIN t /\ (s \o t)[k] = t[k - Len(s)]
  BY <1>1
<1>3. CASE i <= Len(s) /\ j <= Len(s)
  BY <1>1, <1>2, <1>3 DEF Distinct
<1>4. CASE i > Len(s) /\ j > Len(s)
  <2>1. i - Len(s) = j - Len(s)
    BY <1>1, <1>2, <1>4 DEF Distinct
  <2>2. QED
    BY <1>1, <2>1
<1>5. ASSUME NEW k \in 1 .. Len(s) + Len(t), NEW l \in 1 .. Len(s) + Len(t),
             k <= Len(s), l > Len(s)
      PROVE  (s \o t)[k] # (s \o t)[l]
  <2>1. (s \o t)[k] \in Members(s)
    BY <1>1, <1>5 DEF Members
  <2>2. l - Len(s) \in DOMAIN t /\ (s \o t)[l] = t[l - Len(s)]
    BY <1>1, <1>5
  <2>3. (s \o t)[l] \in Members(t)
    BY <2>2 DEF Members
  <2>4. QED
    BY <2>1, <2>3
<1>6. (i <= Len(s) \/ i > Len(s)) /\ (j <= Len(s) \/ j > Len(s))
  BY <1>1
<1>7. QED
  BY <1>3, <1>4, <1>5, <1>6

LEMMA DistinctLength ==
    ASSUME NEW n \in Nat, NEW s \in Seq(1 .. n), Distinct(s), Members(s) = 1 .. n
    PROVE  Len(s) = n
<1>1. s \in Bijection(1 .. Len(s), 1 .. n)
  <2>1. s \in [1 .. Len(s) -> 1 .. n]
    OBVIOUS
  <2>2. \A i, j \in 1 .. Len(s) : s[i] = s[j] => i = j
    BY DEF Distinct
  <2>3. \A k \in 1 .. n : \E i \in 1 .. Len(s) : s[i] = k
    BY DEF Members
  <2>4. QED
    BY <2>1, <2>2, <2>3 DEF Bijection, Injection, Surjection, IsInjective
<1>2. ExistsBijection(1 .. Len(s), 1 .. n)
  BY <1>1 DEF ExistsBijection
<1>3. ASSUME NEW m \in Nat
      PROVE  IsFiniteSet(1 .. m) /\ Cardinality(1 .. m) = m
  <2>1. /\ IsFiniteSet(1 .. m)
        /\ Cardinality(1 .. m) = IF 1 > m THEN 0 ELSE m - 1 + 1
    BY FS_Interval
  <2>2. QED
    BY <2>1
<1>4. QED
  BY <1>2, <1>3, FS_Bijection, Len(s) \in Nat

-----------------------------------------------------------------------------
(* The invariant.                                                          *)

\* A worker that has a job in its hands.
Holds(w) == worker[w].pc \in {"process", "send"}
InHand == {worker[w].job : w \in {v \in PoolWorkers : Holds(v)}}

\* Where a job can be that was produced and not dropped.
Somewhere == Members(jobs) \cup InHand \cup Members(results) \cup Members(collected)

PoolTyped ==
    /\ produced \in 0 .. Jobs
    /\ jobs \in Seq(1 .. Jobs)
    /\ worker \in [PoolWorkers -> Pool!States]
    /\ counted \subseteq PoolWorkers
    /\ results \in Seq(1 .. Jobs)
    /\ collected \in Seq(1 .. Jobs)
    /\ \A w \in PoolWorkers : Holds(w) => worker[w].job \in 1 .. Jobs

\* A job is in one place, once; it is lost only in a cancelled run.
OnePlace ==
    /\ Distinct(jobs) /\ Distinct(results) /\ Distinct(collected)
    /\ \A v, w \in PoolWorkers :
           Holds(v) /\ Holds(w) /\ worker[v].job = worker[w].job => v = w
    /\ Members(jobs) \cap (InHand \cup Members(results) \cup Members(collected)) = {}
    /\ InHand \cap (Members(results) \cup Members(collected)) = {}
    /\ Members(results) \cap Members(collected) = {}
    /\ Somewhere \subseteq 1 .. produced
    /\ ~cancelled => 1 .. produced \subseteq Somewhere

\* Who is allowed to think that nothing comes any more is right.
PoolClosing ==
    /\ \A w \in counted : worker[w].pc = "gone"
    /\ resultsClosed => counted = PoolWorkers
    /\ finished => resultsClosed /\ results = <<>>
    /\ jobsClosed /\ ~cancelled => produced = Jobs
    /\ \A w \in PoolWorkers :
           worker[w].pc \in {"count", "gone"} /\ ~cancelled => jobsClosed /\ jobs = <<>>

PoolInv == PoolTyped /\ OnePlace /\ PoolClosing

LEMMA PoolInit ==
    ASSUME Pool!PoolAssumption, Pool!Init
    PROVE  PoolInv
<1>0. Jobs \in Nat
  BY DEF Pool!PoolAssumption
<1>1. produced \in 0 .. Jobs
  BY <1>0 DEF Pool!Init
<1>2. /\ jobs \in Seq(1 .. Jobs) /\ DOMAIN jobs = 1 .. produced
      /\ \A i \in 1 .. produced : jobs[i] = i
  <2>1. jobs \in [1 .. produced -> 1 .. Jobs]
    BY <1>0, <1>1 DEF Pool!Init
  <2>2. QED
    BY <1>1, <2>1 DEF Pool!Init
<1>3. Distinct(jobs) /\ Members(jobs) = 1 .. produced
  BY <1>2 DEF Distinct, Members
<1>4. /\ worker \in [PoolWorkers -> Pool!States]
      /\ \A w \in PoolWorkers : worker[w].pc = "receive"
  BY <1>0 DEF Pool!Init, Pool!States
<1>5. InHand = {} /\ \A w \in PoolWorkers : ~Holds(w)
  BY <1>4 DEF InHand, Holds
<1>6. /\ results = <<>> /\ collected = <<>> /\ counted = {}
      /\ resultsClosed = FALSE /\ finished = FALSE
      /\ jobsClosed => produced = Jobs
  BY DEF Pool!Init
<1>7. /\ results \in Seq(1 .. Jobs) /\ collected \in Seq(1 .. Jobs)
      /\ Members(<<>>) = {} /\ Distinct(<<>>)
  BY <1>6 DEF Members, Distinct
<1>8. PoolTyped
  BY <1>1, <1>2, <1>4, <1>5, <1>6, <1>7 DEF PoolTyped
<1>9. OnePlace
  BY <1>3, <1>5, <1>6, <1>7 DEF OnePlace, Somewhere
<1>10. PoolClosing
  BY <1>4, <1>6 DEF PoolClosing
<1>11. QED
  BY <1>8, <1>9, <1>10 DEF PoolInv

\* A worker that holds nothing, before and after, changes nothing of who holds what.
LEMMA HandsEmpty ==
    ASSUME PoolTyped, NEW w \in PoolWorkers, ~Holds(w),
           NEW next \in {"receive", "count", "gone"}, Pool!Becomes(w, next, 0), Jobs \in Nat
    PROVE  /\ worker' \in [PoolWorkers -> Pool!States]
           /\ \A v \in PoolWorkers : v # w => worker'[v] = worker[v]
           /\ worker'[w].pc = next /\ ~Holds(w)'
           /\ \A v \in PoolWorkers : Holds(v)' <=> Holds(v)
           /\ InHand' = InHand
<1>1. [pc |-> next, job |-> 0] \in Pool!States
  BY DEF Pool!States
<1>2. /\ worker' \in [PoolWorkers -> Pool!States]
      /\ \A v \in PoolWorkers : v # w => worker'[v] = worker[v]
      /\ worker'[w].pc = next
  BY <1>1 DEF Pool!Becomes, PoolTyped
<1>3. \A v \in PoolWorkers : Holds(v)' <=> Holds(v)
  BY <1>2 DEF Holds
<1>4. \A v \in PoolWorkers : Holds(v) => worker'[v] = worker[v]
  BY <1>2
<1>5. QED
  BY <1>2, <1>3, <1>4 DEF InHand

\* What a step does that leaves every job where it is.
LEMMA PlacesKept ==
    ASSUME PoolTyped, OnePlace, UNCHANGED <<produced, jobs, results, collected>>,
           InHand' = InHand, \A v \in PoolWorkers : Holds(v)' => Holds(v) /\ worker'[v].job = worker[v].job,
           ~cancelled' => ~cancelled
    PROVE  OnePlace'
  BY DEF OnePlace, Somewhere

-----------------------------------------------------------------------------
(* The steps.                                                              *)

\* A worker takes a job, or drops it when the run is cancelled.
LEMMA ReceiveKeeps ==
    ASSUME PoolInv, Jobs \in Nat, NEW w \in PoolWorkers, Pool!Receive(w)
    PROVE  PoolInv'
<1>0. /\ PoolTyped /\ OnePlace /\ PoolClosing
      /\ worker \in [PoolWorkers -> Pool!States] /\ jobs \in Seq(1 .. Jobs)
  BY DEF PoolInv, PoolTyped
<1>1. /\ worker[w].pc = "receive" /\ jobs # <<>> /\ jobs' = Tail(jobs) /\ ~Holds(w)
      /\ UNCHANGED <<prefilled, cancelled, produced, jobsClosed, counted>>
      /\ UNCHANGED <<results, resultsClosed, collected, finished>>
  BY DEF Pool!Receive, Pool!outcome, Holds
<1>2. /\ Head(jobs) \in 1 .. Jobs /\ jobs' \in Seq(1 .. Jobs)
      /\ Members(jobs) = Members(jobs') \cup {Head(jobs)}
      /\ Distinct(jobs') /\ Head(jobs) \notin Members(jobs')
  BY <1>0, <1>1, TailFacts DEF OnePlace
<1>3. CASE cancelled /\ Pool!Becomes(w, "count", 0)
  <2>1. /\ worker' \in [PoolWorkers -> Pool!States]
        /\ \A v \in PoolWorkers : v # w => worker'[v] = worker[v]
        /\ worker'[w].pc = "count" /\ ~Holds(w)'
        /\ \A v \in PoolWorkers : Holds(v)' <=> Holds(v)
        /\ InHand' = InHand
    BY <1>0, <1>1, <1>3, HandsEmpty
  <2>2. PoolTyped'
    BY <1>0, <1>1, <1>2, <2>1 DEF PoolTyped
  <2>3. OnePlace'
    BY <1>0, <1>1, <1>2, <1>3, <2>1 DEF OnePlace, Somewhere
  <2>4. PoolClosing'
    BY <1>0, <1>1, <1>3, <2>1 DEF PoolClosing, PoolTyped
  <2>5. QED
    BY <2>2, <2>3, <2>4 DEF PoolInv
<1>4. CASE Pool!Becomes(w, "process", Head(jobs))
  <2>1. /\ worker' \in [PoolWorkers -> Pool!States]
        /\ \A v \in PoolWorkers : v # w => worker'[v] = worker[v]
        /\ worker'[w].pc = "process" /\ worker'[w].job = Head(jobs)
    <3>1. [pc |-> "process", job |-> Head(jobs)] \in Pool!States
      BY <1>2 DEF Pool!States
    <3>2. QED
      BY <1>0, <1>4, <3>1 DEF Pool!Becomes
  <2>2. Holds(w)' /\ \A v \in PoolWorkers : v # w => (Holds(v)' <=> Holds(v))
    BY <2>1 DEF Holds
  <2>3. InHand' = InHand \cup {Head(jobs)}
    BY <1>1, <2>1, <2>2 DEF InHand
  <2>4. PoolTyped'
    BY <1>0, <1>1, <1>2, <2>1, <2>2 DEF PoolTyped
  <2>5. Head(jobs) \notin InHand
    BY <1>0, <1>2 DEF OnePlace
  <2>6. ASSUME NEW u \in PoolWorkers, NEW v \in PoolWorkers,
               Holds(u)', Holds(v)', worker'[u].job = worker'[v].job
        PROVE  u = v
    BY <1>0, <2>1, <2>2, <2>5, <2>6 DEF OnePlace, InHand
  <2>7. Somewhere' = Somewhere
    BY <1>1, <1>2, <2>3 DEF Somewhere
  <2>8. OnePlace'
    BY <1>0, <1>1, <1>2, <2>3, <2>6, <2>7 DEF OnePlace
  <2>9. PoolClosing'
    BY <1>0, <1>1, <2>1 DEF PoolClosing, PoolTyped
  <2>10. QED
    BY <2>4, <2>8, <2>9 DEF PoolInv
<1>5. QED
  BY <1>3, <1>4 DEF Pool!Receive

\* The result is sent, or dropped when the run is cancelled.
LEMMA SendKeeps ==
    ASSUME PoolInv, Jobs \in Nat, NEW w \in PoolWorkers, Pool!Send(w) \/ Pool!Drop(w)
    PROVE  PoolInv'
<1>0. /\ PoolTyped /\ OnePlace /\ PoolClosing
      /\ worker \in [PoolWorkers -> Pool!States] /\ results \in Seq(1 .. Jobs)
  BY DEF PoolInv, PoolTyped
<1>1. /\ worker[w].pc = "send" /\ Holds(w)
      /\ UNCHANGED <<prefilled, cancelled, produced, jobs, jobsClosed, counted>>
      /\ UNCHANGED <<resultsClosed, collected, finished>>
  BY DEF Pool!Send, Pool!Drop, Pool!pipeline, Pool!outcome, Holds
<1>2. PICK next \in {"receive", "count"} :
          /\ Pool!Becomes(w, next, 0)
          /\ next = "receive" => results' = Append(results, worker[w].job)
          /\ next = "count" => cancelled /\ results' = results
  BY DEF Pool!Send, Pool!Drop, Pool!outcome
<1>3. /\ worker' \in [PoolWorkers -> Pool!States]
      /\ \A v \in PoolWorkers : v # w => worker'[v] = worker[v]
      /\ worker'[w].pc = next
  <2>1. [pc |-> next, job |-> 0] \in Pool!States
    BY DEF Pool!States
  <2>2. QED
    BY <1>0, <1>2, <2>1 DEF Pool!Becomes
<1>4. ~Holds(w)' /\ \A v \in PoolWorkers : v # w => (Holds(v)' <=> Holds(v))
  BY <1>3 DEF Holds
<1>5. worker[w].job \in InHand /\ worker[w].job \in 1 .. Jobs
  BY <1>0, <1>1 DEF InHand, PoolTyped
<1>6. InHand' = InHand \ {worker[w].job}
  <2>1. \A v \in PoolWorkers : Holds(v) /\ v # w => worker[v].job # worker[w].job
    BY <1>0, <1>1 DEF OnePlace
  <2>2. \A v \in PoolWorkers : Holds(v)' <=> Holds(v) /\ v # w
    BY <1>4
  <2>3. QED
    BY <1>1, <1>3, <2>1, <2>2 DEF InHand
<1>7. /\ results' \in Seq(1 .. Jobs) /\ Distinct(results')
      /\ next = "receive" => Members(results') = Members(results) \cup {worker[w].job}
      /\ next = "count" => cancelled /\ results' = results
  <2>1. worker[w].job \notin Members(results)
    BY <1>0, <1>5 DEF OnePlace
  <2>2. /\ Members(Append(results, worker[w].job)) = Members(results) \cup {worker[w].job}
        /\ Distinct(Append(results, worker[w].job))
        /\ Append(results, worker[w].job) \in Seq(1 .. Jobs)
    BY <1>0, <1>5, <2>1, AppendFacts DEF OnePlace
  <2>3. CASE next = "receive"
    BY <1>2, <2>2, <2>3
  <2>4. CASE next = "count"
    BY <1>0, <1>2, <2>4 DEF OnePlace
  <2>5. QED
    BY <2>3, <2>4
<1>8. PoolTyped'
  BY <1>0, <1>1, <1>3, <1>4, <1>7 DEF PoolTyped
<1>9. OnePlace'
  <2>1. ASSUME NEW u \in PoolWorkers, NEW v \in PoolWorkers,
               Holds(u)', Holds(v)', worker'[u].job = worker'[v].job
        PROVE  u = v
    BY <1>0, <1>3, <1>4, <2>1 DEF OnePlace
  <2>2. Somewhere' \subseteq Somewhere /\ (~cancelled => Somewhere' = Somewhere)
    BY <1>1, <1>5, <1>6, <1>7 DEF Somewhere
  <2>3. /\ Members(jobs') \cap (InHand' \cup Members(results') \cup Members(collected')) = {}
        /\ InHand' \cap (Members(results') \cup Members(collected')) = {}
        /\ Members(results') \cap Members(collected') = {}
    BY <1>0, <1>1, <1>5, <1>6, <1>7 DEF OnePlace
  <2>4. QED
    BY <1>0, <1>1, <1>7, <2>1, <2>2, <2>3 DEF OnePlace
<1>10. PoolClosing'
  <2>1. w \notin counted
    BY <1>0, <1>1 DEF PoolClosing
  <2>2. ~resultsClosed /\ ~finished
    BY <1>0, <2>1 DEF PoolClosing
  <2>3. QED
    BY <1>0, <1>1, <1>3, <1>7, <2>1, <2>2 DEF PoolClosing, PoolTyped
<1>11. QED
  BY <1>8, <1>9, <1>10 DEF PoolInv

\* The steps of a worker that move no job.
LEMMA WorkerKeeps ==
    ASSUME PoolInv, Jobs \in Nat, NEW w \in PoolWorkers, Pool!Leave(w) \/ Pool!Process(w) \/ Pool!CountOut(w)
    PROVE  PoolInv'
<1>0. PoolTyped /\ OnePlace /\ PoolClosing /\ worker \in [PoolWorkers -> Pool!States]
  BY DEF PoolInv, PoolTyped
<1>1. /\ UNCHANGED <<prefilled, cancelled, produced, jobs, jobsClosed>>
      /\ UNCHANGED <<results, resultsClosed, collected, finished>>
  BY DEF Pool!Leave, Pool!Process, Pool!CountOut, Pool!pipeline, Pool!outcome
<1>2. CASE Pool!Leave(w) \/ Pool!CountOut(w)
  <2>1. PICK next \in {"count", "gone"} :
            /\ Pool!Becomes(w, next, 0) /\ ~Holds(w)
            /\ next = "count" => counted' = counted /\ worker[w].pc = "receive"
            /\ next = "gone" => counted' = counted \cup {w} /\ worker[w].pc = "count"
            /\ next = "count" => (jobs = <<>> /\ jobsClosed) \/ cancelled
    BY <1>2 DEF Pool!Leave, Pool!CountOut, Holds
  <2>2. /\ worker' \in [PoolWorkers -> Pool!States]
        /\ \A v \in PoolWorkers : v # w => worker'[v] = worker[v]
        /\ worker'[w].pc = next /\ ~Holds(w)'
        /\ \A v \in PoolWorkers : Holds(v)' <=> Holds(v)
        /\ InHand' = InHand
    BY <1>0, <2>1, HandsEmpty
  <2>3. PoolTyped'
    BY <1>0, <1>1, <2>1, <2>2 DEF PoolTyped
  <2>4. OnePlace'
    BY <1>0, <1>1, <2>1, <2>2, PlacesKept
  <2>5. PoolClosing'
    BY <1>0, <1>1, <2>1, <2>2 DEF PoolClosing, PoolTyped
  <2>6. QED
    BY <2>3, <2>4, <2>5 DEF PoolInv
<1>3. CASE Pool!Process(w)
  <2>1. /\ worker[w].pc = "process" /\ Holds(w) /\ Pool!Becomes(w, "send", worker[w].job)
        /\ counted' = counted
    BY <1>3 DEF Pool!Process, Holds
  <2>2. /\ worker' \in [PoolWorkers -> Pool!States]
        /\ \A v \in PoolWorkers : v # w => worker'[v] = worker[v]
        /\ worker'[w].pc = "send" /\ worker'[w].job = worker[w].job
    <3>1. worker[w].job \in 0 .. Jobs
      BY <1>0 DEF Pool!States
    <3>2. [pc |-> "send", job |-> worker[w].job] \in Pool!States
      BY <3>1 DEF Pool!States
    <3>3. QED
      BY <1>0, <2>1, <3>2 DEF Pool!Becomes
  <2>3. \A v \in PoolWorkers : (Holds(v)' <=> Holds(v)) /\ worker'[v].job = worker[v].job
    BY <2>1, <2>2 DEF Holds
  <2>4. InHand' = InHand
    BY <2>3 DEF InHand
  <2>5. PoolTyped'
    BY <1>0, <1>1, <2>1, <2>2, <2>3 DEF PoolTyped
  <2>6. OnePlace'
    BY <1>0, <1>1, <2>3, <2>4, PlacesKept
  <2>7. PoolClosing'
    BY <1>0, <1>1, <2>1, <2>2 DEF PoolClosing, PoolTyped
  <2>8. QED
    BY <2>5, <2>6, <2>7 DEF PoolInv
<1>4. QED
  BY <1>2, <1>3

\* The producer, the closer, main, and a cancellation.
LEMMA RestKeeps ==
    ASSUME PoolInv, Jobs \in Nat, Pool!Rest \/ Pool!Cancel
    PROVE  PoolInv'
<1>0. /\ PoolTyped /\ OnePlace /\ PoolClosing
      /\ jobs \in Seq(1 .. Jobs) /\ results \in Seq(1 .. Jobs) /\ collected \in Seq(1 .. Jobs)
      /\ produced \in 0 .. Jobs
  BY DEF PoolInv, PoolTyped
<1>1. worker' = worker /\ InHand' = InHand /\ \A v \in PoolWorkers : Holds(v)' <=> Holds(v)
  BY DEF Pool!Rest, Pool!Feed, Pool!StopFeeding, Pool!CloseResults, Pool!Collect, Pool!Finish, Pool!Cancel, InHand, Holds
<1>2. CASE Pool!Feed
  <2>1. /\ ~jobsClosed /\ produced < Jobs /\ produced' = produced + 1
        /\ jobs' = Append(jobs, produced + 1)
        /\ UNCHANGED <<cancelled, jobsClosed, counted, results, resultsClosed, collected, finished>>
    BY <1>2 DEF Pool!Feed, Pool!outcome
  <2>2. /\ produced + 1 \in 1 .. Jobs /\ produced + 1 \notin 1 .. produced
        /\ 1 .. produced' = 1 .. produced \cup {produced + 1}
    <3>1. produced \in Nat /\ Jobs \in Nat
      BY <1>0
    <3>2. \A k \in Int : k \in 1 .. produced + 1 <=> k \in 1 .. produced \/ k = produced + 1
      BY <3>1
    <3>3. 1 .. produced + 1 = 1 .. produced \cup {produced + 1}
      BY <3>1, <3>2
    <3>4. QED
      BY <2>1, <3>1, <3>3
  <2>3. produced + 1 \notin Somewhere
    BY <1>0, <2>2 DEF OnePlace
  <2>4. /\ jobs' \in Seq(1 .. Jobs) /\ Distinct(jobs')
        /\ Members(jobs') = Members(jobs) \cup {produced + 1}
    BY <1>0, <2>1, <2>2, <2>3, AppendFacts DEF OnePlace, Somewhere
  <2>5. PoolTyped'
    BY <1>0, <1>1, <2>1, <2>2, <2>4 DEF PoolTyped
  <2>6. Somewhere' = Somewhere \cup {produced + 1}
    BY <1>1, <2>1, <2>4 DEF Somewhere
  <2>7. Members(jobs') \cap (InHand \cup Members(results) \cup Members(collected)) = {}
    BY <1>0, <2>3, <2>4 DEF OnePlace, Somewhere
  <2>8. OnePlace'
    BY <1>0, <1>1, <2>1, <2>2, <2>4, <2>6, <2>7 DEF OnePlace
  <2>9. PoolClosing'
    BY <1>0, <1>1, <2>1 DEF PoolClosing
  <2>10. QED
    BY <2>5, <2>8, <2>9 DEF PoolInv
<1>3. CASE Pool!Collect
  <2>1. /\ results # <<>> /\ results' = Tail(results)
        /\ collected' = Append(collected, Head(results))
        /\ UNCHANGED <<cancelled, produced, jobs, jobsClosed, counted, resultsClosed, finished>>
    BY <1>3 DEF Pool!Collect, Pool!pipeline
  <2>2. /\ Head(results) \in 1 .. Jobs /\ results' \in Seq(1 .. Jobs)
        /\ Members(results) = Members(results') \cup {Head(results)}
        /\ Distinct(results') /\ Head(results) \notin Members(results')
    BY <1>0, <2>1, TailFacts DEF OnePlace
  <2>3. Head(results) \notin Members(collected)
    BY <1>0, <2>2 DEF OnePlace
  <2>4. /\ collected' \in Seq(1 .. Jobs) /\ Distinct(collected')
        /\ Members(collected') = Members(collected) \cup {Head(results)}
    BY <1>0, <2>1, <2>2, <2>3, AppendFacts DEF OnePlace
  <2>5. PoolTyped'
    BY <1>0, <1>1, <2>1, <2>2, <2>4 DEF PoolTyped
  <2>6. Somewhere' = Somewhere
    BY <1>1, <2>1, <2>2, <2>4 DEF Somewhere
  <2>7. OnePlace'
    BY <1>0, <1>1, <2>1, <2>2, <2>3, <2>4, <2>6 DEF OnePlace
  <2>8. PoolClosing'
    BY <1>0, <1>1, <2>1 DEF PoolClosing
  <2>9. QED
    BY <2>5, <2>7, <2>8 DEF PoolInv
<1>4. CASE Pool!StopFeeding \/ Pool!CloseResults \/ Pool!Finish \/ Pool!Cancel
  <2>1. /\ UNCHANGED <<produced, jobs, counted, results, collected>>
        /\ ~cancelled' => ~cancelled
    BY <1>4 DEF Pool!StopFeeding, Pool!CloseResults, Pool!Finish, Pool!Cancel, Pool!pipeline, Pool!outcome
  <2>2. PoolTyped'
    BY <1>0, <1>1, <2>1 DEF PoolTyped
  <2>3. OnePlace'
    BY <1>0, <1>1, <2>1, PlacesKept
  <2>4. PoolClosing'
    BY <1>0, <1>1, <1>4 DEF Pool!StopFeeding, Pool!CloseResults, Pool!Finish, Pool!Cancel, Pool!pipeline, Pool!outcome, PoolClosing
  <2>5. QED
    BY <2>2, <2>3, <2>4 DEF PoolInv
<1>5. QED
  BY <1>2, <1>3, <1>4 DEF Pool!Rest

LEMMA PoolStep ==
    ASSUME Pool!PoolAssumption, PoolInv, [Pool!Next]_(Pool!vars)
    PROVE  PoolInv'
<1>0. Jobs \in Nat
  BY DEF Pool!PoolAssumption
<1>1. CASE UNCHANGED Pool!vars
  BY <1>1 DEF Pool!vars, PoolInv, PoolTyped, OnePlace, PoolClosing, Somewhere, InHand, Holds
<1>2. CASE Pool!Cancel \/ Pool!Rest
  BY <1>0, <1>2, RestKeeps
<1>3. ASSUME NEW w \in PoolWorkers, Pool!Work(w)
      PROVE  PoolInv'
  BY <1>0, <1>3, ReceiveKeeps, SendKeeps, WorkerKeeps DEF Pool!Work
<1>4. QED
  BY <1>1, <1>2, <1>3 DEF Pool!Next

\* No channel is closed while somebody may still write to it, and whatever the
\* interleaving no job has two results and a run nobody cancelled ends with one
\* for each (48_worker_pool, the closer goroutine and main's range).
THEOREM OneEach == ProgramsSpec => []OneResultPerJob
<1> DEFINE I == program = "pool" => PoolInv
<1>0. Pool!PoolAssumption /\ Jobs \in Nat
  BY ProgramsAssumption DEF Pool!PoolAssumption
<1>1. ProgramsInit => I
  BY <1>0, ProgramsBegin, PoolInit
<1>2. I /\ [ProgramsNext]_everything => I'
  BY <1>0, ProgramsMove, PoolStep
<1>3. I => OneResultPerJob
  <2> SUFFICES ASSUME PoolInv
               PROVE  Pool!ClosedForGood /\ Pool!OneResultPerJob
    BY DEF OneResultPerJob
  <2>0. /\ PoolTyped /\ OnePlace /\ PoolClosing
        /\ results \in Seq(1 .. Jobs) /\ collected \in Seq(1 .. Jobs)
    BY DEF PoolInv, PoolTyped
  <2>1. Distinct(collected \o results)
    BY <2>0, ConcatDistinct DEF OnePlace
  <2>2. ASSUME finished, ~cancelled
        PROVE  Len(collected) = Jobs
    <3>1. \A w \in PoolWorkers : worker[w].pc = "gone"
      BY <2>0, <2>2 DEF PoolClosing
    <3>2. results = <<>> /\ jobs = <<>> /\ produced = Jobs
      BY <1>0, <2>0, <2>2, <3>1 DEF PoolClosing, Pool!PoolAssumption
    <3>3. InHand = {} /\ Members(<<>>) = {}
      BY <3>1 DEF InHand, Holds, Members
    <3>4. Members(collected) = 1 .. Jobs
      BY <2>0, <2>2, <3>2, <3>3 DEF OnePlace, Somewhere
    <3>5. QED
      BY <1>0, <2>0, <3>4, DistinctLength DEF OnePlace
  <2>3. Pool!ClosedForGood
    BY <2>0 DEF PoolClosing, Pool!ClosedForGood
  <2>4. QED
    BY <2>1, <2>2, <2>3 DEF Pool!OneResultPerJob, Distinct
<1>4. QED
  BY <1>1, <1>2, <1>3, PTL DEF ProgramsSpec

-----------------------------------------------------------------------------
(* The token service: OneTokenPerLogin and EndedForGood, for its own         *)
(* specification, which the behaviours with program = "tokens" follow.        *)

\* A refresh token comes after the login it goes back to and before every
\* token that is still to be made, so a new login is new to the map.
LoginInv ==
    /\ made \in Nat
    /\ \A x \in refresh : x.id \in Nat /\ x.login \in Nat
    /\ \A x \in refresh : 1 <= x.login /\ x.login <= x.id /\ x.id <= made
    /\ \A x, y \in refresh : x.login = y.login => x = y

LEMMA LoginInit == Init => LoginInv
  BY DEF Init, LoginInv

\* What a step does to the map of refresh tokens: it takes some away, gives
\* a new login its first one, or replaces the one of a login by the next.
Takes == made' = made /\ refresh' \subseteq refresh

LogsIn == \E u \in Users :
    made' = made + 1 /\ refresh' = refresh \cup {Stored(made + 1, made + 1, u)}

Replaces == \E rec \in refresh :
    /\ made' = made + 1
    /\ refresh' = (refresh \ {rec}) \cup {Stored(made + 1, rec.login, rec.user)}

LEMMA StepOfMap == TokenTypeOK /\ [Next]_vars => Takes \/ LogsIn \/ Replaces
<1> SUFFICES ASSUME TokenTypeOK, [Next]_vars
             PROVE  Takes \/ LogsIn \/ Replaces
  OBVIOUS
<1> USE DEF Takes
<1>1. CASE UNCHANGED vars
  BY <1>1 DEF vars
<1>2. ASSUME NEW c \in Calls, NEW u \in Users, Login(c, u)
      PROVE  Takes
  BY <1>2 DEF Login
<1>3. ASSUME NEW c \in Calls, NewRefreshToken(c)
      PROVE  LogsIn
  <2>1. call[c].user \in Users
    BY DEF TokenTypeOK, CallStates
  <2> QED
    BY <1>3, <2>1 DEF NewRefreshToken, LogsIn
<1>4. ASSUME NEW c \in Calls, NEW rec \in refresh, UseRefreshToken(c, rec)
      PROVE  Takes \/ Replaces
  BY <1>4 DEF UseRefreshToken, Replaces
<1>5. ASSUME NEW c \in Calls, Refreshed(c) \/ RequireRole(c) \/ Answer(c)
      PROVE  Takes
  BY <1>5 DEF Refreshed, RequireRole, Answer
<1>6. ASSUME NEW c \in Calls, NEW claims \in signed, RequireAuth(c, claims)
      PROVE  Takes
  BY <1>6 DEF RequireAuth
<1>7. ASSUME NEW id \in Ids, RevokeRefreshToken(id) \/ RevokeAccessToken(id)
      PROVE  Takes
  BY <1>7 DEF RevokeRefreshToken, RevokeAccessToken
<1>8. CASE Tick
  BY <1>8 DEF Tick
<1> QED
  BY <1>1, <1>2, <1>3, <1>4, <1>5, <1>6, <1>7, <1>8 DEF Next, Handle

LEMMA LoginStep == LoginInv /\ (Takes \/ LogsIn \/ Replaces) => LoginInv'
<1> SUFFICES ASSUME LoginInv, Takes \/ LogsIn \/ Replaces
             PROVE  LoginInv'
  OBVIOUS
<1> USE DEF LoginInv
<1>1. CASE Takes
  BY <1>1 DEF Takes
<1>2. CASE LogsIn
  BY <1>2 DEF LogsIn, Stored
<1>3. CASE Replaces
  BY <1>3 DEF Replaces, Stored
<1> QED
  BY <1>1, <1>2, <1>3

-----------------------------------------------------------------------------
(* Types *)

TokenInv == TokenTypeOK /\ IsFiniteSet(signed)

LEMMA IdleType == Idle \in CallStates
  BY TokenAssumption DEF Idle, CallStates

LEMMA TokenInit == Init => TokenInv
<1> SUFFICES ASSUME Init
             PROVE  TokenInv
  OBVIOUS
<1>1. IsFiniteSet(signed)
  BY FS_EmptySet DEF Init
<1>2. TokenTypeOK
  BY IdleType, TokenAssumption DEF Init, TokenTypeOK
<1> QED
  BY <1>1, <1>2 DEF TokenInv

\* Signing keeps the access tokens a finite set of claims with ids in bounds.
LEMMA SignType ==
  ASSUME TokenInv, NEW u \in Users, CanSign, Sign(u)
  PROVE  signed' \subseteq AccessClaims /\ IsFiniteSet(signed')
<1> DEFINE new == [id |-> Cardinality(signed) + 1, user |-> u, expires |-> clock + AccessTTL]
<1>1. IsFiniteSet(signed) /\ Cardinality(signed) \in Nat
  BY FS_CardinalityType DEF TokenInv
<1>2. Cardinality(signed) + 1 \in Ids
  BY <1>1, TokenAssumption DEF CanSign, Ids
<1>3. clock + AccessTTL \in Nat
  BY TokenAssumption DEF TokenInv, TokenTypeOK
<1>4. new \in AccessClaims
  BY <1>2, <1>3 DEF AccessClaims
<1> QED
  BY <1>1, <1>4, FS_AddElement DEF Sign, TokenInv, TokenTypeOK

LEMMA StoredType ==
  ASSUME TokenInv, NEW u \in Users, NEW l \in Ids, made < MaxTokens
  PROVE  Stored(made + 1, l, u) \in RefreshRecords /\ made + 1 \in Ids
<1>1. made + 1 \in Ids /\ clock + RefreshTTL \in Nat
  BY TokenAssumption DEF TokenInv, TokenTypeOK, Ids
<1> QED
  BY <1>1 DEF Stored, RefreshRecords

LEMMA GotoType ==
  ASSUME TokenInv, NEW c \in Calls, NEW st \in CallStates, Goto(c, st)
  PROVE  call' \in [Calls -> CallStates]
  BY DEF Goto, TokenInv, TokenTypeOK

LEMMA TokenStep == TokenInv /\ [Next]_vars => TokenInv'
<1> SUFFICES ASSUME TokenInv, [Next]_vars
             PROVE  TokenInv'
  OBVIOUS
<1>0. TokenTypeOK /\ IsFiniteSet(signed)
  BY DEF TokenInv
<1>1. CASE UNCHANGED vars
  BY <1>0, <1>1 DEF vars, TokenInv, TokenTypeOK
<1>2. ASSUME NEW c \in Calls, NEW u \in Users, Login(c, u)
      PROVE  TokenInv'
  <2>1. [pc |-> "login", user |-> u, login |-> 0] \in CallStates
    BY TokenAssumption DEF CallStates
  <2>2. call' \in [Calls -> CallStates]
    BY <1>2, <2>1, GotoType DEF Login
  <2>3. signed' \subseteq AccessClaims /\ IsFiniteSet(signed')
    BY <1>2, SignType DEF Login
  <2> QED
    BY <1>0, <1>2, <2>2, <2>3 DEF Login, TokenInv, TokenTypeOK
<1>3. ASSUME NEW c \in Calls, NewRefreshToken(c)
      PROVE  TokenInv'
  <2>1. call[c].user \in Users /\ made < MaxTokens
    BY <1>0, <1>3 DEF NewRefreshToken, TokenTypeOK, CallStates
  <2>2. made + 1 \in Ids /\ made + 1 \in 0..MaxTokens
    BY <1>0, <2>1, TokenAssumption DEF TokenTypeOK, Ids
  <2>3. Stored(made + 1, made + 1, call[c].user) \in RefreshRecords
    BY <2>1, <2>2, StoredType
  <2>4. call' \in [Calls -> CallStates]
    BY <1>3, IdleType, GotoType DEF NewRefreshToken
  <2> QED
    BY <1>0, <1>3, <2>2, <2>3, <2>4 DEF NewRefreshToken, TokenInv, TokenTypeOK
<1>4. ASSUME NEW c \in Calls, NEW rec \in refresh, UseRefreshToken(c, rec)
      PROVE  TokenInv'
  <2>1. CASE clock > rec.expires
    BY <1>0, <1>4, <2>1 DEF UseRefreshToken, TokenInv, TokenTypeOK
  <2>2. CASE ~(clock > rec.expires)
    <3>1. /\ made < MaxTokens /\ made' = made + 1
          /\ refresh' = (refresh \ {rec}) \cup {Stored(made + 1, rec.login, rec.user)}
          /\ Goto(c, [pc |-> "rotated", user |-> rec.user, login |-> rec.login])
          /\ UNCHANGED <<clock, signed, revoked>>
      BY <1>4, <2>2 DEF UseRefreshToken
    <3>2. rec.user \in Users /\ rec.login \in Ids
      BY <1>0 DEF TokenTypeOK, RefreshRecords
    <3>3. [pc |-> "rotated", user |-> rec.user, login |-> rec.login] \in CallStates
      BY <3>2, TokenAssumption DEF CallStates, Ids
    <3>4. call' \in [Calls -> CallStates]
      BY <3>1, <3>3, GotoType
    <3>5. Stored(made + 1, rec.login, rec.user) \in RefreshRecords /\ made + 1 \in Ids
      BY <3>1, <3>2, StoredType
    <3> QED
      BY <1>0, <3>1, <3>4, <3>5, TokenAssumption DEF TokenInv, TokenTypeOK, Ids
  <2> QED
    BY <2>1, <2>2
<1>5. ASSUME NEW c \in Calls, Refreshed(c)
      PROVE  TokenInv'
  <2>1. call[c].user \in Users
    BY <1>0 DEF TokenTypeOK, CallStates
  <2>2. signed' \subseteq AccessClaims /\ IsFiniteSet(signed')
    BY <1>5, <2>1, SignType DEF Refreshed
  <2>3. call' \in [Calls -> CallStates]
    BY <1>5, IdleType, GotoType DEF Refreshed
  <2> QED
    BY <1>0, <1>5, <2>2, <2>3 DEF Refreshed, TokenInv, TokenTypeOK
<1>6. ASSUME NEW c \in Calls, RequireRole(c) \/ Answer(c)
      PROVE  TokenInv'
  <2>1. [call[c] EXCEPT !.pc = "admin"] \in CallStates
    BY <1>0 DEF TokenTypeOK, CallStates
  <2>2. call' \in [Calls -> CallStates]
    BY <1>6, <2>1, IdleType, GotoType DEF RequireRole, Answer
  <2>3. UNCHANGED <<clock, made, refresh, signed, revoked>>
    BY <1>6 DEF RequireRole, Answer
  <2> QED
    BY <1>0, <2>2, <2>3 DEF TokenInv, TokenTypeOK
<1>7. ASSUME NEW c \in Calls, NEW claims \in signed, RequireAuth(c, claims)
      PROVE  TokenInv'
  <2>1. [pc |-> "me", user |-> claims.user, login |-> 0] \in CallStates
    BY <1>0, TokenAssumption DEF TokenTypeOK, AccessClaims, CallStates
  <2>2. call' \in [Calls -> CallStates]
    BY <1>7, <2>1, GotoType DEF RequireAuth
  <2> QED
    BY <1>0, <1>7, <2>2 DEF RequireAuth, TokenInv, TokenTypeOK
<1>8. ASSUME NEW id \in Ids, RevokeRefreshToken(id) \/ RevokeAccessToken(id)
      PROVE  TokenInv'
  BY <1>0, <1>8 DEF RevokeRefreshToken, RevokeAccessToken, TokenInv, TokenTypeOK
<1>9. CASE Tick
  BY <1>0, <1>9, TokenAssumption DEF Tick, TokenInv, TokenTypeOK
<1> QED
  BY <1>1, <1>2, <1>3, <1>4, <1>5, <1>6, <1>7, <1>8, <1>9 DEF Next, Handle

-----------------------------------------------------------------------------
(* Theorems *)

LEMMA Invariants == Spec => [](TokenInv /\ LoginInv)
<1>1. Init => TokenInv /\ LoginInv
  BY TokenInit, LoginInit
<1>2. (TokenInv /\ LoginInv) /\ [Next]_vars => (TokenInv /\ LoginInv)'
  BY TokenStep, StepOfMap, LoginStep DEF TokenInv
<1> QED
  BY <1>1, <1>2, PTL DEF Spec

\* Every variable of the token service keeps its type.
THEOREM TypeCorrect == Spec => []TokenTypeOK
  BY Invariants, PTL DEF TokenInv

\* Whatever requests race, a login has at most one refresh token in the map,
\* the newest of its own.
THEOREM OneAtATime == Spec => []OneTokenPerLogin
<1>1. LoginInv => OneTokenPerLogin
  BY DEF LoginInv, OneTokenPerLogin
<1> QED
  BY Invariants, <1>1, PTL

\* A login that lost its refresh token never gets one again.
THEOREM LogoutHolds == Spec => EndedForGood
<1>1. ASSUME TokenInv, LoginInv, [Next]_vars
      PROVE  \A l \in Ids : l > 0 /\ Ended(l) => Ended(l)'
  <2> SUFFICES ASSUME NEW l \in Ids, Ended(l)
               PROVE  Ended(l)'
    OBVIOUS
  <2>1. l \in Nat
    BY TokenAssumption DEF Ids
  <2>2. Takes \/ LogsIn \/ Replaces
    BY <1>1, StepOfMap DEF TokenInv
  <2>3. CASE Takes
    BY <2>3 DEF Takes, Ended
  <2>4. CASE LogsIn
    BY <1>1, <2>1, <2>4 DEF LoginInv, LogsIn, Stored, Ended
  <2>5. CASE Replaces
    BY <1>1, <2>1, <2>5 DEF LoginInv, Replaces, Stored, Ended
  <2> QED
    BY <2>2, <2>3, <2>4, <2>5
<1> QED
  BY Invariants, <1>1, PTL DEF Spec, EndedForGood

-----------------------------------------------------------------------------
(* The task queue: TasksDoneAndTried *)

\* What is true of a task.  A worker that stops explains one more time that
\* its work was done; a worker that is draining has been counted as a stop
\* before the tasks it still has are put back.
Explained(t) ==
    /\ state[t] \in {"ok", "completed"} => effects[t] >= 1
    /\ effects[t] <= 1 + stops
    /\ state[t] \notin {"ok", "completed"} => effects[t] <= stops
    /\ server = "draining" /\ state[t] = "ok" => effects[t] <= stops
    /\ server = "draining" /\ state[t] \in Queue!Held \ {"ok"} => effects[t] < stops

Tried(t) ==
    /\ state[t] \in {"skip", "skipped"} => kind[t] = "malformed"
    /\ state[t] = "archived" => retried[t] = MaxRetry \/ kind[t] = "malformed"
    /\ t \in alerted => retried[t] = MaxRetry

QueueInv == Queue!QueueTypeOK /\ \A t \in QueueTasks : Explained(t) /\ Tried(t)

LEMMA QueueInit ==
    ASSUME Queue!QueueAssumption, Queue!Init
    PROVE  QueueInv
<1>1. Queue!QueueTypeOK
  BY DEF Queue!QueueAssumption, Queue!Init, Queue!QueueTypeOK, Queue!States
<1>2. \A t \in QueueTasks : Explained(t) /\ Tried(t)
  BY DEF Queue!Init, Explained, Tried, Queue!Held
<1>3. QED
  BY <1>1, <1>2 DEF QueueInv

\* A step of one task, while the worker stays what it is: what is true of the
\* others stays true, and what holds of the task is left to be shown for it alone.
LEMMA OneTaskMoves ==
    ASSUME QueueInv, NEW t \in QueueTasks, NEW s \in Queue!States, Queue!Becomes(t, s),
           NEW r \in 0 .. MaxRetry, retried' = [retried EXCEPT ![t] = r],
           NEW e \in Nat, effects' = [effects EXCEPT ![t] = e],
           flakyRuns' \in Nat, alerted' \in {alerted, alerted \cup {t}},
           UNCHANGED <<kind, server, stops>>
    PROVE  /\ state'[t] = s /\ retried'[t] = r /\ effects'[t] = e
           /\ Explained(t)' /\ Tried(t)' => QueueInv'
<1>0. /\ state \in [QueueTasks -> Queue!States] /\ retried \in [QueueTasks -> 0 .. MaxRetry]
      /\ effects \in [QueueTasks -> Nat] /\ alerted \subseteq QueueTasks
  BY DEF QueueInv, Queue!QueueTypeOK
<1>1. /\ state'[t] = s /\ retried'[t] = r /\ effects'[t] = e
      /\ state' \in [QueueTasks -> Queue!States] /\ retried' \in [QueueTasks -> 0 .. MaxRetry]
      /\ effects' \in [QueueTasks -> Nat]
  BY <1>0 DEF Queue!Becomes
<1>2. \A u \in QueueTasks \ {t} :
          /\ state'[u] = state[u] /\ retried'[u] = retried[u] /\ effects'[u] = effects[u]
          /\ u \in alerted' <=> u \in alerted
  BY <1>0 DEF Queue!Becomes
<1>3. Queue!QueueTypeOK'
  BY <1>0, <1>1 DEF QueueInv, Queue!QueueTypeOK
<1>4. ASSUME NEW u \in QueueTasks \ {t}
      PROVE  Explained(u)' /\ Tried(u)'
  <2>1. Explained(u) /\ Tried(u)
    BY DEF QueueInv
  <2>2. /\ state'[u] = state[u] /\ retried'[u] = retried[u] /\ effects'[u] = effects[u]
        /\ u \in alerted' <=> u \in alerted
        /\ kind' = kind /\ server' = server /\ stops' = stops
    BY <1>2
  <2>3. QED
    BY <2>1, <2>2 DEF Explained, Tried
<1>5. Explained(t)' /\ Tried(t)' => QueueInv'
  BY <1>3, <1>4 DEF QueueInv
<1>6. QED
  BY <1>1, <1>5

\* Out of retries, or not worth one, means what the archive says.
LEMMA RequeueKeeps ==
    ASSUME Queue!QueueAssumption, QueueInv, NEW t \in QueueTasks, NEW skip \in BOOLEAN,
           Queue!Requeue(t, skip), UNCHANGED <<kind, flakyRuns, effects, alerted, server, stops>>,
           server # "draining" \/ state[t] \in {"failed", "skipped"},
           state[t] \in {"lost", "failed", "skipped"},
           skip => kind[t] = "malformed"
    PROVE  QueueInv'
<1>0. /\ retried \in [QueueTasks -> 0 .. MaxRetry] /\ effects \in [QueueTasks -> Nat]
      /\ MaxRetry \in Nat /\ flakyRuns \in Nat /\ stops \in Nat
      /\ Explained(t) /\ Tried(t)
  BY DEF QueueInv, Queue!QueueTypeOK, Queue!QueueAssumption
<1>1. effects' = [effects EXCEPT ![t] = effects[t]] /\ effects[t] \in Nat /\ retried[t] \in 0 .. MaxRetry
  BY <1>0
<1>2. effects[t] <= stops /\ (t \in alerted => retried[t] = MaxRetry)
  BY <1>0 DEF Explained, Tried
<1>3. CASE skip \/ retried[t] >= MaxRetry
  <2>1. /\ Queue!Becomes(t, "archived") /\ retried' = [retried EXCEPT ![t] = retried[t]]
        /\ "archived" \in Queue!States
    BY <1>0, <1>3 DEF Queue!Requeue, Queue!States
  <2>2. retried[t] = MaxRetry \/ kind[t] = "malformed"
    <3>1. retried[t] >= MaxRetry => retried[t] = MaxRetry
      BY <1>0, <1>1
    <3>2. QED
      BY <1>3, <3>1
  <2>3. /\ state'[t] = "archived" /\ retried'[t] = retried[t] /\ effects'[t] = effects[t]
        /\ Explained(t)' /\ Tried(t)' => QueueInv'
    BY <1>0, <1>1, <2>1, OneTaskMoves
  <2>4. Explained(t)'
    BY <1>0, <1>1, <1>2, <2>3 DEF Explained, Queue!Held
  <2>5. Tried(t)'
    BY <1>0, <1>2, <2>2, <2>3 DEF Tried
  <2>6. QED
    BY <2>3, <2>4, <2>5
<1>4. CASE ~(skip \/ retried[t] >= MaxRetry)
  <2>1. /\ Queue!Becomes(t, "retry") /\ retried' = [retried EXCEPT ![t] = retried[t] + 1]
        /\ "retry" \in Queue!States
    BY <1>4 DEF Queue!Requeue, Queue!States
  <2>2. retried[t] + 1 \in 0 .. MaxRetry /\ t \notin alerted
    BY <1>0, <1>1, <1>2, <1>4
  <2>3. /\ state'[t] = "retry" /\ effects'[t] = effects[t]
        /\ Explained(t)' /\ Tried(t)' => QueueInv'
    BY <1>0, <1>1, <2>1, <2>2, OneTaskMoves
  <2>4. Explained(t)'
    BY <1>0, <1>1, <1>2, <2>3 DEF Explained, Queue!Held
  <2>5. Tried(t)'
    BY <1>0, <2>2, <2>3 DEF Tried
  <2>6. QED
    BY <2>3, <2>4, <2>5
<1>5. QED
  BY <1>3, <1>4

\* The steps that only move a task: into the queue, to a worker, to the end.
LEMMA MoveKeeps ==
    ASSUME Queue!QueueAssumption, QueueInv, NEW t \in QueueTasks,
           Queue!Enqueue(t) \/ Queue!Forward(t) \/ Queue!Take(t) \/ Queue!Ack(t) \/ Queue!HandleError(t)
    PROVE  QueueInv'
<1>0. /\ retried \in [QueueTasks -> 0 .. MaxRetry] /\ effects \in [QueueTasks -> Nat]
      /\ flakyRuns \in Nat /\ stops \in Nat /\ alerted \subseteq QueueTasks
      /\ Explained(t) /\ Tried(t)
  BY DEF QueueInv, Queue!QueueTypeOK, Queue!QueueAssumption
<1>1. /\ UNCHANGED <<kind, retried, flakyRuns, effects, server, stops>>
      /\ alerted' \in {alerted, alerted \cup {t}}
      /\ effects' = [effects EXCEPT ![t] = effects[t]] /\ effects[t] \in Nat
      /\ retried' = [retried EXCEPT ![t] = retried[t]] /\ retried[t] \in 0 .. MaxRetry
  BY <1>0 DEF Queue!Enqueue, Queue!Forward, Queue!Take, Queue!Ack, Queue!HandleError
<1>2. t \in alerted' => retried[t] = MaxRetry
  <2>1. CASE alerted' = alerted
    BY <1>0, <2>1 DEF Tried
  <2>2. CASE alerted' # alerted
    <3>1. Queue!HandleError(t) /\ retried[t] >= MaxRetry
      BY <2>2 DEF Queue!Enqueue, Queue!Forward, Queue!Take, Queue!Ack, Queue!HandleError
    <3>2. QED
      BY <1>1, <3>1, MaxRetry \in Nat DEF Queue!QueueAssumption
  <2>3. QED
    BY <2>1, <2>2
<1>3. CASE Queue!Ack(t)
  <2>1. /\ Queue!Becomes(t, "completed") /\ "completed" \in Queue!States
        /\ effects[t] >= 1 /\ effects[t] <= 1 + stops
    BY <1>0, <1>3 DEF Queue!Ack, Queue!States, Explained
  <2>2. /\ state'[t] = "completed" /\ retried'[t] = retried[t] /\ effects'[t] = effects[t]
        /\ Explained(t)' /\ Tried(t)' => QueueInv'
    BY <1>0, <1>1, <2>1, OneTaskMoves
  <2>3. Explained(t)'
    BY <1>0, <1>1, <2>1, <2>2 DEF Explained, Queue!Held
  <2>4. Tried(t)'
    BY <1>2, <2>2 DEF Tried
  <2>5. QED
    BY <2>2, <2>3, <2>4
<1>4. CASE Queue!Enqueue(t) \/ Queue!Forward(t) \/ Queue!Take(t)
  <2>1. PICK s \in {"pending", "scheduled", "running"} :
            Queue!Becomes(t, s) /\ (server = "draining" => s # "running")
    BY <1>4 DEF Queue!Enqueue, Queue!Forward, Queue!Take
  <2>2. s \in Queue!States
    BY DEF Queue!States, Queue!Held
  <2>3. effects[t] <= stops
    BY <1>0, <1>4 DEF Queue!Enqueue, Queue!Forward, Queue!Take, Explained
  <2>4. /\ state'[t] = s /\ retried'[t] = retried[t] /\ effects'[t] = effects[t]
        /\ Explained(t)' /\ Tried(t)' => QueueInv'
    BY <1>0, <1>1, <2>1, <2>2, OneTaskMoves
  <2>5. Explained(t)'
    BY <1>0, <1>1, <2>1, <2>3, <2>4 DEF Explained, Queue!Held
  <2>6. Tried(t)'
    BY <1>2, <2>4 DEF Tried
  <2>7. QED
    BY <2>4, <2>5, <2>6
<1>5. CASE Queue!HandleError(t)
  <2>1. /\ state[t] \in {"error", "skip"}
        /\ Queue!Becomes(t, IF state[t] = "skip" THEN "skipped" ELSE "failed")
    BY <1>5 DEF Queue!HandleError
  <2>2. PICK s \in {"failed", "skipped"} :
            Queue!Becomes(t, s) /\ (s = "skipped" => state[t] = "skip")
    BY <2>1
  <2>3. /\ s \in Queue!States /\ effects[t] <= stops
        /\ server = "draining" => effects[t] < stops
        /\ s = "skipped" => kind[t] = "malformed"
    BY <1>0, <2>1, <2>2 DEF Queue!States, Queue!Held, Explained, Tried
  <2>4. /\ state'[t] = s /\ retried'[t] = retried[t] /\ effects'[t] = effects[t]
        /\ Explained(t)' /\ Tried(t)' => QueueInv'
    BY <1>0, <1>1, <2>2, <2>3, OneTaskMoves
  <2>5. Explained(t)'
    BY <1>0, <1>1, <2>3, <2>4 DEF Explained, Queue!Held
  <2>6. Tried(t)'
    BY <1>1, <1>2, <2>3, <2>4 DEF Tried
  <2>7. QED
    BY <2>4, <2>5, <2>6
<1>6. QED
  BY <1>3, <1>4, <1>5

\* The handlers: the work is done once more, or it is not.
LEMMA HandleKeeps ==
    ASSUME Queue!QueueAssumption, QueueInv, NEW t \in QueueTasks, Queue!Handle(t)
    PROVE  QueueInv'
<1>0. /\ retried \in [QueueTasks -> 0 .. MaxRetry] /\ effects \in [QueueTasks -> Nat]
      /\ flakyRuns \in Nat /\ stops \in Nat /\ effects[t] \in Nat /\ retried[t] \in 0 .. MaxRetry
      /\ Explained(t) /\ Tried(t)
  BY DEF QueueInv, Queue!QueueTypeOK, Queue!QueueAssumption
<1>1. PICK s \in {"ok", "error", "skip"}, n \in {0, 1} :
          /\ Queue!Result(t, s, n) /\ n = (IF s = "ok" THEN 1 ELSE 0)
          /\ s = "skip" => kind[t] = "malformed"
          /\ flakyRuns' \in Nat
  BY <1>0 DEF Queue!Handle, Queue!HandleWelcomeEmail, Queue!HandleMalformed, Queue!HandleFlaky,
              Queue!HandleReport
<1>2. /\ state[t] = "running" /\ Queue!Becomes(t, s)
      /\ effects' = [effects EXCEPT ![t] = effects[t] + n]
      /\ retried' = [retried EXCEPT ![t] = retried[t]]
      /\ UNCHANGED <<kind, alerted, server, stops>>
  BY <1>0, <1>1 DEF Queue!Result
<1>3. effects[t] <= stops /\ (server = "draining" => effects[t] < stops)
  BY <1>0, <1>2 DEF Explained, Queue!Held
<1>4. /\ s \in Queue!States /\ effects[t] + n \in Nat
      /\ s = "ok" => effects[t] + n = effects[t] + 1
      /\ s # "ok" => effects[t] + n = effects[t]
  BY <1>0, <1>1 DEF Queue!States, Queue!Held
<1>5. t \in alerted' => retried[t] = MaxRetry
  BY <1>0, <1>2 DEF Tried
<1>6. /\ state'[t] = s /\ retried'[t] = retried[t] /\ effects'[t] = effects[t] + n
      /\ Explained(t)' /\ Tried(t)' => QueueInv'
  BY <1>0, <1>1, <1>2, <1>4, OneTaskMoves
<1>7. Explained(t)'
  BY <1>0, <1>2, <1>3, <1>4, <1>6 DEF Explained, Queue!Held
<1>8. Tried(t)'
  BY <1>1, <1>2, <1>5, <1>6 DEF Tried
<1>9. QED
  BY <1>6, <1>7, <1>8

\* The worker process: a stop is counted when it begins, and what it had in
\* hand is lost, or put back.
LEMMA ServerKeeps ==
    ASSUME Queue!QueueAssumption, QueueInv,
           Queue!Crash \/ Queue!Shutdown \/ Queue!Down \/ Queue!Restart
    PROVE  QueueInv'
<1>0. /\ Queue!QueueTypeOK /\ MaxStops \in Nat /\ stops \in 0 .. MaxStops
      /\ state \in [QueueTasks -> Queue!States] /\ effects \in [QueueTasks -> Nat]
  BY DEF QueueInv, Queue!QueueTypeOK, Queue!QueueAssumption
<1>1. UNCHANGED <<kind, retried, effects, alerted>>
  BY DEF Queue!Crash, Queue!Shutdown, Queue!Down, Queue!Restart
<1>2. CASE Queue!Crash
  <2>1. /\ stops' = stops + 1 /\ stops' \in 0 .. MaxStops /\ server' = "down"
        /\ flakyRuns' = flakyRuns
        /\ state' = [t \in QueueTasks |-> IF state[t] \in Queue!Held THEN "lost" ELSE state[t]]
    BY <1>0, <1>2 DEF Queue!Crash
  <2>2. Queue!QueueTypeOK'
    BY <1>0, <1>1, <2>1 DEF Queue!QueueTypeOK, Queue!States
  <2>3. ASSUME NEW t \in QueueTasks
        PROVE  Explained(t)' /\ Tried(t)'
    <3>1. Explained(t) /\ Tried(t) /\ effects[t] \in Nat
      BY <1>0 DEF QueueInv
    <3>2. CASE state[t] \in Queue!Held
      BY <1>0, <1>1, <2>1, <3>1, <3>2 DEF Explained, Tried
    <3>3. CASE state[t] \notin Queue!Held
      BY <1>0, <1>1, <2>1, <3>1, <3>3 DEF Explained, Tried
    <3>4. QED
      BY <3>2, <3>3
  <2>4. QED
    BY <2>2, <2>3 DEF QueueInv
<1>3. CASE Queue!Shutdown
  <2>1. /\ stops' = stops + 1 /\ stops' \in 0 .. MaxStops
        /\ server = "up" /\ server' = "draining"
        /\ UNCHANGED <<flakyRuns, state>>
    BY <1>0, <1>3 DEF Queue!Shutdown
  <2>2. Queue!QueueTypeOK'
    BY <1>0, <1>1, <2>1 DEF Queue!QueueTypeOK
  <2>3. ASSUME NEW t \in QueueTasks
        PROVE  Explained(t)' /\ Tried(t)'
    <3>1. Explained(t) /\ Tried(t) /\ effects[t] \in Nat
      BY <1>0 DEF QueueInv
    <3>2. Explained(t)'
      BY <1>0, <1>1, <2>1, <3>1 DEF Explained, Queue!Held
    <3>3. QED
      BY <1>1, <2>1, <3>1, <3>2 DEF Tried
  <2>4. QED
    BY <2>2, <2>3 DEF QueueInv
<1>4. CASE Queue!Down
  <2>1. /\ server = "draining" /\ server' = "down" /\ UNCHANGED <<flakyRuns, stops>>
        /\ state' = [t \in QueueTasks |-> IF state[t] \in Queue!Held THEN "pending" ELSE state[t]]
    BY <1>4 DEF Queue!Down
  <2>2. Queue!QueueTypeOK'
    BY <1>0, <1>1, <2>1 DEF Queue!QueueTypeOK, Queue!States
  <2>3. ASSUME NEW t \in QueueTasks
        PROVE  Explained(t)' /\ Tried(t)'
    <3>1. Explained(t) /\ Tried(t) /\ effects[t] \in Nat
      BY <1>0 DEF QueueInv
    <3>2. CASE state[t] \in Queue!Held
      BY <1>0, <1>1, <2>1, <3>1, <3>2 DEF Explained, Tried
    <3>3. CASE state[t] \notin Queue!Held
      BY <1>0, <1>1, <2>1, <3>1, <3>3 DEF Explained, Tried
    <3>4. QED
      BY <3>2, <3>3
  <2>4. QED
    BY <2>2, <2>3 DEF QueueInv
<1>5. CASE Queue!Restart
  <2>1. server' = "up" /\ flakyRuns' = 0 /\ UNCHANGED <<stops, state>>
    BY <1>5 DEF Queue!Restart
  <2>2. Queue!QueueTypeOK'
    BY <1>0, <1>1, <2>1 DEF Queue!QueueTypeOK
  <2>3. \A t \in QueueTasks : Explained(t)' /\ Tried(t)'
    BY <1>1, <2>1 DEF QueueInv, Explained, Tried
  <2>4. QED
    BY <2>2, <2>3 DEF QueueInv
<1>6. QED
  BY <1>2, <1>3, <1>4, <1>5

LEMMA QueueStep ==
    ASSUME Queue!QueueAssumption, QueueInv, [Queue!Next]_(Queue!vars)
    PROVE  QueueInv'
<1>1. CASE UNCHANGED Queue!vars
  BY <1>1 DEF Queue!vars, QueueInv, Queue!QueueTypeOK, Explained, Tried
<1>2. ASSUME NEW t \in QueueTasks, Queue!Enqueue(t) \/ Queue!Work(t)
      PROVE  QueueInv'
  <2>1. CASE Queue!Enqueue(t) \/ Queue!Forward(t) \/ Queue!Take(t) \/ Queue!Ack(t) \/ Queue!HandleError(t)
    BY <2>1, MoveKeeps
  <2>2. CASE Queue!Handle(t)
    BY <2>2, HandleKeeps
  <2>3. CASE Queue!Recover(t)
    <3>1. /\ server = "up" /\ state[t] = "lost" /\ Queue!Requeue(t, FALSE)
          /\ UNCHANGED <<kind, flakyRuns, effects, alerted, server, stops>>
      BY <2>3 DEF Queue!Recover
    <3>2. QED
      BY <3>1, RequeueKeeps
  <2>4. CASE Queue!Fail(t)
    <3>1. /\ state[t] \in {"failed", "skipped"}
          /\ UNCHANGED <<kind, flakyRuns, effects, alerted, server, stops>>
      BY <2>4 DEF Queue!Fail
    <3>2. PICK skip \in BOOLEAN : skip = (state[t] = "skipped") /\ Queue!Requeue(t, skip)
      BY <2>4 DEF Queue!Fail
    <3>3. skip => kind[t] = "malformed"
      BY <3>2 DEF QueueInv, Tried
    <3>4. QED
      BY <3>1, <3>2, <3>3, RequeueKeeps
  <2>5. QED
    BY <1>2, <2>1, <2>2, <2>3, <2>4 DEF Queue!Work
<1>3. CASE Queue!Crash \/ Queue!Shutdown \/ Queue!Down \/ Queue!Restart
  BY <1>3, ServerKeeps
<1>4. QED
  BY <1>1, <1>2, <1>3 DEF Queue!Next

\* A completed task was done, again only because a worker stopped in between,
\* and the archive and the alerts are of tasks that had every try or can never
\* succeed (65_asynq, the handlers, the ErrorHandler and the worker).
THEOREM DoneAndTried == ProgramsSpec => []TasksDoneAndTried
<1> DEFINE I == program = "queue" => QueueInv
<1>0. Queue!QueueAssumption
  BY ProgramsAssumption
<1>1. ProgramsInit => I
  BY <1>0, ProgramsBegin, QueueInit
<1>2. I /\ [ProgramsNext]_everything => I'
  BY <1>0, ProgramsMove, QueueStep
<1>3. I => TasksDoneAndTried
  <2> SUFFICES ASSUME QueueInv
               PROVE  Queue!DoneAndMoreOnlyAfterStops /\ Queue!DeadLettersAreTried
    BY DEF TasksDoneAndTried
  <2>1. \A t \in QueueTasks : Explained(t) /\ Tried(t)
    BY DEF QueueInv
  <2>2. alerted \subseteq QueueTasks
    BY DEF QueueInv, Queue!QueueTypeOK
  <2>3. Queue!DoneAndMoreOnlyAfterStops
    BY <2>1 DEF Explained, Queue!DoneAndMoreOnlyAfterStops
  <2>4. QED
    BY <2>1, <2>2, <2>3 DEF Tried, Queue!DeadLettersAreTried
<1>4. QED
  BY <1>1, <1>2, <1>3, PTL DEF ProgramsSpec

-----------------------------------------------------------------------------
(* The inventory: the stock part of RetriesRepeat *)

\* The records are numbered, and a product points to one of them or to none.
Recorded ==
    \E n \in Nat : record \in [1 .. n -> Int] /\ products \in [Products -> 0 .. n]

WatchStates == [pc : {"tick", "send", "over"}, i : Nat, at : Nat]
Watching == watch \in [Watchers -> WatchStates]

Tables(S) == [Streams -> [Keys -> S]]
Histories ==
    /\ seen \in Tables(SUBSET [ok : BOOLEAN, remaining : Int])
    /\ sent \in Tables(SUBSET [ok : BOOLEAN, remaining : Int])
    /\ reserved \in Tables(Nat)

\* What has been told for a key is what is remembered for it: nothing, and
\* nothing is reserved, or one answer that is true of the reservation.
Faithful(s, k) ==
    /\ sent[s][k] = seen[s][k]
    /\ \/ seen[s][k] = {} /\ reserved[s][k] = 0
       \/ \E a \in [ok : BOOLEAN, remaining : Int] :
            /\ seen[s][k] = {a}
            /\ reserved[s][k] > 0 => a.ok
            /\ a.ok => a.remaining >= 0

StockInv == Recorded /\ Watching /\ Histories /\ \A s \in Streams, k \in Keys : Faithful(s, k)

\* An instance counts with its own Cardinality, which is the same operator.
LEMMA SameCount ==
    ASSUME NEW S
    PROVE  Stock!Cardinality(S) = Cardinality(S)
  BY DEF Stock!Cardinality, Cardinality

LEMMA StockInit ==
    ASSUME Stock!InventoryAssumption, Stock!Init
    PROVE  StockInv
<1>1. Recorded
  <2>1. record \in [1 .. 1 -> Int] /\ products \in [Products -> 0 .. 1]
    BY DEF Stock!InventoryAssumption, Stock!Init
  <2>2. QED
    BY <2>1 DEF Recorded
<1>2. Histories
  BY DEF Stock!Init, Histories, Tables
<1>3. \A s \in Streams, k \in Keys : Faithful(s, k)
  BY DEF Stock!Init, Faithful
<1>4. Watching
  BY DEF Stock!Init, Watching, WatchStates
<1>5. QED
  BY <1>1, <1>2, <1>3, <1>4 DEF StockInv

\* A reservation that is not refused leaves no less than nothing behind.
LEMMA ReservationIsCovered ==
    ASSUME Recorded, NEW p \in Products, NEW q \in 0 .. 2
    PROVE  /\ Stock!RemainingOf(p) \in Int
           /\ ~Stock!Refused(p, q) => Stock!RemainingOf(p) - q >= 0
<1>1. PICK n \in Nat : record \in [1 .. n -> Int] /\ products \in [Products -> 0 .. n]
  BY DEF Recorded
<1>2. products[p] # 0 => products[p] \in 1 .. n
  BY <1>1
<1>3. products[p] # 0 => record[products[p]] \in Int
  BY <1>1, <1>2
<1>4. CASE products[p] = 0
  BY <1>4 DEF Stock!RemainingOf, Stock!Refused
<1>5. CASE products[p] # 0
  BY <1>3, <1>5 DEF Stock!RemainingOf, Stock!Refused
<1>6. QED
  BY <1>4, <1>5

\* Any step leaves the watchers what they are.
LEMMA StillWatching ==
    ASSUME Recorded, Watching, [Stock!Next]_(Stock!vars)
    PROVE  Watching'
<1>1. \A p \in Products : products[p] \in Nat
  BY DEF Recorded
<1>2. CASE UNCHANGED watch
  BY <1>2 DEF Watching
<1>3. ASSUME NEW w \in Watchers, NEW r \in WatchStates,
             watch' = [watch EXCEPT ![w] = r]
      PROVE  Watching'
  BY <1>3 DEF Watching
<1>4. ASSUME NEW w \in Watchers, NEW p \in Products, Stock!WatchTick(w, p)
      PROVE  Watching'
  <2>1. watch[w] \in WatchStates /\ products[p] \in Nat
    BY <1>1 DEF Watching
  <2>2. CASE products[p] = 0
    <3>1. [watch[w] EXCEPT !.i = @ + 1] \in WatchStates
      BY <2>1 DEF WatchStates
    <3>2. watch' = [watch EXCEPT ![w] = [watch[w] EXCEPT !.i = @ + 1]]
      BY <1>4, <2>2 DEF Stock!WatchTick
    <3>3. QED
      BY <1>3, <3>1, <3>2
  <2>3. CASE products[p] # 0
    <3>1. [watch[w] EXCEPT !.pc = "send", !.at = products[p]]
              \in WatchStates
      BY <2>1 DEF WatchStates
    <3>2. watch' = [watch EXCEPT ![w] = [watch[w] EXCEPT !.pc = "send", !.at = products[p]]]
      BY <1>4, <2>3 DEF Stock!WatchTick
    <3>3. QED
      BY <1>3, <3>1, <3>2
  <2>4. QED
    BY <2>2, <2>3
<1>5. ASSUME NEW w \in Watchers, Stock!WatchSend(w) \/ Stock!WatchEnds(w)
      PROVE  Watching'
  <2>1. watch[w] \in WatchStates /\ watch[w].i + 1 \in Nat
    BY DEF Watching, WatchStates
  <2>2. CASE Stock!WatchSend(w)
    <3>1. [watch[w] EXCEPT !.pc = "tick", !.i = @ + 1, !.at = 0]
              \in WatchStates
      BY <2>1 DEF WatchStates
    <3>2. watch' = [watch EXCEPT ![w] = [watch[w] EXCEPT !.pc = "tick", !.i = @ + 1, !.at = 0]]
      BY <2>2 DEF Stock!WatchSend
    <3>3. QED
      BY <1>3, <3>1, <3>2
  <2>3. CASE Stock!WatchEnds(w)
    <3>1. [watch[w] EXCEPT !.pc = "over", !.at = 0]
              \in WatchStates
      BY <2>1 DEF WatchStates
    <3>2. watch' = [watch EXCEPT ![w] = [watch[w] EXCEPT !.pc = "over", !.at = 0]]
      BY <2>3 DEF Stock!WatchEnds
    <3>3. QED
      BY <1>3, <3>1, <3>2
  <2>4. QED
    BY <1>5, <2>2, <2>3
<1>6. QED
  BY <1>2, <1>4, <1>5 DEF Stock!Next, Stock!vars, Stock!ReserveAgain, Stock!ReserveNew,
     Stock!OpenStream, Stock!EndStream, Stock!Upsert

\* Any step leaves the records numbered.
LEMMA StillRecorded ==
    ASSUME Stock!InventoryAssumption, Recorded, Watching, [Stock!Next]_(Stock!vars)
    PROVE  Recorded'
<1>1. PICK n \in Nat : record \in [1 .. n -> Int] /\ products \in [Products -> 0 .. n]
  BY DEF Recorded
<1>2. CASE UNCHANGED <<record, products>>
  BY <1>1, <1>2 DEF Recorded
<1>3. ASSUME NEW s \in Streams, NEW k \in Keys, NEW p \in Products, NEW q \in 0 .. 2,
             Stock!ReserveNew(s, k, p, q)
      PROVE  Recorded'
  <2>1. CASE Stock!Refused(p, q)
    BY <1>1, <1>3, <2>1 DEF Stock!ReserveNew, Recorded
  <2>2. CASE ~Stock!Refused(p, q)
    <3>1. products[p] \in 1 .. n /\ record[products[p]] - q \in Int
      BY <1>1, <2>2 DEF Stock!Refused
    <3>2. record' = [record EXCEPT ![products[p]] = record[products[p]] - q] /\ products' = products
      BY <1>3, <2>2 DEF Stock!ReserveNew
    <3>3. record' \in [1 .. n -> Int]
      BY <1>1, <3>1, <3>2
    <3>4. QED
      BY <1>1, <3>2, <3>3 DEF Recorded
  <2>3. QED
    BY <2>1, <2>2
<1>4. ASSUME NEW p \in Products, NEW m \in 0 .. MaxStock, Stock!Upsert(p, m)
      PROVE  Recorded'
  <2>1. Cardinality(Stock!Records) = n
    <3>1. Stock!Records = 1 .. n
      BY <1>1 DEF Stock!Records
    <3>2. Cardinality(1 .. n) = IF 1 > n THEN 0 ELSE n - 1 + 1
      BY FS_Interval
    <3>3. QED
      BY <3>1, <3>2
  <2>2. /\ record' = [i \in 1 .. n + 1 |-> IF i = n + 1 THEN m ELSE record[i]]
        /\ products' = [products EXCEPT ![p] = n + 1]
    <3> DEFINE new == Cardinality(Stock!Records) + 1
    <3>1. /\ record' = [i \in 1 .. new |-> IF i = new THEN m ELSE record[i]]
          /\ products' = [products EXCEPT ![p] = new]
      BY <1>4, SameCount DEF Stock!Upsert
    <3>2. new = n + 1
      BY <2>1
    <3> HIDE DEF new
    <3>3. QED
      BY <3>1, <3>2
  <2>3. m \in Int
    BY DEF Stock!InventoryAssumption
  <2>4. ASSUME NEW i \in 1 .. n + 1
        PROVE  (IF i = n + 1 THEN m ELSE record[i]) \in Int
    BY <1>1, <2>3
  <2>5. record' \in [1 .. n + 1 -> Int]
    BY <2>2, <2>4
  <2>6. products' \in [Products -> 0 .. n + 1] /\ n + 1 \in Nat
    BY <1>1, <2>2
  <2>7. QED
    BY <2>5, <2>6 DEF Recorded
<1>5. ASSUME NEW w \in Watchers, NEW p \in Products, Stock!WatchTick(w, p)
      PROVE  Recorded'
  <2>1. CASE products[p] = 0
    BY <1>1, <1>5, <2>1 DEF Stock!WatchTick, Recorded
  <2>2. CASE products[p] # 0
    <3>1. products[p] \in 1 .. n /\ products' = products
      BY <1>1, <1>5, <2>2 DEF Stock!WatchTick
    <3>2. record' = [record EXCEPT ![products[p]] = record[products[p]] + Stock!Delta(watch[w].i)]
      BY <1>5, <2>2 DEF Stock!WatchTick
    <3>3. Stock!Delta(watch[w].i) \in Int
      <4>1. watch[w].i \in Nat
        BY DEF Watching, WatchStates
      <4>2. QED
        BY <4>1 DEF Stock!Delta
    <3>4. record' \in [1 .. n -> Int]
      BY <1>1, <3>1, <3>2, <3>3
    <3>5. QED
      BY <1>1, <3>1, <3>4 DEF Recorded
  <2>3. QED
    BY <2>1, <2>2
<1>6. QED
  BY <1>2, <1>3, <1>4, <1>5 DEF Stock!Next, Stock!vars, Stock!ReserveAgain, Stock!OpenStream,
     Stock!EndStream, Stock!WatchSend, Stock!WatchEnds

\* A new key: the reservation, what is remembered and what is told agree.
LEMMA ReserveNewKeeps ==
    ASSUME StockInv, NEW s \in Streams, NEW k \in Keys, NEW p \in Products, NEW q \in 0 .. 2,
           Stock!ReserveNew(s, k, p, q)
    PROVE  Histories' /\ \A u \in Streams, l \in Keys : Faithful(u, l)'
<1> DEFINE ok == ~Stock!Refused(p, q)
           taken == IF ok THEN q ELSE 0
           a == [ok |-> ok, remaining |-> Stock!RemainingOf(p) - taken]
<1>0. /\ seen \in Tables(SUBSET [ok : BOOLEAN, remaining : Int])
      /\ sent \in Tables(SUBSET [ok : BOOLEAN, remaining : Int])
      /\ reserved \in Tables(Nat)
      /\ Faithful(s, k) /\ seen[s][k] = {} /\ sent[s][k] = {} /\ reserved[s][k] = 0
  BY DEF StockInv, Histories, Faithful, Stock!ReserveNew
<1>1. /\ ok \in BOOLEAN /\ taken \in Nat
      /\ a \in [ok : BOOLEAN, remaining : Int] /\ a.ok = ok
      /\ taken > 0 => a.ok
      /\ a.ok => a.remaining >= 0
  <2>1. /\ Stock!RemainingOf(p) \in Int
        /\ ~Stock!Refused(p, q) => Stock!RemainingOf(p) - q >= 0
    BY ReservationIsCovered DEF StockInv
  <2>2. ok \in BOOLEAN /\ taken \in Nat /\ (taken > 0 => ok)
    OBVIOUS
  <2>3. a.ok = ok /\ a.remaining = Stock!RemainingOf(p) - taken
    OBVIOUS
  <2>4. Stock!RemainingOf(p) - taken \in Int
    BY <2>1, <2>2
  <2>5. ok => Stock!RemainingOf(p) - taken >= 0
    BY <2>1
  <2> HIDE DEF ok, taken
  <2>6. a \in [ok : BOOLEAN, remaining : Int]
    BY <2>2, <2>4
  <2>7. QED
    BY <2>2, <2>3, <2>5, <2>6
<1>2. /\ reserved' = [reserved EXCEPT ![s][k] = reserved[s][k] + taken]
      /\ seen' = [seen EXCEPT ![s][k] = {a}]
      /\ sent' = [sent EXCEPT ![s][k] = sent[s][k] \cup {a}]
  BY DEF Stock!ReserveNew, Stock!Answer
<1> HIDE DEF ok, taken, a
<1>3. /\ reserved' \in Tables(Nat) /\ reserved'[s][k] = taken
      /\ seen' \in Tables(SUBSET [ok : BOOLEAN, remaining : Int]) /\ seen'[s][k] = {a}
      /\ sent' \in Tables(SUBSET [ok : BOOLEAN, remaining : Int]) /\ sent'[s][k] = {a}
  BY <1>0, <1>1, <1>2 DEF Tables
<1>4. Faithful(s, k)'
  BY <1>1, <1>3 DEF Faithful
<1>5. ASSUME NEW u \in Streams, NEW l \in Keys, u # s \/ l # k
      PROVE  Faithful(u, l)'
  <2>1. seen'[u][l] = seen[u][l] /\ sent'[u][l] = sent[u][l] /\ reserved'[u][l] = reserved[u][l]
    BY <1>0, <1>2, <1>5 DEF Tables
  <2>2. QED
    BY <2>1 DEF StockInv, Faithful
<1>6. QED
  BY <1>3, <1>4, <1>5 DEF Histories

LEMMA StockStep ==
    ASSUME Stock!InventoryAssumption, StockInv, [Stock!Next]_(Stock!vars)
    PROVE  StockInv'
<1>0. /\ seen \in Tables(SUBSET [ok : BOOLEAN, remaining : Int])
      /\ sent \in Tables(SUBSET [ok : BOOLEAN, remaining : Int])
      /\ reserved \in Tables(Nat)
      /\ \A s \in Streams, k \in Keys : Faithful(s, k)
      /\ Recorded' /\ Watching'
  BY StillRecorded, StillWatching DEF StockInv, Histories
<1>1. CASE UNCHANGED <<seen, sent, reserved>>
  BY <1>0, <1>1 DEF StockInv, Histories, Faithful
<1>2. ASSUME NEW s \in Streams, NEW k \in Keys, Stock!ReserveAgain(s, k)
      PROVE  StockInv'
  <2>1. UNCHANGED <<seen, reserved>> /\ sent' = [sent EXCEPT ![s][k] = sent[s][k] \cup seen[s][k]]
    BY <1>2 DEF Stock!ReserveAgain
  <2>2. sent[s][k] \cup seen[s][k] = sent[s][k]
    BY <1>0 DEF Faithful
  <2>3. sent' = sent
    BY <1>0, <2>1, <2>2 DEF Tables
  <2>4. QED
    BY <1>1, <2>1, <2>3
<1>3. ASSUME NEW s \in Streams, NEW k \in Keys, NEW p \in Products, NEW q \in 0 .. 2,
             Stock!ReserveNew(s, k, p, q)
      PROVE  StockInv'
  BY <1>0, <1>3, ReserveNewKeeps DEF StockInv
<1>4. ASSUME NEW s \in Streams, NEW token \in BOOLEAN, Stock!OpenStream(s, token)
      PROVE  StockInv'
  <2>1. /\ seen' = [seen EXCEPT ![s] = [k \in Keys |-> {}]]
        /\ sent' = [sent EXCEPT ![s] = [k \in Keys |-> {}]]
        /\ reserved' = [reserved EXCEPT ![s] = [k \in Keys |-> 0]]
    BY <1>4 DEF Stock!OpenStream
  <2>2. Histories'
    BY <1>0, <2>1 DEF Histories, Tables
  <2>3. ASSUME NEW u \in Streams, NEW l \in Keys
        PROVE  Faithful(u, l)'
    <3>1. CASE u = s
      <4>1. seen'[u][l] = {} /\ sent'[u][l] = {} /\ reserved'[u][l] = 0
        BY <1>0, <2>1, <3>1 DEF Tables
      <4>2. QED
        BY <4>1 DEF Faithful
    <3>2. CASE u # s
      <4>1. seen'[u] = seen[u] /\ sent'[u] = sent[u] /\ reserved'[u] = reserved[u]
        BY <1>0, <2>1, <3>2 DEF Tables
      <4>2. QED
        BY <1>0, <4>1 DEF Faithful
    <3>3. QED
      BY <3>1, <3>2
  <2>4. QED
    BY <1>0, <2>2, <2>3 DEF StockInv
<1>5. QED
  BY <1>1, <1>2, <1>3, <1>4 DEF Stock!Next, Stock!vars, Stock!EndStream, Stock!Upsert,
     Stock!WatchTick, Stock!WatchSend, Stock!WatchEnds

\* One answer for a key, true of what was taken and of units that are there.
LEMMA StockRepeats ==
    ASSUME StockInv
    PROVE  Stock!RetriesRepeat /\ Stock!NeverOversold
<1>1. ASSUME NEW s \in Streams, NEW k \in Keys
      PROVE  /\ Cardinality(sent[s][k]) <= 1
             /\ reserved[s][k] > 0 => \E b \in sent[s][k] : b.ok
             /\ \A b \in sent[s][k] : b.ok => b.remaining >= 0
  <2>0. Faithful(s, k)
    BY DEF StockInv
  <2>1. CASE seen[s][k] = {} /\ reserved[s][k] = 0
    <3>1. sent[s][k] = {} /\ Cardinality({}) = 0
      BY <2>0, <2>1, FS_EmptySet DEF Faithful
    <3>2. QED
      BY <2>1, <3>1
  <2>2. ASSUME NEW a \in [ok : BOOLEAN, remaining : Int],
               seen[s][k] = {a}, reserved[s][k] > 0 => a.ok, a.ok => a.remaining >= 0
        PROVE  /\ Cardinality(sent[s][k]) <= 1
               /\ reserved[s][k] > 0 => \E b \in sent[s][k] : b.ok
               /\ \A b \in sent[s][k] : b.ok => b.remaining >= 0
    <3>1. sent[s][k] = {a} /\ Cardinality({a}) = 1
      BY <2>0, <2>2, FS_Singleton DEF Faithful
    <3>2. QED
      BY <2>2, <3>1
  <2>3. QED
    BY <2>0, <2>1, <2>2 DEF Faithful
<1>2. Stock!RetriesRepeat
  BY <1>1, SameCount DEF Stock!RetriesRepeat
<1>3. Stock!NeverOversold
  BY <1>1 DEF Stock!NeverOversold
<1>4. QED
  BY <1>2, <1>3

-----------------------------------------------------------------------------
(* The inventory's client: the other part of RetriesRepeat *)

\* The i-th answer to a call, and how many there are.
Nth(i) == IF rpc.kind = "BulkUpsert" THEN Batch ELSE i
Total ==
    IF rpc.kind = "WatchStock" THEN Events ELSE IF rpc.kind = "Reserve" THEN Batch ELSE 1

\* Answers the client has read or that are on their way to it.
Told == Len(received) + Len(down)

Statuses == {"none", "OK", "Unauthenticated", "NotFound", "InvalidArgument", "Internal",
             "Unavailable", "DeadlineExceeded", "Canceled"}
Stages == {"none", "running", "sleeping", "watching", "closing", "over"}

CliTyped ==
    /\ rpc \in Cli!Rpcs
    /\ {breaks, uploaded, served, runs} \subseteq Nat
    /\ halfClosed \in BOOLEAN
    /\ handler \in [at : Stages, out : Seq(Nat), status : Statuses]
    /\ Len(handler.out) <= 1
    /\ up \in Seq(Nat) /\ down \in Seq(Nat) /\ received \in Seq(Nat)
    /\ code \in Statuses

\* What was read, what is on its way and what is being sent are the answers
\* from the first on, each once.
Ordered ==
    /\ \A i \in 1 .. Len(received) : received[i] = Nth(i)
    /\ \A i \in 1 .. Len(down) : down[i] = Nth(Len(received) + i)
    /\ handler.out # <<>> => handler.out[1] = Nth(Told + 1)
    /\ Told + Len(handler.out) <= Total
    /\ handler.at = "over" /\ handler.status = "OK" => Told = Total
    /\ code = "OK" => Len(received) = Total

\* How far the handler is says what it has received and sent; a client that
\* has closed its side has sent everything, unless the handler is over.
Staged ==
    /\ served <= Cli!Messages /\ uploaded <= Cli!Messages
    /\ handler.at # "over" =>
        /\ served + Len(up) = uploaded /\ handler.status = "none"
        /\ halfClosed => uploaded = Cli!Messages
        /\ code \in {"none", rpc.ender}
    /\ handler.at = "none" => served = 0 /\ Told = 0 /\ handler.out = <<>>
    /\ handler.at = "running" =>
        IF rpc.kind = "Reserve" THEN Told + Len(handler.out) = served
        ELSE /\ Told = 0 /\ handler.out = <<>>
             /\ rpc.kind # "BulkUpsert" => served = 0
    /\ handler.at = "sleeping" => rpc.id = "slow" /\ handler.out = <<>>
    /\ handler.at = "watching" => rpc.kind = "WatchStock" /\ handler.out # <<>>
    /\ handler.at = "closing" => Total = 1 /\ Told = 0 /\ handler.out # <<>>
    /\ handler.at = "over" => handler.out = <<>>

\* A status has its cause.
Caused(st) ==
    /\ st = "Unauthenticated" => ~rpc.token
    /\ st = "NotFound" => rpc.id \in {"nope", "slow"}
    /\ st = "InvalidArgument" => rpc.id = "empty"
    /\ st = "Internal" => rpc.id = "boom"
    /\ st = "Unavailable" => breaks > 0
    /\ st \in {"DeadlineExceeded", "Canceled"} => st = rpc.ender

Causes ==
    /\ Caused(handler.status) /\ Caused(code)
    /\ ~rpc.token => runs = 0 /\ handler.at \in {"none", "over"}

\* Work is repeated only by an attempt whose connection broke: the break pays
\* for what that attempt was sent, and the attempt that runs for what it is sent.
Paid ==
    /\ handler.status # "Unavailable" => runs <= breaks * Cli!Messages + served
    /\ handler.status = "Unavailable" => runs <= breaks * Cli!Messages

CliInv == CliTyped /\ Ordered /\ Staged /\ Causes /\ Paid

\* The kinds of call, and what is known of each.
LEMMA RpcFacts ==
    ASSUME Cli!ClientAssumption, rpc \in Cli!Rpcs
    PROVE  /\ rpc.kind \in {"GetProduct", "WatchStock", "BulkUpsert", "Reserve"}
           /\ rpc.ender \in {"DeadlineExceeded", "Canceled"} /\ rpc.token \in BOOLEAN
           /\ rpc.kind = "GetProduct" => rpc.id \in Cli!Ids
           /\ rpc.kind # "GetProduct" => rpc.id = "p1"
           /\ Batch \in Nat \ {0} /\ Events \in Nat \ {0}
           /\ Total \in Nat \ {0}
           /\ Cli!Messages \in Nat \ {0}
           /\ rpc.kind \in {"BulkUpsert", "Reserve"} => Cli!Messages = Batch
           /\ rpc.kind \notin {"BulkUpsert", "Reserve"} => Cli!Messages = 1
<1>1. Batch \in Nat \ {0} /\ Events \in Nat \ {0}
  BY DEF Cli!ClientAssumption
<1>2. CASE rpc \in [kind : {"GetProduct"}, id : Cli!Ids, token : BOOLEAN,
                    ender : {"DeadlineExceeded", "Canceled"}]
  BY <1>1, <1>2 DEF Total, Cli!Messages
<1>3. CASE rpc \in [kind : {"WatchStock", "BulkUpsert", "Reserve"}, id : {"p1"}, token : {TRUE},
                    ender : {"DeadlineExceeded"}]
  <2>1. /\ rpc.kind \in {"WatchStock", "BulkUpsert", "Reserve"}
        /\ rpc.id = "p1" /\ rpc.token = TRUE /\ rpc.ender = "DeadlineExceeded"
    BY <1>3
  <2>2. Total \in Nat \ {0}
    BY <1>1, <2>1 DEF Total
  <2>3. /\ Cli!Messages \in Nat \ {0}
        /\ rpc.kind \in {"BulkUpsert", "Reserve"} => Cli!Messages = Batch
        /\ rpc.kind \notin {"BulkUpsert", "Reserve"} => Cli!Messages = 1
    BY <1>1 DEF Cli!Messages
  <2>4. QED
    BY <1>1, <2>1, <2>2, <2>3
<1>4. QED
  BY <1>2, <1>3 DEF Cli!Rpcs

LEMMA CliInit ==
    ASSUME Cli!ClientAssumption, Cli!Init
    PROVE  CliInv
<1>0. /\ rpc \in Cli!Rpcs /\ breaks = 0 /\ up = <<>> /\ uploaded = 0 /\ halfClosed = FALSE
      /\ handler = [at |-> "none", out |-> <<>>, status |-> "none"]
      /\ served = 0 /\ runs = 0 /\ down = <<>> /\ received = <<>> /\ code = "none"
  BY DEF Cli!Init, Cli!Handler
<1>1. Cli!Messages \in Nat \ {0} /\ Total \in Nat \ {0} /\ Told = 0
  BY <1>0, RpcFacts DEF Told
<1>2. CliTyped
  <2>1. /\ <<>> \in Seq(Nat) /\ Len(<<>>) = 0 /\ "none" \in Statuses /\ "none" \in Stages
    BY DEF Stages, Statuses
  <2>2. /\ handler \in [at : Stages, out : Seq(Nat), status : Statuses] /\ Len(handler.out) <= 1
    BY <1>0, <2>1
  <2>3. {breaks, uploaded, served, runs} \subseteq Nat /\ halfClosed \in BOOLEAN
    <3>1. breaks \in Nat
      BY DEF Cli!Init
    <3>2. QED
      BY <1>0, <3>1
  <2>4. QED
    BY <1>0, <2>1, <2>2, <2>3 DEF CliTyped
<1>3. Ordered
  BY <1>0, <1>1 DEF Ordered
<1>4. Staged
  BY <1>0, <1>1 DEF Staged
<1>5. Causes
  BY <1>0 DEF Causes, Caused
<1>6. Paid
  BY <1>0, <1>1 DEF Paid
<1>7. QED
  BY <1>2, <1>3, <1>4, <1>5, <1>6 DEF CliInv

\* Nothing but the variables of the call itself decides what its answers are.
LEMMA SameCall ==
    ASSUME rpc' = rpc
    PROVE  /\ Total' = Total /\ Cli!Messages' = Cli!Messages
           /\ \A i : Nth(i)' = Nth(i)
  BY DEF Total, Cli!Messages, Nth

\* A bound on the work that moves with what is served.
LEMMA PaidOn ==
    ASSUME NEW b \in Nat, NEW r \in Nat, NEW s \in Nat, NEW x \in Nat, NEW y \in Nat,
           r <= b + s, x <= r + (y - s)
    PROVE  x <= b + y
  OBVIOUS

\* A step of the handler that sends nothing: the rest is left to show for the
\* handler's new state alone.
LEMMA HandlerMoves ==
    ASSUME Cli!ClientAssumption, CliInv,
           NEW h \in [at : Stages, out : Seq(Nat), status : Statuses], handler' = h,
           UNCHANGED <<rpc, breaks, uploaded, halfClosed, received, code, down>>,
           up' \in Seq(Nat), served' \in Nat, runs' \in Nat,
           runs' <= runs + (served' - served), served' <= Cli!Messages,
           Len(h.out) <= 1, h.status # "Unavailable",
           h.out # <<>> => h.out[1] = Nth(Told + 1) /\ Told < Total,
           h.at = "over" /\ h.status = "OK" => Told = Total,
           Staged', Caused(h.status),
           ~rpc.token => runs' = 0 /\ h.at \in {"none", "over"},
           handler.status # "Unavailable"
    PROVE  CliInv'
<1>0. CliTyped /\ Ordered /\ Causes /\ Paid /\ rpc \in Cli!Rpcs
  BY DEF CliInv, CliTyped
<1>1. /\ Total' = Total /\ Cli!Messages' = Cli!Messages /\ \A i : Nth(i)' = Nth(i)
      /\ Told' = Told /\ Told \in Nat /\ Total \in Nat
  BY <1>0, SameCall, RpcFacts DEF Told, CliTyped
<1>2. CliTyped'
  BY <1>0 DEF CliTyped
<1>3. Ordered'
  <2>1. Told + Len(h.out) <= Total
    <3>1. CASE h.out = <<>>
      BY <1>0, <1>1, <3>1 DEF Ordered, CliTyped
    <3>2. CASE h.out # <<>>
      <4>1. Len(h.out) \in Nat /\ Len(h.out) # 0
        BY <3>2
      <4>2. QED
        BY <1>1, <3>2, <4>1
    <3>3. QED
      BY <3>1, <3>2
  <2>2. QED
    BY <1>0, <1>1, <2>1 DEF Ordered
<1>4. Causes'
  BY <1>0 DEF Causes, Caused
<1>5. Paid'
  <2>0. breaks * Cli!Messages \in Nat
    <3>1. breaks \in Nat /\ Cli!Messages \in Nat
      BY <1>0, RpcFacts DEF CliTyped
    <3>2. QED
      BY <3>1
  <2>1. /\ runs <= breaks * Cli!Messages + served
        /\ served \in Nat /\ runs \in Nat
    BY <1>0 DEF Paid, CliTyped
  <2>2. runs' <= breaks * Cli!Messages + served'
    BY <2>0, <2>1, PaidOn
  <2>3. QED
    BY <1>1, <2>2 DEF Paid
<1>6. QED
  BY <1>2, <1>3, <1>4, <1>5 DEF CliInv

\* What every step below starts from.
LEMMA CliFacts ==
    ASSUME Cli!ClientAssumption, CliInv
    PROVE  /\ CliTyped /\ Ordered /\ Staged /\ Causes /\ Paid /\ rpc \in Cli!Rpcs
           /\ {breaks, uploaded, served, runs, Told, Len(received), Len(down), Len(up)} \subseteq Nat
           /\ handler \in [at : Stages, out : Seq(Nat), status : Statuses]
           /\ Len(handler.out) \in Nat /\ Len(handler.out) <= 1 /\ (handler.out = <<>> <=> Len(handler.out) = 0)
           /\ up \in Seq(Nat) /\ down \in Seq(Nat) /\ received \in Seq(Nat)
<1>1. CliTyped /\ Ordered /\ Staged /\ Causes /\ Paid
  BY DEF CliInv
<1>2. /\ up \in Seq(Nat) /\ down \in Seq(Nat) /\ received \in Seq(Nat) /\ rpc \in Cli!Rpcs
      /\ handler \in [at : Stages, out : Seq(Nat), status : Statuses] /\ Len(handler.out) <= 1
      /\ breaks \in Nat /\ uploaded \in Nat /\ served \in Nat /\ runs \in Nat
  BY <1>1 DEF CliTyped
<1>3. Len(up) \in Nat /\ Len(down) \in Nat /\ Len(received) \in Nat
  BY <1>2
<1>4. Told \in Nat
  BY <1>3 DEF Told
<1>5. handler.out \in Seq(Nat)
  BY <1>2
<1>6. Len(handler.out) \in Nat /\ Len(handler.out) <= 1 /\ (handler.out = <<>> <=> Len(handler.out) = 0)
  <2>1. ASSUME NEW o \in Seq(Nat)
        PROVE  Len(o) \in Nat /\ (o = <<>> <=> Len(o) = 0)
    OBVIOUS
  <2>2. QED
    BY <1>2, <1>5, <2>1
<1>7. QED
  BY <1>1, <1>2, <1>3, <1>4, <1>6

\* A message is taken from those on their way to the handler.
LEMMA Received ==
    ASSUME Cli!ClientAssumption, CliInv, Cli!Receives
    PROVE  /\ handler.at = "running" /\ handler.out = <<>>
           /\ served' = served + 1 /\ runs' = runs + 1 /\ up' \in Seq(Nat)
           /\ Len(up') = Len(up) - 1
           /\ served' + Len(up') = uploaded /\ served' <= Cli!Messages
           /\ served' \in Nat /\ runs' \in Nat /\ runs' <= runs + (served' - served)
           /\ rpc.token
<1>0. /\ Staged /\ Causes /\ up \in Seq(Nat) /\ up # <<>> /\ served \in Nat /\ runs \in Nat
      /\ Len(up) \in Nat /\ rpc \in Cli!Rpcs /\ uploaded \in Nat
      /\ handler.at = "running" /\ handler.out = <<>>
      /\ up' = Tail(up) /\ served' = served + 1 /\ runs' = runs + 1
  BY CliFacts DEF Cli!Receives
<1>1. up' \in Seq(Nat) /\ Len(up') = Len(up) - 1 /\ Len(up) > 0
  BY <1>0
<1>2. served + Len(up) = uploaded /\ uploaded <= Cli!Messages /\ Cli!Messages \in Nat
  BY <1>0, RpcFacts DEF Staged
<1>3. rpc.token
  BY <1>0 DEF Causes
<1>4. served' + Len(up') = uploaded /\ served' <= Cli!Messages
  <2>1. ASSUME NEW n \in Nat, NEW u \in Nat, NEW m \in Nat, NEW l \in Nat,
               n + u = m, m <= l, u > 0
        PROVE  (n + 1) + (u - 1) = m /\ n + 1 <= l
    BY <2>1
  <2>2. QED
    BY <1>0, <1>1, <1>2, <2>1
<1>5. QED
  BY <1>0, <1>1, <1>3, <1>4

LEMMA GetProductKeeps ==
    ASSUME Cli!ClientAssumption, CliInv, Cli!GetProduct
    PROVE  CliInv'
<1>0. /\ Staged /\ Causes /\ rpc \in Cli!Rpcs /\ Told \in Nat
      /\ rpc.kind = "GetProduct" /\ Cli!Receives
      /\ UNCHANGED <<rpc, breaks, uploaded, halfClosed, received, code, down>>
  BY CliFacts DEF Cli!GetProduct, Cli!client
<1>1. /\ handler.at = "running" /\ handler.out = <<>> /\ handler.status = "none"
      /\ Told = 0 /\ served = 0 /\ Total = 1 /\ Nth(1) = 1 /\ Cli!Messages = 1
      /\ rpc.id \in {"p1", "nope", "empty", "slow", "boom"} /\ rpc.token
      /\ code \in {"none", rpc.ender}
      /\ halfClosed => uploaded = Cli!Messages
      /\ uploaded <= Cli!Messages
  BY <1>0, Received, RpcFacts DEF Staged, Total, Nth, Cli!Ids
<1>2. PICK h \in [at : Stages, out : Seq(Nat), status : Statuses] :
          /\ handler' = h /\ Len(h.out) <= 1
          /\ \/ h.at = "closing" /\ h.out = <<1>> /\ h.status = "none"
             \/ /\ h.at = "sleeping" /\ h.out = <<>> /\ h.status = "none" /\ rpc.id = "slow"
             \/ /\ h.at = "over" /\ h.out = <<>>
                /\ \/ rpc.id = "nope" /\ h.status = "NotFound"
                   \/ rpc.id = "empty" /\ h.status = "InvalidArgument"
                   \/ rpc.id = "boom" /\ h.status = "Internal"
  <2> DEFINE Fits(h) ==
        /\ handler' = h /\ Len(h.out) <= 1
        /\ \/ h.at = "closing" /\ h.out = <<1>> /\ h.status = "none"
           \/ /\ h.at = "sleeping" /\ h.out = <<>> /\ h.status = "none" /\ rpc.id = "slow"
           \/ /\ h.at = "over" /\ h.out = <<>>
              /\ \/ rpc.id = "nope" /\ h.status = "NotFound"
                 \/ rpc.id = "empty" /\ h.status = "InvalidArgument"
                 \/ rpc.id = "boom" /\ h.status = "Internal"
  <2>1. <<>> \in Seq(Nat) /\ <<1>> \in Seq(Nat) /\ Len(<<>>) = 0 /\ Len(<<1>>) = 1
    OBVIOUS
  <2>2. ASSUME NEW o \in {<<>>, << 1 >>}, NEW a \in Stages, NEW st \in Statuses
        PROVE  Cli!Handler(a, o, st) \in [at : Stages, out : Seq(Nat), status : Statuses]
    BY <2>1 DEF Cli!Handler
  <2>3. CASE rpc.id = "p1"
    <3>1. handler' = Cli!Handler("closing", <<1>>, "none")
      BY <2>3 DEF Cli!GetProduct
    <3>2. Fits(Cli!Handler("closing", <<1>>, "none"))
      BY <2>1, <3>1 DEF Cli!Handler
    <3>3. QED
      BY <2>2, <3>2 DEF Stages, Statuses
  <2>4. CASE rpc.id = "slow"
    <3>1. handler' = Cli!Handler("sleeping", <<>>, "none")
      BY <2>4 DEF Cli!GetProduct
    <3>2. Fits(Cli!Handler("sleeping", <<>>, "none"))
      BY <2>1, <2>4, <3>1 DEF Cli!Handler
    <3>3. QED
      BY <2>2, <3>2 DEF Stages, Statuses
  <2>5. CASE rpc.id = "nope"
    <3>1. handler' = Cli!Handler("over", <<>>, "NotFound")
      BY <2>5 DEF Cli!GetProduct
    <3>2. Fits(Cli!Handler("over", <<>>, "NotFound"))
      BY <2>1, <2>5, <3>1 DEF Cli!Handler
    <3>3. QED
      BY <2>2, <3>2 DEF Stages, Statuses
  <2>6. CASE rpc.id = "empty"
    <3>1. handler' = Cli!Handler("over", <<>>, "InvalidArgument")
      BY <2>6 DEF Cli!GetProduct
    <3>2. Fits(Cli!Handler("over", <<>>, "InvalidArgument"))
      BY <2>1, <2>6, <3>1 DEF Cli!Handler
    <3>3. QED
      BY <2>2, <3>2 DEF Stages, Statuses
  <2>7. CASE rpc.id = "boom"
    <3>1. handler' = Cli!Handler("over", <<>>, "Internal")
      BY <2>7 DEF Cli!GetProduct
    <3>2. Fits(Cli!Handler("over", <<>>, "Internal"))
      BY <2>1, <2>7, <3>1 DEF Cli!Handler
    <3>3. QED
      BY <2>2, <3>2 DEF Stages, Statuses
  <2>8. QED
    BY <1>1, <2>3, <2>4, <2>5, <2>6, <2>7
<1>3. Told' = Told /\ Total' = Total /\ Cli!Messages' = Cli!Messages
  BY <1>0, SameCall DEF Told
<1>4. h.out # <<>> => h.out[1] = 1 /\ h.at = "closing"
  BY <1>2
<1>5. Staged'
  <2>1. /\ served' <= Cli!Messages' /\ uploaded' <= Cli!Messages'
        /\ served' + Len(up') = uploaded'
        /\ halfClosed' => uploaded' = Cli!Messages'
        /\ code' \in {"none", rpc'.ender} /\ handler' = h /\ rpc' = rpc /\ Told' = 0 /\ Total' = 1
    BY <1>0, <1>1, <1>2, <1>3, Received
  <2>2. \/ h.at = "closing" /\ h.out # <<>> /\ h.status = "none"
        \/ h.at = "sleeping" /\ h.out = <<>> /\ h.status = "none" /\ rpc.id = "slow"
        \/ h.at = "over" /\ h.out = <<>>
    <3>1. <<1>> # <<>>
      OBVIOUS
    <3>2. QED
      BY <1>2, <3>1
  <2>3. QED
    BY <2>1, <2>2 DEF Staged
<1>6. Caused(h.status)
  BY <1>2, RpcFacts DEF Caused
<1>7. QED
  BY <1>0, <1>1, <1>2, <1>4, <1>5, <1>6, Received, HandlerMoves

\* The handler's new state, when it is one of a few that are written down.
LEMMA HandlerType ==
    ASSUME NEW a \in Stages, NEW o \in Seq(Nat), NEW st \in Statuses
    PROVE  /\ Cli!Handler(a, o, st) \in [at : Stages, out : Seq(Nat), status : Statuses]
           /\ Cli!Handler(a, o, st).at = a /\ Cli!Handler(a, o, st).out = o
           /\ Cli!Handler(a, o, st).status = st
  BY DEF Cli!Handler

LEMMA HandlerIdle ==
    ASSUME NEW a \in Stages, NEW st \in Statuses, NEW h, h = Cli!Handler(a, <<>>, st)
    PROVE  /\ h \in [at : Stages, out : Seq(Nat), status : Statuses]
           /\ h.at = a /\ h.out = <<>> /\ h.status = st /\ Len(h.out) <= 1 /\ Len(h.out) = 0
<1>1. PICK o \in Seq(Nat) : o = <<>> /\ Len(o) = 0
  <2>1. <<>> \in Seq(Nat) /\ Len(<<>>) = 0
    OBVIOUS
  <2>2. QED
    BY ONLY <2>1
<1>2. h = Cli!Handler(a, o, st)
  BY <1>1
<1>3. /\ h \in [at : Stages, out : Seq(Nat), status : Statuses]
      /\ h.at = a /\ h.out = o /\ h.status = st
  BY ONLY <1>2, HandlerType
<1>4. QED
  BY ONLY <1>1, <1>3

LEMMA HandlerSays ==
    ASSUME NEW a \in Stages, NEW st \in Statuses, NEW n \in Nat, NEW h, h = Cli!Handler(a, <<n>>, st)
    PROVE  /\ h \in [at : Stages, out : Seq(Nat), status : Statuses]
           /\ h.at = a /\ h.out # <<>> /\ h.out[1] = n /\ h.status = st
           /\ Len(h.out) <= 1 /\ Len(h.out) = 1
<1>1. PICK o \in Seq(Nat) : o = <<n>> /\ Len(o) = 1 /\ o[1] = n /\ o # <<>>
  <2>1. <<n>> \in Seq(Nat) /\ Len(<<n>>) = 1 /\ <<n>>[1] = n /\ <<n>> # <<>>
    OBVIOUS
  <2>2. QED
    BY ONLY <2>1, Zenon
<1>2. h = Cli!Handler(a, o, st)
  BY <1>1
<1>3. /\ h \in [at : Stages, out : Seq(Nat), status : Statuses]
      /\ h.at = a /\ h.out = o /\ h.status = st
  BY ONLY <1>2, HandlerType
<1>4. /\ h.at = a /\ h.out # <<>> /\ h.out[1] = n /\ h.status = st
      /\ Len(h.out) = 1
  BY ONLY <1>1, <1>3
<1>5. QED
  BY ONLY <1>3, <1>4

\* The steps of a handler that receives nothing and ends nothing but itself.
LEMMA ArriveKeeps ==
    ASSUME Cli!ClientAssumption, CliInv, Cli!Arrive \/ Cli!WakeUp \/ Cli!SeesContext
    PROVE  CliInv'
<1>0. /\ CliTyped /\ Staged /\ Causes /\ Paid /\ rpc \in Cli!Rpcs /\ {Told, runs, served} \subseteq Nat
      /\ UNCHANGED <<rpc, breaks, uploaded, halfClosed, received, code, down>>
      /\ UNCHANGED <<up, served, runs>>
      /\ handler.at # "over" /\ up \in Seq(Nat)
  BY CliFacts DEF Cli!Arrive, Cli!WakeUp, Cli!SeesContext, Cli!client
<1>1. /\ Told' = Told /\ Total' = Total /\ Cli!Messages' = Cli!Messages
      /\ served <= Cli!Messages /\ uploaded <= Cli!Messages
      /\ served + Len(up) = uploaded /\ handler.status = "none"
      /\ halfClosed => uploaded = Cli!Messages
      /\ code \in {"none", rpc.ender} /\ rpc.ender \in {"DeadlineExceeded", "Canceled"}
      /\ rpc.token \in BOOLEAN
  BY <1>0, SameCall, RpcFacts DEF Told, Staged
<1>2. PICK a \in Stages, st \in Statuses :
          /\ handler' = Cli!Handler(a, <<>>, st)
          /\ \/ a = "running" /\ st = "none" /\ rpc.token /\ handler.at = "none"
             \/ a = "over" /\ st = "Unauthenticated" /\ ~rpc.token
             \/ a = "over" /\ st = "NotFound" /\ rpc.id = "slow"
             \/ a = "over" /\ st = code /\ code = rpc.ender
  <2>1. CASE Cli!Arrive
    BY <2>1 DEF Cli!Arrive, Stages, Statuses
  <2>2. CASE Cli!WakeUp
    BY <1>0, <2>2 DEF Cli!WakeUp, Staged, Stages, Statuses
  <2>3. CASE Cli!SeesContext
    <3>1. handler' = Cli!Handler("over", <<>>, code) /\ code = rpc.ender
      BY <1>1, <2>3 DEF Cli!SeesContext
    <3>2. code \in Statuses /\ "over" \in Stages
      BY <1>0 DEF CliTyped, Stages
    <3>3. QED
      BY <3>1, <3>2
  <2>4. QED
    BY <2>1, <2>2, <2>3
<1> PICK h : h = Cli!Handler(a, <<>>, st)
  OBVIOUS
<1>3. /\ h \in [at : Stages, out : Seq(Nat), status : Statuses]
      /\ h.at = a /\ h.out = <<>> /\ h.status = st /\ Len(h.out) <= 1
  BY HandlerIdle
<1>4. a = "running" => served = 0 /\ Told = 0
  BY <1>0, <1>1, <1>2 DEF Staged
<1>5. Staged'
  <2>1. /\ handler'.at = a /\ handler'.out = <<>> /\ handler'.status = st
        /\ Len(<<>>) = 0
    BY <1>2, <1>3
  <2>2. CASE a = "running"
    BY <1>0, <1>1, <1>2, <1>4, <2>1, <2>2 DEF Staged
  <2>3. CASE a = "over"
    BY <1>0, <1>1, <2>1, <2>3 DEF Staged
  <2>4. QED
    BY <1>2, <2>2, <2>3
<1>6. Caused(st)
  BY <1>1, <1>2 DEF Caused
<1>7. ~rpc.token => runs' = 0 /\ a \in {"none", "over"}
  BY <1>0, <1>2 DEF Causes
<1>8. st # "Unavailable" /\ (a = "over" => st # "OK") /\ handler.status # "Unavailable"
  BY <1>1, <1>2
<1>9. runs' <= runs + (served' - served) /\ served' <= Cli!Messages /\ served' \in Nat /\ runs' \in Nat
  BY <1>0, <1>1
<1>10. handler' = h /\ (h.out # <<>> => h.out[1] = Nth(Told + 1) /\ Told < Total)
       /\ h.status # "Unavailable" /\ (h.at = "over" /\ h.status = "OK" => Told = Total)
       /\ Caused(h.status) /\ (~rpc.token => runs' = 0 /\ h.at \in {"none", "over"})
  BY <1>2, <1>3, <1>6, <1>7, <1>8
<1>11. QED
  BY <1>0, <1>3, <1>5, <1>8, <1>9, <1>10, HandlerMoves

\* A stream: a watcher begins with its first event, BulkUpsert counts until
\* its client is done, Reserve answers each message.
LEMMA StreamKeeps ==
    ASSUME Cli!ClientAssumption, CliInv, Cli!WatchStock \/ Cli!BulkUpsert \/ Cli!Reserve
    PROVE  CliInv'
<1>0. /\ CliTyped /\ Ordered /\ Staged /\ Causes /\ Paid /\ rpc \in Cli!Rpcs
      /\ {Told, runs, served, Len(up)} \subseteq Nat /\ up \in Seq(Nat)
      /\ UNCHANGED <<rpc, breaks, uploaded, halfClosed, received, code, down>>
      /\ handler.at = "running"
  BY CliFacts DEF Cli!WatchStock, Cli!BulkUpsert, Cli!Reserve, Cli!Receives, Cli!client
<1>1. /\ Told' = Told /\ Total' = Total /\ Cli!Messages' = Cli!Messages
      /\ served <= Cli!Messages /\ uploaded <= Cli!Messages
      /\ served + Len(up) = uploaded /\ handler.status = "none"
      /\ halfClosed => uploaded = Cli!Messages
      /\ code \in {"none", rpc.ender}
      /\ Total \in Nat \ {0} /\ Cli!Messages \in Nat \ {0}
      /\ rpc.kind \in {"BulkUpsert", "Reserve"} => Cli!Messages = Batch
      /\ Batch \in Nat \ {0} /\ rpc.token \in BOOLEAN
  BY <1>0, SameCall, RpcFacts DEF Told, Staged
<1>2. rpc.token
  BY <1>0 DEF Causes
<1>3. Caused("none") /\ Caused("OK")
  BY DEF Caused
<1>4. CASE Cli!Receives
  <2>1. /\ handler.out = <<>> /\ served' = served + 1 /\ runs' = runs + 1 /\ up' \in Seq(Nat)
        /\ served' + Len(up') = uploaded /\ served' <= Cli!Messages
        /\ served' \in Nat /\ runs' \in Nat /\ runs' <= runs + (served' - served)
    BY <1>4, Received
  <2>2. CASE Cli!WatchStock
    <3>0. rpc.kind = "WatchStock" /\ Told = 0 /\ handler' = Cli!Handler("watching", <<1>>, "none")
      BY <1>0, <2>2 DEF Cli!WatchStock, Staged
    <3> PICK h : h = Cli!Handler("watching", <<1>>, "none")
      OBVIOUS
    <3>1. /\ h \in [at : Stages, out : Seq(Nat), status : Statuses]
          /\ h.at = "watching" /\ h.out # <<>> /\ h.out[1] = 1 /\ h.status = "none"
          /\ Len(h.out) <= 1 /\ Len(h.out) = 1
      <4>1. 1 \in Nat /\ "watching" \in Stages /\ "none" \in Statuses
        BY <1>0 DEF Stages, Statuses
      <4>2. QED
        BY <4>1, HandlerSays
    <3>2. Nth(1) = 1 /\ <<1>>[1] = 1 /\ <<1>> # <<>>
      BY <3>0 DEF Nth
    <3>3. handler' = h /\ h.out # <<>> /\ h.out[1] = Nth(Told + 1) /\ Told < Total
      BY <1>1, <3>0, <3>1, <3>2
    <3>4. Staged'
      BY <1>0, <1>1, <2>1, <3>0, <3>1, <3>3 DEF Staged
    <3>5. QED
      BY <1>0, <1>1, <1>2, <1>3, <2>1, <3>1, <3>3, <3>4, HandlerMoves
  <2>3. CASE Cli!BulkUpsert
    <3>0. rpc.kind = "BulkUpsert" /\ handler' = handler
      BY <1>4, <2>1, <2>3 DEF Cli!BulkUpsert, Cli!Receives
    <3>1. /\ handler \in [at : Stages, out : Seq(Nat), status : Statuses]
          /\ Len(handler.out) <= 1
      BY <1>0 DEF CliTyped
    <3>2. Staged'
      BY <1>0, <1>1, <2>1, <3>0 DEF Staged
    <3>3. QED
      BY <1>0, <1>1, <1>2, <1>3, <2>1, <3>0, <3>1, <3>2, HandlerMoves
  <2>4. CASE Cli!Reserve
    <3>0. /\ rpc.kind = "Reserve" /\ Told = served
          /\ handler' = Cli!Handler("running", <<served + 1>>, "none")
      <4>1. rpc.kind = "Reserve" /\ handler' = Cli!Handler("running", <<served + 1>>, "none")
        BY <1>4, <2>1, <2>4 DEF Cli!Reserve, Cli!Receives
      <4>2. Told + Len(handler.out) = served
        BY <1>0, <4>1 DEF Staged
      <4>3. Len(handler.out) = 0
        BY <2>1
      <4>4. QED
        BY <1>0, <4>1, <4>2, <4>3
    <3> PICK h : h = Cli!Handler("running", <<served + 1>>, "none")
      OBVIOUS
    <3>1. /\ h \in [at : Stages, out : Seq(Nat), status : Statuses]
          /\ h.at = "running" /\ h.out # <<>> /\ h.out[1] = served + 1 /\ h.status = "none"
          /\ Len(h.out) <= 1 /\ Len(h.out) = 1
      <4>1. served + 1 \in Nat /\ "running" \in Stages /\ "none" \in Statuses
        BY <1>0 DEF Stages, Statuses
      <4>2. QED
        BY <4>1, HandlerSays
    <3>2. Nth(served + 1) = served + 1 /\ <<served + 1>>[1] = served + 1 /\ <<served + 1>> # <<>>
      BY <3>0 DEF Nth
    <3>3. handler' = h /\ h.out # <<>> /\ h.out[1] = Nth(Told + 1)
      BY <3>0, <3>1, <3>2
    <3>4. Total = Batch /\ Told < Total
      <4>1. Total = Batch
        BY <3>0 DEF Total
      <4>2. served + 1 <= Batch
        BY <1>1, <2>1, <3>0
      <4>3. QED
        BY <1>0, <1>1, <3>0, <4>1, <4>2
    <3>5. Told' + Len(h.out) = served'
      BY <1>0, <1>1, <2>1, <3>0, <3>1
    <3>6. Staged'
      BY <1>0, <1>1, <2>1, <3>0, <3>1, <3>3, <3>5 DEF Staged
    <3>7. QED
      BY <1>0, <1>1, <1>2, <1>3, <2>1, <3>1, <3>3, <3>4, <3>6, HandlerMoves
  <2>5. QED
    BY <2>2, <2>3, <2>4
<1>5. CASE ~Cli!Receives
  <2>1. /\ UNCHANGED <<up, served, runs>> /\ up = <<>> /\ halfClosed
        /\ \/ rpc.kind = "BulkUpsert" /\ handler' = Cli!Handler("closing", <<served>>, "none")
           \/ /\ rpc.kind = "Reserve" /\ handler.out = <<>>
              /\ handler' = Cli!Handler("over", <<>>, "OK")
    BY <1>5 DEF Cli!WatchStock, Cli!BulkUpsert, Cli!Reserve
  <2>2. /\ served = Cli!Messages /\ Len(up) = 0 /\ Cli!Messages = Batch
        /\ runs' <= runs + (served' - served) /\ served' <= Cli!Messages
        /\ served' \in Nat /\ runs' \in Nat /\ up' \in Seq(Nat)
    <3>1. Len(up) = 0
      BY <2>1
    <3>2. QED
      BY <1>0, <1>1, <2>1, <3>1
  <2>3. CASE rpc.kind = "BulkUpsert"
    <3> PICK h : h = Cli!Handler("closing", <<served>>, "none")
      OBVIOUS
    <3>1. /\ h \in [at : Stages, out : Seq(Nat), status : Statuses]
          /\ h.at = "closing" /\ h.out # <<>> /\ h.out[1] = served /\ h.status = "none"
          /\ Len(h.out) <= 1 /\ Len(h.out) = 1
      <4>1. served \in Nat /\ "closing" \in Stages /\ "none" \in Statuses
        BY <1>0 DEF Stages, Statuses
      <4>2. QED
        BY <4>1, HandlerSays
    <3>2. Nth(1) = Batch /\ <<served>>[1] = served /\ <<served>> # <<>> /\ Total = 1
      BY <2>3 DEF Nth, Total
    <3>3. handler' = h
      BY <2>1, <2>3
    <3>4. Told = 0
      BY <1>0, <2>3 DEF Staged
    <3>5. h.out # <<>> /\ h.out[1] = Nth(Told + 1) /\ Told < Total
      BY <2>2, <3>1, <3>2, <3>4
    <3>6. Staged'
      BY <1>0, <1>1, <2>1, <2>2, <3>1, <3>2, <3>3, <3>4, <3>5 DEF Staged
    <3>7. QED
      BY <1>0, <1>1, <1>2, <1>3, <2>2, <3>1, <3>3, <3>5, <3>6, HandlerMoves
  <2>4. CASE rpc.kind = "Reserve"
    <3> PICK h : h = Cli!Handler("over", <<>>, "OK")
      OBVIOUS
    <3>1. /\ h \in [at : Stages, out : Seq(Nat), status : Statuses]
          /\ h.at = "over" /\ h.out = <<>> /\ h.status = "OK" /\ Len(h.out) <= 1
      <4>1. "over" \in Stages /\ "OK" \in Statuses
        BY DEF Stages, Statuses
      <4>2. QED
        BY <4>1, HandlerIdle
    <3>2. handler' = h /\ handler.out = <<>>
      BY <2>1, <2>4
    <3>3. Told = Total
      <4>1. Told + Len(handler.out) = served /\ Len(handler.out) = 0 /\ Total = Batch
        BY <1>0, <2>4, <3>2 DEF Staged, Total
      <4>2. QED
        BY <1>0, <2>2, <4>1
    <3>4. Staged'
      BY <1>0, <1>1, <2>1, <2>2, <3>1, <3>2 DEF Staged
    <3>5. QED
      BY <1>0, <1>1, <1>2, <1>3, <2>2, <3>1, <3>2, <3>3, <3>4, HandlerMoves
  <2>5. QED
    BY <2>1, <2>3, <2>4
<1>6. QED
  BY <1>4, <1>5

\* What is on its way when one more answer is put behind it.
LEMMA OneMore ==
    ASSUME NEW d \in Seq(Nat), NEW o \in Seq(Nat), Len(o) = 1
    PROVE  /\ d \o o \in Seq(Nat) /\ Len(d \o o) = Len(d) + 1
           /\ \A i \in 1 .. Len(d) : (d \o o)[i] = d[i]
           /\ (d \o o)[Len(d) + 1] = o[1]
<1>1. d \o o \in Seq(Nat) /\ Len(d \o o) = Len(d) + Len(o)
  BY ConcatProperties
<1>2. \A i \in 1 .. Len(d) + Len(o) : (d \o o)[i] = IF i <= Len(d) THEN d[i] ELSE o[i - Len(d)]
  BY ConcatProperties
<1>3. Len(d) \in Nat
  OBVIOUS
<1>4. \A i \in 1 .. Len(d) : (d \o o)[i] = d[i]
  BY <1>2, <1>3
<1>5. (d \o o)[Len(d) + 1] = o[1]
  <2>1. Len(d) + 1 \in 1 .. Len(d) + Len(o) /\ ~(Len(d) + 1 <= Len(d)) /\ (Len(d) + 1) - Len(d) = 1
    BY <1>3
  <2>2. QED
    BY <1>2, <2>1
<1>6. QED
  BY <1>1, <1>4, <1>5

\* stream.Send: the handler goes on to its next answer, or is over.
LEMMA AnswerKeeps ==
    ASSUME Cli!ClientAssumption, CliInv, Cli!Send
    PROVE  CliInv'
<1>0. /\ CliTyped /\ Ordered /\ Staged /\ Causes /\ Paid /\ rpc \in Cli!Rpcs
      /\ {Told, runs, served, Len(received), Len(down)} \subseteq Nat /\ down \in Seq(Nat)
      /\ handler \in [at : Stages, out : Seq(Nat), status : Statuses]
      /\ handler.out # <<>> /\ Len(handler.out) = 1
      /\ UNCHANGED <<rpc, breaks, uploaded, halfClosed, received, code, up, served, runs>>
      /\ down' = down \o handler.out
  <2>1. /\ handler.out # <<>> /\ down' = down \o handler.out
        /\ UNCHANGED <<rpc, breaks, uploaded, halfClosed, received, code, up, served, runs>>
    BY DEF Cli!Send, Cli!client
  <2>2. Len(handler.out) = 1
    <3>1. Len(handler.out) \in Nat /\ Len(handler.out) <= 1 /\ Len(handler.out) # 0
      BY <2>1, CliFacts
    <3>2. ASSUME NEW n \in Nat, n <= 1, n # 0 PROVE n = 1
      BY <3>2
    <3>3. QED
      BY ONLY <3>1, <3>2
  <2>3. QED
    BY <2>1, <2>2, CliFacts
<1>1. /\ Total' = Total /\ Cli!Messages' = Cli!Messages /\ \A i : Nth(i)' = Nth(i)
      /\ Total \in Nat \ {0} /\ rpc.token \in BOOLEAN /\ Events \in Nat \ {0}
      /\ rpc.ender \in {"DeadlineExceeded", "Canceled"}
  BY <1>0, SameCall, RpcFacts
<1>2. PICK x \in Nat : /\ x = handler.out[1] /\ x = Nth(Told + 1) /\ Told + 1 <= Total
  <2>1. handler.out[1] = Nth(Told + 1) /\ Told + Len(handler.out) <= Total
    BY <1>0 DEF Ordered
  <2>2. handler.out[1] \in Nat
    <3>1. ASSUME NEW o \in Seq(Nat), Len(o) = 1 PROVE o[1] \in Nat
      <4>1. 1 \in 1 .. Len(o)
        BY ONLY <3>1
      <4>2. QED
        BY ONLY <4>1, o \in Seq(Nat), ElementOfSeq
    <3>2. handler.out \in Seq(Nat)
      BY <1>0
    <3>3. QED
      BY <1>0, <3>1, <3>2
  <2>3. QED
    BY <1>0, <2>1, <2>2
<1>3. /\ down' \in Seq(Nat) /\ Len(down') = Len(down) + 1
      /\ \A i \in 1 .. Len(down) : down'[i] = down[i]
      /\ down'[Len(down) + 1] = x
  <2>1. handler.out \in Seq(Nat)
    BY <1>0
  <2>2. QED
    BY <1>0, <1>2, <2>1, OneMore
<1>4. Told' = Told + 1 /\ Told' \in Nat
  BY <1>0, <1>3 DEF Told
<1>5. /\ handler.at \in {"running", "watching", "closing"} /\ handler.status = "none"
      /\ rpc.token /\ code \in {"none", rpc.ender}
  <2>1. handler.at \in Stages
    BY <1>0
  <2>2. handler.at \notin {"none", "over", "sleeping"}
    BY <1>0 DEF Staged
  <2>3. QED
    BY <1>0, <1>1, <2>1, <2>2 DEF Staged, Stages, Causes
<1>6. PICK h \in [at : Stages, out : Seq(Nat), status : Statuses] :
          /\ handler' = h /\ Len(h.out) <= 1 /\ Len(h.out) \in Nat
          /\ \/ /\ h.at = "running" /\ handler.at = "running" /\ h.out = <<>> /\ Len(h.out) = 0
                /\ h.status = "none"
             \/ /\ h.at = "watching" /\ handler.at = "watching" /\ x < Events
                /\ h.out # <<>> /\ Len(h.out) = 1 /\ h.out[1] = x + 1 /\ h.status = "none"
             \/ /\ h.at = "over" /\ h.out = <<>> /\ Len(h.out) = 0 /\ h.status = "OK"
                /\ handler.at = "closing" \/ (handler.at = "watching" /\ ~(x < Events))
  <2>0. {"running", "watching", "over"} \subseteq Stages /\ {"none", "OK"} \subseteq Statuses
    BY DEF Stages, Statuses
  <2>1. CASE handler.at = "running"
    <3>1. PICK h : h = Cli!Handler("running", <<>>, "none")
      OBVIOUS
    <3>2. handler' = h
      BY <2>1, <3>1 DEF Cli!Send
    <3>3. /\ h \in [at : Stages, out : Seq(Nat), status : Statuses]
          /\ h.at = "running" /\ h.out = <<>> /\ h.status = "none" /\ Len(h.out) = 0
      BY <2>0, <3>1, HandlerIdle
    <3>4. QED
      BY <2>1, <3>2, <3>3
  <2>2. CASE handler.at = "watching" /\ x < Events
    <3>1. PICK h : h = Cli!Handler("watching", <<x + 1>>, "none")
      OBVIOUS
    <3>2. handler' = h
      BY <1>2, <2>2, <3>1 DEF Cli!Send
    <3>3. /\ h \in [at : Stages, out : Seq(Nat), status : Statuses]
          /\ h.at = "watching" /\ h.out # <<>> /\ h.out[1] = x + 1 /\ h.status = "none" /\ Len(h.out) = 1
      <4>1. x + 1 \in Nat
        OBVIOUS
      <4>2. QED
        BY <2>0, <3>1, <4>1, HandlerSays
    <3>4. handler' = h /\ Len(h.out) <= 1 /\ Len(h.out) \in Nat
      <4>1. ASSUME NEW l, l = 1 PROVE l <= 1 /\ l \in Nat
        BY ONLY <4>1
      <4>2. QED
        BY ONLY <3>2, <3>3, <4>1
    <3>5. QED
      BY <2>2, <3>3, <3>4
  <2>3. CASE handler.at = "closing" \/ (handler.at = "watching" /\ ~(x < Events))
    <3>1. PICK h : h = Cli!Handler("over", <<>>, "OK")
      OBVIOUS
    <3>2. handler' = h
      BY <1>2, <2>3, <3>1 DEF Cli!Send
    <3>3. /\ h \in [at : Stages, out : Seq(Nat), status : Statuses]
          /\ h.at = "over" /\ h.out = <<>> /\ h.status = "OK" /\ Len(h.out) = 0
      BY <2>0, <3>1, HandlerIdle
    <3>4. QED
      BY <2>3, <3>2, <3>3
  <2>4. QED
    BY <1>5, <2>1, <2>2, <2>3
<1>7. CliTyped'
  BY <1>0, <1>3, <1>6 DEF CliTyped
<1>8. /\ handler.at = "watching" => Total = Events /\ rpc.kind = "WatchStock" /\ x = Told + 1
      /\ handler.at = "closing" => Total = 1 /\ Told = 0
      /\ handler.at = "running" => rpc.kind = "Reserve" /\ Told + 1 = served
  <2>1. CASE handler.at = "watching"
    BY <1>0, <1>2, <2>1 DEF Staged, Total, Nth
  <2>2. CASE handler.at = "closing"
    BY <1>0, <2>2 DEF Staged
  <2>3. CASE handler.at = "running"
    BY <1>0, <2>3 DEF Staged
  <2>4. QED
    BY <1>5, <2>1, <2>2, <2>3
<1>9. /\ h.out # <<>> => h.out[1] = Nth(Told + 2) /\ Told + 2 <= Total
      /\ h.out = <<>> => Len(h.out) = 0
      /\ h.at = "over" => Told + 1 = Total
  <2>1. CASE h.at = "running"
    BY <1>6, <2>1
  <2>2. CASE h.at = "watching"
    <3>1. Total = Events /\ Nth(Told + 2) = Told + 2 /\ x = Told + 1
      BY <1>6, <1>8, <2>2 DEF Nth
    <3>2. QED
      BY <1>0, <1>1, <1>6, <2>2, <3>1
  <2>3. CASE h.at = "over"
    <3>1. h.out = <<>> /\ Len(h.out) = 0
      BY <1>6, <2>3
    <3>2. CASE handler.at = "closing"
      BY <1>8, <2>3, <3>1, <3>2
    <3>3. CASE handler.at = "watching" /\ ~(x < Events)
      BY <1>0, <1>1, <1>2, <1>8, <3>1, <3>3
    <3>4. QED
      BY <1>6, <2>3, <3>2, <3>3
  <2>4. QED
    BY <1>6, <2>1, <2>2, <2>3
<1>10. Ordered'
  <2>1. \A i \in 1 .. Len(received') : received'[i] = Nth(i)
    BY <1>0, <1>1 DEF Ordered
  <2>2. \A i \in 1 .. Len(down') : down'[i] = Nth(Len(received') + i)
    <3>1. \A i \in 1 .. Len(down) : down[i] = Nth(Len(received) + i)
      BY <1>0 DEF Ordered
    <3>2. Len(received) + (Len(down) + 1) = Told + 1
      BY <1>0 DEF Told
    <3>3. down'[Len(down) + 1] = Nth(Len(received) + (Len(down) + 1))
      BY <1>2, <1>3, <3>2
    <3>4. ASSUME NEW i \in 1 .. Len(down') PROVE down'[i] = Nth(Len(received) + i)
      <4>1. CASE i \in 1 .. Len(down)
        BY <1>3, <3>1, <4>1
      <4>2. CASE i = Len(down) + 1
        BY <3>3, <4>2
      <4>3. QED
        BY <1>0, <1>3, <4>1, <4>2
    <3>5. QED
      BY <1>0, <1>1, <3>4
  <2>3. handler'.out # <<>> => handler'.out[1] = Nth(Told' + 1)
    <3>1. Told' + 1 = Told + 2
      BY <1>0, <1>4
    <3>2. QED
      BY <1>1, <1>6, <1>9, <3>1
  <2>4. Told' + Len(handler'.out) <= Total'
    <3>1. CASE h.out = <<>>
      BY <1>0, <1>1, <1>2, <1>4, <1>6, <1>9, <3>1
    <3>2. CASE h.out # <<>>
      BY <1>0, <1>1, <1>4, <1>6, <1>9, <3>2
    <3>3. QED
      BY <3>1, <3>2
  <2>5. handler'.at = "over" /\ handler'.status = "OK" => Told' = Total'
    BY <1>1, <1>4, <1>6, <1>9
  <2>6. code' = "OK" => Len(received') = Total'
    BY <1>0, <1>1, <1>5
  <2>7. QED
    BY <1>1, <2>1, <2>2, <2>3, <2>4, <2>5, <2>6 DEF Ordered
<1>11. Staged'
  <2>1. /\ served <= Cli!Messages /\ uploaded <= Cli!Messages
        /\ served + Len(up) = uploaded
        /\ halfClosed => uploaded = Cli!Messages
    BY <1>0, <1>5 DEF Staged
  <2>2. CASE h.at = "running"
    <3>1. rpc'.kind = "Reserve" /\ Told' + Len(h.out) = served'
      BY <1>0, <1>4, <1>6, <1>8, <2>2
    <3>2. QED
      BY <1>0, <1>1, <1>5, <1>6, <2>1, <2>2, <3>1 DEF Staged
  <2>3. CASE h.at = "watching"
    BY <1>0, <1>1, <1>5, <1>6, <1>8, <2>1, <2>3 DEF Staged
  <2>4. CASE h.at = "over"
    BY <1>0, <1>1, <1>6, <2>1, <2>4 DEF Staged
  <2>5. QED
    BY <1>6, <2>2, <2>3, <2>4
<1>12. Causes'
  <2>1. h.status \in {"none", "OK"}
    BY <1>6
  <2>2. QED
    BY <1>0, <1>5, <1>6, <2>1 DEF Causes, Caused
<1>13. Paid'
  <2>1. runs <= breaks * Cli!Messages + served /\ h.status # "Unavailable"
    BY <1>0, <1>5, <1>6 DEF Paid
  <2>2. QED
    BY <1>0, <1>1, <1>6, <2>1 DEF Paid
<1>14. QED
  BY <1>7, <1>10, <1>11, <1>12, <1>13 DEF CliInv

\* What the client sends, closes, is told or gives up on leaves every answer
\* where it is.
LEMMA AsksKeep ==
    ASSUME Cli!ClientAssumption, CliInv,
           Cli!SendRequest \/ Cli!CloseSend \/ Cli!Status \/ Cli!ContextEnds
    PROVE  CliInv'
<1>0. /\ CliTyped /\ Ordered /\ Staged /\ Causes /\ Paid /\ rpc \in Cli!Rpcs
      /\ {Told, runs, served, uploaded, Len(received), Len(down), Len(up)} \subseteq Nat
      /\ up \in Seq(Nat) /\ down \in Seq(Nat)
      /\ handler \in [at : Stages, out : Seq(Nat), status : Statuses]
      /\ UNCHANGED <<rpc, breaks, handler, served, runs, down, received>> /\ code = "none"
  BY CliFacts DEF Cli!SendRequest, Cli!CloseSend, Cli!Status, Cli!ContextEnds, Cli!Reads, Cli!server
<1>1. /\ Total' = Total /\ Cli!Messages' = Cli!Messages /\ \A i : Nth(i)' = Nth(i)
      /\ Told' = Told /\ Cli!Messages \in Nat \ {0} /\ Total \in Nat \ {0}
      /\ rpc.ender \in {"DeadlineExceeded", "Canceled"}
  BY <1>0, SameCall, RpcFacts DEF Told
<1>2. Paid'
  BY <1>0, <1>1 DEF Paid
<1>3. CASE Cli!SendRequest
  <2>1. /\ up' = Append(up, uploaded + 1) /\ uploaded' = uploaded + 1 /\ ~halfClosed
        /\ uploaded < Cli!Messages /\ UNCHANGED <<halfClosed, code>>
    BY <1>3 DEF Cli!SendRequest
  <2>2. up' \in Seq(Nat) /\ Len(up') = Len(up) + 1 /\ uploaded' \in Nat /\ uploaded' <= Cli!Messages
    BY <1>0, <1>1, <2>1
  <2>3. CliTyped' /\ Ordered' /\ Causes'
    <3>1. CliTyped'
      BY <1>0, <1>1, <2>1, <2>2 DEF CliTyped
    <3>2. Ordered'
      BY <1>0, <1>1, <2>1, <2>2 DEF Ordered
    <3>3. Causes'
      BY <1>0, <1>1, <2>1, <2>2 DEF Causes, Caused
    <3>4. QED
      BY <3>1, <3>2, <3>3
  <2>4. Staged'
    <3>1. handler.at # "over" => served + Len(up') = uploaded'
      BY <1>0, <2>1, <2>2 DEF Staged
    <3>2. QED
      BY <1>0, <1>1, <2>1, <2>2, <3>1 DEF Staged
  <2>5. QED
    BY <1>2, <2>3, <2>4 DEF CliInv
<1>4. CASE Cli!CloseSend
  <2>1. /\ UNCHANGED <<up, uploaded, code>> /\ halfClosed' = TRUE
        /\ handler.at # "over" => uploaded = Cli!Messages
    BY <1>4 DEF Cli!CloseSend
  <2>2. CliTyped' /\ Ordered' /\ Causes'
    <3>1. CliTyped'
      BY <1>0, <1>1, <2>1 DEF CliTyped
    <3>2. Ordered'
      BY <1>0, <1>1, <2>1 DEF Ordered
    <3>3. Causes'
      BY <1>0, <1>1, <2>1 DEF Causes, Caused
    <3>4. QED
      BY <3>1, <3>2, <3>3
  <2>3. Staged'
    BY <1>0, <1>1, <2>1 DEF Staged
  <2>4. QED
    BY <1>2, <2>2, <2>3 DEF CliInv
<1>5. CASE Cli!Status
  <2>1. /\ UNCHANGED <<up, uploaded, halfClosed>> /\ code' = handler.status
        /\ handler.at = "over" /\ down = <<>>
    BY <1>5 DEF Cli!Status
  <2>2. code' = "OK" => Len(received) = Total
    <3>1. Len(down) = 0
      BY <2>1
    <3>2. QED
      BY <1>0, <1>1, <2>1, <3>1 DEF Ordered, Told
  <2>3. CliTyped'
    BY <1>0, <2>1 DEF CliTyped
  <2>4. Ordered'
    BY <1>0, <1>1, <2>1, <2>2 DEF Ordered
  <2>5. Causes' /\ Staged'
    BY <1>0, <1>1, <2>1 DEF Causes, Caused, Staged
  <2>6. QED
    BY <1>2, <2>3, <2>4, <2>5 DEF CliInv
<1>6. CASE Cli!ContextEnds
  <2>1. UNCHANGED <<up, uploaded, halfClosed>> /\ code' = rpc.ender
    BY <1>6 DEF Cli!ContextEnds
  <2>2. CliTyped' /\ Ordered' /\ Causes' /\ Staged'
    BY <1>0, <1>1, <2>1 DEF CliTyped, Ordered, Causes, Caused, Staged, Statuses
  <2>3. QED
    BY <1>2, <2>2 DEF CliInv
<1>7. QED
  BY <1>3, <1>4, <1>5, <1>6

\* The first of d goes to the end of r.
LEMMA TakesFirst ==
    ASSUME NEW r \in Seq(Nat), NEW d \in Seq(Nat), d # <<>>
    PROVE  /\ Append(r, Head(d)) \in Seq(Nat) /\ Tail(d) \in Seq(Nat)
           /\ Len(Append(r, Head(d))) = Len(r) + 1 /\ Len(Tail(d)) = Len(d) - 1
           /\ \A i \in 1 .. Len(r) : Append(r, Head(d))[i] = r[i]
           /\ Append(r, Head(d))[Len(r) + 1] = d[1]
           /\ \A i \in 1 .. Len(d) - 1 : Tail(d)[i] = d[i + 1]
           /\ Len(d) >= 1
  OBVIOUS

LEMMA RecvKeeps ==
    ASSUME Cli!ClientAssumption, CliInv, Cli!Recv
    PROVE  CliInv'
<1>0. /\ CliTyped /\ Ordered /\ Staged /\ Causes /\ Paid /\ rpc \in Cli!Rpcs
      /\ {Told, Len(received), Len(down)} \subseteq Nat
      /\ down \in Seq(Nat) /\ received \in Seq(Nat) /\ down # <<>>
      /\ UNCHANGED <<rpc, breaks, up, uploaded, halfClosed, handler, served, runs, code>>
      /\ code = "none"
      /\ received' = Append(received, Head(down)) /\ down' = Tail(down)
  BY CliFacts DEF Cli!Recv, Cli!Reads, Cli!server
<1>1. /\ Total' = Total /\ Cli!Messages' = Cli!Messages /\ \A i : Nth(i)' = Nth(i)
  BY <1>0, SameCall
<1>2. /\ received' \in Seq(Nat) /\ down' \in Seq(Nat)
      /\ Len(received') = Len(received) + 1 /\ Len(down') = Len(down) - 1
      /\ \A i \in 1 .. Len(received) : received'[i] = received[i]
      /\ received'[Len(received) + 1] = down[1]
      /\ \A i \in 1 .. Len(down) - 1 : down'[i] = down[i + 1]
      /\ Len(down) >= 1
  BY <1>0, TakesFirst
<1>3. Told' = Told
  BY <1>0, <1>2 DEF Told
<1>4. /\ \A i \in 1 .. Len(received) : received[i] = Nth(i)
      /\ \A i \in 1 .. Len(down) : down[i] = Nth(Len(received) + i)
  BY <1>0 DEF Ordered
<1>5. \A i \in 1 .. Len(received') : received'[i] = Nth(i)
  <2>1. down[1] = Nth(Len(received) + 1)
    BY <1>0, <1>2, <1>4
  <2>2. QED
    BY <1>0, <1>2, <1>4, <2>1
<1>6. \A i \in 1 .. Len(down') : down'[i] = Nth(Len(received') + i)
  <2>1. SUFFICES ASSUME NEW i \in 1 .. Len(down') PROVE down'[i] = Nth(Len(received') + i)
    OBVIOUS
  <2>2. i \in 1 .. Len(down) - 1 /\ i + 1 \in 1 .. Len(down)
    BY <1>0, <1>2
  <2>3. Len(received') + i = Len(received) + (i + 1)
    BY <1>0, <1>2, <2>2
  <2>4. QED
    BY <1>2, <1>4, <2>2, <2>3
<1>7. Ordered'
  BY <1>0, <1>1, <1>3, <1>5, <1>6 DEF Ordered
<1>8. CliTyped' /\ Staged' /\ Causes' /\ Paid'
  BY <1>0, <1>1, <1>2, <1>3 DEF CliTyped, Staged, Causes, Caused, Paid
<1>9. QED
  BY <1>7, <1>8 DEF CliInv

\* What a break loses is the end of what is on its way.
LEMMA KeepsFirst ==
    ASSUME NEW d \in Seq(Nat), NEW n \in 0 .. Len(d)
    PROVE  /\ SubSeq(d, 1, n) \in Seq(Nat) /\ Len(SubSeq(d, 1, n)) = n
           /\ \A i \in 1 .. n : SubSeq(d, 1, n)[i] = d[i] /\ i \in 1 .. Len(d)
  OBVIOUS

\* One break more pays for an attempt.
LEMMA OneBreakMore ==
    ASSUME NEW b \in Nat, NEW m \in Nat
    PROVE  (b + 1) * m = b * m + m /\ b * m \in Nat
  OBVIOUS

LEMMA BreakKeeps ==
    ASSUME Cli!ClientAssumption, CliInv, Cli!Break
    PROVE  CliInv'
<1>0. /\ CliTyped /\ Ordered /\ Staged /\ Causes /\ Paid /\ rpc \in Cli!Rpcs
      /\ {Told, runs, served, breaks, Len(received), Len(down), Len(handler.out)} \subseteq Nat
      /\ down \in Seq(Nat) /\ received \in Seq(Nat)
      /\ UNCHANGED <<rpc, uploaded, halfClosed, served, runs, received, code>> /\ code = "none"
      /\ breaks' = breaks + 1 /\ up' = <<>>
  BY CliFacts DEF Cli!Break
<1>1. /\ Total' = Total /\ Cli!Messages' = Cli!Messages /\ \A i : Nth(i)' = Nth(i)
      /\ Cli!Messages \in Nat \ {0} /\ Total \in Nat \ {0}
  BY <1>0, SameCall, RpcFacts
<1>2. PICK n \in 0 .. Len(down) : down' = SubSeq(down, 1, n)
  BY DEF Cli!Break
<1>3. /\ down' \in Seq(Nat) /\ Len(down') = n
      /\ \A i \in 1 .. n : down'[i] = down[i] /\ i \in 1 .. Len(down)
  BY <1>0, <1>2, KeepsFirst
<1>4. PICK h : h = Cli!Handler("over", <<>>, "Unavailable")
  OBVIOUS
<1>5. handler' = h
  BY <1>4 DEF Cli!Break
<1>6. /\ h \in [at : Stages, out : Seq(Nat), status : Statuses]
      /\ h.at = "over" /\ h.out = <<>> /\ h.status = "Unavailable" /\ Len(h.out) = 0
  <2>1. "over" \in Stages /\ "Unavailable" \in Statuses
    BY DEF Stages, Statuses
  <2>2. QED
    BY <1>4, <2>1, HandlerIdle
<1>7. CliTyped'
  <2>1. up' \in Seq(Nat) /\ breaks' \in Nat
    BY <1>0
  <2>2. QED
    BY <1>0, <1>3, <1>5, <1>6, <2>1 DEF CliTyped
<1>8. Ordered'
  <2>1. Told' <= Total
    <3>1. Len(received) + Len(down) + Len(handler.out) <= Total
      BY <1>0 DEF Told, Ordered
    <3>2. Told' = Len(received) + n
      BY <1>0, <1>3 DEF Told
    <3>3. ASSUME NEW a \in Nat, NEW b \in Nat, NEW c \in Nat, NEW t \in Nat, NEW m \in 0 .. b,
                 a + b + c <= t
          PROVE  a + m <= t
      BY <3>3
    <3>4. QED
      BY <1>0, <1>1, <3>1, <3>2, <3>3
  <2>2. Told' \in Nat
    BY <1>0, <1>3 DEF Told
  <2>3. /\ \A i \in 1 .. Len(received) : received[i] = Nth(i)
        /\ \A i \in 1 .. Len(down) : down[i] = Nth(Len(received) + i)
    BY <1>0 DEF Ordered
  <2>4. \A i \in 1 .. Len(down') : down'[i] = Nth(Len(received) + i)
    BY <1>3, <2>3
  <2>5. /\ \A i \in 1 .. Len(received') : received'[i] = Nth(i)
        /\ \A i \in 1 .. Len(down') : down'[i] = Nth(Len(received') + i)
    BY <1>0, <2>3, <2>4
  <2>6. /\ handler'.out = <<>> /\ handler'.status # "OK" /\ code' # "OK"
        /\ Told' + Len(handler'.out) <= Total'
    <3>1. /\ handler'.out = <<>> /\ handler'.status # "OK" /\ code' # "OK"
          /\ Len(handler'.out) = 0 /\ Total' = Total
      BY <1>0, <1>1, <1>5, <1>6
    <3>2. Told' + Len(handler'.out) <= Total'
      BY <2>1, <2>2, <3>1
    <3>3. QED
      BY <3>1, <3>2
  <2>7. QED
    BY <1>1, <2>5, <2>6 DEF Ordered
<1>9. Staged'
  BY <1>0, <1>1, <1>5, <1>6 DEF Staged
<1>10. Causes'
  BY <1>0, <1>5, <1>6 DEF Causes, Caused
<1>11. Paid'
  <2>1. /\ (breaks + 1) * Cli!Messages = breaks * Cli!Messages + Cli!Messages
        /\ breaks * Cli!Messages \in Nat
    BY <1>0, <1>1, OneBreakMore
  <2>2. /\ handler.status # "Unavailable" => runs <= breaks * Cli!Messages + served
        /\ handler.status = "Unavailable" => runs <= breaks * Cli!Messages
        /\ served <= Cli!Messages
    BY <1>0 DEF Paid, Staged
  <2>3. runs <= (breaks + 1) * Cli!Messages
    <3>1. ASSUME NEW b \in Nat, NEW r \in Nat, NEW s \in Nat, NEW m \in Nat,
                 s <= m, r <= b + s \/ r <= b
          PROVE  r <= b + m
      BY <3>1
    <3>2. QED
      BY <1>0, <1>1, <2>1, <2>2, <3>1
  <2>4. QED
    BY <1>0, <1>1, <1>5, <1>6, <2>3 DEF Paid
<1>12. QED
  BY <1>7, <1>8, <1>9, <1>10, <1>11 DEF CliInv

\* The attempt that starts again starts from nothing, and what it repeats has
\* been paid for by the break.
LEMMA RetryKeeps ==
    ASSUME Cli!ClientAssumption, CliInv, Cli!Retry
    PROVE  CliInv'
<1>0. /\ CliTyped /\ Ordered /\ Staged /\ Causes /\ Paid /\ rpc \in Cli!Rpcs
      /\ {runs, breaks} \subseteq Nat
      /\ handler \in [at : Stages, out : Seq(Nat), status : Statuses]
      /\ UNCHANGED <<rpc, breaks, runs, down, received, code>>
      /\ up' = <<>> /\ uploaded' = 0 /\ halfClosed' = FALSE /\ served' = 0
      /\ down = <<>> /\ received = <<>> /\ code = "none"
      /\ handler.status \in {"Unavailable", "ResourceExhausted"}
      /\ handler' = Cli!Handler("none", <<>>, "none")
  BY CliFacts DEF Cli!Retry, Cli!Retries, Cli!RetryableStatusCodes
<1>1. /\ Total' = Total /\ Cli!Messages' = Cli!Messages /\ \A i : Nth(i)' = Nth(i)
      /\ Cli!Messages \in Nat \ {0} /\ Total \in Nat \ {0}
  BY <1>0, SameCall, RpcFacts
<1>2. handler.status = "Unavailable"
  <2>1. handler.status \in Statuses
    BY <1>0
  <2>2. QED
    BY <1>0, <2>1 DEF Statuses
<1>3. PICK h : handler' = h /\ h = Cli!Handler("none", <<>>, "none")
  BY <1>0
<1>4. /\ h \in [at : Stages, out : Seq(Nat), status : Statuses]
      /\ h.at = "none" /\ h.out = <<>> /\ h.status = "none" /\ Len(h.out) = 0
  <2>1. "none" \in Stages /\ "none" \in Statuses
    BY DEF Stages, Statuses
  <2>2. QED
    BY <1>3, <2>1, HandlerIdle
<1>5. /\ up' \in Seq(Nat) /\ Len(up') = 0 /\ Len(down') = 0 /\ Len(received') = 0 /\ Told' = 0
  BY <1>0 DEF Told
<1>6. CliTyped'
  <2>1. /\ down' \in Seq(Nat) /\ received' \in Seq(Nat) /\ code' \in Statuses
        /\ uploaded' \in Nat /\ served' \in Nat /\ halfClosed' \in BOOLEAN
    BY <1>0 DEF CliTyped
  <2>2. QED
    BY <1>0, <1>3, <1>4, <1>5, <2>1 DEF CliTyped
<1>7. Ordered'
  BY <1>0, <1>1, <1>3, <1>4, <1>5 DEF Ordered
<1>8. Staged'
  BY <1>0, <1>1, <1>3, <1>4, <1>5 DEF Staged
<1>9. Causes'
  BY <1>0, <1>3, <1>4 DEF Causes, Caused
<1>10. Paid'
  <2>1. breaks * Cli!Messages \in Nat
    BY <1>0, <1>1, OneBreakMore
  <2>2. runs <= breaks * Cli!Messages
    BY <1>0, <1>2 DEF Paid
  <2>3. runs <= breaks * Cli!Messages + 0
    BY <2>1, <2>2
  <2>4. QED
    BY <1>0, <1>1, <1>3, <1>4, <2>3 DEF Paid
<1>11. QED
  BY <1>6, <1>7, <1>8, <1>9, <1>10 DEF CliInv

\* Every step of the call keeps the invariant.
LEMMA CliStep ==
    ASSUME Cli!ClientAssumption, CliInv, [Cli!Next]_(Cli!vars)
    PROVE  CliInv'
<1>1. CASE Cli!Serves
  BY <1>1, ArriveKeeps, GetProductKeeps, StreamKeeps, AnswerKeeps DEF Cli!Serves
<1>2. CASE Cli!Asks
  BY <1>2, RetryKeeps, AsksKeep, RecvKeeps DEF Cli!Asks
<1>3. CASE Cli!ContextEnds
  BY <1>3, AsksKeep
<1>4. CASE Cli!Break
  BY <1>4, BreakKeeps
<1>5. CASE UNCHANGED Cli!vars
  <2>1. UNCHANGED <<rpc, attempt, breaks, up, uploaded, halfClosed, handler, served, runs, down, received, code>>
    BY <1>5 DEF Cli!vars
  <2>2. UNCHANGED <<CliTyped, Ordered, Staged, Causes, Paid>>
    BY <2>1 DEF CliTyped, Ordered, Staged, Causes, Caused, Paid, Told, Total, Nth, Cli!Messages
  <2>3. QED
    BY <2>2 DEF CliInv
<1>6. QED
  BY <1>1, <1>2, <1>3, <1>4, <1>5 DEF Cli!Next

\* What the client has read is a prefix of the answers, all of them when the
\* call ended well, an error has its cause, and only a break repeats work.
LEMMA CallsAreWhole ==
    ASSUME Cli!ClientAssumption, CliInv
    PROVE  Cli!AnswersAreWhole /\ Cli!RetriesAddNoWork
<1>0. /\ CliTyped /\ Ordered /\ Staged /\ Causes /\ Paid /\ rpc \in Cli!Rpcs
      /\ {Len(received), Len(down), Len(handler.out), runs, served, breaks} \subseteq Nat
      /\ received \in Seq(Nat)
  BY CliFacts
<1>1. /\ Cli!Messages \in Nat \ {0} /\ Total \in Nat \ {0} /\ Batch \in Nat \ {0} /\ Events \in Nat \ {0}
      /\ rpc.kind \in {"GetProduct", "WatchStock", "BulkUpsert", "Reserve"}
  BY <1>0, RpcFacts
<1>2. Cli!RetriesAddNoWork
  <2>1. /\ (breaks + 1) * Cli!Messages = breaks * Cli!Messages + Cli!Messages
        /\ breaks * Cli!Messages \in Nat
    BY <1>0, <1>1, OneBreakMore
  <2>2. /\ handler.status # "Unavailable" => runs <= breaks * Cli!Messages + served
        /\ handler.status = "Unavailable" => runs <= breaks * Cli!Messages
        /\ served <= Cli!Messages
    BY <1>0 DEF Paid, Staged
  <2>3. ASSUME NEW b \in Nat, NEW r \in Nat, NEW s \in Nat, NEW m \in Nat,
               s <= m, r <= b + s \/ r <= b
        PROVE  r <= b + m
    BY <2>3
  <2>4. QED
    BY <1>0, <1>1, <2>1, <2>2, <2>3 DEF Cli!RetriesAddNoWork
<1>3. PICK whole \in Seq(Nat) :
          whole = Cli!Answers /\ Len(whole) = Total /\ \A i \in 1 .. Total : whole[i] = Nth(i)
  <2>1. CASE rpc.kind = "GetProduct"
    <3>1. <<1>> \in Seq(Nat) /\ Len(<<1>>) = 1 /\ <<1>>[1] = 1
      OBVIOUS
    <3>2. Cli!Answers = <<1>> /\ Total = 1 /\ Nth(1) = 1
      BY <2>1 DEF Cli!Answers, Total, Nth
    <3>3. \A i \in 1 .. 1 : i = 1
      OBVIOUS
    <3>4. QED
      BY ONLY <3>1, <3>2, <3>3, Zenon
  <2>2. CASE rpc.kind = "BulkUpsert"
    <3>1. <<Batch>> \in Seq(Nat) /\ Len(<<Batch>>) = 1 /\ <<Batch>>[1] = Batch
      BY <1>1
    <3>2. Cli!Answers = <<Batch>> /\ Total = 1 /\ Nth(1) = Batch
      BY <2>2 DEF Cli!Answers, Total, Nth
    <3>3. \A i \in 1 .. 1 : i = 1
      OBVIOUS
    <3>4. QED
      BY ONLY <3>1, <3>2, <3>3, Zenon
  <2>3. CASE rpc.kind = "WatchStock"
    <3>1. [i \in 1 .. Events |-> i] \in Seq(Nat) /\ Len([i \in 1 .. Events |-> i]) = Events
      BY <1>1
    <3>2. Cli!Answers = [i \in 1 .. Events |-> i] /\ Total = Events /\ \A i : Nth(i) = i
      BY <2>3 DEF Cli!Answers, Total, Nth
    <3>3. \A i \in 1 .. Events : [j \in 1 .. Events |-> j][i] = i
      OBVIOUS
    <3>4. QED
      BY ONLY <3>1, <3>2, <3>3, Zenon
  <2>4. CASE rpc.kind = "Reserve"
    <3>1. [i \in 1 .. Batch |-> i] \in Seq(Nat) /\ Len([i \in 1 .. Batch |-> i]) = Batch
      BY <1>1
    <3>2. Cli!Answers = [i \in 1 .. Batch |-> i] /\ Total = Batch /\ \A i : Nth(i) = i
      BY <2>4 DEF Cli!Answers, Total, Nth
    <3>3. \A i \in 1 .. Batch : [j \in 1 .. Batch |-> j][i] = i
      OBVIOUS
    <3>4. QED
      BY ONLY <3>1, <3>2, <3>3, Zenon
  <2>5. QED
    BY <1>1, <2>1, <2>2, <2>3, <2>4
<1>4. Len(received) <= Total /\ \A i \in 1 .. Len(received) : received[i] = whole[i]
  <2>1. Len(received) + Len(down) + Len(handler.out) <= Total
    BY <1>0 DEF Ordered, Told
  <2>2. Len(received) <= Total
    <3>1. ASSUME NEW a \in Nat, NEW b \in Nat, NEW c \in Nat, NEW t \in Nat, a + b + c <= t
          PROVE  a <= t
      BY <3>1
    <3>2. QED
      BY <1>0, <1>1, <2>1, <3>1
  <2>3. QED
    BY <1>0, <1>1, <1>3, <2>2 DEF Ordered
<1>5. Cli!IsPrefix(received, Cli!Answers)
  <2>1. SubSeq(whole, 1, Len(received)) = received
    <3>1. /\ SubSeq(whole, 1, Len(received)) \in Seq(Nat)
          /\ Len(SubSeq(whole, 1, Len(received))) = Len(received)
          /\ \A i \in 1 .. Len(received) : SubSeq(whole, 1, Len(received))[i] = whole[i]
      BY <1>0, <1>3, <1>4, KeepsFirst
    <3>2. QED
      BY <1>0, <1>4, <3>1, SeqEqual
  <2>2. Len(received) <= Len(whole)
    BY <1>3, <1>4
  <2>3. QED
    BY <1>3, <2>1, <2>2 DEF Cli!IsPrefix
<1>6. code = "OK" => received = Cli!Answers
  <2>1. ASSUME code = "OK" PROVE received = whole
    <3>1. Len(received) = Total
      BY <1>0, <2>1 DEF Ordered
    <3>2. QED
      BY <1>0, <1>3, <1>4, <3>1, SeqEqual
  <2>2. QED
    BY <1>3, <2>1
<1>7. /\ code = "Unauthenticated" => ~rpc.token /\ runs = 0
      /\ code = "NotFound" => rpc.id \in {"nope", "slow"}
      /\ code = "InvalidArgument" => rpc.id = "empty"
      /\ code = "Internal" => rpc.id = "boom"
      /\ code = "Unavailable" => breaks > 0
      /\ code \notin {"Unauthenticated", "NotFound", "InvalidArgument", "Internal", "Unavailable"} =>
            code \in {"none", "OK", rpc.ender}
  BY <1>0 DEF Causes, Caused, CliTyped, Statuses
<1>8. QED
  BY <1>2, <1>5, <1>6, <1>7 DEF Cli!AnswersAreWhole

\* A retried reservation has reserved once and says the same, and no more is
\* reserved than is there; a call reads each answer once, whole when it ends
\* well, and a message is handled again only for a connection that broke
\* (62_grpc, server.go and the client's retry policy in main.go).
THEOREM RetriesAlwaysRepeat == ProgramsSpec => []RetriesRepeat
<1> DEFINE I == /\ program = "stock" => StockInv
                /\ program = "client" => CliInv
<1>0. Stock!InventoryAssumption /\ Cli!ClientAssumption
  BY ProgramsAssumption
<1>1. ProgramsInit => I
  BY <1>0, ProgramsBegin, StockInit, CliInit
<1>2. I /\ [ProgramsNext]_everything => I'
  BY <1>0, ProgramsMove, StockStep, CliStep
<1>3. I => RetriesRepeat
  BY <1>0, StockRepeats, CallsAreWhole DEF RetriesRepeat
<1>4. QED
  BY <1>1, <1>2, <1>3, PTL DEF ProgramsSpec

-----------------------------------------------------------------------------
(* Types: what the invariants above leave open                               *)

\* The pool's flags.
PoolFlags == {prefilled, cancelled, jobsClosed, resultsClosed, finished} \subseteq BOOLEAN

LEMMA PoolFlagsStay ==
    ASSUME PoolFlags, [Pool!Next]_(Pool!vars)
    PROVE  PoolFlags'
<1>1. CASE UNCHANGED Pool!vars
  BY <1>1 DEF Pool!vars, PoolFlags
<1>2. CASE Pool!Cancel \/ Pool!Rest
  BY <1>2 DEF Pool!Cancel, Pool!Rest, Pool!Feed, Pool!StopFeeding, Pool!CloseResults,
        Pool!Collect, Pool!Finish, Pool!pipeline, Pool!outcome, PoolFlags
<1>3. ASSUME NEW w \in PoolWorkers, Pool!Work(w)
      PROVE  PoolFlags'
  BY <1>3 DEF Pool!Work, Pool!Receive, Pool!Leave, Pool!Process, Pool!Send, Pool!Drop, Pool!CountOut,
        Pool!pipeline, Pool!outcome, PoolFlags
<1>4. QED
  BY <1>1, <1>2, <1>3 DEF Pool!Next

\* A watcher is at one of the records, or at none, and has an event to go
\* while it sends one.
StockTypes ==
    \A w \in Watchers :
        /\ watch[w].i <= MaxEvents /\ (watch[w].pc = "send" => watch[w].i < MaxEvents)
        /\ watch[w].at \in {0} \cup DOMAIN record

LEMMA StockTypesBegin ==
    ASSUME Stock!InventoryAssumption, Stock!Init
    PROVE  StockTypes
  BY DEF Stock!InventoryAssumption, Stock!Init, StockTypes

\* Records are never taken away, and products point to some of them.
LEMMA RecordsStay ==
    ASSUME Stock!InventoryAssumption, StockInv, [Stock!Next]_(Stock!vars)
    PROVE  /\ DOMAIN record \subseteq DOMAIN record'
           /\ \A p \in Products : products[p] \in {0} \cup DOMAIN record
<1>1. PICK n \in Nat : record \in [1 .. n -> Int] /\ products \in [Products -> 0 .. n]
  BY DEF StockInv, Recorded
<1>2. \A p \in Products : products[p] \in {0} \cup DOMAIN record
  BY <1>1
<1>3. CASE UNCHANGED record
  BY <1>2, <1>3
<1>4. ASSUME NEW i, NEW x, record' = [record EXCEPT ![i] = x]
      PROVE  DOMAIN record \subseteq DOMAIN record'
  BY <1>4
<1>5. ASSUME NEW p \in Products, NEW m \in 0 .. MaxStock, Stock!Upsert(p, m)
      PROVE  DOMAIN record \subseteq DOMAIN record'
  <2>1. Stock!Cardinality(Stock!Records) = n
    <3>1. Stock!Records = 1 .. n
      BY <1>1 DEF Stock!Records
    <3>2. Cardinality(1 .. n) = IF 1 > n THEN 0 ELSE n - 1 + 1
      BY FS_Interval
    <3>3. QED
      BY <3>1, <3>2, SameCount
  <2>2. DOMAIN record' = 1 .. n + 1
    BY <1>5, <2>1 DEF Stock!Upsert
  <2>3. QED
    BY <1>1, <2>2
<1>6. ASSUME NEW s \in Streams, NEW k \in Keys, NEW p \in Products, NEW q \in 0 .. 2,
             Stock!ReserveNew(s, k, p, q)
      PROVE  DOMAIN record \subseteq DOMAIN record'
  <2>1. record' = record \/ record' = [record EXCEPT ![products[p]] = record[products[p]] - q]
    BY <1>6 DEF Stock!ReserveNew
  <2>2. QED
    BY <1>4, <2>1
<1>7. ASSUME NEW w \in Watchers, NEW p \in Products, Stock!WatchTick(w, p)
      PROVE  DOMAIN record \subseteq DOMAIN record'
  <2>1. \/ record' = record
        \/ record' = [record EXCEPT ![products[p]] = record[products[p]] + Stock!Delta(watch[w].i)]
    BY <1>7 DEF Stock!WatchTick
  <2>2. QED
    BY <1>4, <2>1
<1>8. QED
  BY <1>2, <1>3, <1>5, <1>6, <1>7 DEF Stock!Next, Stock!vars, Stock!ReserveAgain, Stock!OpenStream,
     Stock!EndStream, Stock!WatchSend, Stock!WatchEnds

LEMMA StockTypesStay ==
    ASSUME Stock!InventoryAssumption, StockInv, StockTypes, [Stock!Next]_(Stock!vars)
    PROVE  StockTypes'
<1>1. /\ DOMAIN record \subseteq DOMAIN record'
      /\ \A p \in Products : products[p] \in {0} \cup DOMAIN record
      /\ watch \in [Watchers -> WatchStates] /\ MaxEvents \in Nat
  BY RecordsStay DEF StockInv, Watching, Stock!InventoryAssumption
<1>2. CASE UNCHANGED watch
  BY <1>1, <1>2 DEF StockTypes
<1>3. ASSUME NEW w \in Watchers, NEW r,
             watch' = [watch EXCEPT ![w] = r],
             r.i <= MaxEvents, r.pc = "send" => r.i < MaxEvents,
             r.at \in {0} \cup DOMAIN record
      PROVE  StockTypes'
  <2>1. watch'[w] = r /\ \A v \in Watchers : v # w => watch'[v] = watch[v]
    BY <1>1, <1>3
  <2>2. QED
    BY <1>1, <1>3, <2>1 DEF StockTypes
<1>4. ASSUME NEW w \in Watchers, NEW p \in Products, Stock!WatchTick(w, p)
      PROVE  StockTypes'
  <2>1. /\ watch[w] \in WatchStates /\ watch[w].pc = "tick" /\ watch[w].i < MaxEvents
        /\ watch[w].i \in Nat /\ watch[w].at \in {0} \cup DOMAIN record
    BY <1>1, <1>4 DEF Stock!WatchTick, StockTypes, WatchStates
  <2>2. CASE products[p] = 0
    <3>1. PICK r : r = [watch[w] EXCEPT !.i = @ + 1]
      OBVIOUS
    <3>2. watch' = [watch EXCEPT ![w] = r]
      BY <1>4, <2>2, <3>1 DEF Stock!WatchTick
    <3>3. r.i = watch[w].i + 1 /\ r.pc = "tick" /\ r.at = watch[w].at
      BY <2>1, <3>1 DEF WatchStates
    <3>4. r.i <= MaxEvents
      BY <1>1, <2>1, <3>3
    <3>5. QED
      BY <1>3, <2>1, <3>2, <3>3, <3>4
  <2>3. CASE products[p] # 0
    <3>1. PICK r : r = [watch[w] EXCEPT !.pc = "send", !.at = products[p]]
      OBVIOUS
    <3>2. watch' = [watch EXCEPT ![w] = r]
      BY <1>4, <2>3, <3>1 DEF Stock!WatchTick
    <3>3. r.i = watch[w].i /\ r.pc = "send" /\ r.at = products[p]
      BY <2>1, <3>1 DEF WatchStates
    <3>4. r.i <= MaxEvents
      BY <1>1, <2>1, <3>3
    <3>5. QED
      BY <1>1, <1>3, <2>1, <3>2, <3>3, <3>4
  <2>4. QED
    BY <2>2, <2>3
<1>5. ASSUME NEW w \in Watchers, Stock!WatchSend(w)
      PROVE  StockTypes'
  <2>1. watch[w] \in WatchStates /\ watch[w].i < MaxEvents /\ watch[w].i \in Nat
    BY <1>1, <1>5 DEF Stock!WatchSend, StockTypes, WatchStates
  <2>2. PICK r : r = [watch[w] EXCEPT !.pc = "tick", !.i = @ + 1, !.at = 0]
    OBVIOUS
  <2>3. watch' = [watch EXCEPT ![w] = r]
    BY <1>5, <2>2 DEF Stock!WatchSend
  <2>4. r.i = watch[w].i + 1 /\ r.pc = "tick" /\ r.at = 0
    BY <2>1, <2>2 DEF WatchStates
  <2>5. r.i <= MaxEvents
    BY <1>1, <2>1, <2>4
  <2>6. QED
    BY <1>3, <2>3, <2>4, <2>5
<1>6. ASSUME NEW w \in Watchers, Stock!WatchEnds(w)
      PROVE  StockTypes'
  <2>1. watch[w] \in WatchStates /\ watch[w].i <= MaxEvents
    BY <1>1 DEF StockTypes
  <2>2. PICK r : r = [watch[w] EXCEPT !.pc = "over", !.at = 0]
    OBVIOUS
  <2>3. watch' = [watch EXCEPT ![w] = r]
    BY <1>6, <2>2 DEF Stock!WatchEnds
  <2>4. r.i = watch[w].i /\ r.pc = "over" /\ r.at = 0
    BY <2>1, <2>2 DEF WatchStates
  <2>5. QED
    BY <1>3, <2>1, <2>3, <2>4
<1>7. QED
  BY <1>2, <1>4, <1>5, <1>6 DEF Stock!Next, Stock!vars, Stock!ReserveAgain, Stock!ReserveNew,
     Stock!OpenStream, Stock!EndStream, Stock!Upsert

LEMMA StockTyped ==
    ASSUME Stock!InventoryAssumption, StockInv, StockTypes
    PROVE  Stock!InventoryTypeOK
<1>1. PICK n \in Nat : record \in [1 .. n -> Int] /\ products \in [Products -> 0 .. n]
  BY DEF StockInv, Recorded
<1>2. Stock!Cardinality(Stock!Records) = n
  <2>1. Stock!Records = 1 .. n
    BY <1>1 DEF Stock!Records
  <2>2. Cardinality(1 .. n) = IF 1 > n THEN 0 ELSE n - 1 + 1
    BY FS_Interval
  <2>3. QED
    BY <2>1, <2>2, SameCount
<1>3. ASSUME NEW w \in Watchers
      PROVE  watch[w].at \in 0 .. n /\ watch[w].i \in 0 .. MaxEvents
  <2>1. watch[w].i \in Nat /\ MaxEvents \in Nat
    BY DEF StockInv, Watching, WatchStates, Stock!InventoryAssumption
  <2>2. watch[w].at \in {0} \cup DOMAIN record /\ watch[w].i <= MaxEvents
    BY DEF StockTypes
  <2>3. QED
    BY <1>1, <2>1, <2>2
<1>4. QED
  BY <1>1, <1>2, <1>3 DEF Stock!InventoryTypeOK

\* The tries of a call, its breaks and what is on its way are within bounds.
CliTypes ==
    /\ attempt \in 1 .. Cli!Tries /\ breaks <= MaxBreaks
    /\ Len(up) <= Window /\ Len(down) <= Window

LEMMA CliTypesBegin ==
    ASSUME Cli!ClientAssumption, Cli!Init
    PROVE  CliTypes
<1>1. /\ attempt = 1 /\ breaks = 0 /\ up = <<>> /\ down = <<>>
      /\ Window \in Nat /\ MaxBreaks \in Nat
  BY DEF Cli!Init, Cli!ClientAssumption
<1>2. Len(<<>>) = 0 /\ 1 \in 1 .. Cli!Tries
  BY DEF Cli!Tries
<1>3. QED
  BY <1>1, <1>2 DEF CliTypes

\* What happens to the messages on their way in one step.
LEMMA UpSteps ==
    ASSUME Cli!Next
    PROVE  \/ up' = up \/ up' = <<>>
           \/ up # <<>> /\ up' = Tail(up)
           \/ Len(up) < Window /\ up' = Append(up, uploaded + 1)
<1>1. CASE Cli!Serves
  BY <1>1 DEF Cli!Serves, Cli!Arrive, Cli!GetProduct, Cli!WakeUp, Cli!WatchStock, Cli!BulkUpsert,
        Cli!Reserve, Cli!Send, Cli!SeesContext, Cli!Receives
<1>2. CASE Cli!Asks
  BY <1>2 DEF Cli!Asks, Cli!Retry, Cli!SendRequest, Cli!CloseSend, Cli!Recv, Cli!Status
<1>3. CASE Cli!ContextEnds \/ Cli!Break
  BY <1>3 DEF Cli!ContextEnds, Cli!Break
<1>4. QED
  BY <1>1, <1>2, <1>3 DEF Cli!Next

LEMMA DownSteps ==
    ASSUME Cli!Next
    PROVE  \/ down' = down
           \/ down # <<>> /\ down' = Tail(down)
           \/ Len(down) < Window /\ down' = down \o handler.out
           \/ \E n \in 0 .. Len(down) : down' = SubSeq(down, 1, n)
<1>1. CASE Cli!Serves
  <2>1. CASE Cli!Send
    BY <2>1 DEF Cli!Send
  <2>2. CASE ~Cli!Send
    BY <1>1, <2>2 DEF Cli!Serves, Cli!Arrive, Cli!GetProduct, Cli!WakeUp, Cli!WatchStock,
          Cli!BulkUpsert, Cli!Reserve, Cli!SeesContext
  <2>3. QED
    BY <2>1, <2>2
<1>2. CASE Cli!Asks
  BY <1>2 DEF Cli!Asks, Cli!Retry, Cli!SendRequest, Cli!CloseSend, Cli!Recv, Cli!Status
<1>3. CASE Cli!ContextEnds
  BY <1>3 DEF Cli!ContextEnds
<1>4. CASE Cli!Break
  BY <1>4 DEF Cli!Break
<1>5. QED
  BY <1>1, <1>2, <1>3, <1>4 DEF Cli!Next

LEMMA CountSteps ==
    ASSUME Cli!Next
    PROVE  /\ attempt' = attempt \/ (attempt < Cli!Tries /\ attempt' = attempt + 1)
           /\ breaks' = breaks \/ (breaks < MaxBreaks /\ breaks' = breaks + 1)
<1>1. CASE Cli!Serves
  BY <1>1 DEF Cli!Serves, Cli!Arrive, Cli!GetProduct, Cli!WakeUp, Cli!WatchStock, Cli!BulkUpsert,
        Cli!Reserve, Cli!Send, Cli!SeesContext, Cli!client
<1>2. CASE Cli!Asks
  BY <1>2 DEF Cli!Asks, Cli!Retry, Cli!Retries, Cli!SendRequest, Cli!CloseSend, Cli!Recv, Cli!Status
<1>3. CASE Cli!ContextEnds \/ Cli!Break
  BY <1>3 DEF Cli!ContextEnds, Cli!Break
<1>4. QED
  BY <1>1, <1>2, <1>3 DEF Cli!Next

LEMMA CliTypesStay ==
    ASSUME Cli!ClientAssumption, CliInv, CliTypes, [Cli!Next]_(Cli!vars)
    PROVE  CliTypes'
<1>1. CASE UNCHANGED Cli!vars
  BY <1>1 DEF Cli!vars, CliTypes, Cli!Tries
<1>2. CASE Cli!Next
  <2>1. /\ up \in Seq(Nat) /\ down \in Seq(Nat) /\ handler.out \in Seq(Nat) /\ Len(handler.out) <= 1
        /\ breaks \in Nat /\ MaxBreaks \in Nat /\ Window \in Nat
        /\ attempt \in 1 .. 3 /\ Cli!Tries = 3
        /\ breaks <= MaxBreaks /\ Len(up) <= Window /\ Len(down) <= Window
    BY DEF CliInv, CliTyped, CliTypes, Cli!Tries, Cli!ClientAssumption
  <2>2. Len(up') <= Window
    <3>1. Len(<<>>) = 0
      OBVIOUS
    <3>2. ASSUME up # <<>>
          PROVE  Len(Tail(up)) <= Window
      BY <2>1, <3>2
    <3>3. ASSUME Len(up) < Window
          PROVE  Len(Append(up, uploaded + 1)) <= Window
      BY <2>1, <3>3
    <3>4. QED
      BY <1>2, <2>1, <3>1, <3>2, <3>3, UpSteps
  <2>3. Len(down') <= Window
    <3>1. ASSUME down # <<>>
          PROVE  Len(Tail(down)) <= Window
      BY <2>1, <3>1
    <3>2. ASSUME Len(down) < Window
          PROVE  Len(down \o handler.out) <= Window
      <4>1. Len(down \o handler.out) = Len(down) + Len(handler.out)
        BY <2>1, ConcatProperties
      <4>2. Len(down) \in Nat /\ Len(handler.out) \in Nat
        BY <2>1
      <4>3. QED
        BY <2>1, <3>2, <4>1, <4>2
    <3>3. ASSUME NEW n \in 0 .. Len(down)
          PROVE  Len(SubSeq(down, 1, n)) <= Window
      BY <2>1
    <3>4. QED
      BY <1>2, <2>1, <3>1, <3>2, <3>3, DownSteps
  <2>4. attempt' \in 1 .. 3
    BY <1>2, <2>1, CountSteps
  <2>5. breaks' <= MaxBreaks
    BY <1>2, <2>1, CountSteps
  <2>6. QED
    BY <2>2, <2>3, <2>4, <2>5 DEF CliTypes, Cli!Tries
<1>3. QED
  BY <1>1, <1>2

LEMMA CliAllTyped ==
    ASSUME Cli!ClientAssumption, CliInv, CliTypes
    PROVE  Cli!ClientTypeOK
<1>1. /\ rpc \in Cli!Rpcs /\ halfClosed \in BOOLEAN /\ Len(handler.out) <= 1
      /\ breaks \in Nat /\ uploaded \in Nat /\ served \in Nat
      /\ up \in Seq(Nat) /\ down \in Seq(Nat)
  BY DEF CliInv, CliTyped
<1>2. Cli!Messages \in Nat /\ Window \in Nat /\ MaxBreaks \in Nat
  BY <1>1, RpcFacts DEF Cli!ClientAssumption
<1>3. {uploaded, served} \subseteq 0 .. Cli!Messages
  BY <1>1, <1>2 DEF CliInv, Staged
<1>4. {Len(up), Len(down)} \subseteq 0 .. Window
  BY <1>1, <1>2 DEF CliTypes
<1>5. attempt \in 1 .. Cli!Tries /\ breaks \in 0 .. MaxBreaks
  BY <1>1, <1>2 DEF CliTypes
<1>6. QED
  BY <1>1, <1>3, <1>4, <1>5 DEF Cli!ClientTypeOK
=============================================================================
