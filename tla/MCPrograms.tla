---------------------------- MODULE MCPrograms ----------------------------
(* The concurrent programs and lessons under one configuration of TLC, as   *)
(* MCServers has the servers: a behaviour picks one and runs it.            *)
EXTENDS TokenService, Sequences

CONSTANTS
    u1, c1, c2,                     \* a user of the token service, two requests
    pen, ink, s1, s2, k1, v1,       \* products, streams, a key, a watcher
    t1, t2, t3, w1, w2, w3,         \* tasks, workers
    p1, p2, q1, q2,                 \* producers and consumers
    Products, Streams, Keys, Watchers, MaxRecords, MaxEvents, MaxStock,
    QueueTasks, MaxRetry, Concurrency, MaxStops,
    PoolWorkers, Jobs, Buffer,
    Workers, MaxAttempts,
    Writers, Readers, Producers, Consumers, Rounds, Slots,
    Tasks, Limit, Heavy, Units,     \* Heavy tasks take two units of the semaphore
    Batch, Events, Window, MaxBreaks

VARIABLES
    program,
    open, record, products, seen, reserved, sent, watch,
    kind, state, retried, flakyRuns, effects, alerted, server, stops,
    prefilled, cancelled, produced, jobs, jobsClosed, worker, counted,
        results, resultsClosed, collected, finished,
    how, at, count, local, lock, wg, ch, main,
    items, asleep, rounds, popped,
    policy, holder, pc, attempts, wins, stop,
    demo, step, err, fate, running, queue, held, cur, old, peak, most, flight,
    lesson, line, buffer, closed, got, crashed,
    rpc, attempt, breaks, up, uploaded, halfClosed, handler, served, runs, down, received, code

stockVars == <<open, record, products, seen, reserved, sent, watch>>
queueVars == <<kind, state, retried, flakyRuns, effects, alerted, server, stops>>
poolVars == <<prefilled, cancelled, produced, jobs, jobsClosed, worker, counted,
              results, resultsClosed, collected, finished>>
joinVars == <<how, at, count, local, lock, wg, ch, main>>
condVars == <<items, asleep, rounds, popped>>
lockVars == <<policy, holder, pc, attempts, wins, stop>>
fanVars == <<demo, step, err, fate, running, queue, held, cur, old, peak, most, flight>>
chanVars == <<lesson, line, buffer, closed, got, crashed>>
cliVars == <<rpc, attempt, breaks, up, uploaded, halfClosed, handler, served, runs, down, received, code>>
everything ==
    <<program, vars, stockVars, queueVars, poolVars, joinVars, condVars, lockVars, fanVars,
      chanVars, cliVars>>

Stock == INSTANCE Inventory
Queue == INSTANCE TaskQueue WITH Tasks <- QueueTasks, worker <- server
Pool == INSTANCE WorkerPool WITH Workers <- PoolWorkers
Join == INSTANCE ForkJoin WITH pc <- at
Cond == INSTANCE CondQueue WITH Capacity <- Slots
Lock == INSTANCE Contention
Fan == INSTANCE Fanout WITH
    Cost <- [t \in Tasks |-> IF t \in Heavy THEN 2 ELSE 1], Capacity <- Units,
    pc <- step, call <- flight
Chan == INSTANCE Channels
Cli == INSTANCE InventoryClient

ASSUME ProgramsAssumption ==
    /\ Stock!InventoryAssumption /\ Queue!QueueAssumption /\ Pool!PoolAssumption
    /\ Join!ForkJoinAssumption /\ Cond!CondQueueAssumption
    /\ Lock!ContentionAssumption /\ Fan!FanoutAssumption
    /\ Cli!ClientAssumption

-----------------------------------------------------------------------------
\* An idle variable has a value that the properties can be evaluated with.
TokensIdle == clock = 0 /\ made = 0 /\ refresh = {} /\ signed = {} /\ revoked = {} /\ call = 0
StockIdle ==
    /\ open = 0 /\ record = 0 /\ products = 0 /\ seen = 0
    /\ reserved = 0 /\ sent = 0 /\ watch = 0
QueueIdle ==
    /\ kind = 0 /\ retried = 0 /\ flakyRuns = 0 /\ effects = 0
    /\ alerted = 0 /\ server = 0 /\ stops = 0
    /\ state = [t \in QueueTasks |-> "none"]
PoolIdle ==
    /\ prefilled = 0 /\ cancelled = 0 /\ produced = 0 /\ jobs = 0 /\ jobsClosed = 0
    /\ worker = [w \in PoolWorkers |-> [pc |-> "gone"]]
    /\ counted = 0 /\ results = 0 /\ resultsClosed = 0 /\ collected = 0 /\ finished = TRUE
JoinIdle ==
    /\ how = 0 /\ at = 0 /\ count = 0 /\ local = 0 /\ lock = 0
    /\ wg = 0 /\ ch = 0 /\ main = "done"
CondIdle ==
    /\ items = <<>> /\ asleep = 0 /\ popped = 0
    /\ rounds = [g \in Producers \cup Consumers |-> Rounds]
LockIdle ==
    /\ policy = "none" /\ attempts = 0 /\ wins = 0 /\ stop = 0
    /\ pc = [w \in Workers |-> "done"] /\ holder = [l \in {1, 2} |-> {}]
FanIdle ==
    /\ demo = "leaky" /\ step = [t \in Tasks |-> "done"] /\ fate = [t \in Tasks |-> "ok"]
    /\ err = 0 /\ running = 0 /\ queue = 0 /\ held = 0
    /\ cur = 0 /\ old = 0 /\ peak = 0 /\ most = 0 /\ flight = 0
ChanIdle ==
    /\ lesson = 49 /\ line = <<3, 2>> /\ buffer = 0 /\ closed = 0 /\ got = 0 /\ crashed = FALSE
ClientIdle ==
    /\ rpc = 0 /\ attempt = 0 /\ breaks = 0 /\ up = 0 /\ uploaded = 0 /\ halfClosed = 0
    /\ handler = [at |-> "over"] /\ served = 0 /\ runs = 0 /\ down = 0
    /\ received = 0 /\ code = "OK"

Begins(p, init, idle) == IF program = p THEN init ELSE idle
Moves(p, next, stays) == IF program = p THEN next ELSE stays

ProgramsInit ==
    /\ program \in {"tokens", "stock", "queue", "pool", "join", "cond", "lock", "fan",
                    "chan", "client"}
    /\ Begins("tokens", Init, TokensIdle)
    /\ Begins("stock", Stock!Init, StockIdle)
    /\ Begins("queue", Queue!Init, QueueIdle)
    /\ Begins("pool", Pool!Init, PoolIdle)
    /\ Begins("join", Join!Init, JoinIdle)
    /\ Begins("cond", Cond!Init, CondIdle)
    /\ Begins("lock", Lock!Init, LockIdle)
    /\ Begins("fan", Fan!Init, FanIdle)
    /\ Begins("chan", Chan!Init, ChanIdle)
    /\ Begins("client", Cli!Init, ClientIdle)

ProgramsNext ==
    /\ UNCHANGED program
    /\ Moves("tokens", Next, UNCHANGED vars)
    /\ Moves("stock", Stock!Next, UNCHANGED stockVars)
    /\ Moves("queue", Queue!Next, UNCHANGED queueVars)
    /\ Moves("pool", Pool!Next, UNCHANGED poolVars)
    /\ Moves("join", Join!Next, UNCHANGED joinVars)
    /\ Moves("cond", Cond!Next, UNCHANGED condVars)
    /\ Moves("lock", Lock!Next, UNCHANGED lockVars)
    /\ Moves("fan", Fan!Next, UNCHANGED fanVars)
    /\ Moves("chan", Chan!Next, UNCHANGED chanVars)
    /\ Moves("client", Cli!Next, UNCHANGED cliVars)

\* The fairness of each specification, in the behaviours that run it.
ProgramsSpec ==
    /\ ProgramsInit /\ [][ProgramsNext]_everything
    /\ WF_queueVars(program = "queue" /\ Queue!Down)
    /\ WF_queueVars(program = "queue" /\ Queue!Restart)
    /\ \A t \in QueueTasks : WF_queueVars(program = "queue" /\ Queue!Work(t))
    /\ WF_poolVars(program = "pool" /\ Pool!Rest)
    /\ \A w \in PoolWorkers : WF_poolVars(program = "pool" /\ Pool!Work(w))
    /\ WF_joinVars(program = "join" /\ Join!Wait)
    /\ WF_joinVars(program = "join" /\ Join!Closer)
    /\ WF_joinVars(program = "join" /\ Join!Collect)
    /\ \A g \in Writers \cup Readers :
        /\ WF_joinVars(program = "join" /\ Join!Spawn(g))
        /\ WF_joinVars(program = "join" /\ Join!Go(g))
    /\ \A g \in Producers \cup Consumers :
        WF_condVars(program = "cond" /\ (Cond!Push(g) \/ Cond!Pop(g)))
    /\ WF_lockVars(program = "lock" /\ Lock!Stop)
    /\ \A w \in Workers :
        /\ WF_lockVars(program = "lock" /\ Lock!Work(w))
        /\ SF_lockVars(program = "lock" /\ Lock!SeeStop(w))
    /\ \A t \in Tasks :
        /\ WF_fanVars(program = "fan" /\ Fan!Spawn(t))
        /\ WF_fanVars(program = "fan" /\ Fan!Run(t))
        /\ WF_fanVars(program = "fan" /\ Fan!GiveUp(t))
    /\ WF_chanVars(program = "chan" /\ Chan!Next)
    /\ WF_cliVars(program = "client" /\ Cli!Serves)
    /\ WF_cliVars(program = "client" /\ Cli!Asks)

-----------------------------------------------------------------------------
(* The properties of the modules, each in the behaviours that run it *)

(* Every variable of the ten programs has its type.                        *)
TypeOK ==
    CASE program = "tokens" -> TokenTypeOK
      [] program = "stock" -> Stock!InventoryTypeOK
      [] program = "queue" -> Queue!QueueTypeOK
      [] program = "pool" -> Pool!PoolTypeOK
      [] program = "join" -> Join!ForkJoinTypeOK
      [] program = "cond" -> Cond!CondQueueTypeOK
      [] program = "lock" -> Lock!ContentionTypeOK
      [] program = "fan" -> Fan!FanoutTypeOK
      [] program = "chan" -> Chan!ChannelsTypeOK
      [] program = "client" -> Cli!ClientTypeOK

(***************************************************************************)
(* A retried reservation has reserved once and says the same, and no       *)
(* reservation is of units that are not there (62 server.go:205).  A call  *)
(* whose connection breaks reads each answer once, and the retry policy    *)
(* handles nothing again unless a connection broke (62 main.go:115).       *)
(***************************************************************************)
RetriesRepeat ==
    /\ program = "stock" => Stock!RetriesRepeat /\ Stock!NeverOversold
    /\ program = "client" => Cli!AnswersAreWhole /\ Cli!RetriesAddNoWork

(***************************************************************************)
(* A completed task was done, again only after a worker stopped; the       *)
(* archive is of tasks that had every try or could not succeed (65 main.go)*)
(***************************************************************************)
TasksDoneAndTried ==
    program = "queue" => Queue!DoneAndMoreOnlyAfterStops /\ Queue!DeadLettersAreTried

(* Channels are closed once all who write have gone, and an uncancelled run *)
(* has one result for each job (48 main.go:125, demo 3).                    *)
OneResultPerJob == program = "pool" => Pool!ClosedForGood /\ Pool!OneResultPerJob

(***************************************************************************)
(* What the lessons print is what happened: counters after a join, peaks   *)
(* of parallelism, the error that came first, the order of queues and      *)
(* channels.                                                               *)
(***************************************************************************)
LessonsTellTheTruth ==
    /\ program = "join" => Join!JoinedIsCounted
    /\ program = "fan" => Fan!PeakIsTrue /\ Fan!FirstErrorIsTheCause
    /\ program = "cond" => Cond!FirstInFirstOut
    /\ program = "chan" => Chan!ReceivedInOrder

(***************************************************************************)
(* Everybody comes to an end: tasks settle, pools and joins return, queues *)
(* drain, contending workers get out, and only the leaky demo leaks.       *)
(***************************************************************************)
EverybodyEnds ==
    /\ Queue!EveryTaskSettles
    /\ Pool!PoolEnds
    /\ Join!EveryJoinReturns
    /\ Cond!QueueDrains
    /\ Lock!EveryWorkerGetsOut
    /\ Fan!NothingLeaks
    /\ Chan!NobodyIsLeft
    /\ Cli!EveryCallEnds
=============================================================================
