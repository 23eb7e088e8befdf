----------------------------- MODULE MCServers -----------------------------
(* The servers of the repository under one configuration of TLC: a behaviour *)
(* picks one of them and runs it, and the variables of the others stay idle. *)
(* TaskApi is extended; the others are instances whose constants and         *)
(* variables have their own names here unless a substitution says otherwise. *)
EXTENDS TaskApi, Sequences

CONSTANTS
    r1, r2, title, done,    \* requests and fields of the API
    pen, ink, ann,          \* of the shop: two products and a user
    i1, i2, w1, c1, c2,     \* instances, a worker, clients
    Instances, Files, Workers, MaxSignals, MaxStarts, Clients, MaxIds, MaxFaults,
    Clicks,                 \* requests to the gateway
    MaxInjections,          \* failures a test injects into a store
    Names, MaxTasks, MaxPages

VARIABLES
    program,
    ifNotExists, schema, recorded, proc, faults,
    daemon, pc, signals, caught, ctxDone, ready, listening, req, using,
    work, stop, pool, late, leaving, exit,
    kind, at, call, gone, cancelled, answer, server,
    loader, env, flags, cfg, stage, errs, starts,
    impl, items, nextID, failNext, request, created, deleted, marked, misread,
    failed, injected, overlapped,
    shelf, price, stock, orders, lastId, order,
    system, hops, minted, alive,
    lesson, tables, tx, promised

migVars == <<ifNotExists, schema, recorded, proc, faults>>
shutVars == <<daemon, pc, signals, caught, ctxDone, ready, listening, req, using,
              work, stop, pool, late, leaving, exit>>
edgeVars == <<kind, at, call, gone, cancelled, answer, server>>
confVars == <<loader, env, flags, cfg, stage, errs, starts>>
crudVars == <<impl, items, nextID, failNext, request, created, deleted, marked, misread,
              failed, injected, overlapped>>
shopVars == <<shelf, price, stock, orders, lastId, order>>
chainVars == <<system, hops, minted, alive>>
tablVars == <<lesson, tables, tx, promised>>

everything ==
    <<program, vars, migVars, shutVars, edgeVars, confVars, crudVars, shopVars, chainVars, tablVars>>

Mig == INSTANCE Migrations
Shut == INSTANCE GracefulShutdown WITH
    prog <- daemon, done <- ctxDone, db <- pool, code <- leaving
Edge == INSTANCE Gateway WITH Requests <- Clicks
Conf == INSTANCE Settings
Crud == INSTANCE CrudStore WITH MaxFaults <- MaxInjections
Shop == INSTANCE ShopOrders WITH
    Users <- {ann}, Products <- {pen, ink}, Prices <- {0}, Statuses <- {"pending"},
    Carts <- {<<pen, ink>>, <<ink, pen>>}, MaxStock <- 1, MaxOrders <- 1,
    row <- shelf, call <- order
Chain == INSTANCE Middleware WITH Calls <- Clients, call <- hops
Tabl == INSTANCE Transactions

ASSUME ServersAssumption ==
    /\ Mig!MigrationsAssumption /\ Shut!ShutdownAssumption
    /\ Conf!SettingsAssumption /\ Crud!CrudAssumption
    /\ Shop!ShopAssumption /\ Tabl!TransactionsAssumption

-----------------------------------------------------------------------------
\* An idle variable has a value that the temporal properties can be evaluated with.
ApiIdle ==
    /\ row = [live |-> FALSE] /\ last = 0 /\ handler = 0 /\ expired = 0 /\ status = 0
    /\ outer = [r \in Requests |-> "idle"]
MigIdle ==
    /\ ifNotExists = 0 /\ schema = 0 /\ recorded = 0 /\ faults = 0
    /\ proc = [i \in Instances |-> [pc |-> "idle"]]
ShutIdle ==
    /\ daemon = 0 /\ pc = 0 /\ signals = 0 /\ caught = 0 /\ ctxDone = 0 /\ ready = 0
    /\ listening = 0 /\ req = 0 /\ using = 0 /\ work = 0 /\ stop = 0 /\ pool = 0
    /\ late = 0 /\ leaving = 0 /\ exit = "idle"
EdgeIdle ==
    /\ kind = 0 /\ call = 0 /\ gone = 0 /\ cancelled = 0 /\ answer = 0 /\ server = 0
    /\ at = [r \in Clicks |-> "idle"]
ConfIdle ==
    loader = 0 /\ env = 0 /\ flags = 0 /\ cfg = 0 /\ stage = "idle" /\ errs = 0 /\ starts = 0
CrudIdle ==
    /\ impl = 0 /\ items = 0 /\ nextID = 0 /\ failNext = 0 /\ request = 0
    /\ created = 0 /\ deleted = 0 /\ marked = 0 /\ misread = 0 /\ failed = 0 /\ injected = 0 /\ overlapped = 0
ShopIdle ==
    /\ shelf = 0 /\ price = 0 /\ stock = 0 /\ orders = 0 /\ lastId = 0
    /\ order = [c \in Clients |-> [phase |-> "idle"]]
ChainIdle == system = 0 /\ hops = 0 /\ minted = 0 /\ alive = 0
TablIdle == lesson = 0 /\ tables = 0 /\ tx = 0 /\ promised = 0

Begins(p, init, idle) == IF program = p THEN init ELSE idle
Moves(p, next, stays) == IF program = p THEN next ELSE stays

ServersInit ==
    /\ program \in {"api", "migrations", "shutdown", "edge", "settings", "crud", "shop", "chain",
                    "tables"}
    /\ Begins("api", Init, ApiIdle)
    /\ Begins("migrations", Mig!Init, MigIdle)
    /\ Begins("shutdown", Shut!Init, ShutIdle)
    /\ Begins("edge", Edge!Init, EdgeIdle)
    /\ Begins("settings", Conf!Init, ConfIdle)
    /\ Begins("crud", Crud!Init, CrudIdle)
    /\ Begins("shop", Shop!Init, ShopIdle)
    /\ Begins("chain", Chain!Init, ChainIdle)
    /\ Begins("tables", Tabl!Init, TablIdle)

\* Only lesson 63 has more than one call at a time: elsewhere calls meet in
\* nothing but the counter of request ids.
ChainNext == Chain!Next /\ (system = "lesson63" \/ hops'[c2].g[1].way = "none")

ServersNext ==
    /\ UNCHANGED program
    /\ Moves("api", Next, UNCHANGED vars)
    /\ Moves("migrations", Mig!Next, UNCHANGED migVars)
    /\ Moves("shutdown", Shut!Next, UNCHANGED shutVars)
    /\ Moves("edge", Edge!Next, UNCHANGED edgeVars)
    /\ Moves("settings", Conf!Next, UNCHANGED confVars)
    /\ Moves("crud", Crud!Next, UNCHANGED crudVars)
    /\ Moves("shop", Shop!Next, UNCHANGED shopVars)
    /\ Moves("chain", ChainNext, UNCHANGED chainVars)
    /\ Moves("tables", Tabl!Next, UNCHANGED tablVars)

\* The fairness of each specification, in the behaviours that run it.
ServersSpec ==
    /\ ServersInit /\ [][ServersNext]_everything
    /\ \A r \in Requests :
        /\ WF_vars(program = "api" /\ Expire(r))
        /\ WF_vars(program = "api" /\ (HandlerDone(r) \/ TimedOut(r)))
    /\ \A i \in Instances : WF_migVars(program = "migrations" /\ Mig!Step(i))
    /\ WF_shutVars(program = "shutdown" /\ Shut!Run)
    /\ WF_shutVars(program = "shutdown" /\ Shut!Expire)
    /\ \A r \in Requests : WF_shutVars(program = "shutdown" /\ Shut!QueryEnds(r))
    /\ \A w \in Workers : WF_shutVars(program = "shutdown" /\ Shut!Drain(w))
    /\ \A r \in Clicks : WF_edgeVars(program = "edge" /\ Edge!Handle(r))
    /\ \A s \in {"user", "order"} : WF_edgeVars(program = "edge" /\ Edge!Stops(s))
    /\ WF_confVars(program = "settings" /\ Conf!Next)
    /\ \A c \in Clients :
        /\ WF_shopVars(program = "shop" /\ Shop!Statement(c))
        /\ SF_shopVars(program = "shop" /\ Shop!SelectPrice(c))

-----------------------------------------------------------------------------
(* The properties of the modules, each in the behaviours that run it *)

(***************************************************************************)
(* Every variable of the nine servers has its type.                       *)
(***************************************************************************)
TypeOK ==
    CASE program = "api" -> TaskTypeOK
      [] program = "migrations" -> Mig!MigrationsTypeOK
      [] program = "shutdown" -> Shut!ShutdownTypeOK
      [] program = "edge" -> Edge!GatewayTypeOK
      [] program = "settings" -> Conf!SettingsTypeOK
      [] program = "crud" -> Crud!CrudTypeOK
      [] program = "shop" -> Shop!ShopTypeOK
      [] program = "chain" -> Chain!MiddlewareTypeOK
      [] program = "tables" -> Tabl!TransactionsTypeOK

(***************************************************************************)
(* Whatever crashes, the schema and its versions agree, and an instance    *)
(* that serves has all of it (go-crud postgres.go:149, cmd main.go:41).    *)
(***************************************************************************)
SchemaIsRecorded ==
    program = "migrations" => Mig!RecordedIsApplied /\ Mig!ServesMigrated

(***************************************************************************)
(* Readiness, server, workers, dependencies, in this order, and an exit    *)
(* status of 0 cuts no client off (42 main.go, run).  The capstone may     *)
(* close its database under handlers that Timeout has answered for (47     *)
(* main.go:151), and nobody else's under anybody.                          *)
(***************************************************************************)
ShutdownOrder == program = "shutdown" => Shut!ShutdownOrder

(***************************************************************************)
(* Between a handler and its caller: the user's outcome decides the status *)
(* of the dashboard (63 gateway.go:280), a panic other than an abort ends  *)
(* in an error answer of its own call, the log says what the client got    *)
(* unless Timeout answered at the same time as the handler, and the calls  *)
(* of one click share its id (39 main.go:188, 63 observability.go:56).     *)
(***************************************************************************)
EdgeTellsTheTruth ==
    /\ program = "edge" => Edge!UserDecides
    /\ program = "chain" => Chain!PanicsStayInside /\ Chain!LogTellsTheAnswer /\ Chain!OneIdPerClick

(* What starts is what the highest layer said, and sound (41 main.go).      *)
StartedIsSound == program = "settings" => Conf!StartedIsSound

(***************************************************************************)
(* Stores hold what was answered and injected failures fail once (43       *)
(* api.go); of a transaction everything is done or nothing, and queries    *)
(* agree with each other (36 main.go:276, 61 main.go:283).                 *)
(***************************************************************************)
StoreIsHistory ==
    /\ program = "crud" => Crud!StoreIsHistory /\ Crud!OneShot
    /\ program = "tables" => Tabl!NothingHalfDone /\ Tabl!ReadsAgree

(***************************************************************************)
(* What each server owes whoever waits for it: an accepted request and a   *)
(* request to the gateway are answered, instances come to serve, a signal  *)
(* ends the process, corrected settings start, an order is answered.       *)
(***************************************************************************)
ServersAnswer ==
    /\ program = "api" => EveryRequestReturns
    /\ program = "migrations" => Mig!AllComeToServe
    /\ program = "shutdown" => Shut!SignalEndsIt
    /\ program = "edge" => Edge!EveryGatewayAnswers
    /\ program = "settings" => Conf!RunsInTheEnd
    /\ program = "shop" => Shop!EveryOrderAnswered
=============================================================================
