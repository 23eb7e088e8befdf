-------------------------- MODULE GracefulShutdown --------------------------
(* How five programs stop an HTTP server and what is behind it: lesson 42    *)
(* has background workers and a database, lesson 46 and the gateway of       *)
(* lesson 63 have nothing, and the capstone and the rate limiter have a      *)
(* connection pool with a deferred Close, which in the limiter waits for the *)
(* connections that handlers hold.  The capstone's Timeout answers for a     *)
(* handler that goes on.  run() is one goroutine, a program counter here;    *)
(* requests, workers, signals and the shutdown deadline run along with it.   *)
EXTENDS Naturals

CONSTANTS
    Requests,       \* requests that may reach the server
    Workers,        \* background goroutines
    MaxSignals      \* bound: SIGINT and SIGTERM that arrive

\* What the constants have to be.
ShutdownAssumption == MaxSignals \in Nat

VARIABLES
    prog,       \* the program
    pc,         \* run(): what it does next
    signals,    \* signals that have arrived
    caught,     \* NotifyContext still catches them: stop() was not called
    done,       \* the context of run() is cancelled
    ready,      \* what GET /readyz answers
    listening,  \* the listener is open
    req,        \* requests: not sent, in a handler, answered, overdue, or cut off
    using,      \* requests whose handler holds a database connection
    work,       \* workers: ticking, finishing up after ctx.Done, or gone
    stop,       \* stopWorkers() was called: workerCtx is cancelled
    db,         \* the database pool is open
    late,       \* shutdownCtx has expired
    code,       \* what run() is returning while its deferred calls run
    exit        \* how the process ended

world == <<signals, caught, done>>
served == <<ready, listening, req, using>>
behind == <<work, stop, db>>
vars == <<prog, pc, world, served, behind, late, code, exit>>

HasPool == prog \in {"capstone", "limiter"}
Running == exit = "none"
At(p) == Running /\ pc = p
Active == {r \in Requests : req[r] = "active"}
AllStopped == \A w \in Workers : work[w] = "stopped"

Init ==
    /\ prog \in {"lesson42", "lesson46", "capstone", "limiter", "gateway"}
    /\ pc = IF HasPool THEN "open" ELSE "serve"
    /\ signals = 0 /\ caught = TRUE /\ done = FALSE
    /\ ready = TRUE /\ listening = (pc = "serve") /\ using = {}
    /\ req = [r \in Requests |-> "new"]
    /\ work = [w \in Workers |-> "ticking"]
    /\ stop = FALSE /\ db = (prog = "lesson42") /\ late = FALSE
    /\ code = "clean" /\ exit = "none"

Cut == [r \in Requests |-> IF req[r] = "active" THEN "cut" ELSE req[r]]

\* The process ends, and every goroutine that is still there dies with it.
Die(how) ==
    /\ exit' = how /\ pc' = "gone"
    /\ listening' = FALSE /\ req' = Cut /\ using' = {}

\* run() returns: main exits, with 1 if there was an error, once the deferred
\* calls are through.  Lesson 42 defers nothing that waits.
Leave(how) ==
    /\ code' = how
    /\ IF HasPool /\ pc # "open"
       THEN pc' = "closeDb" /\ listening' = FALSE /\ UNCHANGED <<req, using, exit>>
       ELSE Die(how)

-----------------------------------------------------------------------------
(* The world: signals, clients, workers, the deadline *)

\* NotifyContext turns a signal into ctx.Done, and swallows those that follow
\* until stop(): from then on a signal kills.
Signal ==
    /\ Running /\ signals < MaxSignals
    /\ signals' = signals + 1
    /\ IF caught THEN done' = TRUE /\ UNCHANGED <<pc, listening, req, using, exit>>
       ELSE Die("killed") /\ UNCHANGED done
    /\ UNCHANGED <<prog, caught, ready, behind, late, code>>

\* Lesson 42 without -wait: stop() by a timer, then the signal of the demo.
DemoStops ==
    /\ At("serve") /\ prog = "lesson42" /\ signals < MaxSignals
    /\ signals' = signals + 1 /\ caught' = FALSE /\ done' = TRUE
    /\ UNCHANGED <<prog, pc, served, behind, late, code, exit>>

Send(r) ==
    /\ Running /\ listening /\ req[r] = "new"
    /\ req' = [req EXCEPT ![r] = "active"]
    /\ UNCHANGED <<prog, pc, world, ready, listening, using, behind, late, code, exit>>

\* A handler takes a connection, also one whose client is cut off already, or
\* was answered while it asked.
Query(r) ==
    /\ Running /\ HasPool /\ db /\ req[r] \in {"active", "overdue", "cut"}
    /\ using' = using \cup {r}
    /\ UNCHANGED <<prog, pc, world, ready, listening, req, behind, late, code, exit>>

\* A statement has a timeout of its own.
QueryEnds(r) ==
    /\ Running /\ r \in using /\ using' = using \ {r}
    /\ UNCHANGED <<prog, pc, world, ready, listening, req, behind, late, code, exit>>

\* The handler ends: its work is done, or its context is cancelled.
Respond(r) ==
    /\ Running /\ req[r] = "active" /\ r \notin using
    /\ req' = [req EXCEPT ![r] = "answered"]
    /\ UNCHANGED <<prog, pc, world, ready, listening, using, behind, late, code, exit>>

\* The capstone's Timeout answers 504, or finds that the client has gone, and
\* returns to net/http: to Shutdown the connection is idle, whatever the
\* handler's own goroutine still has in hand.
Overdue(r) ==
    /\ Running /\ prog = "capstone" /\ req[r] = "active"
    /\ req' = [req EXCEPT ![r] = "overdue"]
    /\ UNCHANGED <<prog, pc, world, ready, listening, using, behind, late, code, exit>>

\* A worker sees ctx.Done, finishes its unit of work, and calls wg.Done.
Drain(w) ==
    /\ Running /\ stop /\ work[w] # "stopped"
    /\ work' = [work EXCEPT ![w] = IF @ = "ticking" THEN "finishing" ELSE "stopped"]
    /\ UNCHANGED <<prog, pc, world, served, stop, db, late, code, exit>>

\* shutdownTimeout runs from the moment the drain begins.
Expire ==
    /\ Running /\ pc \in {"shutdown", "drain", "stopWorkers", "wait"} /\ ~late
    /\ late' = TRUE
    /\ UNCHANGED <<prog, pc, world, served, behind, code, exit>>

-----------------------------------------------------------------------------
(* run() *)

\* The database is opened, pinged and migrated under ctx: a signal ends it.
OpenDb ==
    /\ At("open") /\ ~done
    /\ db' = TRUE /\ listening' = TRUE /\ pc' = "serve"
    /\ UNCHANGED <<prog, world, ready, req, using, work, stop, late, code, exit>>

OpenFails ==
    /\ At("open") /\ Leave("dirty")
    /\ UNCHANGED <<prog, world, ready, behind, late>>

\* ListenAndServe fails (a port in use): nothing is drained, but lesson 46
\* logs it and goes the way of a signal.
ServerFails ==
    /\ At("serve")
    /\ IF prog = "lesson46"
       THEN listening' = FALSE /\ caught' = FALSE /\ done' = TRUE
            /\ UNCHANGED <<pc, req, using, code, exit>>
       ELSE Leave("dirty") /\ UNCHANGED <<caught, done>>
    /\ stop' = (stop \/ prog = "lesson42")
    /\ UNCHANGED <<prog, signals, ready, work, db, late>>

\* ctx.Done: lesson 42 fails its readiness first, the capstone stops catching
\* signals, and the deadline starts.
ContextDone ==
    /\ At("serve") /\ done
    /\ ready' = (prog # "lesson42")
    /\ caught' = (caught /\ prog # "capstone")
    /\ pc' = "shutdown"
    /\ UNCHANGED <<prog, signals, done, listening, req, using, behind, late, code, exit>>

\* Mutant: the listener closes and nobody waits for the requests.
CloseListenerOnly ==
    /\ At("shutdown")
    /\ listening' = FALSE /\ pc' = "stopWorkers"
    /\ UNCHANGED <<prog, world, ready, req, using, behind, late, code, exit>>

\* srv.Shutdown closes the listeners, then waits for the active requests.
CloseListener ==
    /\ At("shutdown")
    /\ listening' = FALSE /\ pc' = "drain"
    /\ UNCHANGED <<prog, world, ready, req, using, behind, late, code, exit>>

Drained ==
    /\ At("drain") /\ Active = {}
    /\ IF prog = "lesson42" THEN pc' = "stopWorkers" /\ UNCHANGED <<listening, req, using, code, exit>>
       ELSE Leave("clean")
    /\ UNCHANGED <<prog, world, ready, behind, late>>

\* The deadline passes first, and run() returns at once.  Lesson 42 and the
\* capstone close the connections, lesson 46 exits, and the limiter leaves
\* the handlers to what its deferred Close makes of them.
DrainTimedOut ==
    /\ At("drain") /\ late
    /\ code' = "dirty" /\ stop' = (prog = "lesson42")
    /\ IF HasPool
       THEN pc' = "closeDb" /\ req' = (IF prog = "capstone" THEN Cut ELSE req)
            /\ UNCHANGED <<listening, using, exit>>
       ELSE Die("dirty")
    /\ UNCHANGED <<prog, world, ready, work, db, late>>

StopWorkers ==
    /\ At("stopWorkers")
    /\ stop' = TRUE /\ pc' = "wait"
    /\ UNCHANGED <<prog, world, served, work, db, late, code, exit>>

WorkersDone ==
    /\ At("wait") /\ AllStopped
    /\ pc' = "closeDb"
    /\ UNCHANGED <<prog, world, served, behind, late, code, exit>>

WorkersTimedOut ==
    /\ At("wait") /\ late /\ Leave("dirty")
    /\ UNCHANGED <<prog, world, ready, behind, late>>

\* The pool refuses whoever asks from now on.
CloseDb ==
    /\ At("closeDb")
    /\ db' = FALSE /\ pc' = "closing"
    /\ UNCHANGED <<prog, world, served, work, stop, late, code, exit>>

\* pgxpool waits for the connections it lent; database/sql closes the idle ones
\* and leaves the others to whoever holds them.
Closed ==
    /\ At("closing") /\ (prog = "limiter" => using = {})
    /\ Die(code)
    /\ UNCHANGED <<prog, world, ready, behind, late, code>>

Run == OpenDb \/ OpenFails \/ ContextDone \/ CloseListener \/ Drained \/ DrainTimedOut
       \/ StopWorkers \/ WorkersDone \/ WorkersTimedOut \/ CloseDb \/ Closed

Next ==
    \/ Signal \/ DemoStops \/ Expire \/ ServerFails \/ Run
    \/ \E r \in Requests : Send(r) \/ Query(r) \/ QueryEnds(r) \/ Respond(r) \/ Overdue(r)
    \/ \E w \in Workers : Drain(w)

(***************************************************************************)
(* run() goes on, the timer fires, a worker finishes its unit of work, and *)
(* a statement ends.  A handler owes nothing: a slow client may keep it    *)
(* for ever.                                                               *)
(***************************************************************************)
Fairness ==
    /\ WF_vars(Run) /\ WF_vars(Expire)
    /\ \A w \in Workers : WF_vars(Drain(w))
    /\ \A r \in Requests : WF_vars(QueryEnds(r))

Spec == Init /\ [][Next]_vars /\ Fairness

-----------------------------------------------------------------------------
(* Properties *)

ShutdownTypeOK ==
    /\ pc \in {"open", "serve", "shutdown", "drain", "stopWorkers", "wait", "closeDb", "closing", "gone"}
    /\ signals \in 0..MaxSignals
    /\ {caught, done, ready, listening, stop, db, late} \subseteq BOOLEAN
    /\ req \in [Requests -> {"new", "active", "answered", "overdue", "cut"}] /\ using \subseteq Requests
    /\ work \in [Workers -> {"ticking", "finishing", "stopped"}]
    /\ code \in {"clean", "dirty"} /\ exit \in {"none", "clean", "dirty", "killed"}

(***************************************************************************)
(* The order readiness -> server -> workers -> dependencies (rule 5 of     *)
(* lesson 42): the balancer is told before a connection can be refused,    *)
(* the workers are told when no request is left, and a database that       *)
(* closes on the way to an exit status of 0 closes after both, with no     *)
(* request cut off.  A statement may be under way then only for a request  *)
(* that Timeout has answered in its handler's place: of those 47           *)
(* main.go:151 is wrong that nobody needs the database any more.           *)
(***************************************************************************)
ShutdownOrder ==
    /\ Running /\ prog = "lesson42" /\ ~listening => ~ready
    /\ Running /\ stop => ~listening /\ Active = {}
    /\ pc \in {"closeDb", "closing"} /\ code = "clean" =>
            /\ Active = {} /\ \A r \in using : prog = "capstone" /\ req[r] = "overdue"
            /\ prog = "lesson42" => AllStopped
    /\ exit = "clean" => \A r \in Requests : req[r] # "cut"

(***************************************************************************)
(* A signal ends the process, however long a handler takes: the deadline   *)
(* bounds the drain, and what a deferred Close waits for is bounded too.   *)
(***************************************************************************)
SignalEndsIt == signals > 0 ~> exit # "none"
=============================================================================
