---------------------------- MODULE DashboardHub ----------------------------
(***************************************************************************)
(* The live server dashboard (server-dashboard/backend): reporters write   *)
(* into the registry and hand an update to the hub; the hub's single       *)
(* goroutine fans it out to one buffered channel per browser tab; every    *)
(* tab has a write pump and a read pump.                                   *)
(*                                                                         *)
(*   reporter -> registry, hub.broadcast -> hub.Run -> send[t] -> tab t    *)
(*                                                                         *)
(* A tab is one WebSocket connection.  Its handler, ServeWS, goes through  *)
(*   away        not connected                                             *)
(*   upgraded    snapshot taken, blocked on h.register                     *)
(*   registered  known to the hub, the snapshot not queued yet             *)
(*   serving     returned; both pumps have been started                    *)
(*   panicked    sent the snapshot on a closed channel                     *)
(***************************************************************************)
EXTENDS Naturals, Sequences, SequencesExt, FiniteSets

CONSTANTS
    Tabs,          \* WebSocket connections
    Servers,       \* server ids
    Reporters,     \* goroutines that call IngestStats
    Simulated,     \* those that simulator.Run started and waits for
    ServerOf,      \* ServerOf[p]: the server reporter p reports on
    SendCap,       \* capacity of a client's send channel (16 in the code)
    BroadcastCap,  \* capacity of the hub's broadcast channel (64)
    MaxReports     \* bound: number of reports in a behaviour

ASSUME DashboardAssumption ==
    /\ IsFiniteSet(Tabs)
    /\ Simulated \subseteq Reporters
    /\ ServerOf \in [Reporters -> Servers]
    /\ SendCap \in Nat \ {0}
    /\ BroadcastCap \in Nat \ {0}
    /\ MaxReports \in Nat

VARIABLES
    main,       \* the main goroutine; from "draining" on its ctx is done
    registry,   \* registry[s]: number of the latest report on s, 0 if none
    reports,    \* reports made so far; a report is known by its number
    pending,    \* pending[p]: report p has stored and not broadcast yet, or 0
    exited,     \* simulated reporters that have returned
    broadcast,  \* the hub's broadcast channel
    hub,        \* state of hub.Run
    clients,    \* the hub's client set
    handler,    \* handler[t]: where ServeWS stands
    initial,    \* initial[t]: the snapshot ServeWS was given
    send,       \* send[t]: the client's channel
    closed,     \* tabs whose channel the hub has closed
    writer,     \* writer[t]: the write pump
    reader,     \* reader[t]: the read pump
    conn,       \* conn[t]: the connection
    view,       \* view[t]: what the tab shows
    got,        \* got[t]: reports whose update reached the tab (history)
    since       \* since[t]: reports when the hub took t in (history)

feed == <<registry, reports, pending, exited>>
tab == <<handler, initial, writer, reader, conn, view, got, since>>
vars == <<main, feed, broadcast, hub, clients, send, closed, tab>>

Stopping == main \in {"draining", "waiting", "exited"}

Update(n, s) == [type |-> "update", report |-> n, server |-> s]
Snapshot(data) == [type |-> "snapshot", servers |-> data]

Init ==
    /\ main = "serving"
    /\ registry = [s \in Servers |-> 0]
    /\ reports = 0
    /\ pending = [p \in Reporters |-> 0]
    /\ exited = {}
    /\ broadcast = <<>>
    /\ hub = "running"
    /\ clients = {}
    /\ handler = [t \in Tabs |-> "away"]
    /\ initial = [t \in Tabs |-> Snapshot(registry)]
    /\ send = [t \in Tabs |-> <<>>]
    /\ closed = {}
    /\ writer = [t \in Tabs |-> "off"]
    /\ reader = [t \in Tabs |-> "off"]
    /\ conn = [t \in Tabs |-> "none"]
    /\ view = [t \in Tabs |-> registry]
    /\ got = [t \in Tabs |-> {}]
    /\ since = [t \in Tabs |-> 0]

-----------------------------------------------------------------------------
(* Reporters: IngestStats.                                                 *)

\* Upsert replaces the server's stats under the registry's lock.
Ingest(p) ==
    /\ pending[p] = 0 /\ p \notin exited
    /\ reports < MaxReports
    /\ reports' = reports + 1
    /\ registry' = [registry EXCEPT ![ServerOf[p]] = reports']
    /\ pending' = [pending EXCEPT ![p] = reports']
    /\ UNCHANGED <<main, exited, broadcast, hub, clients, send, closed, tab>>

\* Mutant: the channel grows instead of making the reporter wait.
BroadcastOverfull(p) ==
    /\ pending[p] # 0
    /\ broadcast' = Append(broadcast, Update(pending[p], ServerOf[p]))
    /\ pending' = [pending EXCEPT ![p] = 0]
    /\ UNCHANGED <<main, registry, reports, exited, hub, clients, send, closed, tab>>

\* hub.Broadcast: blocks while the channel is full, whoever reads it.
Broadcast(p) ==
    /\ pending[p] # 0
    /\ Len(broadcast) < BroadcastCap
    /\ broadcast' = Append(broadcast, Update(pending[p], ServerOf[p]))
    /\ pending' = [pending EXCEPT ![p] = 0]
    /\ UNCHANGED <<main, registry, reports, exited, hub, clients, send, closed, tab>>

\* Mutant: the simulated server looks at ctx only while the hub still runs.
SimulatorStopsEarly(p) ==
    /\ p \in Simulated \ exited
    /\ pending[p] = 0
    /\ Stopping /\ hub = "running"
    /\ exited' = exited \cup {p}
    /\ UNCHANGED <<main, registry, reports, pending, broadcast, hub, clients,
                   send, closed, tab>>

\* simulateServer sees ctx.Done() between two reports.
SimulatorStops(p) ==
    /\ p \in Simulated \ exited
    /\ pending[p] = 0
    /\ Stopping
    /\ exited' = exited \cup {p}
    /\ UNCHANGED <<main, registry, reports, pending, broadcast, hub, clients,
                   send, closed, tab>>

-----------------------------------------------------------------------------
(* hub.Run: one select case per action.                                    *)

\* Closing a closed channel, or sending on one, panics.
Panics(cs) == hub' = IF cs \cap closed = {} THEN hub ELSE "panicked"

\* case <-ctx.Done()
HubStops ==
    /\ Stopping /\ hub = "running"
    /\ hub' = IF clients \cap closed = {} THEN "stopped" ELSE "panicked"
    /\ closed' = closed \cup clients
    /\ UNCHANGED <<main, feed, broadcast, clients, send, tab>>

\* case c := <-h.register
Register(t) ==
    /\ hub = "running"
    /\ handler[t] = "upgraded"
    /\ clients' = clients \cup {t}
    /\ handler' = [handler EXCEPT ![t] = "registered"]
    /\ since' = [since EXCEPT ![t] = reports]
    /\ UNCHANGED <<main, feed, broadcast, hub, send, closed, initial, writer,
                   reader, conn, view, got>>

\* Mutant: the channel is closed whether or not the client is still known.
UnregisterUnknown(t) ==
    /\ hub = "running"
    /\ reader[t] = "leaving"
    /\ clients' = clients \ {t}
    /\ closed' = closed \cup {t}
    /\ Panics({t})
    /\ reader' = [reader EXCEPT ![t] = "done"]
    /\ conn' = [conn EXCEPT ![t] = "closed"]
    /\ UNCHANGED <<main, feed, broadcast, send, handler, initial, writer, view,
                   got, since>>

\* case c := <-h.unregister, and the rest of readPump's deferred function
Unregister(t) ==
    /\ hub = "running"
    /\ reader[t] = "leaving"
    /\ clients' = clients \ {t}
    /\ closed' = closed \cup ({t} \cap clients)
    /\ Panics({t} \cap clients)
    /\ reader' = [reader EXCEPT ![t] = "done"]
    /\ conn' = [conn EXCEPT ![t] = "closed"]
    /\ UNCHANGED <<main, feed, broadcast, send, handler, initial, writer, view,
                   got, since>>

\* Mutant: a slow client loses the message and stays.
DeliverSkippingSlow ==
    LET fast == {t \in clients : Len(send[t]) < SendCap} IN
    /\ hub = "running" /\ broadcast # <<>>
    /\ send' = [t \in Tabs |->
                   IF t \in fast THEN Append(send[t], Head(broadcast)) ELSE send[t]]
    /\ broadcast' = Tail(broadcast)
    /\ UNCHANGED <<main, feed, hub, clients, closed, tab>>

\* case msg := <-h.broadcast.  The loop over the clients is one step: what it
\* does to one client's channel neither reads nor writes another's.
Deliver ==
    LET slow == {t \in clients : Len(send[t]) = SendCap} IN
    /\ hub = "running" /\ broadcast # <<>>
    /\ send' = [t \in Tabs |-> IF t \in clients \ slow
                               THEN Append(send[t], Head(broadcast)) ELSE send[t]]
    /\ broadcast' = Tail(broadcast)
    /\ clients' = clients \ slow
    /\ closed' = closed \cup slow
    /\ Panics(clients)
    /\ UNCHANGED <<main, feed, tab>>

-----------------------------------------------------------------------------
(* A tab: serveWS, ServeWS and the two pumps.                              *)

\* The handler takes the snapshot and upgrades the connection.
Connect(t) ==
    /\ main = "serving"
    /\ handler[t] = "away"
    /\ handler' = [handler EXCEPT ![t] = "upgraded"]
    /\ initial' = [initial EXCEPT ![t] = Snapshot(registry)]
    /\ conn' = [conn EXCEPT ![t] = "open"]
    /\ UNCHANGED <<main, feed, broadcast, hub, clients, send, closed, writer,
                   reader, view, got, since>>

\* ServeWS queues the snapshot and starts the pumps.  The hub may have filled
\* or closed the channel since it took the client in.
QueueSnapshot(t) ==
    /\ handler[t] = "registered"
    /\ \/ /\ t \notin closed
          /\ Len(send[t]) < SendCap
          /\ send' = [send EXCEPT ![t] = Append(@, initial[t])]
          /\ handler' = [handler EXCEPT ![t] = "serving"]
          /\ writer' = [writer EXCEPT ![t] = "running"]
          /\ reader' = [reader EXCEPT ![t] = "reading"]
       \/ /\ t \in closed
          /\ handler' = [handler EXCEPT ![t] = "panicked"]
          /\ UNCHANGED <<send, writer, reader>>
    /\ UNCHANGED <<main, feed, broadcast, hub, clients, closed, initial, conn,
                   view, got, since>>

\* What the page does with a message (frontend/src/useServerFeed.js).
Show(t, m) ==
    IF m.type = "snapshot"
    THEN /\ view' = [view EXCEPT ![t] = m.servers]
         /\ UNCHANGED got
    ELSE /\ view' = [view EXCEPT ![t][m.server] = m.report]
         /\ got' = [got EXCEPT ![t] = @ \cup {m.report}]

\* writePump: a message reaches the tab.
Write(t) ==
    /\ writer[t] = "running"
    /\ send[t] # <<>>
    /\ conn[t] = "open"
    /\ Show(t, Head(send[t]))
    /\ send' = [send EXCEPT ![t] = Tail(@)]
    /\ UNCHANGED <<main, feed, broadcast, hub, clients, closed, handler, initial,
                   writer, reader, conn, since>>

\* writePump returns: its channel is closed and drained, or a write of a
\* message or a ping failed.
StopWriting(t) ==
    /\ writer[t] = "running"
    /\ \/ t \in closed /\ send[t] = <<>>
       \/ conn[t] = "closed"
    /\ writer' = [writer EXCEPT ![t] = "done"]
    /\ conn' = [conn EXCEPT ![t] = "closed"]
    /\ UNCHANGED <<main, feed, broadcast, hub, clients, send, closed, handler,
                   initial, reader, view, got, since>>

\* Mutant: readPump returns without telling the hub.
StopReadingSilently(t) ==
    /\ reader[t] = "reading"
    /\ conn[t] = "closed"
    /\ reader' = [reader EXCEPT ![t] = "done"]
    /\ UNCHANGED <<main, feed, broadcast, hub, clients, send, closed, handler,
                   initial, writer, conn, view, got, since>>

\* readPump: ReadMessage fails; h.unregister is next.
StopReading(t) ==
    /\ reader[t] = "reading"
    /\ conn[t] = "closed"
    /\ reader' = [reader EXCEPT ![t] = "leaving"]
    /\ UNCHANGED <<main, feed, broadcast, hub, clients, send, closed, handler,
                   initial, writer, conn, view, got, since>>

\* The tab is closed, the network drops it, or a write or pong deadline passes.
LoseConn(t) ==
    /\ conn[t] = "open"
    /\ conn' = [conn EXCEPT ![t] = "closed"]
    /\ UNCHANGED <<main, feed, broadcast, hub, clients, send, closed, handler,
                   initial, writer, reader, view, got, since>>

-----------------------------------------------------------------------------
(* main.                                                                   *)

Signal ==
    /\ main = "serving"
    /\ main' = "draining"
    /\ UNCHANGED <<feed, broadcast, hub, clients, send, closed, tab>>

\* srv.Shutdown returns: it waits for handlers, for five seconds at most, and
\* never for the hijacked connections.
ShutdownReturns ==
    /\ main = "draining"
    /\ main' = "waiting"
    /\ UNCHANGED <<feed, broadcast, hub, clients, send, closed, tab>>

\* <-simDone, and the process ends.
Exit ==
    /\ main = "waiting"
    /\ Simulated \subseteq exited
    /\ main' = "exited"
    /\ UNCHANGED <<feed, broadcast, hub, clients, send, closed, tab>>

Report(p) == Broadcast(p) \/ SimulatorStops(p)
Pump(t) ==
    \/ Register(t) \/ QueueSnapshot(t) \/ Write(t) \/ StopWriting(t)
    \/ StopReading(t) \/ Unregister(t)

\* A panic of the hub, or main's return, ends the process.
Alive == main # "exited" /\ hub # "panicked"

Next ==
    /\ Alive
    /\ \/ \E p \in Reporters : Ingest(p) \/ Report(p)
       \/ \E t \in Tabs : Connect(t) \/ Pump(t) \/ LoseConn(t)
       \/ HubStops \/ Deliver
       \/ Signal \/ ShutdownReturns \/ Exit

\* Every goroutine that can go on does; select picks among its ready cases at
\* random, so no case waits for ever.  Tabs, reports and signals just happen.
Fairness ==
    /\ \A p \in Reporters : WF_vars(Alive /\ Report(p))
    /\ \A t \in Tabs : /\ WF_vars(Alive /\ Register(t))
                       /\ WF_vars(Alive /\ QueueSnapshot(t))
                       /\ WF_vars(Alive /\ (Write(t) \/ StopWriting(t)))
                       /\ WF_vars(Alive /\ (StopReading(t) \/ Unregister(t)))
    /\ WF_vars(Alive /\ HubStops)
    /\ WF_vars(Alive /\ Deliver)
    /\ WF_vars(Alive /\ (ShutdownReturns \/ Exit))

Spec == Init /\ [][Next]_vars /\ Fairness

-----------------------------------------------------------------------------
(* Properties.                                                             *)

Updates == {Update(n, s) : n \in 1 .. MaxReports, s \in Servers}
Messages == Updates \cup {Snapshot(d) : d \in [Servers -> 0 .. MaxReports]}

\* Every variable keeps its type, and no channel holds more than it can.
TypeOK ==
    /\ main \in {"serving", "draining", "waiting", "exited"}
    /\ registry \in [Servers -> 0 .. reports]
    /\ reports \in 0 .. MaxReports
    /\ pending \in [Reporters -> 0 .. reports]
    /\ exited \subseteq Simulated
    /\ broadcast \in Seq(Updates) /\ Len(broadcast) <= BroadcastCap
    /\ hub \in {"running", "stopped", "panicked"}
    /\ clients \subseteq Tabs /\ closed \subseteq Tabs
    /\ handler \in [Tabs -> {"away", "upgraded", "registered", "serving", "panicked"}]
    /\ initial \in [Tabs -> Messages]
    /\ send \in [Tabs -> Seq(Messages)] /\ \A t \in Tabs : Len(send[t]) <= SendCap
    /\ writer \in [Tabs -> {"off", "running", "done"}]
    /\ reader \in [Tabs -> {"off", "reading", "leaving", "done"}]
    /\ conn \in [Tabs -> {"none", "open", "closed"}]
    /\ view \in [Tabs -> [Servers -> 0 .. MaxReports]]
    /\ got \in [Tabs -> SUBSET (1 .. MaxReports)]
    /\ since \in [Tabs -> 0 .. reports]

\* The hub closes a client's channel once and never sends on it afterwards,
\* in whatever order the client is dropped for being slow, unregisters, and
\* the hub is told to stop (hub.go: Run; a second close would panic and take
\* the process down).
HubNeverPanics == hub # "panicked"

Waiting(t) == {m.report : m \in {x \in ToSet(send[t]) : x.type = "update"}}
Queued == {m.report : m \in ToSet(broadcast)} \cup {pending[p] : p \in Reporters}

\* A tab the hub counts among its clients misses no report made since it was
\* taken in: each has reached it or is on its way.  A slow tab loses its
\* connection, never a message (hub.go, comments of Client and of Run).
NoReportMissed ==
    \A t \in Tabs : t \in clients /\ conn[t] = "open" /\ hub = "running" =>
        since[t] + 1 .. reports \subseteq got[t] \cup Waiting(t) \cup Queued

\* A tab that is gone leaves the client set, unless the hub stops first
\* (client.go, comments of readPump).
GoneTabsLeave ==
    \A t \in Tabs : handler[t] = "serving" /\ conn[t] = "closed" ~>
        t \notin clients \/ hub # "running" \/ main = "exited"

\* A simulated reporter blocked on a full channel that nobody reads any more.
Jammed ==
    /\ hub = "stopped"
    /\ Len(broadcast) = BroadcastCap
    /\ \E p \in Simulated : pending[p] # 0

\* After a signal the process ends; the one thing that can keep it from
\* ending is a full broadcast channel when the hub has stopped already
\* (main.go, <-simDone; simulator.go, comment of Run).
ExitsUnlessJammed == main = "draining" ~> main = "exited" \/ Jammed

\* What a tab shows of a server never goes back to an older report: the
\* snapshot comes before the client is registered and thus before any update
\* (client.go, comment of ServeWS).
ViewNeverBackwards ==
    [][\A t \in Tabs, s \in Servers : view'[t][s] >= view[t][s]]_vars
=============================================================================
