------------------------- MODULE DashboardHubProofs -------------------------
(***************************************************************************)
(* Proofs about DashboardHub, for any number of tabs, servers, reporters   *)
(* and reports, and channels of any capacity.                              *)
(***************************************************************************)
EXTENDS DashboardHub, TLAPS

Handlers == {"away", "upgraded", "registered", "serving", "panicked"}

\* While the hub runs, no client it still knows has a closed channel, and a
\* client that it has not taken in yet is neither known nor closed: that is
\* why taking one in cannot bring back a closed channel.
HubInv ==
    /\ hub \in {"running", "stopped"}
    /\ clients \subseteq Tabs
    /\ closed \subseteq Tabs
    /\ handler \in [Tabs -> Handlers]
    /\ hub = "running" => clients \cap closed = {}
    /\ \A t \in clients \cup closed : handler[t] \notin {"away", "upgraded"}

LEMMA HubInvInit == Init => HubInv
  BY DEF Init, HubInv, Handlers

LEMMA HubInvStep == HubInv /\ [Next]_vars => HubInv'
<1> SUFFICES ASSUME HubInv, [Next]_vars
             PROVE  HubInv'
  OBVIOUS
<1> USE DEF HubInv, Handlers
<1>1. CASE UNCHANGED vars
  BY <1>1 DEF vars, tab
<1>2. ASSUME NEW p \in Reporters, Ingest(p) \/ Report(p)
      PROVE  HubInv'
  BY <1>2 DEF Ingest, Report, Broadcast, SimulatorStops, tab
<1>3. ASSUME NEW t \in Tabs, Connect(t)
      PROVE  HubInv'
  BY <1>3 DEF Connect
<1>4. ASSUME NEW t \in Tabs, Register(t)
      PROVE  HubInv'
  BY <1>4 DEF Register
<1>5. ASSUME NEW t \in Tabs, QueueSnapshot(t)
      PROVE  HubInv'
  BY <1>5 DEF QueueSnapshot
<1>6. ASSUME NEW t \in Tabs,
             Write(t) \/ StopWriting(t) \/ StopReading(t) \/ LoseConn(t)
      PROVE  HubInv'
  BY <1>6 DEF Write, StopWriting, StopReading, LoseConn
<1>7. ASSUME NEW t \in Tabs, Unregister(t)
      PROVE  HubInv'
  BY <1>7 DEF Unregister, Panics
<1>8. CASE HubStops
  BY <1>8 DEF HubStops, tab
<1>9. CASE Deliver
  BY <1>9 DEF Deliver, Panics, tab
<1>10. CASE Signal \/ ShutdownReturns \/ Exit
  BY <1>10 DEF Signal, ShutdownReturns, Exit, tab
<1> QED
  BY <1>1, <1>2, <1>3, <1>4, <1>5, <1>6, <1>7, <1>8, <1>9, <1>10 DEF Next, Pump

\* The hub never closes a channel twice nor sends on a closed one.
THEOREM HubSafe == Spec => []HubNeverPanics
<1>1. HubInv => HubNeverPanics
  BY DEF HubInv, HubNeverPanics
<1>2. QED
  BY HubInvInit, HubInvStep, <1>1, PTL DEF Spec

-----------------------------------------------------------------------------
(* Types.                                                                  *)

\* What a message shows keeps the tab's type.
LEMMA ShowTyped ==
    ASSUME TypeOK, NEW t \in Tabs, NEW m \in Messages, Show(t, m)
    PROVE  /\ view' \in [Tabs -> [Servers -> 0 .. MaxReports]]
           /\ got' \in [Tabs -> SUBSET (1 .. MaxReports)]
<1>0. /\ view \in [Tabs -> [Servers -> 0 .. MaxReports]]
      /\ got \in [Tabs -> SUBSET (1 .. MaxReports)]
  BY DEF TypeOK
<1>1. CASE m \in Updates
  <2>1. m.type = "update" /\ m.report \in 1 .. MaxReports /\ m.server \in Servers
    BY <1>1 DEF Updates, Update
  <2>2. 1 .. MaxReports \subseteq 0 .. MaxReports
    BY DashboardAssumption DEF DashboardAssumption
  <2>3. /\ view' = [view EXCEPT ![t][m.server] = m.report]
        /\ got' = [got EXCEPT ![t] = @ \cup {m.report}]
    BY <2>1 DEF Show
  <2>4. QED
    BY <1>0, <2>1, <2>2, <2>3
<1>2. CASE m \in {Snapshot(d) : d \in [Servers -> 0 .. MaxReports]}
  <2>1. m.type = "snapshot" /\ m.servers \in [Servers -> 0 .. MaxReports]
    BY <1>2 DEF Snapshot
  <2>2. QED
    BY <1>0, <2>1 DEF Show
<1>3. QED
  BY <1>1, <1>2 DEF Messages

LEMMA TypeInit == Init => TypeOK
<1> SUFFICES ASSUME Init PROVE TypeOK
  OBVIOUS
<1>1. 0 .. 0 \subseteq 0 .. MaxReports /\ 0 \in 0 .. MaxReports
  BY DashboardAssumption DEF DashboardAssumption
<1>2. registry \in [Servers -> 0 .. MaxReports] /\ registry \in [Servers -> 0 .. reports]
  BY <1>1 DEF Init
<1>3. initial \in [Tabs -> Messages]
  BY <1>2 DEF Init, Messages
<1>4. /\ broadcast \in Seq(Updates) /\ Len(broadcast) <= BroadcastCap
      /\ send \in [Tabs -> Seq(Messages)] /\ \A t \in Tabs : Len(send[t]) <= SendCap
  BY DashboardAssumption DEF Init, DashboardAssumption
<1>5. /\ pending \in [Reporters -> 0 .. reports]
      /\ since \in [Tabs -> 0 .. reports]
      /\ got \in [Tabs -> SUBSET (1 .. MaxReports)]
  BY DEF Init
<1>6. view \in [Tabs -> [Servers -> 0 .. MaxReports]]
  BY <1>2 DEF Init
<1> QED
  BY <1>1, <1>2, <1>3, <1>4, <1>5, <1>6 DEF Init, TypeOK

LEMMA TypeStep == TypeOK /\ [Next]_vars => TypeOK'
<1> SUFFICES ASSUME TypeOK, [Next]_vars
             PROVE  TypeOK'
  OBVIOUS
<1>0. MaxReports \in Nat /\ SendCap \in Nat \ {0} /\ BroadcastCap \in Nat \ {0}
  BY DashboardAssumption DEF DashboardAssumption
<1>1. CASE UNCHANGED vars
  BY <1>1 DEF vars, feed, tab, TypeOK
<1>2. ASSUME NEW p \in Reporters, Ingest(p)
      PROVE  TypeOK'
  <2>1. /\ reports' \in 1 .. MaxReports /\ reports' \in 0 .. reports'
        /\ 0 .. reports \subseteq 0 .. reports'
    BY <1>0, <1>2 DEF Ingest, TypeOK
  <2>2. /\ registry' \in [Servers -> 0 .. reports']
        /\ pending' \in [Reporters -> 0 .. reports']
        /\ since' \in [Tabs -> 0 .. reports']
    BY <1>2, <2>1, DashboardAssumption DEF Ingest, tab, TypeOK, DashboardAssumption
  <2>3. reports' \in 0 .. MaxReports
    BY <2>1
  <2>4. QED
    BY <1>2, <2>2, <2>3 DEF Ingest, tab, TypeOK
<1>3. ASSUME NEW p \in Reporters, Broadcast(p)
      PROVE  TypeOK'
  <2>1. Update(pending[p], ServerOf[p]) \in Updates
    <3>1. pending \in [Reporters -> 0 .. reports] /\ reports \in 0 .. MaxReports
      BY DEF TypeOK
    <3>2. pending[p] \in 1 .. MaxReports /\ ServerOf[p] \in Servers
      BY <1>3, <3>1, DashboardAssumption DEF Broadcast, DashboardAssumption
    <3>3. QED
      BY <3>2 DEF Updates
  <2>2. broadcast' \in Seq(Updates) /\ Len(broadcast') <= BroadcastCap
    BY <1>0, <1>3, <2>1 DEF Broadcast, TypeOK
  <2>3. pending' \in [Reporters -> 0 .. reports]
    BY <1>3 DEF Broadcast, TypeOK
  <2>4. QED
    BY <1>3, <2>2, <2>3 DEF Broadcast, tab, TypeOK
<1>4. ASSUME NEW p \in Reporters, SimulatorStops(p)
      PROVE  TypeOK'
  BY <1>4 DEF SimulatorStops, tab, TypeOK
<1>5. ASSUME NEW t \in Tabs, Connect(t)
      PROVE  TypeOK'
  <2>1. registry \in [Servers -> 0 .. MaxReports]
    BY <1>0 DEF TypeOK
  <2>2. initial' \in [Tabs -> Messages]
    BY <1>5, <2>1 DEF Connect, TypeOK, Messages
  <2>3. QED
    BY <1>5, <2>2 DEF Connect, feed, TypeOK
<1>6. ASSUME NEW t \in Tabs, Register(t)
      PROVE  TypeOK'
  <2>1. since' \in [Tabs -> 0 .. reports]
    BY <1>0, <1>6 DEF Register, TypeOK
  <2>2. QED
    BY <1>6, <2>1 DEF Register, feed, TypeOK
<1>7. ASSUME NEW t \in Tabs, QueueSnapshot(t)
      PROVE  TypeOK'
  <2>1. /\ send' \in [Tabs -> Seq(Messages)]
        /\ \A u \in Tabs : Len(send'[u]) <= SendCap
    <3>1. \/ send' = send
          \/ Len(send[t]) < SendCap /\ send' = [send EXCEPT ![t] = Append(@, initial[t])]
      BY <1>7 DEF QueueSnapshot
    <3>2. initial[t] \in Messages /\ send[t] \in Seq(Messages)
      BY DEF TypeOK
    <3>3. Append(send[t], initial[t]) \in Seq(Messages)
          /\ Len(Append(send[t], initial[t])) = Len(send[t]) + 1
      BY <3>2
    <3>4. CASE send' = send
      BY <3>4 DEF TypeOK
    <3>5. CASE Len(send[t]) < SendCap /\ send' = [send EXCEPT ![t] = Append(@, initial[t])]
      <4>1. Len(send[t]) \in Nat /\ Len(send'[t]) <= SendCap
        BY <1>0, <3>2, <3>3, <3>5 DEF TypeOK
      <4>2. QED
        BY <3>3, <3>5, <4>1 DEF TypeOK
    <3>6. QED
      BY <3>1, <3>4, <3>5
  <2>2. /\ handler' \in [Tabs -> {"away", "upgraded", "registered", "serving", "panicked"}]
        /\ writer' \in [Tabs -> {"off", "running", "done"}]
        /\ reader' \in [Tabs -> {"off", "reading", "leaving", "done"}]
    BY <1>7 DEF QueueSnapshot, TypeOK
  <2>3. QED
    BY <1>7, <2>1, <2>2 DEF QueueSnapshot, feed, TypeOK
<1>8. ASSUME NEW t \in Tabs, Write(t)
      PROVE  TypeOK'
  <2>1. send[t] \in Seq(Messages) /\ send[t] # <<>>
    BY <1>8 DEF Write, TypeOK
  <2>2. Head(send[t]) \in Messages
    BY <2>1
  <2>3. /\ view' \in [Tabs -> [Servers -> 0 .. MaxReports]]
        /\ got' \in [Tabs -> SUBSET (1 .. MaxReports)]
    BY <1>8, <2>2, ShowTyped DEF Write
  <2>4. /\ send' \in [Tabs -> Seq(Messages)]
        /\ \A u \in Tabs : Len(send'[u]) <= SendCap
    <3>1. send' = [send EXCEPT ![t] = Tail(@)]
      BY <1>8 DEF Write
    <3>2. Tail(send[t]) \in Seq(Messages) /\ Len(Tail(send[t])) = Len(send[t]) - 1
      BY <2>1
    <3>3. QED
      BY <1>0, <2>1, <3>1, <3>2 DEF TypeOK
  <2>5. QED
    BY <1>8, <2>3, <2>4 DEF Write, feed, TypeOK
<1>9. ASSUME NEW t \in Tabs,
             StopWriting(t) \/ StopReading(t) \/ LoseConn(t) \/ Unregister(t)
      PROVE  TypeOK'
  <2>1. UNCHANGED <<main, feed, broadcast, send, handler, initial, view, got, since>>
    BY <1>9 DEF StopWriting, StopReading, LoseConn, Unregister
  <2>2. /\ writer' \in [Tabs -> {"off", "running", "done"}]
        /\ reader' \in [Tabs -> {"off", "reading", "leaving", "done"}]
        /\ conn' \in [Tabs -> {"none", "open", "closed"}]
        /\ clients' \subseteq Tabs /\ closed' \subseteq Tabs
        /\ hub' \in {"running", "stopped", "panicked"}
    BY <1>9 DEF StopWriting, StopReading, LoseConn, Unregister, Panics, TypeOK
  <2>3. QED
    BY <2>1, <2>2 DEF feed, TypeOK
<1>10. CASE HubStops
  BY <1>10 DEF HubStops, feed, tab, TypeOK
<1>11. CASE Deliver
  <2>1. Head(broadcast) \in Messages
    BY <1>11 DEF Deliver, TypeOK, Messages
  <2>2. /\ send' \in [Tabs -> Seq(Messages)]
        /\ \A u \in Tabs : Len(send'[u]) <= SendCap
    <3>1. ASSUME NEW u \in Tabs
          PROVE  send'[u] \in Seq(Messages) /\ Len(send'[u]) <= SendCap
      <4>1. send[u] \in Seq(Messages) /\ Len(send[u]) <= SendCap
        BY DEF TypeOK
      <4>2. \/ send'[u] = send[u]
            \/ Len(send[u]) # SendCap /\ send'[u] = Append(send[u], Head(broadcast))
        BY <1>11 DEF Deliver
      <4>3. Append(send[u], Head(broadcast)) \in Seq(Messages)
            /\ Len(Append(send[u], Head(broadcast))) = Len(send[u]) + 1
            /\ Len(send[u]) \in Nat
        BY <2>1, <4>1
      <4>4. CASE send'[u] = send[u]
        BY <4>1, <4>4
      <4>5. CASE Len(send[u]) # SendCap /\ send'[u] = Append(send[u], Head(broadcast))
        <5>1. Len(send[u]) + 1 <= SendCap
          BY <1>0, <4>1, <4>3, <4>5
        <5>2. QED
          BY <4>3, <4>5, <5>1
      <4>6. QED
        BY <4>2, <4>4, <4>5
    <3>2. QED
      BY <1>11, <3>1 DEF Deliver
  <2>3. broadcast' \in Seq(Updates) /\ Len(broadcast') <= BroadcastCap
    BY <1>0, <1>11 DEF Deliver, TypeOK
  <2>4. /\ clients' \subseteq Tabs /\ closed' \subseteq Tabs
        /\ hub' \in {"running", "stopped", "panicked"}
    BY <1>11 DEF Deliver, Panics, TypeOK
  <2>5. QED
    BY <1>11, <2>2, <2>3, <2>4 DEF Deliver, feed, tab, TypeOK
<1>12. CASE Signal \/ ShutdownReturns \/ Exit
  BY <1>12 DEF Signal, ShutdownReturns, Exit, feed, tab, TypeOK
<1> QED
  BY <1>1, <1>2, <1>3, <1>4, <1>5, <1>6, <1>7, <1>8, <1>9, <1>10, <1>11, <1>12
     DEF Next, Pump, Report

\* Every variable keeps its type, and no channel exceeds its capacity.
THEOREM TypeCorrect == Spec => []TypeOK
  BY TypeInit, TypeStep, PTL DEF Spec

-----------------------------------------------------------------------------
(* No report is missed.                                                    *)

LEMMA ToSetAppend ==
    ASSUME NEW S, NEW s \in Seq(S), NEW x \in S
    PROVE  ToSet(Append(s, x)) = ToSet(s) \cup {x}
<1>1. Append(s, x) \in Seq(S) /\ DOMAIN Append(s, x) = 1 .. Len(s) + 1
  OBVIOUS
<1>2. /\ Append(s, x)[Len(s) + 1] = x
      /\ \A i \in 1 .. Len(s) : Append(s, x)[i] = s[i]
  OBVIOUS
<1>3. QED
  BY <1>1, <1>2 DEF ToSet

LEMMA ToSetHeadTail ==
    ASSUME NEW S, NEW s \in Seq(S), s # <<>>
    PROVE  ToSet(s) = {Head(s)} \cup ToSet(Tail(s))
<1>1. /\ Len(s) \in Nat \ {0} /\ Head(s) = s[1]
      /\ DOMAIN s = 1 .. Len(s) /\ DOMAIN Tail(s) = 1 .. Len(s) - 1
      /\ \A i \in 1 .. Len(s) - 1 : Tail(s)[i] = s[i + 1]
  OBVIOUS
<1>2. ASSUME NEW i \in DOMAIN s
      PROVE  s[i] = Head(s) \/ (i - 1 \in DOMAIN Tail(s) /\ Tail(s)[i - 1] = s[i])
  BY <1>1
<1>3. ASSUME NEW i \in DOMAIN Tail(s)
      PROVE  i + 1 \in DOMAIN s /\ Tail(s)[i] = s[i + 1]
  BY <1>1
<1>4. ToSet(s) \subseteq {Head(s)} \cup ToSet(Tail(s))
  BY <1>2 DEF ToSet
<1>5. Head(s) \in ToSet(s) /\ ToSet(Tail(s)) \subseteq ToSet(s)
  BY <1>1, <1>3 DEF ToSet
<1>6. QED
  BY <1>4, <1>5

\* The reports on their way to a tab.
Underway(t) == got[t] \cup Waiting(t) \cup Queued

\* NoReportMissed for every client, whatever has become of its connection.
MissInv ==
    hub = "running" =>
        \A t \in clients : since[t] + 1 .. reports \subseteq Underway(t)

LEMMA MissInit == Init => MissInv
  BY DEF Init, MissInv

\* What is on its way to a tab stays so, and no report is made.
LEMMA MissKept ==
    ASSUME MissInv, reports' = reports, hub' = "running" => hub = "running",
           clients' \subseteq clients, since' = since,
           hub' = "running" => \A t \in clients' : Underway(t) \subseteq Underway(t)'
    PROVE  MissInv'
  BY DEF MissInv

LEMMA MissStep == TypeOK /\ HubInv /\ MissInv /\ [Next]_vars => MissInv'
<1> SUFFICES ASSUME TypeOK, HubInv, MissInv, [Next]_vars
             PROVE  MissInv'
  OBVIOUS
<1>0. reports \in Nat /\ clients \subseteq Tabs
  BY DashboardAssumption DEF TypeOK, DashboardAssumption
<1>1. CASE UNCHANGED vars
  BY <1>1 DEF vars, feed, tab, MissInv, Underway, Waiting, Queued
<1>2. ASSUME NEW p \in Reporters, Ingest(p)
      PROVE  MissInv'
  <2>1. /\ reports' = reports + 1 /\ pending' = [pending EXCEPT ![p] = reports']
        /\ pending[p] = 0
        /\ UNCHANGED <<broadcast, hub, clients, send, got, since>>
    BY <1>2 DEF Ingest, tab
  <2>2. pending \in [Reporters -> 0 .. reports] /\ since \in [Tabs -> 0 .. reports]
    BY DEF TypeOK
  <2>3. (Queued \ {0}) \cup {reports'} \subseteq Queued'
    BY <2>1, <2>2 DEF Queued
  <2>4. ASSUME hub' = "running", NEW t \in clients', NEW n \in since'[t] + 1 .. reports'
        PROVE  n \in Underway(t)'
    <3>1. n = reports' \/ n \in since[t] + 1 .. reports
      BY <1>0, <2>1, <2>2, <2>4
    <3>2. n # 0
      BY <1>0, <2>1, <2>2, <2>4
    <3>3. n = reports' \/ n \in Underway(t)
      BY <2>1, <2>4, <3>1 DEF MissInv
    <3>4. QED
      BY <2>1, <2>3, <3>2, <3>3 DEF Underway, Waiting
  <2>5. QED
    BY <2>4 DEF MissInv
<1>3. ASSUME NEW p \in Reporters, Broadcast(p)
      PROVE  MissInv'
  <2>1. /\ broadcast' = Append(broadcast, Update(pending[p], ServerOf[p]))
        /\ pending' = [pending EXCEPT ![p] = 0]
        /\ UNCHANGED <<reports, hub, clients, send, got, since>>
    BY <1>3 DEF Broadcast, tab
  <2>2. Update(pending[p], ServerOf[p]) \in Updates /\ broadcast \in Seq(Updates)
    <3>1. pending \in [Reporters -> 0 .. reports] /\ reports \in 0 .. MaxReports
      BY DEF TypeOK
    <3>2. pending[p] \in 1 .. MaxReports /\ ServerOf[p] \in Servers
      BY <1>3, <3>1, DashboardAssumption DEF Broadcast, DashboardAssumption
    <3>3. QED
      BY <3>2 DEF Updates, TypeOK
  <2>3. ToSet(broadcast') = ToSet(broadcast) \cup {Update(pending[p], ServerOf[p])}
    BY <2>1, <2>2, ToSetAppend
  <2>4. Queued \subseteq Queued'
    BY <2>1, <2>3 DEF Queued, Update, TypeOK
  <2>5. QED
    BY <2>1, <2>4, MissKept DEF Underway, Waiting
<1>4. ASSUME NEW p \in Reporters, SimulatorStops(p)
      PROVE  MissInv'
  BY <1>4, MissKept DEF SimulatorStops, tab, Underway, Waiting, Queued
<1>5. ASSUME NEW t \in Tabs,
             Connect(t) \/ StopWriting(t) \/ StopReading(t) \/ LoseConn(t)
      PROVE  MissInv'
  BY <1>5, MissKept DEF Connect, StopWriting, StopReading, LoseConn, feed, Underway, Waiting, Queued
<1>6. ASSUME NEW t \in Tabs, Register(t)
      PROVE  MissInv'
  <2>1. /\ clients' = clients \cup {t} /\ since' = [since EXCEPT ![t] = reports]
        /\ UNCHANGED <<reports, pending, broadcast, hub, send, got>>
    BY <1>6 DEF Register, feed
  <2>2. \A u \in Tabs : Underway(u)' = Underway(u)
    BY <2>1 DEF Underway, Waiting, Queued
  <2>3. since \in [Tabs -> 0 .. reports] /\ reports + 1 .. reports = {}
    BY <1>0 DEF TypeOK
  <2>4. ASSUME hub' = "running", NEW u \in clients'
        PROVE  since'[u] + 1 .. reports' \subseteq Underway(u)'
    <3>1. CASE u = t
      BY <2>1, <2>3, <3>1
    <3>2. CASE u # t
      BY <1>0, <2>1, <2>2, <2>3, <2>4, <3>2 DEF MissInv
    <3>3. QED
      BY <3>1, <3>2
  <2>5. QED
    BY <2>4 DEF MissInv
<1>7. ASSUME NEW t \in Tabs, QueueSnapshot(t)
      PROVE  MissInv'
  <2>1. /\ UNCHANGED <<reports, pending, broadcast, hub, clients, got, since>>
        /\ send' = send \/ send' = [send EXCEPT ![t] = Append(@, initial[t])]
    BY <1>7 DEF QueueSnapshot, feed
  <2>2. send \in [Tabs -> Seq(Messages)] /\ initial[t] \in Messages
    BY DEF TypeOK
  <2>3. ASSUME NEW u \in Tabs
        PROVE  ToSet(send[u]) \subseteq ToSet(send'[u])
    <3>1. ToSet(Append(send[t], initial[t])) = ToSet(send[t]) \cup {initial[t]}
      BY <2>2, ToSetAppend
    <3>2. QED
      BY <2>1, <2>2, <3>1
  <2>4. \A u \in Tabs : Underway(u) \subseteq Underway(u)'
    BY <2>1, <2>3 DEF Underway, Waiting, Queued
  <2>5. QED
    BY <1>0, <2>1, <2>4, MissKept
<1>8. ASSUME NEW t \in Tabs, Write(t)
      PROVE  MissInv'
  <2>1. /\ UNCHANGED <<reports, pending, broadcast, hub, clients, since>>
        /\ send' = [send EXCEPT ![t] = Tail(@)]
        /\ send[t] # <<>> /\ Show(t, Head(send[t]))
    BY <1>8 DEF Write, feed
  <2>2. send \in [Tabs -> Seq(Messages)] /\ got \in [Tabs -> SUBSET (1 .. MaxReports)]
    BY DEF TypeOK
  <2>3. ToSet(send[t]) = {Head(send[t])} \cup ToSet(send'[t])
    BY <2>1, <2>2, ToSetHeadTail
  <2>4. Waiting(t) \subseteq Waiting(t)' \cup got'[t]
    <3>1. ASSUME NEW x \in ToSet(send[t]), x.type = "update"
          PROVE  x.report \in Waiting(t)' \cup got'[t]
      <4>1. CASE x = Head(send[t])
        BY <2>1, <2>2, <3>1, <4>1 DEF Show
      <4>2. CASE x \in ToSet(send'[t])
        BY <3>1, <4>2 DEF Waiting
      <4>3. QED
        BY <2>3, <4>1, <4>2
    <3>2. QED
      BY <3>1 DEF Waiting
  <2>5. \A u \in Tabs : got[u] \subseteq got'[u]
    BY <2>1, <2>2 DEF Show
  <2>6. ASSUME NEW u \in Tabs
        PROVE  Underway(u) \subseteq Underway(u)'
    <3>1. CASE u = t
      BY <2>1, <2>4, <2>5, <3>1 DEF Underway, Queued
    <3>2. CASE u # t
      BY <2>1, <2>2, <2>5, <3>2 DEF Underway, Waiting, Queued
    <3>3. QED
      BY <3>1, <3>2
  <2>7. QED
    BY <1>0, <2>1, <2>6, MissKept
<1>9. ASSUME NEW t \in Tabs, Unregister(t)
      PROVE  MissInv'
  BY <1>9, MissKept DEF Unregister, Panics, feed, Underway, Waiting, Queued
<1>10. CASE HubStops
  BY <1>10, MissKept DEF HubStops, feed, tab
<1>11. CASE Deliver
  <2>1. /\ broadcast # <<>> /\ broadcast' = Tail(broadcast)
        /\ clients' \subseteq clients
        /\ hub = "running"
        /\ \A u \in clients' : send'[u] = Append(send[u], Head(broadcast))
        /\ UNCHANGED <<reports, pending, got, since>>
    BY <1>0, <1>11 DEF Deliver, feed, tab
  <2>2. /\ send \in [Tabs -> Seq(Messages)] /\ broadcast \in Seq(Updates)
        /\ Head(broadcast) \in Updates
    BY <2>1 DEF TypeOK
  <2>3. ToSet(broadcast) = {Head(broadcast)} \cup ToSet(broadcast')
    BY <2>1, <2>2, ToSetHeadTail
  <2>4. Head(broadcast).type = "update" /\ Head(broadcast) \in Messages
    <3>1. \A m \in Updates : m.type = "update"
      BY DEF Updates, Update
    <3>2. QED
      BY <2>2, <3>1 DEF Messages
  <2>5. ASSUME NEW u \in clients'
        PROVE  Underway(u) \subseteq Underway(u)'
    <3>1. ToSet(send'[u]) = ToSet(send[u]) \cup {Head(broadcast)}
      <4>1. send[u] \in Seq(Messages) /\ send'[u] = Append(send[u], Head(broadcast))
        BY <1>0, <2>1, <2>2
      <4>2. QED
        BY <2>4, <4>1, ToSetAppend
    <3>2. Waiting(u) \cup {Head(broadcast).report} \subseteq Waiting(u)'
      BY <2>4, <3>1 DEF Waiting
    <3>3. Queued \subseteq Queued' \cup {Head(broadcast).report}
      BY <2>1, <2>3 DEF Queued
    <3>4. QED
      BY <2>1, <3>2, <3>3 DEF Underway
  <2>6. QED
    BY <2>1, <2>5, MissKept
<1>12. CASE Signal \/ ShutdownReturns \/ Exit
  BY <1>12, MissKept DEF Signal, ShutdownReturns, Exit, feed, tab, Underway, Waiting, Queued
<1> QED
  BY <1>1, <1>2, <1>3, <1>4, <1>5, <1>6, <1>7, <1>8, <1>9, <1>10, <1>11, <1>12
     DEF Next, Pump, Report

\* A tab the hub knows misses no report made since it was taken in: a slow
\* tab loses its connection, never a message (hub.go, Run).
THEOREM NothingMissed == Spec => []NoReportMissed
<1>1. TypeOK /\ MissInv => NoReportMissed
  BY DEF MissInv, NoReportMissed, Underway
<1>2. QED
  BY TypeInit, TypeStep, HubInvInit, HubInvStep, MissInit, MissStep, <1>1, PTL DEF Spec
=============================================================================
