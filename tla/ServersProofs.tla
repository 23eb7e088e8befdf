--------------------------- MODULE ServersProofs ---------------------------
(* Proofs about the servers, in the specification that composes them: what a *)
(* server promises holds in every behaviour that runs it, for every value of *)
(* its constants.  The first lemmas say what the composition adds to each of *)
(* them, and nothing after that is about more than one server.               *)
EXTENDS MCServers, Sums, SequenceTheorems, TLAPS

-----------------------------------------------------------------------------
(* The composition *)

\* A behaviour that begins with a program begins as that program does.
LEMMA ServersBegin ==
    ASSUME ServersInit
    PROVE  /\ program = "api" => Init
           /\ program = "migrations" => Mig!Init
           /\ program = "shutdown" => Shut!Init
           /\ program = "edge" => Edge!Init
           /\ program = "settings" => Conf!Init
           /\ program = "crud" => Crud!Init
           /\ program = "shop" => Shop!Init
           /\ program = "chain" => Chain!Init
           /\ program = "tables" => Tabl!Init
  BY DEF ServersInit, Begins

\* The program stays the same, and steps are its steps or leave it alone.
LEMMA ServersMove ==
    ASSUME [ServersNext]_everything
    PROVE  /\ program' = program
           /\ program = "api" => [Next]_vars
           /\ program = "migrations" => [Mig!Next]_(Mig!vars)
           /\ program = "shutdown" => [Shut!Next]_(Shut!vars)
           /\ program = "edge" => [Edge!Next]_(Edge!vars)
           /\ program = "settings" => [Conf!Next]_(Conf!vars)
           /\ program = "crud" => [Crud!Next]_(Crud!vars)
           /\ program = "shop" => [Shop!Next]_(Shop!vars)
           /\ program = "chain" => [Chain!Next]_(Chain!vars)
           /\ program = "tables" => [Tabl!Next]_(Tabl!vars)
<1>1. CASE ServersNext
  BY <1>1 DEF ServersNext, Moves, ChainNext
<1>2. CASE UNCHANGED everything
  <2>1. /\ UNCHANGED <<program, vars>>
        /\ UNCHANGED <<migVars, shutVars>> /\ UNCHANGED <<edgeVars, confVars>>
        /\ UNCHANGED <<crudVars, shopVars>> /\ UNCHANGED <<chainVars, tablVars>>
    BY <1>2 DEF everything
  <2>2. UNCHANGED Mig!vars /\ UNCHANGED Shut!vars
    BY <2>1 DEF migVars, shutVars, Mig!vars, Shut!vars, Shut!world, Shut!served, Shut!behind
  <2>3. UNCHANGED Edge!vars /\ UNCHANGED Conf!vars
    BY <2>1 DEF edgeVars, confVars, Edge!vars, Conf!vars
  <2>4. UNCHANGED Crud!vars /\ UNCHANGED Shop!vars
    BY <2>1 DEF crudVars, shopVars, Crud!vars, Crud!history, Shop!vars, Shop!tables
  <2>5. UNCHANGED Chain!vars /\ UNCHANGED Tabl!vars
    BY <2>1 DEF chainVars, tablVars, Chain!vars, Tabl!vars
  <2>6. QED
    BY <2>1, <2>2, <2>3, <2>4, <2>5
<1>3. QED
  BY <1>1, <1>2

-----------------------------------------------------------------------------
(* The capstone API: NoLostPatch, of its own specification                   *)

\* Why no PATCH overwrites another: a row of the version a transaction has
\* seen IS the row it has seen; one transaction at a time is about to commit,
\* and that one has seen the row of now.
PatchInv ==
    /\ row.live => row.by = last
    /\ row.version \in Nat
    /\ \A r \in Requests : handler[r].pc \in {"write", "commit"} =>
        /\ handler[r].patch \in Fields
        /\ handler[r].seen.version \in Nat
        /\ handler[r].seen.version <= row.version
        /\ handler[r].seen.version = row.version => handler[r].seen = row
    /\ \A r \in Requests : handler[r].pc = "commit" =>
        /\ handler[r].seen = row
        /\ \A q \in Requests : handler[q].pc = "commit" => q = r

TaskInv == TaskTypeOK /\ PatchInv

Pcs == {"idle", "begin", "write", "commit", "done"}

\* Handlers stay handlers: a step of one, which puts h in its place.
LEMMA Replaced ==
  ASSUME handler \in [Requests -> Handlers], NEW r \in Requests, NEW h \in Handlers,
         handler' = [handler EXCEPT ![r] = h]
  PROVE  /\ handler' \in [Requests -> Handlers]
         /\ handler'[r] = h
         /\ \A q \in Requests \ {r} : handler'[q] = handler[q]
  OBVIOUS

LEMMA MovesOn ==
  ASSUME handler \in [Requests -> Handlers], NEW r \in Requests, NEW to \in Pcs,
         handler' = [handler EXCEPT ![r].pc = to]
  PROVE  /\ handler' \in [Requests -> Handlers]
         /\ handler'[r].pc = to
         /\ handler'[r].seen = handler[r].seen /\ handler'[r].patch = handler[r].patch
         /\ \A q \in Requests \ {r} : handler'[q] = handler[q]
<1> DEFINE h == [handler[r] EXCEPT !.pc = to]
<1>1. h \in Handlers /\ h.pc = to /\ h.seen = handler[r].seen /\ h.patch = handler[r].patch
  BY handler[r] \in Handlers DEF Handlers, Pcs
<1>2. handler' = [handler EXCEPT ![r] = h]
  OBVIOUS
<1> HIDE DEF h
<1> QED
  BY <1>1, <1>2, Replaced

LEMMA Starts ==
  ASSUME handler \in [Requests -> Handlers], NEW r \in Requests,
         NEW p \in Fields \cup {"delete"},
         handler' = [handler EXCEPT ![r].pc = "begin", ![r].patch = p]
  PROVE  /\ handler' \in [Requests -> Handlers]
         /\ handler'[r].pc = "begin"
         /\ \A q \in Requests \ {r} : handler'[q] = handler[q]
<1> DEFINE h == [handler[r] EXCEPT !.pc = "begin", !.patch = p]
<1>1. h \in Handlers /\ h.pc = "begin"
  BY handler[r] \in Handlers DEF Handlers
<1>2. handler' = [handler EXCEPT ![r] = h]
  OBVIOUS
<1> HIDE DEF h
<1> QED
  BY <1>1, <1>2, Replaced

LEMMA Sees ==
  ASSUME handler \in [Requests -> Handlers], NEW r \in Requests,
         NEW to \in Pcs, NEW s \in Rows,
         handler' = [handler EXCEPT ![r].pc = to, ![r].seen = s]
  PROVE  /\ handler' \in [Requests -> Handlers]
         /\ handler'[r].pc = to /\ handler'[r].seen = s
         /\ handler'[r].patch = handler[r].patch
         /\ \A q \in Requests \ {r} : handler'[q] = handler[q]
<1> DEFINE h == [handler[r] EXCEPT !.pc = to, !.seen = s]
<1>1. h \in Handlers /\ h.pc = to /\ h.seen = s /\ h.patch = handler[r].patch
  BY handler[r] \in Handlers DEF Handlers, Pcs
<1>2. handler' = [handler EXCEPT ![r] = h]
  OBVIOUS
<1> HIDE DEF h
<1> QED
  BY <1>1, <1>2, Replaced

LEMMA WroteType ==
  ASSUME TaskTypeOK, NEW r \in Requests, NEW code \in Statuses
  PROVE  Wrote(r, code) \in [Requests -> Statuses]
  BY DEF Wrote, TaskTypeOK

\* What Reply and KeepSilent leave behind, whichever it was.
LEMMA Ends ==
  ASSUME TaskTypeOK, NEW r \in Requests, NEW code \in Statuses,
         Reply(r, code) \/ KeepSilent(r)
  PROVE  /\ handler' \in [Requests -> Handlers]
         /\ handler'[r].pc = "done"
         /\ \A q \in Requests \ {r} : handler'[q] = handler[q]
         /\ status' \in [Requests -> Statuses]
         /\ UNCHANGED <<outer, expired>>
<1>1. Created \in Rows /\ "done" \in Pcs /\ handler \in [Requests -> Handlers]
  BY DEF Created, Rows, Pcs, TaskTypeOK
<1>2. handler' = [handler EXCEPT ![r].pc = "done", ![r].seen = Created]
  BY DEF Reply, KeepSilent
<1>3. status' \in [Requests -> Statuses]
  BY WroteType DEF Reply, KeepSilent, TaskTypeOK
<1>4. UNCHANGED <<outer, expired>>
  BY DEF Reply, KeepSilent
<1> QED
  BY <1>1, <1>2, <1>3, <1>4, Sees

LEMMA TaskInit == Init => TaskInv
  BY DEF Init, Created, TaskInv, TaskTypeOK, PatchInv, Rows, Handlers, Statuses

\* Whatever ends a handler without touching the database keeps the invariant.
LEMMA EndKeeps ==
  ASSUME TaskInv, NEW r \in Requests, NEW code \in Statuses,
         Reply(r, code) \/ KeepSilent(r), UNCHANGED db
  PROVE  TaskInv'
<1>0. TaskTypeOK /\ PatchInv
  BY DEF TaskInv
<1>1. /\ handler' \in [Requests -> Handlers] /\ handler'[r].pc = "done"
      /\ \A q \in Requests \ {r} : handler'[q] = handler[q]
      /\ status' \in [Requests -> Statuses] /\ UNCHANGED <<outer, expired>>
  BY <1>0, Ends
<1>2. TaskTypeOK'
  BY <1>0, <1>1 DEF TaskTypeOK, db
<1>3. PatchInv'
  BY <1>0, <1>1 DEF PatchInv, db
<1> QED
  BY <1>2, <1>3 DEF TaskInv

LEMMA TaskStep == TaskInv /\ [Next]_vars => TaskInv'
<1> SUFFICES ASSUME TaskInv, [Next]_vars
             PROVE  TaskInv'
  OBVIOUS
<1>0. TaskTypeOK /\ PatchInv
  BY DEF TaskInv
<1>h. handler \in [Requests -> Handlers] /\ row \in Rows
  BY <1>0 DEF TaskTypeOK
<1>1. CASE UNCHANGED vars
  BY <1>0, <1>1 DEF vars, TaskInv, TaskTypeOK, PatchInv
<1>2. ASSUME NEW r \in Requests, Accept(r)
      PROVE  TaskInv'
  <2>1. /\ handler' \in [Requests -> Handlers] /\ handler'[r].pc = "begin"
        /\ \A q \in Requests \ {r} : handler'[q] = handler[q]
    BY <1>h, <1>2, Starts DEF Accept
  <2>2. outer' = [outer EXCEPT ![r] = "waiting"] /\ UNCHANGED <<db, expired, status>>
    BY <1>2 DEF Accept
  <2>3. TaskTypeOK' /\ PatchInv'
    BY <1>0, <2>1, <2>2 DEF TaskTypeOK, PatchInv, db
  <2> QED
    BY <2>3 DEF TaskInv
<1>3. ASSUME NEW r \in Requests, Unauthorized(r) \/ Fails(r)
      PROVE  TaskInv'
  BY <1>3, EndKeeps DEF Unauthorized, Fails, Statuses
<1>4. ASSUME NEW r \in Requests, Read(r)
      PROVE  TaskInv'
  <2>1. CASE ~row.live
    BY <1>4, <2>1, EndKeeps DEF Read, Statuses
  <2>2. CASE row.live
    <3>1. /\ handler' = [handler EXCEPT ![r].pc = "write", ![r].seen = row]
          /\ UNCHANGED <<outer, expired, status, row, last>>
          /\ handler[r].patch \in Fields /\ "write" \in Pcs
      BY <1>4, <2>2 DEF Read, db, Pcs
    <3>2. /\ handler' \in [Requests -> Handlers]
          /\ handler'[r].pc = "write" /\ handler'[r].seen = row
          /\ handler'[r].patch = handler[r].patch
          /\ \A q \in Requests \ {r} : handler'[q] = handler[q]
      BY <1>h, <3>1, Sees
    <3>3. TaskTypeOK' /\ PatchInv'
      BY <1>0, <3>1, <3>2 DEF TaskTypeOK, PatchInv
    <3> QED
      BY <3>3 DEF TaskInv
  <2> QED
    BY <2>1, <2>2
<1>5. ASSUME NEW r \in Requests, Write(r)
      PROVE  TaskInv'
  <2>1. CASE handler[r].seen.version # row.version
    BY <1>5, <2>1, EndKeeps DEF Write, Statuses
  <2>2. CASE handler[r].seen.version = row.version
    <3>1. /\ handler' = [handler EXCEPT ![r].pc = "commit"]
          /\ UNCHANGED <<outer, expired, status, row, last>>
          /\ handler[r].pc = "write" /\ "commit" \in Pcs
          /\ \A q \in Requests : handler[q].pc # "commit"
      BY <1>5, <2>2 DEF Write, WriteLocked, db, Pcs
    <3>2. /\ handler' \in [Requests -> Handlers]
          /\ handler'[r].pc = "commit" /\ handler'[r].seen = handler[r].seen
          /\ handler'[r].patch = handler[r].patch
          /\ \A q \in Requests \ {r} : handler'[q] = handler[q]
      BY <1>h, <3>1, MovesOn
    <3>3. TaskTypeOK' /\ PatchInv'
      BY <1>0, <2>2, <3>1, <3>2 DEF TaskTypeOK, PatchInv
    <3> QED
      BY <3>3 DEF TaskInv
  <2> QED
    BY <2>1, <2>2
<1>6. ASSUME NEW r \in Requests, Commit(r)
      PROVE  TaskInv'
  <2> DEFINE f == handler[r].patch
  <2>1. f \in Fields /\ handler[r].seen = row /\ handler[r].pc = "commit"
    BY <1>0, <1>6 DEF Commit, PatchInv
  <2>2. /\ row' = [row EXCEPT !.version = row.version + 1, !.by = [row.by EXCEPT ![f] = r]]
        /\ last' = [last EXCEPT ![f] = r]
        /\ Reply(r, "ok")
    BY <1>6, <2>1 DEF Commit
  <2>3. /\ row' \in Rows /\ row.version \in Nat
        /\ row'.version = row.version + 1 /\ row'.live = row.live
        /\ row'.by = [row.by EXCEPT ![f] = r]
    <3>1. row.version \in Nat /\ row.by \in [Fields -> Requests \cup {"created"}]
      BY <1>h DEF Rows
    <3>2. row.version + 1 \in Nat
          /\ [row.by EXCEPT ![f] = r] \in [Fields -> Requests \cup {"created"}]
      BY <2>1, <3>1
    <3> HIDE DEF f
    <3> QED
      BY <1>h, <2>2, <3>1, <3>2 DEF Rows
  <2>4. /\ handler' \in [Requests -> Handlers] /\ handler'[r].pc = "done"
        /\ \A q \in Requests \ {r} : handler'[q] = handler[q]
        /\ status' \in [Requests -> Statuses] /\ UNCHANGED <<outer, expired>>
    BY <1>0, <2>2, Ends DEF Statuses
  <2>5. TaskTypeOK'
    BY <1>0, <2>1, <2>2, <2>3, <2>4 DEF TaskTypeOK
  <2>6. \A q \in Requests \ {r} : handler[q].pc # "commit"
    BY <1>0, <2>1 DEF PatchInv
  <2>7. row'.live => row'.by = last'
    BY <1>0, <2>2, <2>3 DEF PatchInv
  <2>8. PatchInv'
    BY <1>0, <2>3, <2>4, <2>6, <2>7 DEF PatchInv
  <2> QED
    BY <2>5, <2>8 DEF TaskInv
<1>7. ASSUME NEW r \in Requests, Delete(r)
      PROVE  TaskInv'
  <2>1. CASE ~row.live
    BY <1>7, <2>1, EndKeeps DEF Delete, Statuses, db
  <2>2. CASE row.live
    <3>1. /\ row' = [row EXCEPT !.live = FALSE, !.version = row.version + 1]
          /\ last' = last /\ Reply(r, "ok")
          /\ \A q \in Requests : handler[q].pc # "commit"
      BY <1>7, <2>2 DEF Delete, WriteLocked
    <3>2. /\ row' \in Rows /\ row.version \in Nat
          /\ row'.version = row.version + 1 /\ ~row'.live
      <4>1. row.version \in Nat /\ row.version + 1 \in Nat
        BY <1>h DEF Rows
      <4> QED
        BY <1>h, <3>1, <4>1 DEF Rows
    <3>3. /\ handler' \in [Requests -> Handlers] /\ handler'[r].pc = "done"
          /\ \A q \in Requests \ {r} : handler'[q] = handler[q]
          /\ status' \in [Requests -> Statuses] /\ UNCHANGED <<outer, expired>>
      BY <1>0, <3>1, Ends DEF Statuses
    <3>4. TaskTypeOK'
      BY <1>0, <3>1, <3>2, <3>3 DEF TaskTypeOK
    <3>5. PatchInv'
      BY <1>0, <3>1, <3>2, <3>3 DEF PatchInv
    <3> QED
      BY <3>4, <3>5 DEF TaskInv
  <2> QED
    BY <2>1, <2>2
<1>8. ASSUME NEW r \in Requests, Expire(r) \/ HandlerDone(r) \/ TimedOut(r)
      PROVE  TaskInv'
  <2>1. status' \in [Requests -> Statuses]
    <3>1. \/ status' = status \/ status' = Wrote(r, "empty") \/ status' = Wrote(r, "timed out")
      BY <1>8 DEF Expire, HandlerDone, TimedOut
    <3>2. "empty" \in Statuses /\ "timed out" \in Statuses
      BY DEF Statuses
    <3> QED
      BY <1>0, <3>1, <3>2, WroteType, ZenonT(40) DEF TaskTypeOK
  <2>2. /\ outer' \in [Requests -> {"new", "waiting", "returned"}]
        /\ expired' \in [Requests -> BOOLEAN] /\ UNCHANGED <<row, last, handler>>
    BY <1>0, <1>8 DEF Expire, HandlerDone, TimedOut, TaskTypeOK, db
  <2>3. TaskTypeOK' /\ PatchInv'
    BY <1>0, <2>1, <2>2 DEF TaskTypeOK, PatchInv
  <2> QED
    BY <2>3 DEF TaskInv
<1> QED
  BY <1>1, <1>2, <1>3, <1>4, <1>5, <1>6, <1>7, <1>8 DEF Next, Handle

\* Every variable of the task API keeps its type.
THEOREM TypeCorrect == Spec => []TaskTypeOK
  BY TaskInit, TaskStep, PTL DEF Spec, TaskInv

\* No PATCH that was committed is overwritten by an older value.
THEOREM PatchesSurvive == Spec => []NoLostPatch
<1>1. TaskInv => NoLostPatch
  BY DEF TaskInv, PatchInv, NoLostPatch
<1> QED
  BY TaskInit, TaskStep, <1>1, PTL DEF Spec

-----------------------------------------------------------------------------
(* The migration runners: SchemaIsRecorded *)

\* Nothing that is recorded is ever taken back: that is why a list of versions
\* read before others went on is a list of versions that are recorded now.
\* What the loop has passed is recorded, by this instance or by another.
Passed ==
    /\ Mig!RecordedIsApplied
    /\ \A i \in Instances :
        /\ proc[i].done \subseteq recorded
        /\ 1 .. proc[i].at - 1 \subseteq recorded
        /\ Mig!InTx(i) => proc[i].at \in Mig!Versions
        /\ proc[i].pc = "serving" => proc[i].at = Files + 1

MigInv == Mig!MigrationsTypeOK /\ Passed

LEMMA StoppedTyped ==
    ASSUME Mig!MigrationsAssumption
    PROVE  /\ Mig!Stopped \in Mig!Procs
           /\ Mig!Stopped.pc = "down" /\ Mig!Stopped.done = {} /\ Mig!Stopped.at = 1
<1>1. 1 \in 1 .. Files + 1 /\ {} \in SUBSET Mig!Versions
  BY DEF Mig!MigrationsAssumption
<1>2. QED
  BY <1>1 DEF Mig!Stopped, Mig!Procs

LEMMA MigInit ==
    ASSUME Mig!MigrationsAssumption, Mig!Init
    PROVE  MigInv
<1>1. Mig!MigrationsTypeOK
  <2>1. 0 \in 0 .. MaxFaults
    BY DEF Mig!MigrationsAssumption
  <2>2. ifNotExists \in BOOLEAN
    BY DEF Mig!Init
  <2>3. QED
    BY <2>1, <2>2, StoppedTyped DEF Mig!Init, Mig!MigrationsTypeOK
<1>2. Passed
  BY StoppedTyped DEF Mig!Init, Passed, Mig!RecordedIsApplied, Mig!InTx
<1>3. QED
  BY <1>1, <1>2 DEF MigInv

\* A step that moves one instance and adds a prefix-closed set to what is
\* recorded keeps the invariant, if the instance's new state fits it.
LEMMA InstanceMoves ==
    ASSUME MigInv, NEW i \in Instances, NEW p \in Mig!Procs,
           proc' = [proc EXCEPT ![i] = p],
           ifNotExists' = ifNotExists, faults' \in 0 .. MaxFaults,
           recorded \subseteq recorded', recorded' \subseteq Mig!Versions,
           schema' = recorded', \A v \in recorded' : 1 .. v \subseteq recorded',
           p.done \subseteq recorded', 1 .. p.at - 1 \subseteq recorded',
           p.pc \in {"record", "commit"} => p.at \in Mig!Versions,
           p.pc = "serving" => p.at = Files + 1
    PROVE  MigInv'
<1>1. proc \in [Instances -> Mig!Procs]
  BY DEF MigInv, Mig!MigrationsTypeOK
<1>2. Mig!MigrationsTypeOK'
  BY <1>1 DEF MigInv, Mig!MigrationsTypeOK
<1>3. ASSUME NEW j \in Instances
      PROVE  /\ proc'[j].done \subseteq recorded'
             /\ 1 .. proc'[j].at - 1 \subseteq recorded'
             /\ proc'[j].pc \in {"record", "commit"} => proc'[j].at \in Mig!Versions
             /\ proc'[j].pc = "serving" => proc'[j].at = Files + 1
  <2>1. CASE j = i
    BY <1>1, <2>1
  <2>2. CASE j # i
    <3>1. proc'[j] = proc[j]
      BY <1>1, <2>2
    <3>2. QED
      BY <3>1 DEF MigInv, Passed, Mig!InTx
  <2>3. QED
    BY <2>1, <2>2
<1>4. QED
  BY <1>2, <1>3 DEF MigInv, Passed, Mig!RecordedIsApplied, Mig!InTx

LEMMA MigStep ==
    ASSUME Mig!MigrationsAssumption, MigInv, [Mig!Next]_(Mig!vars)
    PROVE  MigInv'
<1>0. /\ Files \in Nat /\ MaxFaults \in Nat
      /\ proc \in [Instances -> Mig!Procs]
      /\ schema = recorded /\ recorded \subseteq Mig!Versions
      /\ \A v \in recorded : 1 .. v \subseteq recorded
      /\ faults \in 0 .. MaxFaults
  <2>1. Mig!MigrationsTypeOK /\ Mig!RecordedIsApplied
    BY DEF MigInv, Passed
  <2>2. Files \in Nat /\ MaxFaults \in Nat
    BY DEF Mig!MigrationsAssumption
  <2>3. QED
    BY <2>1, <2>2 DEF Mig!MigrationsTypeOK, Mig!RecordedIsApplied
<1>1. CASE UNCHANGED Mig!vars
  BY <1>1 DEF Mig!vars, MigInv, Mig!MigrationsTypeOK, Passed, Mig!RecordedIsApplied, Mig!InTx
<1> SUFFICES ASSUME NEW i \in Instances, Mig!Step(i) \/ Mig!Crash(i)
             PROVE  MigInv'
  BY <1>1 DEF Mig!Next
<1>2. /\ proc[i].pc \in {"down", "read", "loop", "record", "commit", "serving"}
      /\ proc[i].done \in SUBSET Mig!Versions /\ proc[i].at \in 1 .. Files + 1
      /\ proc[i] = [pc |-> proc[i].pc, done |-> proc[i].done, at |-> proc[i].at]
  BY <1>0 DEF Mig!Procs
<1>3. /\ proc[i].done \subseteq recorded /\ 1 .. proc[i].at - 1 \subseteq recorded
      /\ Mig!InTx(i) => proc[i].at \in Mig!Versions
  BY DEF MigInv, Passed
<1>4. ASSUME proc' = [proc EXCEPT ![i] = Mig!Stopped], faults' \in 0 .. MaxFaults,
             UNCHANGED <<ifNotExists, schema, recorded>>
      PROVE  MigInv'
  <2>1. 1 .. Mig!Stopped.at - 1 = {}
    BY StoppedTyped
  <2>2. QED
    BY <1>0, <1>4, <2>1, StoppedTyped, InstanceMoves
<1>5. CASE Mig!Start(i)
  <2> DEFINE p == [Mig!Stopped EXCEPT !.pc = "read"]
  <2>1. p \in Mig!Procs /\ p.pc = "read" /\ p.done = {} /\ 1 .. p.at - 1 = {}
    <3>1. 1 \in 1 .. Files + 1 /\ {} \in SUBSET Mig!Versions
      BY <1>0
    <3>2. QED
      BY <3>1 DEF Mig!Stopped, Mig!Procs
  <2>2. /\ proc' = [proc EXCEPT ![i] = p]
        /\ UNCHANGED <<ifNotExists, faults, schema, recorded>>
    BY <1>5 DEF Mig!Start, Mig!Go
  <2> HIDE DEF p
  <2>3. QED
    BY <1>0, <2>1, <2>2, InstanceMoves
<1>6. CASE Mig!ReadDone(i)
  <2> DEFINE p == [pc |-> "loop", done |-> recorded, at |-> 1]
  <2>1. p \in Mig!Procs /\ p.pc = "loop" /\ p.done = recorded /\ 1 .. p.at - 1 = {}
    BY <1>0 DEF Mig!Procs
  <2>2. /\ proc' = [proc EXCEPT ![i] = p]
        /\ UNCHANGED <<ifNotExists, faults, schema, recorded>>
    BY <1>6 DEF Mig!ReadDone, Mig!Go
  <2> HIDE DEF p
  <2>3. QED
    BY <1>0, <2>1, <2>2, InstanceMoves
<1>7. CASE Mig!Skip(i)
  <2> DEFINE p == [proc[i] EXCEPT !.at = @ + 1]
  <2>1. proc[i].pc = "loop" /\ proc[i].at \in recorded /\ proc[i].at \in Mig!Versions
    BY <1>0, <1>3, <1>7 DEF Mig!Skip
  <2>2. /\ p.pc = "loop" /\ p.done = proc[i].done /\ p.at = proc[i].at + 1
        /\ p \in Mig!Procs
    <3>1. proc[i].at + 1 \in 1 .. Files + 1
      BY <1>0, <2>1 DEF Mig!Versions
    <3>2. p = [pc |-> proc[i].pc, done |-> proc[i].done, at |-> proc[i].at + 1]
      BY <1>2
    <3>3. QED
      BY <1>2, <2>1, <3>1, <3>2 DEF Mig!Procs
  <2>3. 1 .. p.at - 1 \subseteq recorded
    BY <1>0, <1>2, <2>1, <2>2
  <2>4. /\ proc' = [proc EXCEPT ![i] = p]
        /\ UNCHANGED <<ifNotExists, faults, schema, recorded>>
    BY <1>7 DEF Mig!Skip, Mig!Go
  <2> HIDE DEF p
  <2>5. QED
    BY <1>0, <1>3, <2>2, <2>3, <2>4, InstanceMoves
<1>8. ASSUME NEW next \in {"record", "commit", "serving"},
             Mig!Go(i, [proc[i] EXCEPT !.pc = next]), UNCHANGED <<schema, recorded>>,
             next = "serving" => proc[i].at = Files + 1,
             next # "serving" => proc[i].at \in Mig!Versions
      PROVE  MigInv'
  <2> DEFINE p == [proc[i] EXCEPT !.pc = next]
  <2>1. p \in Mig!Procs /\ p.pc = next /\ p.done = proc[i].done /\ p.at = proc[i].at
    BY <1>0, <1>2 DEF Mig!Procs
  <2>2. /\ proc' = [proc EXCEPT ![i] = p]
        /\ UNCHANGED <<ifNotExists, faults, schema, recorded>>
    BY <1>8 DEF Mig!Go
  <2> HIDE DEF p
  <2>3. QED
    BY <1>0, <1>3, <1>8, <2>1, <2>2, InstanceMoves
<1>9. CASE Mig!Apply(i)
  BY <1>0, <1>4, <1>8, <1>9 DEF Mig!Apply, Mig!Exit, Mig!Go
<1>10. CASE Mig!Record(i)
  BY <1>0, <1>3, <1>4, <1>8, <1>10 DEF Mig!Record, Mig!Exit, Mig!Go, Mig!InTx
<1>11. CASE Mig!Commit(i)
  <2> DEFINE p == [pc |-> "loop", done |-> proc[i].done, at |-> proc[i].at + 1]
  <2>1. proc[i].at \in Mig!Versions
    BY <1>3, <1>11 DEF Mig!Commit, Mig!InTx
  <2>2. /\ p.pc = "loop" /\ p.done = proc[i].done /\ p.at = proc[i].at + 1
        /\ p \in Mig!Procs
    <3>1. proc[i].at + 1 \in 1 .. Files + 1
      BY <1>0, <2>1 DEF Mig!Versions
    <3>2. QED
      BY <1>2, <3>1 DEF Mig!Procs
  <2>3. /\ proc' = [proc EXCEPT ![i] = p]
        /\ UNCHANGED <<ifNotExists, faults>>
        /\ recorded' = recorded \cup {proc[i].at} /\ schema' = recorded'
    BY <1>0, <1>11 DEF Mig!Commit, Mig!Go
  <2>4. 1 .. proc[i].at \subseteq recorded' /\ recorded' \subseteq Mig!Versions
    <3>1. 1 .. proc[i].at = (1 .. proc[i].at - 1) \cup {proc[i].at}
      BY <1>2
    <3>2. QED
      BY <1>0, <1>3, <2>1, <2>3, <3>1
  <2>5. p.at - 1 = proc[i].at
    BY <1>2, <2>2
  <2>6. /\ recorded \subseteq recorded' /\ p.done \subseteq recorded'
        /\ 1 .. p.at - 1 \subseteq recorded'
        /\ \A v \in recorded' : 1 .. v \subseteq recorded'
    BY <1>0, <1>3, <2>2, <2>3, <2>4, <2>5
  <2> HIDE DEF p
  <2>7. QED
    BY <1>0, <2>2, <2>3, <2>4, <2>6, InstanceMoves
<1>12. CASE Mig!Serve(i)
  <2>1. proc[i].at = Files + 1
    BY <1>0, <1>2, <1>12 DEF Mig!Serve
  <2>2. QED
    BY <1>8, <1>12, <2>1 DEF Mig!Serve
<1>13. CASE Mig!Crash(i)
  <2>1. faults' \in 0 .. MaxFaults
    BY <1>0, <1>13 DEF Mig!Crash
  <2>2. QED
    BY <1>4, <1>13, <2>1 DEF Mig!Crash
<1> QED
  BY <1>5, <1>6, <1>7, <1>9, <1>10, <1>11, <1>12, <1>13 DEF Mig!Step

LEMMA MigServes ==
    ASSUME Mig!MigrationsAssumption, MigInv
    PROVE  Mig!ServesMigrated
<1> SUFFICES ASSUME NEW i \in Instances, proc[i].pc = "serving"
             PROVE  recorded = Mig!Versions
  BY DEF Mig!ServesMigrated
<1>1. recorded \subseteq Mig!Versions
  BY DEF MigInv, Mig!MigrationsTypeOK
<1>2. proc[i].at = Files + 1 /\ 1 .. proc[i].at - 1 \subseteq recorded
  BY DEF MigInv, Passed
<1>3. proc[i].at - 1 = Files
  BY <1>2 DEF Mig!MigrationsAssumption
<1>4. QED
  BY <1>1, <1>2, <1>3 DEF Mig!Versions

\* The schema has what schema_migrations says, a prefix of the files, at every
\* moment of any number of starts and crashes (postgres.go, Migrate), and an
\* instance that serves has every table, although the list it read may be
\* older than what others have applied since (cmd/server/main.go, main).
THEOREM SchemaAlwaysRecorded == ServersSpec => []SchemaIsRecorded
<1> DEFINE I == program = "migrations" => MigInv
<1>1. ServersInit => I
  BY ServersAssumption, ServersBegin, MigInit
<1>2. I /\ [ServersNext]_everything => I'
  BY ServersAssumption, ServersMove, MigStep
<1>3. I => SchemaIsRecorded
  BY ServersAssumption, MigServes DEF SchemaIsRecorded, MigInv, Passed
<1>4. QED
  BY <1>1, <1>2, <1>3, PTL DEF ServersSpec
-----------------------------------------------------------------------------
(* Graceful shutdown: ShutdownOrder *)

ClosedPhases == {"drain", "stopWorkers", "wait", "closeDb", "closing"}
Leaving == {"closeDb", "closing"}
CutOff == {r \in Requests : req[r] = "cut"}

\* Where run() is says what has been closed behind it: readiness goes before
\* the listener, only lesson 42 stops workers and only with nobody in a handler,
\* and a request is cut off only on the way to an exit that is not clean.  Only
\* the capstone answers for a handler that goes on.
Phases ==
    /\ daemon \in {"lesson42", "lesson46", "capstone", "limiter", "gateway"}
    /\ Shut!Running <=> pc # "gone"
    /\ pc = "open" => Shut!HasPool
    /\ pc \in {"stopWorkers", "wait"} => daemon = "lesson42"
    /\ leaving = "dirty" => pc \in Leaving \cup {"gone"}
    /\ daemon = "lesson42" /\ pc = "serve" => listening
    /\ daemon = "lesson42" /\ pc \in {"shutdown"} \cup ClosedPhases => ~ready
    /\ pc \in ClosedPhases => ~listening
    /\ stop /\ pc # "gone" => daemon = "lesson42" /\ pc \in {"wait", "closeDb", "closing"}

Finished ==
    /\ pc \in {"stopWorkers", "wait"} \/ (daemon = "lesson42" /\ pc \in Leaving) => Shut!Active = {}
    /\ pc \in Leaving /\ leaving = "clean" =>
            Shut!Active = {} /\ (daemon = "lesson42" => Shut!AllStopped)
    /\ pc # "gone" /\ leaving = "clean" => CutOff = {}
    /\ exit = "clean" => CutOff = {}
    /\ \A r \in using : req[r] \in {"active", "overdue", "cut"}
    /\ \A r \in Requests : req[r] = "overdue" => daemon = "capstone"

ShutInv == Shut!ShutdownTypeOK /\ Phases /\ Finished

LEMMA ShutInit ==
    ASSUME Shut!ShutdownAssumption, Shut!Init
    PROVE  ShutInv
<1> USE DEF Shut!Init, Shut!HasPool, Shut!Running, Shut!Active, Shut!AllStopped, CutOff,
            ClosedPhases, Leaving
<1>1. Shut!ShutdownTypeOK
  <2>1. signals \in 0 .. MaxSignals
    BY DEF Shut!ShutdownAssumption
  <2>2. {caught, ctxDone, ready, listening, stop, pool, late} \subseteq BOOLEAN
    OBVIOUS
  <2>3. /\ pc \in {"open", "serve"} /\ using \subseteq Requests
        /\ req \in [Requests -> {"new", "active", "answered", "overdue", "cut"}]
        /\ work \in [Workers -> {"ticking", "finishing", "stopped"}]
    OBVIOUS
  <2>4. QED
    BY <2>1, <2>2, <2>3 DEF Shut!ShutdownTypeOK
<1>2. Phases
  BY DEF Phases
<1>3. Finished
  BY DEF Finished
<1>4. QED
  BY <1>1, <1>2, <1>3 DEF ShutInv

\* The process ends: clean only where nobody can be cut off.
LEMMA Dies ==
    ASSUME ShutInv, NEW how \in {"clean", "dirty", "killed"}, Shut!Die(how),
           how = "clean" => Shut!Active = {} /\ CutOff = {},
           daemon' = daemon, signals' \in 0 .. MaxSignals,
           caught' \in BOOLEAN, ctxDone' \in BOOLEAN, ready' \in BOOLEAN, stop' \in BOOLEAN,
           UNCHANGED <<work, pool>>, late' \in BOOLEAN, leaving' \in {"clean", "dirty"}
    PROVE  ShutInv'
<1>1. /\ pc' = "gone" /\ exit' = how /\ listening' = FALSE /\ using' = {} /\ req' = Shut!Cut
      /\ req \in [Requests -> {"new", "active", "answered", "overdue", "cut"}]
  BY DEF Shut!Die, ShutInv, Shut!ShutdownTypeOK
<1>2. /\ req' \in [Requests -> {"new", "active", "answered", "overdue", "cut"}]
      /\ how = "clean" => CutOff' = {}
      /\ \A r \in Requests : req'[r] = "overdue" => req[r] = "overdue"
  BY <1>1 DEF Shut!Cut, Shut!Active, CutOff
<1>3. Shut!ShutdownTypeOK'
  BY <1>1, <1>2 DEF ShutInv, Shut!ShutdownTypeOK
<1>4. Phases'
  BY <1>1 DEF ShutInv, Phases, Shut!Running, Leaving, ClosedPhases
<1>5. Finished'
  BY <1>1, <1>2 DEF ShutInv, Finished, Leaving
<1>6. QED
  BY <1>3, <1>4, <1>5 DEF ShutInv

LEMMA ShutStep ==
    ASSUME Shut!ShutdownAssumption, ShutInv, [Shut!Next]_(Shut!vars)
    PROVE  ShutInv'
<1> USE DEF Shut!world, Shut!served, Shut!behind
<1>0. /\ pc \in {"open", "serve", "shutdown", "drain", "stopWorkers", "wait", "closeDb", "closing", "gone"}
      /\ req \in [Requests -> {"new", "active", "answered", "overdue", "cut"}]
      /\ work \in [Workers -> {"ticking", "finishing", "stopped"}]
      /\ signals \in 0 .. MaxSignals /\ MaxSignals \in Nat
      /\ {caught, ctxDone, ready, listening, stop, pool, late} \subseteq BOOLEAN
      /\ leaving \in {"clean", "dirty"} /\ using \subseteq Requests
  BY DEF ShutInv, Shut!ShutdownTypeOK, Shut!ShutdownAssumption
<1>1. CASE UNCHANGED Shut!vars
  BY <1>1 DEF Shut!vars, ShutInv, Shut!ShutdownTypeOK, Phases, Finished, Shut!HasPool,
              Shut!Running, Shut!Active, Shut!AllStopped, CutOff
<1>2. CASE Shut!Signal
  <2>1. signals' \in 0 .. MaxSignals
    BY <1>0, <1>2 DEF Shut!Signal
  <2>2. CASE caught
    <3>1. /\ UNCHANGED <<daemon, pc, listening, req, using, exit, caught, ready, work, stop, pool,
                         late, leaving>>
          /\ ctxDone' = TRUE
      BY <1>2, <2>2 DEF Shut!Signal
    <3>2. Shut!ShutdownTypeOK'
      BY <2>1, <3>1 DEF ShutInv, Shut!ShutdownTypeOK
    <3>3. Phases' /\ Finished'
      BY <3>1 DEF ShutInv, Phases, Finished, Shut!HasPool, Shut!Running, Shut!Active,
                  Shut!AllStopped, CutOff
    <3>4. QED
      BY <3>2, <3>3 DEF ShutInv
  <2>3. CASE ~caught
    <3>1. Shut!Die("killed")
      BY <1>2, <2>3 DEF Shut!Signal
    <3>2. QED
      BY <1>0, <1>2, <2>1, <3>1, Dies DEF Shut!Signal
  <2>4. QED
    BY <2>2, <2>3
<1>3. CASE Shut!DemoStops
  <2>1. signals' \in 0 .. MaxSignals
    BY <1>0, <1>3 DEF Shut!DemoStops
  <2>2. /\ UNCHANGED <<daemon, pc, ready, listening, req, using, work, stop, pool, late, leaving, exit>>
        /\ caught' = FALSE /\ ctxDone' = TRUE
    BY <1>3 DEF Shut!DemoStops
  <2>3. Shut!ShutdownTypeOK'
    BY <2>1, <2>2 DEF ShutInv, Shut!ShutdownTypeOK
  <2>4. Phases' /\ Finished'
    BY <2>2 DEF ShutInv, Phases, Finished, Shut!HasPool, Shut!Running, Shut!Active,
                Shut!AllStopped, CutOff
  <2>5. QED
    BY <2>3, <2>4 DEF ShutInv
\* What clients, handlers, workers and the deadline do.
<1>4. ASSUME NEW r \in Requests, Shut!Send(r) \/ Shut!Query(r) \/ Shut!QueryEnds(r) \/ Shut!Respond(r)
                                     \/ Shut!Overdue(r)
      PROVE  ShutInv'
  <2>1. /\ UNCHANGED <<daemon, pc, signals, caught, ctxDone, ready, listening, work, stop, pool,
                       late, leaving, exit>>
        /\ req' \in [Requests -> {"new", "active", "answered", "overdue", "cut"}] /\ using' \subseteq Requests
        /\ Shut!Running
    BY <1>0, <1>4 DEF Shut!Send, Shut!Query, Shut!QueryEnds, Shut!Respond, Shut!Overdue
  <2>2. Shut!ShutdownTypeOK'
    BY <2>1 DEF ShutInv, Shut!ShutdownTypeOK
  <2>3. Phases'
    BY <2>1 DEF ShutInv, Phases, Shut!HasPool, Shut!Running
  <2>4. CutOff' = CutOff
    BY <1>0, <1>4 DEF CutOff, Shut!Send, Shut!Query, Shut!QueryEnds, Shut!Respond, Shut!Overdue
  <2>5. Shut!Active' \subseteq Shut!Active \/ listening
    BY <1>0, <1>4 DEF Shut!Active, Shut!Send, Shut!Query, Shut!QueryEnds, Shut!Respond, Shut!Overdue
  <2>6. /\ \A q \in using' : req'[q] \in {"active", "overdue", "cut"}
        /\ \A q \in Requests : req'[q] = "overdue" => daemon = "capstone"
    BY <1>0, <1>4 DEF ShutInv, Finished, Shut!Send, Shut!Query, Shut!QueryEnds, Shut!Respond, Shut!Overdue
  <2>7. pc \in ClosedPhases => Shut!Active' \subseteq Shut!Active
    BY <2>5 DEF ShutInv, Phases
  <2>8. Finished'
    BY <2>1, <2>4, <2>6, <2>7 DEF ShutInv, Finished, Leaving, ClosedPhases, Shut!AllStopped, Phases,
                                  Shut!Running
  <2>9. QED
    BY <2>2, <2>3, <2>8 DEF ShutInv
<1>5. ASSUME NEW w \in Workers, Shut!Drain(w)
      PROVE  ShutInv'
  <2>1. /\ UNCHANGED <<daemon, pc, signals, caught, ctxDone, ready, listening, req, using, stop, pool,
                       late, leaving, exit>>
        /\ work' \in [Workers -> {"ticking", "finishing", "stopped"}]
        /\ Shut!AllStopped => Shut!AllStopped'
    BY <1>0, <1>5 DEF Shut!Drain, Shut!AllStopped
  <2>2. Shut!ShutdownTypeOK'
    BY <2>1 DEF ShutInv, Shut!ShutdownTypeOK
  <2>3. Phases' /\ Finished'
    BY <2>1 DEF ShutInv, Phases, Finished, Shut!HasPool, Shut!Running, Shut!Active, CutOff
  <2>4. QED
    BY <2>2, <2>3 DEF ShutInv
<1>6. CASE Shut!Expire
  <2>1. /\ UNCHANGED <<daemon, pc, signals, caught, ctxDone, ready, listening, req, using, work, stop,
                       pool, leaving, exit>>
        /\ late' = TRUE
    BY <1>6 DEF Shut!Expire
  <2>2. Shut!ShutdownTypeOK'
    BY <2>1 DEF ShutInv, Shut!ShutdownTypeOK
  <2>3. Phases' /\ Finished'
    BY <2>1 DEF ShutInv, Phases, Finished, Shut!HasPool, Shut!Running, Shut!Active, Shut!AllStopped,
                CutOff
  <2>4. QED
    BY <2>2, <2>3 DEF ShutInv
\* What run() does.
<1>7. ASSUME Shut!Running, UNCHANGED <<req, using, work, exit, leaving, signals, daemon, late>>,
             {caught', ctxDone', ready', listening', stop', pool'} \subseteq BOOLEAN,
             pc' \in {"serve", "shutdown", "drain", "stopWorkers", "wait", "closeDb", "closing"},
             Phases', Finished'
      PROVE  ShutInv'
  <2>1. Shut!ShutdownTypeOK'
    BY <1>7 DEF ShutInv, Shut!ShutdownTypeOK
  <2>2. QED
    BY <1>7, <2>1 DEF ShutInv
<1>8. Shut!Running => leaving = "dirty" \/ CutOff = {}
  BY <1>0 DEF ShutInv, Phases, Finished
<1>9. CASE Shut!OpenDb
  <2> USE DEF Shut!OpenDb, Shut!At, Shut!Running
  <2>1. Phases'
    BY <1>9 DEF ShutInv, Phases, Leaving, ClosedPhases
  <2>2. Finished'
    BY <1>9 DEF ShutInv, Phases, Finished, Leaving, Shut!Active, CutOff
  <2>3. QED
    BY <1>0, <1>7, <1>9, <2>1, <2>2
<1>10. CASE Shut!ContextDone
  <2> USE DEF Shut!ContextDone, Shut!At, Shut!Running
  <2>1. Phases'
    <3>1. daemon = "lesson42" => ~ready'
      <4>1. ready' = (daemon # "lesson42")
        BY <1>10
      <4> HIDE DEF Shut!ContextDone
      <4>2. QED
        BY <4>1
    <3>2. /\ UNCHANGED <<daemon, stop, leaving, exit>>
          /\ pc = "serve" /\ pc' = "shutdown"
      BY <1>10
    <3>3. QED
      BY <3>1, <3>2 DEF ShutInv, Phases, Leaving, ClosedPhases
  <2>2. Finished'
    BY <1>10 DEF ShutInv, Phases, Finished, Leaving, Shut!Active, CutOff
  <2>3. {ready', caught'} \subseteq BOOLEAN
    BY <1>0, <1>10
  <2>4. QED
    BY <1>0, <1>7, <1>10, <2>1, <2>2, <2>3
<1>11. CASE Shut!CloseListener
  <2> USE DEF Shut!CloseListener, Shut!At, Shut!Running
  <2>1. Phases'
    BY <1>11 DEF ShutInv, Phases, Leaving, ClosedPhases
  <2>2. Finished'
    BY <1>11 DEF ShutInv, Phases, Finished, Leaving, Shut!Active, CutOff
  <2>3. QED
    BY <1>0, <1>7, <1>11, <2>1, <2>2
<1>12. CASE Shut!StopWorkers
  <2> USE DEF Shut!StopWorkers, Shut!At, Shut!Running
  <2>1. Phases'
    BY <1>12 DEF ShutInv, Phases, Leaving, ClosedPhases
  <2>2. Finished'
    BY <1>12 DEF ShutInv, Phases, Finished, Leaving, Shut!Active, CutOff
  <2>3. QED
    BY <1>0, <1>7, <1>12, <2>1, <2>2
<1>13. CASE Shut!WorkersDone
  <2> USE DEF Shut!WorkersDone, Shut!At, Shut!Running
  <2>1. Phases'
    BY <1>13 DEF ShutInv, Phases, Leaving, ClosedPhases
  <2>2. Finished'
    BY <1>13 DEF ShutInv, Phases, Finished, Leaving, Shut!Active, CutOff, Shut!AllStopped
  <2>3. QED
    BY <1>0, <1>7, <1>13, <2>1, <2>2
<1>14. CASE Shut!CloseDb
  <2> USE DEF Shut!CloseDb, Shut!At, Shut!Running
  <2>1. Phases'
    BY <1>14 DEF ShutInv, Phases, Leaving, ClosedPhases
  <2>2. Finished'
    BY <1>14 DEF ShutInv, Phases, Finished, Leaving, Shut!Active, CutOff, Shut!AllStopped
  <2>3. QED
    BY <1>0, <1>7, <1>14, <2>1, <2>2
\* The ways to return: an error, with the pool to be closed first or without,
\* and the end of a drain.
<1>15. ASSUME Shut!Running, pc # "open", NEW how \in {"clean", "dirty"}, Shut!Leave(how),
              how = "clean" => Shut!Active = {} /\ CutOff = {},
              ~stop \/ ~Shut!HasPool, Shut!HasPool => daemon # "lesson42",
              UNCHANGED <<daemon, signals, work, pool, ready, late>>,
              caught' \in BOOLEAN, ctxDone' \in BOOLEAN, stop' \in BOOLEAN,
              Shut!HasPool => stop' = stop
       PROVE  ShutInv'
  <2>1. CASE Shut!HasPool
    <3>1. /\ pc' = "closeDb" /\ listening' = FALSE /\ UNCHANGED <<req, using, exit>>
          /\ leaving' = how /\ ~stop'
      BY <1>15, <2>1 DEF Shut!Leave
    <3>2. Shut!ShutdownTypeOK'
      BY <1>0, <1>15, <3>1 DEF ShutInv, Shut!ShutdownTypeOK
    <3>3. Phases'
      BY <1>15, <2>1, <3>1 DEF ShutInv, Phases, Leaving, ClosedPhases, Shut!Running, Shut!HasPool
    <3>4. Finished'
      BY <1>15, <2>1, <3>1 DEF ShutInv, Finished, Leaving, Shut!Active, CutOff, Shut!Running
    <3>5. QED
      BY <3>2, <3>3, <3>4 DEF ShutInv
  <2>2. CASE ~Shut!HasPool
    <3>1. Shut!Die(how) /\ leaving' = how
      BY <1>15, <2>2 DEF Shut!Leave
    <3>2. QED
      BY <1>0, <1>15, <3>1, Dies
  <2>3. QED
    BY <2>1, <2>2
<1>16. CASE Shut!OpenFails
  <2>1. Shut!Die("dirty") /\ leaving' = "dirty"
    BY <1>16 DEF Shut!OpenFails, Shut!Leave, Shut!At
  <2>2. QED
    BY <1>0, <1>16, <2>1, Dies DEF Shut!OpenFails
<1>17. CASE Shut!ServerFails
  <2>1. pc = "serve" /\ Shut!Running /\ UNCHANGED <<daemon, signals, ready, work, pool, late>>
    BY <1>17 DEF Shut!ServerFails, Shut!At
  <2>2. ~stop
    BY <2>1 DEF ShutInv, Phases
  <2>3. stop' \in BOOLEAN /\ (daemon # "lesson42" => stop' = stop)
    BY <1>0, <1>17 DEF Shut!ServerFails
  <2>4. CASE daemon = "lesson46"
    <3>1. /\ UNCHANGED <<pc, req, using, leaving, exit>>
          /\ listening' = FALSE /\ caught' = FALSE /\ ctxDone' = TRUE
      BY <1>17, <2>4 DEF Shut!ServerFails
    <3>2. ~stop'
      BY <2>2, <2>3, <2>4
    <3>3. Phases'
      BY <2>1, <2>4, <3>1, <3>2 DEF ShutInv, Phases, Leaving, ClosedPhases, Shut!Running, Shut!HasPool
    <3>4. Finished'
      BY <2>1, <3>1 DEF ShutInv, Finished, Leaving, Shut!Active, CutOff
    <3>5. QED
      BY <1>0, <1>7, <2>1, <2>3, <3>1, <3>3, <3>4
  <2>5. CASE daemon # "lesson46"
    <3>1. Shut!Leave("dirty") /\ UNCHANGED <<caught, ctxDone>>
      BY <1>17, <2>5 DEF Shut!ServerFails
    <3>2. Shut!HasPool => daemon # "lesson42"
      BY DEF Shut!HasPool
    <3>3. QED
      BY <1>0, <1>15, <2>1, <2>2, <2>3, <3>1, <3>2
  <2>6. QED
    BY <2>4, <2>5
<1>18. CASE Shut!Drained
  <2>1. /\ pc = "drain" /\ Shut!Running /\ Shut!Active = {}
        /\ UNCHANGED <<daemon, signals, caught, ctxDone, ready, work, stop, pool, late>>
    BY <1>18 DEF Shut!Drained, Shut!At
  <2>2. ~stop /\ leaving = "clean" /\ CutOff = {}
    BY <1>0, <2>1 DEF ShutInv, Phases, Finished, Leaving
  <2>3. CASE daemon = "lesson42"
    <3>1. pc' = "stopWorkers" /\ UNCHANGED <<listening, req, using, leaving, exit>>
      BY <1>18, <2>3 DEF Shut!Drained
    <3>2. Phases'
      BY <2>1, <2>2, <2>3, <3>1 DEF ShutInv, Phases, Leaving, ClosedPhases, Shut!Running, Shut!HasPool
    <3>3. Finished'
      BY <2>1, <2>2, <3>1 DEF ShutInv, Finished, Leaving, Shut!Active, CutOff
    <3>4. QED
      BY <1>0, <1>7, <2>1, <3>1, <3>2, <3>3
  <2>4. CASE daemon # "lesson42"
    <3>1. Shut!Leave("clean")
      BY <1>18, <2>4 DEF Shut!Drained
    <3>2. QED
      BY <1>0, <1>15, <2>1, <2>2, <2>4, <3>1
  <2>5. QED
    BY <2>3, <2>4
<1>19. CASE Shut!DrainTimedOut
  <2>0. /\ pc = "drain" /\ Shut!Running /\ leaving' = "dirty" /\ stop' = (daemon = "lesson42")
        /\ UNCHANGED <<daemon, signals, caught, ctxDone, ready, work, pool, late>>
    BY <1>19 DEF Shut!DrainTimedOut, Shut!At
  <2>1. /\ pc = "drain" /\ Shut!Running /\ leaving' = "dirty" /\ stop' \in BOOLEAN
        /\ UNCHANGED <<daemon, signals, caught, ctxDone, ready, work, pool, late>>
        /\ daemon # "lesson42" => ~stop'
    BY <2>0
  <2>2. CASE Shut!HasPool
    <3>1. pc' = "closeDb" /\ UNCHANGED <<listening, using, exit>> /\ (req' = Shut!Cut \/ req' = req)
      BY <1>19, <2>2 DEF Shut!DrainTimedOut
    <3>2. /\ req' \in [Requests -> {"new", "active", "answered", "overdue", "cut"}]
          /\ \A r \in using' : req'[r] \in {"active", "overdue", "cut"}
          /\ \A r \in Requests : req'[r] = "overdue" => req[r] = "overdue"
      BY <1>0, <3>1 DEF Shut!Cut, ShutInv, Finished
    <3>3. daemon # "lesson42" /\ ~stop'
      BY <2>1, <2>2 DEF Shut!HasPool
    <3>4. Shut!ShutdownTypeOK'
      BY <1>0, <2>1, <3>1, <3>2 DEF ShutInv, Shut!ShutdownTypeOK
    <3>5. Phases'
      BY <2>1, <2>2, <3>1, <3>3 DEF ShutInv, Phases, Leaving, ClosedPhases, Shut!Running, Shut!HasPool
    <3>6. Finished'
      BY <2>1, <3>1, <3>2, <3>3 DEF ShutInv, Finished, Leaving, Shut!Running
    <3>7. QED
      BY <3>4, <3>5, <3>6 DEF ShutInv
  <2>3. CASE ~Shut!HasPool
    <3>1. Shut!Die("dirty")
      BY <1>19, <2>3 DEF Shut!DrainTimedOut
    <3>2. QED
      BY <1>0, <2>1, <3>1, Dies
  <2>4. QED
    BY <2>2, <2>3
<1>20. CASE Shut!WorkersTimedOut
  <2>1. daemon = "lesson42" /\ pc = "wait"
    BY <1>20 DEF Shut!WorkersTimedOut, Shut!At, ShutInv, Phases
  <2>2. Shut!Die("dirty") /\ leaving' = "dirty"
    BY <1>20, <2>1 DEF Shut!WorkersTimedOut, Shut!Leave, Shut!HasPool
  <2>3. QED
    BY <1>0, <1>20, <2>2, Dies DEF Shut!WorkersTimedOut
<1>21. CASE Shut!Closed
  <2>1. pc = "closing" /\ Shut!Die(leaving) /\ pc # "gone"
    BY <1>21 DEF Shut!Closed, Shut!At
  <2>2. leaving = "clean" => Shut!Active = {} /\ CutOff = {}
    BY <2>1 DEF ShutInv, Finished, Leaving
  <2>3. QED
    BY <1>0, <1>21, <2>1, <2>2, Dies DEF Shut!Closed
<1>22. QED
  BY <1>1, <1>2, <1>3, <1>4, <1>5, <1>6, <1>9, <1>10, <1>11, <1>12, <1>13, <1>14, <1>16, <1>17,
     <1>18, <1>19, <1>20, <1>21 DEF Shut!Next, Shut!Run

LEMMA ShutOrdered ==
    ASSUME ShutInv
    PROVE  Shut!ShutdownOrder
<1>1. pc \in {"open", "serve", "shutdown", "drain", "stopWorkers", "wait", "closeDb", "closing", "gone"}
  BY DEF ShutInv, Shut!ShutdownTypeOK
<1>2. Shut!Running /\ daemon = "lesson42" /\ ~listening => ~ready
  BY <1>1 DEF ShutInv, Phases, ClosedPhases, Shut!HasPool
<1>3. Shut!Running /\ stop => ~listening /\ Shut!Active = {}
  BY DEF ShutInv, Phases, Finished, ClosedPhases, Leaving
<1>4. pc \in Leaving /\ leaving = "clean" =>
            /\ Shut!Active = {} /\ \A r \in using : daemon = "capstone" /\ req[r] = "overdue"
            /\ daemon = "lesson42" => Shut!AllStopped
  <2>1. SUFFICES ASSUME pc \in Leaving, leaving = "clean"
                 PROVE  \A r \in using : daemon = "capstone" /\ req[r] = "overdue"
    BY DEF ShutInv, Finished
  <2>2. Shut!Active = {} /\ CutOff = {}
    BY <2>1 DEF ShutInv, Finished, Leaving
  <2>3. \A r \in using : r \in Requests /\ (r \in Shut!Active \/ r \in CutOff \/ req[r] = "overdue")
    BY DEF ShutInv, Finished, Shut!Active, CutOff, Shut!ShutdownTypeOK
  <2>4. QED
    BY <2>2, <2>3 DEF ShutInv, Finished
<1>5. exit = "clean" => \A r \in Requests : req[r] # "cut"
  BY DEF ShutInv, Finished, CutOff
<1>6. QED
  BY <1>2, <1>3, <1>4, <1>5 DEF Shut!ShutdownOrder, Leaving

\* Readiness, listener, workers, dependencies: the five programs close in this
\* order under any signals, failures, slow handlers and deadlines.  An exit
\* status of 0 means that no client was cut off; a statement may then still be
\* under way, but only in the capstone and only for a request that Timeout has
\* answered while its handler goes on (42 main.go, run; 47 main.go, run;
\* 47 middleware.go, Timeout).
THEOREM ShutsDownInOrder == ServersSpec => []ShutdownOrder
<1> DEFINE I == program = "shutdown" => ShutInv
<1>1. ServersInit => I
  BY ServersAssumption, ServersBegin, ShutInit
<1>2. I /\ [ServersNext]_everything => I'
  BY ServersAssumption, ServersMove, ShutStep
<1>3. I => ShutdownOrder
  BY ShutOrdered DEF ShutdownOrder
<1>4. QED
  BY <1>1, <1>2, <1>3, PTL DEF ServersSpec

-----------------------------------------------------------------------------
(* Configuration loading: StartedIsSound *)

Unset == [k \in Conf!Keys |-> "default"]

\* What each layer has let through is in the configuration, without a value
\* that did not parse; no layer sets what the program does not have.
Layered ==
    /\ errs \subseteq Conf!KeysOf(loader)
    /\ \A k \in Conf!Keys \ Conf!KeysOf(loader) : env[k] = "default" /\ flags[k] = "default"
    /\ stage = "env" => cfg = Unset
    /\ stage \in {"flags", "validate", "running"} => Conf!Junk(env) = {}
    /\ stage = "flags" => cfg = Conf!Over(Unset, env)
    /\ stage \in {"validate", "running"} =>
            Conf!Junk(flags) = {} /\ cfg = Conf!Over(Conf!Over(Unset, env), flags)
    /\ stage = "running" => Conf!Problems(cfg) = {}

ConfInv == Conf!SettingsTypeOK /\ Layered

LEMMA KeysKnown == \A l : Conf!KeysOf(l) \subseteq Conf!Keys /\ "secret" \in Conf!KeysOf(l)
  BY DEF Conf!KeysOf, Conf!Keys

LEMMA NothingElse ==
    ASSUME NEW l \in Conf!Loaders, NEW e \in Conf!Layers(Conf!KeysOf(l)),
           NEW f \in Conf!Layers(Conf!FlagsOf(l)), NEW k \in Conf!Keys \ Conf!KeysOf(l)
    PROVE  e[k] = "default" /\ f[k] = "default"
<1>1. k \notin Conf!FlagsOf(l)
  BY DEF Conf!Loaders, Conf!KeysOf, Conf!FlagsOf
<1>2. ASSUME NEW s, NEW g \in Conf!Layers(s), k \notin s
      PROVE  g[k] = "default"
  BY <1>2 DEF Conf!Layers, Conf!Keys
<1>3. QED
  BY <1>1, <1>2

LEMMA ConfInit ==
    ASSUME Conf!SettingsAssumption, Conf!Init
    PROVE  ConfInv
<1>1. Conf!SettingsTypeOK
  BY DEF Conf!SettingsAssumption, Conf!Init, Conf!SettingsTypeOK
<1>2. Layered
  BY NothingElse DEF Conf!Init, Layered, Unset
<1>3. QED
  BY <1>1, <1>2 DEF ConfInv

LEMMA ConfStep ==
    ASSUME Conf!SettingsAssumption, ConfInv, [Conf!Next]_(Conf!vars)
    PROVE  ConfInv'
<1>0. /\ loader \in Conf!Loaders /\ errs \subseteq Conf!Keys
      /\ starts \in 1 .. MaxStarts /\ MaxStarts \in Nat
  BY DEF ConfInv, Conf!SettingsTypeOK, Conf!SettingsAssumption
<1>1. CASE UNCHANGED Conf!vars
  BY <1>1 DEF Conf!vars, ConfInv, Conf!SettingsTypeOK, Layered, Conf!Junk, Conf!Over, Conf!Problems
\* A layer that does not parse names settings of the program.
<1>2. /\ Conf!Junk(env) \subseteq Conf!KeysOf(loader)
      /\ Conf!Junk(flags) \subseteq Conf!KeysOf(loader)
      /\ Conf!EnvErrors \subseteq Conf!KeysOf(loader)
      /\ Conf!EnvErrors = {} => Conf!Junk(env) = {}
  BY DEF ConfInv, Layered, Conf!Junk, Conf!EnvErrors, Conf!KeysOf
<1>3. CASE Conf!ReadEnv
  <2>1. Conf!SettingsTypeOK'
    BY <1>0, <1>2, <1>3, KeysKnown DEF Conf!ReadEnv, Conf!SettingsTypeOK
  <2>2. Layered'
    BY <1>2, <1>3 DEF Conf!ReadEnv, ConfInv, Layered, Conf!Junk
  <2>3. QED
    BY <2>1, <2>2 DEF ConfInv
<1>4. CASE Conf!ParseFlags
  <2>1. Conf!SettingsTypeOK'
    BY <1>0, <1>2, <1>4, KeysKnown DEF Conf!ParseFlags, Conf!SettingsTypeOK
  <2>2. Layered'
    BY <1>2, <1>4 DEF Conf!ParseFlags, ConfInv, Layered, Conf!Junk
  <2>3. QED
    BY <2>1, <2>2 DEF ConfInv
<1>5. CASE Conf!Validate
  <2>1. Conf!Problems(cfg) \subseteq Conf!KeysOf(loader)
    BY DEF Conf!Problems
  <2>2. Conf!SettingsTypeOK'
    BY <1>0, <1>5, <2>1, KeysKnown DEF Conf!Validate, Conf!SettingsTypeOK
  <2>3. Layered'
    BY <1>5, <2>1 DEF Conf!Validate, ConfInv, Layered, Conf!Junk, Conf!Problems
  <2>4. QED
    BY <2>2, <2>3 DEF ConfInv
<1>6. CASE Conf!Correct
  <2>1. /\ cfg' = Unset /\ stage' = "env" /\ UNCHANGED <<loader, errs>>
        /\ starts < MaxStarts /\ starts' = starts + 1
    BY <1>6 DEF Conf!Correct, Unset
  <2>2. \A k \in Conf!Keys \ Conf!KeysOf(loader) : env'[k] = env[k] /\ flags'[k] = flags[k]
    BY <1>6 DEF Conf!Correct, ConfInv, Layered
  <2>3. Conf!SettingsTypeOK'
    BY <1>0, <2>1 DEF Conf!SettingsTypeOK
  <2>4. Layered'
    BY <2>1, <2>2 DEF ConfInv, Layered
  <2>5. QED
    BY <2>3, <2>4 DEF ConfInv
<1>7. QED
  BY <1>1, <1>3, <1>4, <1>5, <1>6 DEF Conf!Next

LEMMA ConfSound ==
    ASSUME ConfInv
    PROVE  Conf!StartedIsSound
<1> SUFFICES ASSUME stage = "running"
             PROVE  /\ cfg = Conf!Over(Conf!Over(Unset, env), flags)
                    /\ \A k \in Conf!Keys : cfg[k] \notin {"junk", "odd", "low"}
                    /\ cfg["env"] = "prod" => cfg["secret"] # "default"
  BY DEF Conf!StartedIsSound, Unset
<1>1. /\ cfg = Conf!Over(Conf!Over(Unset, env), flags) /\ Conf!Problems(cfg) = {}
      /\ Conf!Junk(env) = {} /\ Conf!Junk(flags) = {}
  BY DEF ConfInv, Layered
<1>2. \A k \in Conf!Keys : cfg[k] \in {"default", env[k], flags[k]}
  BY <1>1 DEF Conf!Over, Unset
<1>3. ASSUME NEW k \in Conf!Keys
      PROVE  cfg[k] \notin {"junk", "odd", "low"}
  <2>1. cfg[k] # "junk"
    BY <1>1, <1>2 DEF Conf!Junk
  <2>2. CASE k \in Conf!KeysOf(loader)
    BY <1>1, <2>1, <2>2 DEF Conf!Problems
  <2>3. CASE k \notin Conf!KeysOf(loader)
    BY <1>2, <2>3 DEF ConfInv, Layered
  <2>4. QED
    BY <2>2, <2>3
<1>4. cfg["env"] = "prod" => cfg["secret"] # "default"
  BY <1>1, KeysKnown DEF Conf!Problems
<1>5. QED
  BY <1>1, <1>3, <1>4

\* A program that starts runs on what the highest layer said, and never in
\* production without its secret, however often its settings were corrected
\* (41 main.go, Validate; 47 config.go, fixed-window-counter config.go).
THEOREM StartsSound == ServersSpec => []StartedIsSound
<1> DEFINE I == program = "settings" => ConfInv
<1>1. ServersInit => I
  BY ServersAssumption, ServersBegin, ConfInit
<1>2. I /\ [ServersNext]_everything => I'
  BY ServersAssumption, ServersMove, ConfStep
<1>3. I => StartedIsSound
  BY ConfSound DEF StartedIsSound
<1>4. QED
  BY <1>1, <1>2, <1>3, PTL DEF ServersSpec

-----------------------------------------------------------------------------
(* The gateway: UserDecides *)

CallNow == Edge!Codes \cup {"none", "flying"}
Errors == {{}} \cup {{code} : code \in Edge!CtxCodes}
Pages == [status : Nat, orders : BOOLEAN]

EdgeTypes ==
    /\ kind \in [Clicks -> Edge!Kinds]
    /\ at \in [Clicks -> {"new", "calling", "answered"}]
    /\ call \in [Clicks -> [Edge!Services -> CallNow]]
    /\ gone \in [Clicks -> Errors]
    /\ cancelled \in [Clicks -> SUBSET Edge!Codes]
    /\ answer \in [Clicks -> {{}} \cup {{a} : a \in Pages}]
    /\ server \in [Edge!Services -> {"serving", "draining", "stopping", "down"}]

\* The group of a dashboard is cancelled by nothing but the user's error, so
\* that this error is never the cancellation; what has come back stays.
Decided(r) ==
    /\ at[r] = "new" => cancelled[r] = {} /\ answer[r] = {}
    /\ cancelled[r] # {} =>
            cancelled[r] = {call[r]["user"]} /\ call[r]["user"] \in Edge!Codes \ {"OK"}
    /\ answer[r] # {} => at[r] = "answered" /\ \A s \in Edge!Services : call[r][s] \in Edge!Codes
    /\ call[r]["user"] = "Canceled" => gone[r] = {"Canceled"}
    /\ \A a \in answer[r] :
        /\ a.status = Edge!httpStatus(call[r]["user"])
        /\ a.orders => call[r]["order"] = "OK"

EdgeInv == EdgeTypes /\ \A r \in Clicks : kind[r] = "dashboard" => Decided(r)

LEMMA EdgeInit ==
    ASSUME Edge!Init
    PROVE  EdgeInv
<1>1. EdgeTypes
  BY DEF Edge!Init, EdgeTypes, CallNow, Errors, Edge!Services
<1>2. \A r \in Clicks : Decided(r)
  BY DEF Edge!Init, Decided, Edge!Services
<1>3. QED
  BY <1>1, <1>2 DEF EdgeInv

\* A request whose calls, context, group and answer stay as they are.
LEMMA StaysDecided ==
    ASSUME NEW r \in Clicks, kind[r] = "dashboard" => Decided(r), kind' = kind,
           at'[r] = at[r], call'[r] = call[r], gone'[r] = gone[r],
           cancelled'[r] = cancelled[r], answer'[r] = answer[r]
    PROVE  kind'[r] = "dashboard" => Decided(r)'
  BY DEF Decided

\* A call in flight of a request ends with a code; that of a user is cancelled
\* only by the client.
LEMMA CallEnds ==
    ASSUME EdgeTypes, NEW r \in Clicks, kind[r] = "dashboard" => Decided(r),
           NEW s \in Edge!Services, call[r][s] = "flying", NEW code \in Edge!Codes,
           call'[r] = [call[r] EXCEPT ![s] = code],
           s = "user" /\ code = "Canceled" => gone[r] = {"Canceled"} \/ cancelled[r] # {},
           kind' = kind, at'[r] = at[r], gone'[r] = gone[r], cancelled'[r] = cancelled[r],
           answer'[r] = answer[r]
    PROVE  kind'[r] = "dashboard" => Decided(r)'
<1> SUFFICES ASSUME kind[r] = "dashboard"
             PROVE  Decided(r)'
  OBVIOUS
<1>1. "flying" \notin Edge!Codes
  BY DEF Edge!Codes, Edge!OwnCodes, Edge!CtxCodes
<1>2. answer[r] = {}
  BY <1>1 DEF Decided
<1>3. call[r] \in [Edge!Services -> CallNow]
  BY DEF EdgeTypes
<1>4. CASE s = "user"
  <2>1. cancelled[r] = {} /\ call'[r]["user"] = code
    BY <1>1, <1>3, <1>4 DEF Decided
  <2>2. QED
    BY <1>2, <1>4, <2>1 DEF Decided
<1>5. CASE s = "order"
  <2>1. call'[r]["user"] = call[r]["user"]
    BY <1>3, <1>5 DEF Edge!Services
  <2>2. QED
    BY <1>2, <2>1 DEF Decided
<1>6. QED
  BY <1>4, <1>5 DEF Edge!Services

LEMMA EdgeStep ==
    ASSUME EdgeInv, [Edge!Next]_(Edge!vars)
    PROVE  EdgeInv'
<1>0. EdgeTypes /\ \A r \in Clicks : kind[r] = "dashboard" => Decided(r)
  BY DEF EdgeInv
<1>1. CASE UNCHANGED Edge!vars
  BY <1>1 DEF Edge!vars, EdgeInv, EdgeTypes, Decided
<1>2. ASSUME NEW r \in Clicks, Edge!Arrive(r)
      PROVE  EdgeInv'
  <2>1. EdgeTypes'
    <3>1. call' \in [Clicks -> [Edge!Services -> CallNow]]
      BY <1>0, <1>2 DEF Edge!Arrive, EdgeTypes, CallNow, Edge!Codes
    <3>2. QED
      BY <1>0, <1>2, <3>1 DEF Edge!Arrive, EdgeTypes
  <2>2. kind[r] = "dashboard" => Decided(r)'
    <3>1. "user" \in Edge!Services /\ at'[r] = "calling"
      BY <1>0, <1>2 DEF Edge!Services, Edge!Arrive, EdgeTypes
    <3>2. call'[r]["user"] \in {"none", "Unavailable", "flying"}
      BY <1>0, <1>2, <3>1 DEF Edge!Arrive, EdgeTypes
    <3>3. kind[r] = "dashboard" => cancelled'[r] = {} /\ answer'[r] = {}
      BY <1>0, <1>2 DEF Edge!Arrive, Decided
    <3>4. QED
      BY <3>1, <3>2, <3>3 DEF Decided
  <2>3. ASSUME NEW q \in Clicks, q # r
        PROVE  kind'[q] = "dashboard" => Decided(q)'
    BY <1>0, <1>2, <2>3, StaysDecided DEF Edge!Arrive, EdgeTypes
  <2>4. QED
    BY <1>2, <2>1, <2>2, <2>3 DEF EdgeInv, Edge!Arrive
\* Replies, calls that are cut short, and servers that stop.
<1>3. ASSUME NEW r \in Clicks, NEW s \in Edge!Services, call[r][s] = "flying",
             NEW code \in Edge!Codes, Edge!Returns(r, s, code),
             UNCHANGED <<kind, at, gone, cancelled, answer, server>>,
             code = "Canceled" => gone[r] = {"Canceled"} \/ cancelled[r] # {}
      PROVE  EdgeInv'
  <2>1. /\ call'[r] = [call[r] EXCEPT ![s] = code]
        /\ \A q \in Clicks : q # r => call'[q] = call[q]
    BY <1>0, <1>3 DEF Edge!Returns, EdgeTypes
  <2>2. EdgeTypes'
    BY <1>0, <1>3 DEF Edge!Returns, EdgeTypes, CallNow
  <2>3. ASSUME NEW q \in Clicks
        PROVE  kind'[q] = "dashboard" => Decided(q)'
    <3>1. CASE q = r
      BY <1>0, <1>3, <2>1, <3>1, CallEnds
    <3>2. CASE q # r
      BY <1>0, <1>3, <2>1, <3>2, StaysDecided
    <3>3. QED
      BY <3>1, <3>2
  <2>4. QED
    BY <2>2, <2>3 DEF EdgeInv
<1>4. ASSUME NEW r \in Clicks, NEW s \in Edge!Services, Edge!Reply(r, s)
      PROVE  EdgeInv'
  <2>1. PICK code \in Edge!OwnCodes : Edge!Returns(r, s, code)
    BY <1>4 DEF Edge!Reply
  <2>2. code \in Edge!Codes /\ code # "Canceled"
    BY <2>1 DEF Edge!Codes, Edge!OwnCodes
  <2>3. QED
    BY <1>3, <1>4, <2>1, <2>2 DEF Edge!Reply
<1>5. ASSUME NEW r \in Clicks, NEW s \in Edge!Services, Edge!CutShort(r, s)
      PROVE  EdgeInv'
  <2>1. PICK code \in Edge!Codes : /\ Edge!Returns(r, s, code)
                                   /\ code = "Canceled" => gone[r] = {"Canceled"} \/ cancelled[r] # {}
    <3>1. gone[r] \in Errors /\ "Canceled" \in Edge!Codes
      BY <1>0 DEF EdgeTypes, Edge!Codes, Edge!CtxCodes
    <3>2. CASE cancelled[r] # {} /\ Edge!Returns(r, s, "Canceled")
      BY <3>1, <3>2
    <3>3. CASE \E code \in gone[r] : Edge!Returns(r, s, code)
      <4>1. \A code \in gone[r] : code \in Edge!Codes /\ gone[r] = {code}
        BY <3>1 DEF Errors, Edge!Codes
      <4>2. QED
        BY <3>3, <4>1
    <3>4. QED
      BY <1>5, <3>2, <3>3 DEF Edge!CutShort
  <2>2. QED
    BY <1>3, <1>5, <2>1 DEF Edge!CutShort
<1>6. ASSUME NEW r \in Clicks, Edge!ContextEnds(r)
      PROVE  EdgeInv'
  <2>1. PICK code \in Edge!CtxCodes : gone' = [gone EXCEPT ![r] = {code}]
    BY <1>6 DEF Edge!ContextEnds
  <2>2. EdgeTypes'
    <3>1. gone' \in [Clicks -> Errors]
      BY <1>0, <2>1 DEF EdgeTypes, Errors
    <3>2. QED
      BY <1>0, <1>6, <3>1 DEF Edge!ContextEnds, EdgeTypes
  <2>3. ASSUME NEW q \in Clicks
        PROVE  kind'[q] = "dashboard" => Decided(q)'
    <3>1. CASE q = r
      BY <1>0, <1>6, <3>1 DEF Edge!ContextEnds, Decided
    <3>2. CASE q # r
      BY <1>0, <1>6, <2>1, <3>2, StaysDecided DEF Edge!ContextEnds, EdgeTypes
    <3>3. QED
      BY <3>1, <3>2
  <2>4. QED
    BY <2>2, <2>3 DEF EdgeInv
<1>7. ASSUME NEW r \in Clicks, Edge!UserFails(r)
      PROVE  EdgeInv'
  <2>1. /\ call[r]["user"] \in Edge!Codes \ {"OK"}
        /\ cancelled' = [cancelled EXCEPT ![r] = {call[r]["user"]}]
    BY <1>7 DEF Edge!UserFails
  <2>2. EdgeTypes'
    <3>1. cancelled' \in [Clicks -> SUBSET Edge!Codes]
      BY <1>0, <2>1 DEF EdgeTypes
    <3>2. QED
      BY <1>0, <1>7, <3>1 DEF Edge!UserFails, EdgeTypes
  <2>3. ASSUME NEW q \in Clicks
        PROVE  kind'[q] = "dashboard" => Decided(q)'
    <3>1. CASE q = r
      <4>1. cancelled'[r] = {call[r]["user"]}
        BY <1>0, <2>1 DEF EdgeTypes
      <4>2. QED
        BY <1>0, <1>7, <2>1, <3>1, <4>1 DEF Edge!UserFails, Decided
    <3>2. CASE q # r
      BY <1>0, <1>7, <2>1, <3>2, StaysDecided DEF Edge!UserFails, EdgeTypes
    <3>3. QED
      BY <3>1, <3>2
  <2>4. QED
    BY <2>2, <2>3 DEF EdgeInv
<1>8. ASSUME NEW r \in Clicks, Edge!Answer(r)
      PROVE  EdgeInv'
  <2> DEFINE code == IF kind[r] # "dashboard" THEN call[r][kind[r]]
                     ELSE IF cancelled[r] = {} THEN "OK" ELSE CHOOSE c \in cancelled[r] : TRUE
             page == [status |-> Edge!httpStatus(code),
                      orders |-> code = "OK" /\ call[r]["order"] = "OK"]
  <2>1. /\ answer' = [answer EXCEPT ![r] = {page}] /\ at' = [at EXCEPT ![r] = "answered"]
        /\ UNCHANGED <<kind, call, gone, cancelled, server>>
        /\ at[r] = "calling" /\ \A s \in Edge!Uses(r) : call[r][s] \in Edge!Codes
        /\ kind[r] = "dashboard" /\ call[r]["user"] # "OK" => cancelled[r] # {}
    BY <1>8 DEF Edge!Answer
  <2>2. page \in Pages
    <3>1. Edge!httpStatus(code) \in Nat
      BY DEF Edge!httpStatus
    <3>2. QED
      BY <3>1 DEF Pages
  <2>3. kind[r] = "dashboard" =>
            /\ code = call[r]["user"] /\ \A s \in Edge!Services : call[r][s] \in Edge!Codes
            /\ page.status = Edge!httpStatus(call[r]["user"])
            /\ page.orders => call[r]["order"] = "OK"
    <3>1. SUFFICES ASSUME kind[r] = "dashboard"
                   PROVE  code = call[r]["user"] /\ \A s \in Edge!Services : call[r][s] \in Edge!Codes
      OBVIOUS
    <3>2. \A s \in Edge!Services : call[r][s] \in Edge!Codes
      BY <2>1, <3>1 DEF Edge!Uses
    <3>3. QED
      BY <1>0, <2>1, <3>1, <3>2 DEF Decided
  <2> HIDE DEF page, code
  <2>4. EdgeTypes'
    <3>1. answer' \in [Clicks -> {{}} \cup {{a} : a \in Pages}]
      BY <1>0, <2>1, <2>2 DEF EdgeTypes
    <3>2. QED
      BY <1>0, <2>1, <3>1 DEF EdgeTypes
  <2>5. ASSUME NEW q \in Clicks
        PROVE  kind'[q] = "dashboard" => Decided(q)'
    <3>1. CASE q = r
      <4>1. answer'[r] = {page} /\ at'[r] = "answered"
        BY <1>0, <2>1 DEF EdgeTypes
      <4>2. QED
        BY <1>0, <2>1, <2>3, <3>1, <4>1 DEF Decided
    <3>2. CASE q # r
      BY <1>0, <2>1, <3>2, StaysDecided DEF EdgeTypes
    <3>3. QED
      BY <3>1, <3>2
  <2>6. QED
    BY <2>4, <2>5 DEF EdgeInv
<1>9. ASSUME NEW s \in Edge!Services, Edge!Drain(s) \/ Edge!StopAccepting(s)
      PROVE  EdgeInv'
  <2>1. EdgeTypes' /\ UNCHANGED <<kind, at, call, gone, cancelled, answer>>
    BY <1>0, <1>9 DEF Edge!Drain, Edge!StopAccepting, Edge!ServerMoves, EdgeTypes
  <2>2. QED
    BY <1>0, <2>1 DEF EdgeInv, Decided
<1>10. ASSUME NEW s \in Edge!Services, Edge!Stopped(s)
       PROVE  EdgeInv'
  <2>1. \A r \in Clicks : call'[r] = IF call[r][s] = "flying"
                                     THEN [call[r] EXCEPT ![s] = "Unavailable"] ELSE call[r]
    BY <1>0, <1>10 DEF Edge!Stopped, EdgeTypes
  <2>2. EdgeTypes'
    <3>1. ASSUME NEW r \in Clicks
          PROVE  call'[r] \in [Edge!Services -> CallNow]
      <4>1. "Unavailable" \in CallNow /\ call[r] \in [Edge!Services -> CallNow]
        BY <1>0 DEF EdgeTypes, CallNow, Edge!Codes
      <4>2. QED
        BY <2>1, <4>1
    <3>2. call' \in [Clicks -> [Edge!Services -> CallNow]]
      BY <1>0, <1>10, <3>1 DEF Edge!Stopped, EdgeTypes
    <3>3. server' \in [Edge!Services -> {"serving", "draining", "stopping", "down"}]
      BY <1>0, <1>10 DEF Edge!Stopped, Edge!ServerMoves, EdgeTypes
    <3>4. QED
      BY <1>0, <1>10, <3>2, <3>3 DEF Edge!Stopped, EdgeTypes
  <2>3. ASSUME NEW q \in Clicks
        PROVE  kind'[q] = "dashboard" => Decided(q)'
    <3>1. UNCHANGED <<kind, at, gone, cancelled, answer>>
      BY <1>10 DEF Edge!Stopped
    <3>2. CASE call[q][s] = "flying"
      <4>1. "Unavailable" \in Edge!Codes /\ "Unavailable" # "Canceled"
        BY DEF Edge!Codes
      <4>2. QED
        BY <1>0, <2>1, <3>1, <3>2, <4>1, CallEnds
    <3>3. CASE call[q][s] # "flying"
      BY <1>0, <2>1, <3>1, <3>3, StaysDecided
    <3>4. QED
      BY <3>2, <3>3
  <2>4. QED
    BY <2>2, <2>3 DEF EdgeInv
<1>11. QED
  BY <1>1, <1>2, <1>4, <1>5, <1>6, <1>7, <1>8, <1>9, <1>10
     DEF Edge!Next, Edge!Handle, Edge!Stops

LEMMA EdgeDecides ==
    ASSUME EdgeInv
    PROVE  Edge!UserDecides
<1> SUFFICES ASSUME NEW r \in Clicks, kind[r] = "dashboard", NEW a \in answer[r]
             PROVE  /\ a.status = Edge!httpStatus(call[r]["user"])
                    /\ a.orders => call[r]["order"] = "OK"
                    /\ a.status = 499 => gone[r] = {"Canceled"}
  BY DEF Edge!UserDecides
<1>1. Decided(r)
  BY DEF EdgeInv
<1>2. a.status = 499 => call[r]["user"] = "Canceled"
  BY <1>1 DEF Decided, Edge!httpStatus
<1>3. QED
  BY <1>1, <1>2 DEF Decided

-----------------------------------------------------------------------------
(* The layers around a handler: PanicsStayInside, LogTellsTheAnswer and      *)
(* OneIdPerClick                                                             *)

Systems == {"lesson39", "capstone", "lesson62", "lesson63"}
Http == system \in {"lesson39", "capstone"}

\* Of a call: that its caller wants a status, and where it is logged, and where
\* a panic ends.
Remote(m) == system = "lesson62" \/ m.parent # {}
LogAt(m) == IF system = "lesson63" /\ Remote(m) THEN 3 ELSE 2
RecAt(m) == IF Http THEN 4 ELSE IF Remote(m) THEN 1 ELSE 3
MidWrite == {"record", "send"}

\* Where the goroutines of a call can be: an inner one exists only where there
\* is a timeout, and a panic is never outside the layer that recovers it, unless
\* it is an abort.
Placed(m) ==
    LET g == m.g[1]  h == m.g[2] IN
    /\ g.way = "none" => m = Chain!NewCall
    /\ m.parent # {} => system = "lesson63"
    /\ g.way # "abort"
    /\ Http =>
        /\ g.way # "panic" /\ (g.way \in {"none", "in"} => h = Chain!Resting)
        /\ g.way = "in" => g.at \in 1 .. 3
        /\ g.way \in {"wait", "record", "send"} => g.at = 3
        /\ g.way = "out" => g.at \in 0 .. 2
        /\ h.way # "wait"
        /\ h.way \in {"in", "record", "send"} => h.at \in 4 .. 6
        /\ h.way \in {"out", "abort"} => h.at \in 3 .. 5
        /\ h.way = "panic" => h.at \in 4 .. 5
    /\ ~Http =>
        /\ h = Chain!Resting /\ g.way \notin {"wait", "record", "send"}
        /\ g.way = "in" => g.at \in 1 .. 4
        /\ g.way = "out" => g.at \in 0 .. 3
        /\ g.way = "panic" => g.at \in RecAt(m) .. 3
    /\ system = "lesson63" /\ g.way = "in" /\ g.at >= (IF Remote(m) THEN 3 ELSE 2) => m.id # {}

\* Two statuses that are equal, or differ because two goroutines wrote.
Agree(said, told) == said = told \/ {said, told} \cap Chain!Late # {}

\* Two goroutines at one answer: what is recorded and what is sent agree
\* whenever both are there, something recorded and not sent is about to be, the
\* inner goroutine writes once before it panics, and by the time the outer one
\* is through the timeout there is an answer, or nobody left to give one.
Raced(m) ==
    LET g == m.g[1]  h == m.g[2] IN
    /\ g.way = "in" => m.recorded = "none"
    /\ g.way \in MidWrite => m.writing[1] = "timeout"
    /\ h.way \in MidWrite => m.writing[2] \in {"ok", "error", "unauthorized", "internal"}
    /\ g.way = "send" \/ h.way = "send" => m.recorded # "none"
    /\ m.recorded # "none" /\ m.answer = "none" => g.way = "send" \/ h.way = "send"
    /\ m.recorded = "none" /\ m.answer # "none" => g.way = "done" /\ h.way = "done"
    /\ m.recorded # "none" /\ m.answer # "none" => Agree(m.recorded, m.answer)
    /\ m.recorded # "none" /\ m.answer = "none" => m.recorded = "timeout" \/ (h.way = "send" /\ m.recorded = m.writing[2])
    /\ h.way = "in" => m.answer \in {"none", "timeout"}
    /\ h.way = "record" => m.answer \in {"none", "timeout"}
                           \/ (m.writing[2] = "internal" /\ system = "lesson39")
    /\ g.way \in {"out", "done"} /\ h.way # "done" => m.answer # "none"

\* The one line of a call that is through its logging layer says what the
\* client gets, or the call was recovered outside of it.
Logged(m) ==
    IF Remote(m) THEN m.log = <<m.answer>> \/ (m.log = <<>> /\ m.answer = "internal")
    ELSE Len(m.log) = 1 /\ Agree(m.log[1], IF m.answer = "none" THEN "ok" ELSE m.answer)

\* Between the timeout and the return the answer cannot change any more: the
\* handler has ended, or something was answered for it.
Told(m) ==
    LET g == m.g[1] IN
    /\ m.answer # "dropped"
    /\ g.way \in {"none", "in", "wait", "record", "send", "panic"} => m.log = <<>>
    /\ g.way = "out" => IF g.at >= LogAt(m) THEN m.log = <<>> ELSE Logged(m)
    /\ g.way = "done" => Logged(m) /\ m.answer # "none"
    /\ ~Remote(m) /\ ~Http /\ g.way # "done" => m.recorded = m.answer
    /\ Remote(m) /\ g.way = "out" => m.answer # "none"
    /\ Http => Raced(m)

\* A process that is gone went with an abort on an inner goroutine, or with two
\* goroutines in the middle of writing.
Doomed ==
    \E c \in Clients : \/ Chain!Layer(c, 2) = "timeout" /\ hops[c].g[2].way = "abort"
                       \/ \A k \in 1 .. 2 : hops[c].g[k].way \in MidWrite

\* Ids: a call made for another has that one's, which it got before; the others
\* have what came in or one of those made so far, each of these once.
Identified ==
    /\ \A c \in Clients :
        /\ hops[c].parent = {} =>
            /\ hops[c].header \in {{}, {0}}
            /\ hops[c].id \in {{}, {0}} \cup {{n} : n \in 1 .. minted}
        /\ \A d \in Clients : hops[c].parent = {d} =>
            /\ hops[d].id # {} /\ hops[c].header = hops[d].id
            /\ hops[c].id \in {{}, hops[d].id}
    /\ \A c, d \in Clients :
        hops[c].parent = {} /\ hops[d].parent = {} /\ c # d /\ hops[c].id = hops[d].id
            => hops[c].id \subseteq {0}

ChainInv ==
    /\ Chain!MiddlewareTypeOK /\ system \in Systems
    /\ alive \/ Doomed
    /\ \A c \in Clients : Placed(hops[c]) /\ Told(hops[c])
    /\ Identified

LEMMA NewCallFits ==
    /\ Chain!NewCall \in Chain!CallStates
    /\ Placed(Chain!NewCall) /\ Told(Chain!NewCall)
    /\ Chain!NewCall.id = {} /\ Chain!NewCall.header = {} /\ Chain!NewCall.parent = {}
<1>1. Chain!Resting \in Chain!Goroutines
  BY DEF Chain!Resting, Chain!Goroutines
<1>2. Chain!NewCall \in Chain!CallStates
  BY <1>1 DEF Chain!NewCall, Chain!CallStates, Chain!Answers
<1>3. Placed(Chain!NewCall)
  BY DEF Chain!NewCall, Chain!Resting, Placed, MidWrite
<1>4. Told(Chain!NewCall)
  BY DEF Chain!NewCall, Chain!Resting, Told, Raced, MidWrite
<1>5. QED
  BY <1>2, <1>3, <1>4 DEF Chain!NewCall

LEMMA ChainInit ==
    ASSUME Chain!Init
    PROVE  ChainInv
<1>1. /\ \A c \in Clients : hops[c] = Chain!NewCall
      /\ hops \in [Clients -> Chain!CallStates]
  BY NewCallFits DEF Chain!Init
<1>2. Identified
  BY <1>1, NewCallFits DEF Identified
<1>3. QED
  BY <1>1, <1>2, NewCallFits DEF Chain!Init, ChainInv, Chain!MiddlewareTypeOK, Systems

\* Which layer is where.
LEMMA Layers ==
    ASSUME NEW c \in Clients, NEW k \in 1 .. 2, hops[c] \in Chain!CallStates,
           system \in Systems, Placed(hops[c])
    PROVE  LET pos == hops[c].g[k].at
               layer == Chain!Layer(c, k)
           IN  /\ layer = "server" => pos = 0
               /\ layer = "handler" => pos >= (IF Http THEN 6 ELSE 4)
               /\ layer = "recover" => pos = RecAt(hops[c])
               /\ layer = "logging" => pos = LogAt(hops[c])
               /\ layer = "timeout" => Http /\ pos = 3
               /\ layer = "auth" => (Http /\ pos = 5) \/ (system = "lesson62" /\ pos = 3)
               /\ layer = "requestID" =>
                    \/ Http /\ pos = 1
                    \/ system = "lesson63" /\ pos = (IF Remote(hops[c]) THEN 2 ELSE 1)
<1> DEFINE pos == hops[c].g[k].at
           layer == Chain!Layer(c, k)
<1>1. pos \in 0 .. 6
  BY DEF Chain!CallStates, Chain!Goroutines
<1>2. Chain!Rpc(c) <=> Remote(hops[c])
  BY DEF Chain!Rpc, Remote
<1>3. layer = IF pos = 0 THEN "server" ELSE IF pos > Len(Chain!Chain(c)) THEN "handler"
              ELSE Chain!Chain(c)[pos]
  BY DEF Chain!Layer
<1> HIDE DEF pos, layer
<1>4. CASE Http
  <2>1. Chain!Chain(c) = <<"requestID", "logging", "timeout", "recover", "auth">>
    BY <1>4 DEF Chain!Chain, Chain!HttpChain, Http
  <2>2. ~Remote(hops[c])
    BY <1>4 DEF Http, Remote, Placed
  <2>3. CASE pos = 0 \/ pos = 6
    BY <1>3, <1>4, <2>1, <2>3 DEF pos, layer
  <2>4. CASE pos \in 1 .. 5
    <3>1. layer = Chain!Chain(c)[pos]
      BY <1>3, <2>1, <2>4
    <3>2. /\ pos = 1 => layer = "requestID"
          /\ pos = 2 => layer = "logging"
          /\ pos = 3 => layer = "timeout"
          /\ pos = 4 => layer = "recover"
          /\ pos = 5 => layer = "auth"
      BY <2>1, <3>1
    <3>3. QED
      BY <2>4, <1>4, <2>2, <3>2 DEF pos, layer, RecAt, LogAt
  <2>5. QED
    BY <1>1, <2>3, <2>4
<1>5. CASE system = "lesson62"
  <2>1. Chain!Chain(c) = <<"recover", "logging", "auth">> /\ Remote(hops[c]) /\ ~Http
    BY <1>5 DEF Chain!Chain, Chain!GrpcChain, Remote, Http
  <2>2. CASE pos = 0 \/ pos > 3
    BY <1>1, <1>3, <2>1, <2>2 DEF pos, layer
  <2>3. CASE pos \in 1 .. 3
    <3>1. layer = Chain!Chain(c)[pos]
      BY <1>3, <2>1, <2>3
    <3>2. /\ pos = 1 => layer = "recover"
          /\ pos = 2 => layer = "logging"
          /\ pos = 3 => layer = "auth"
      BY <2>1, <3>1
    <3>3. QED
      BY <2>3, <1>5, <2>1, <3>2 DEF pos, layer, RecAt, LogAt
  <2>4. QED
    BY <1>1, <2>2, <2>3
<1>6. CASE system = "lesson63" /\ Remote(hops[c])
  <2>1. Chain!Chain(c) = <<"recover", "requestID", "logging">> /\ ~Http
    BY <1>2, <1>6 DEF Chain!Chain, Chain!UnaryServerChain, Http
  <2>2. CASE pos = 0 \/ pos > 3
    BY <1>1, <1>3, <2>1, <2>2 DEF pos, layer
  <2>3. CASE pos \in 1 .. 3
    <3>1. layer = Chain!Chain(c)[pos]
      BY <1>3, <2>1, <2>3
    <3>2. /\ pos = 1 => layer = "recover"
          /\ pos = 2 => layer = "requestID"
          /\ pos = 3 => layer = "logging"
      BY <2>1, <3>1
    <3>3. QED
      BY <2>3, <1>6, <2>1, <3>2 DEF pos, layer, RecAt, LogAt
  <2>4. QED
    BY <1>1, <2>2, <2>3
<1>7. CASE system = "lesson63" /\ ~Remote(hops[c])
  <2>1. Chain!Chain(c) = <<"requestID", "logging", "recover">> /\ ~Http
    BY <1>2, <1>7 DEF Chain!Chain, Chain!GatewayChain, Http
  <2>2. CASE pos = 0 \/ pos > 3
    BY <1>1, <1>3, <2>1, <2>2 DEF pos, layer
  <2>3. CASE pos \in 1 .. 3
    <3>1. layer = Chain!Chain(c)[pos]
      BY <1>3, <2>1, <2>3
    <3>2. /\ pos = 1 => layer = "requestID"
          /\ pos = 2 => layer = "logging"
          /\ pos = 3 => layer = "recover"
      BY <2>1, <3>1
    <3>3. QED
      BY <2>3, <1>7, <2>1, <3>2 DEF pos, layer, RecAt, LogAt
  <2>4. QED
    BY <1>1, <2>2, <2>3
<1>8. QED
  BY <1>4, <1>5, <1>6, <1>7 DEF Systems, Http

\* What a step makes of a call: the goroutine it moves, and what it writes.
LEMMA Goes ==
    ASSUME NEW m \in Chain!CallStates, NEW k \in 1 .. 2, NEW way
    PROVE  /\ Chain!Deeper(m, k) = [g |-> [m.g EXCEPT ![k] = [at |-> m.g[k].at + 1, way |-> m.g[k].way]],
                  key |-> m.key, parent |-> m.parent, header |-> m.header, id |-> m.id,
                  writing |-> m.writing, answer |-> m.answer, recorded |-> m.recorded, log |-> m.log]
           /\ Chain!Back(m, k, way) = [g |-> [m.g EXCEPT ![k] = [at |-> m.g[k].at - 1, way |-> way]],
                  key |-> m.key, parent |-> m.parent, header |-> m.header, id |-> m.id,
                  writing |-> m.writing, answer |-> m.answer, recorded |-> m.recorded, log |-> m.log]
<1> DEFINE x == [at |-> m.g[k].at + 1, way |-> m.g[k].way]
           y == [at |-> m.g[k].at - 1, way |-> way]
<1>1. m.g \in [1 .. 2 -> Chain!Goroutines] /\ m.g[k] \in Chain!Goroutines
  BY DEF Chain!CallStates
<1>2. [m.g[k] EXCEPT !.at = @ + 1] = x
  BY <1>1 DEF Chain!Goroutines
<1>3. /\ Chain!Deeper(m, k) = [m EXCEPT !.g = [m.g EXCEPT ![k] = [m.g[k] EXCEPT !.at = @ + 1]]]
      /\ Chain!Back(m, k, way) = [m EXCEPT !.g = [m.g EXCEPT ![k] = y]]
  BY <1>1 DEF Chain!Deeper, Chain!Back
<1> HIDE DEF x, y
<1>4. ASSUME NEW gs
      PROVE  [m EXCEPT !.g = gs] = [g |-> gs,
                  key |-> m.key, parent |-> m.parent, header |-> m.header, id |-> m.id,
                  writing |-> m.writing, answer |-> m.answer, recorded |-> m.recorded, log |-> m.log]
  BY DEF Chain!CallStates
<1>5. QED
  BY <1>2, <1>3, <1>4 DEF x, y

LEMMA Writes ==
    ASSUME NEW c \in Clients, NEW m \in Chain!CallStates, NEW code \in Chain!Answers
    PROVE  LET n == Chain!Write(c, m, code) IN
           /\ n \in Chain!CallStates
           /\ n.g = m.g /\ n.key = m.key /\ n.parent = m.parent /\ n.header = m.header
           /\ n.id = m.id /\ n.writing = m.writing /\ n.log = m.log
           /\ n.answer = IF Chain!Rpc(c) \/ m.answer = "none" THEN code ELSE m.answer
           /\ n.recorded = IF ~Chain!Rpc(c) /\ m.recorded = "none" THEN code ELSE m.recorded
<1> DEFINE n == Chain!Write(c, m, code)
<1>1. /\ n.g = m.g /\ n.key = m.key /\ n.parent = m.parent /\ n.header = m.header
      /\ n.id = m.id /\ n.writing = m.writing /\ n.log = m.log
      /\ n.answer = IF Chain!Rpc(c) \/ m.answer = "none" THEN code ELSE m.answer
      /\ n.recorded = IF ~Chain!Rpc(c) /\ m.recorded = "none" THEN code ELSE m.recorded
  BY DEF Chain!Write, Chain!CallStates
<1>2. n \in Chain!CallStates
  BY DEF Chain!Write, Chain!CallStates
<1>3. QED
  BY <1>1, <1>2

\* A step of a call that makes no id: it is enough to look at that call.
LEMMA CallGoes ==
    ASSUME ChainInv, NEW c \in Clients, NEW rec \in Chain!CallStates,
           hops' = [hops EXCEPT ![c] = rec], system' = system, minted' = minted, alive' \in BOOLEAN,
           alive' \/ \A k \in 1 .. 2 : rec.g[k].way \in MidWrite,
           Placed(rec), Told(rec), rec.parent = hops[c].parent, rec.id = hops[c].id,
           rec.header = hops[c].header \/ (hops[c].parent = {} /\ rec.header \in {{}, {0}})
    PROVE  ChainInv'
<1>1. /\ hops'[c] = rec /\ \A d \in Clients : d # c => hops'[d] = hops[d]
      /\ hops' \in [Clients -> Chain!CallStates] /\ minted \in Nat
  BY DEF ChainInv, Chain!MiddlewareTypeOK
<1>2. \A d \in Clients : Placed(hops'[d]) /\ Told(hops'[d])
  BY <1>1 DEF ChainInv
<1>3. ASSUME NEW d \in Clients
      PROVE  (Placed(hops[d]) /\ Told(hops[d]))'
  <2>1. (Remote(hops[d]))' <=> Remote(hops'[d])
    BY DEF Remote
  <2>2. (Placed(hops[d]))'
    BY <1>2, <2>1 DEF Placed, RecAt, Http
  <2>3. (Told(hops[d]))'
    BY <1>2, <2>1, ZenonT(40) DEF Told, Logged, LogAt, Http, Raced, Agree, Chain!Late
  <2>4. QED
    BY <2>2, <2>3
<1>4. /\ \A d \in Clients : hops'[d].parent = hops[d].parent /\ hops'[d].id = hops[d].id
      /\ \A d \in Clients : \/ hops'[d].header = hops[d].header
                            \/ hops[d].parent = {} /\ hops'[d].header \in {{}, {0}}
  BY <1>1
<1>5. Identified'
  BY <1>4 DEF ChainInv, Identified
<1>6. alive' \/ Doomed'
  BY <1>1 DEF Doomed
<1>7. QED
  BY <1>1, <1>3, <1>5, <1>6 DEF ChainInv, Chain!MiddlewareTypeOK

\* A step that moves no call and leaves the system leaves every call in its place.
LEMMA StaysFit ==
    ASSUME ChainInv, system' = system, hops' = hops
    PROVE  \A d \in Clients : (Placed(hops[d]) /\ Told(hops[d]))'
<1>1. SUFFICES ASSUME NEW d \in Clients
               PROVE  (Placed(hops[d]) /\ Told(hops[d]))'
  OBVIOUS
<1>2. Placed(hops'[d]) /\ Told(hops'[d])
  BY DEF ChainInv
<1>3. (Remote(hops[d]))' <=> Remote(hops'[d])
  BY DEF Remote
<1>4. (Placed(hops[d]))'
  BY <1>2, <1>3 DEF Placed, RecAt, Http
<1>5. (Told(hops[d]))'
  BY <1>2, <1>3, ZenonT(40) DEF Told, Logged, LogAt, Http, Raced, Agree, Chain!Late
<1>6. QED
  BY <1>4, <1>5

\* The same, with the types of the result.
LEMMA GoesDeeper ==
    ASSUME NEW m \in Chain!CallStates, NEW k \in 1 .. 2, m.g[k].at < 6
    PROVE  LET n == Chain!Deeper(m, k) IN
           /\ n \in Chain!CallStates
           /\ n.g[k].at = m.g[k].at + 1 /\ n.g[k].way = m.g[k].way
           /\ \A j \in 1 .. 2 : j # k => n.g[j] = m.g[j]
           /\ n.key = m.key /\ n.parent = m.parent /\ n.header = m.header /\ n.id = m.id
           /\ n.writing = m.writing /\ n.answer = m.answer /\ n.recorded = m.recorded /\ n.log = m.log
<1> DEFINE x == [at |-> m.g[k].at + 1, way |-> m.g[k].way]
<1>1. m.g \in [1 .. 2 -> Chain!Goroutines] /\ x \in Chain!Goroutines
  BY DEF Chain!CallStates, Chain!Goroutines
<1>2. Chain!Deeper(m, k) = [g |-> [m.g EXCEPT ![k] = x],
          key |-> m.key, parent |-> m.parent, header |-> m.header, id |-> m.id,
          writing |-> m.writing, answer |-> m.answer, recorded |-> m.recorded, log |-> m.log]
  BY Goes
<1>3. x.at = m.g[k].at + 1 /\ x.way = m.g[k].way
  OBVIOUS
<1> HIDE DEF x
<1>4. [m.g EXCEPT ![k] = x] \in [1 .. 2 -> Chain!Goroutines]
  BY <1>1
<1>5. [m.g EXCEPT ![k] = x][k] = x /\ \A j \in 1 .. 2 : j # k => [m.g EXCEPT ![k] = x][j] = m.g[j]
  BY <1>1
<1>6. Chain!Deeper(m, k) \in Chain!CallStates
  BY <1>2, <1>4 DEF Chain!CallStates
<1>7. QED
  BY <1>2, <1>3, <1>5, <1>6

LEMMA GoesBack ==
    ASSUME NEW m \in Chain!CallStates, NEW k \in 1 .. 2, m.g[k].at > 0,
           NEW way \in {"out", "panic", "abort"}
    PROVE  LET n == Chain!Back(m, k, way) IN
           /\ n \in Chain!CallStates
           /\ n.g[k].at = m.g[k].at - 1 /\ n.g[k].way = way
           /\ \A j \in 1 .. 2 : j # k => n.g[j] = m.g[j]
           /\ n.key = m.key /\ n.parent = m.parent /\ n.header = m.header /\ n.id = m.id
           /\ n.writing = m.writing /\ n.answer = m.answer /\ n.recorded = m.recorded /\ n.log = m.log
<1> DEFINE x == [at |-> m.g[k].at - 1, way |-> way]
<1>1. m.g \in [1 .. 2 -> Chain!Goroutines] /\ x \in Chain!Goroutines
  BY DEF Chain!CallStates, Chain!Goroutines
<1>2. Chain!Back(m, k, way) = [g |-> [m.g EXCEPT ![k] = x],
          key |-> m.key, parent |-> m.parent, header |-> m.header, id |-> m.id,
          writing |-> m.writing, answer |-> m.answer, recorded |-> m.recorded, log |-> m.log]
  BY Goes
<1>3. x.at = m.g[k].at - 1 /\ x.way = way
  OBVIOUS
<1> HIDE DEF x
<1>4. [m.g EXCEPT ![k] = x] \in [1 .. 2 -> Chain!Goroutines]
  BY <1>1
<1>5. [m.g EXCEPT ![k] = x][k] = x /\ \A j \in 1 .. 2 : j # k => [m.g EXCEPT ![k] = x][j] = m.g[j]
  BY <1>1
<1>6. Chain!Back(m, k, way) \in Chain!CallStates
  BY <1>2, <1>4 DEF Chain!CallStates
<1>7. QED
  BY <1>2, <1>3, <1>5, <1>6

\* What can be said of a call and of each of its goroutines.
LEMMA CallKnown ==
    ASSUME ChainInv, NEW c \in Clients
    PROVE  /\ hops[c] \in Chain!CallStates /\ Placed(hops[c]) /\ Told(hops[c])
           /\ system \in Systems /\ (Chain!Rpc(c) <=> Remote(hops[c]))
           /\ hops \in [Clients -> Chain!CallStates] /\ alive \in BOOLEAN
           /\ hops[c].g \in [1 .. 2 -> Chain!Goroutines]
           /\ \A k \in 1 .. 2 : hops[c].g[k].at \in 0 .. 6
<1>1. hops[c] \in Chain!CallStates
  BY DEF ChainInv, Chain!MiddlewareTypeOK
<1>2. hops[c].g \in [1 .. 2 -> Chain!Goroutines]
  BY <1>1 DEF Chain!CallStates
<1>3. \A k \in 1 .. 2 : hops[c].g[k].at \in 0 .. 6
  BY <1>2 DEF Chain!Goroutines
<1>4. QED
  BY <1>1, <1>2, <1>3 DEF ChainInv, Chain!MiddlewareTypeOK, Chain!Rpc, Remote

\* A race is in what the goroutines are doing, not in where they are.
LEMMA RacedAlike ==
    ASSUME NEW m, NEW n, Raced(m), \A k \in 1 .. 2 : n.g[k].way = m.g[k].way,
           n.writing = m.writing, n.answer = m.answer, n.recorded = m.recorded
    PROVE  Raced(n)
<1>1. n.g[1].way = m.g[1].way /\ n.g[2].way = m.g[2].way
  OBVIOUS
<1>2. QED
  BY <1>1 DEF Raced

LEMMA EnterKeeps ==
    ASSUME ChainInv, NEW c \in Clients, NEW k \in 1 .. 2, Chain!Enter(c, k)
    PROVE  ChainInv'
<1> DEFINE m == hops[c]
           rec == Chain!Deeper(m, k)
<1>1. /\ m \in Chain!CallStates /\ Placed(m) /\ Told(m) /\ system \in Systems
      /\ m.g \in [1 .. 2 -> Chain!Goroutines] /\ m.g[k].at \in 0 .. 6 /\ alive \in BOOLEAN
  BY CallKnown
<1>2. alive /\ m.g[k].way = "in" /\ m.g[k].at \in {RecAt(m), LogAt(m)}
  BY <1>1, Layers DEF Chain!Enter, Chain!In
<1>3. /\ rec \in Chain!CallStates
      /\ rec.g[k].at = m.g[k].at + 1 /\ rec.g[k].way = m.g[k].way
      /\ \A j \in 1 .. 2 : j # k => rec.g[j] = m.g[j]
      /\ rec.key = m.key /\ rec.parent = m.parent /\ rec.header = m.header /\ rec.id = m.id
      /\ rec.writing = m.writing /\ rec.answer = m.answer /\ rec.recorded = m.recorded /\ rec.log = m.log
  BY <1>1, <1>2, GoesDeeper DEF RecAt, LogAt
<1>4. hops' = [hops EXCEPT ![c] = rec] /\ UNCHANGED <<system, minted, alive>>
  BY DEF Chain!Enter, Chain!Becomes
<1> HIDE DEF m, rec
<1>5. Placed(rec)
  BY <1>1, <1>2, <1>3 DEF Placed, Remote, RecAt, LogAt, Http, Systems, Chain!Resting
<1>6. Told(rec)
  <2>1. Http => Raced(rec)
    BY <1>1, <1>3, RacedAlike DEF Told
  <2>2. QED
    BY <1>1, <1>2, <1>3, <2>1 DEF Told, Placed, Logged, Remote, LogAt, Http, Systems, Chain!Resting
<1>7. QED
  BY <1>1, <1>2, <1>3, <1>4, <1>5, <1>6, CallGoes DEF m

\* A layer that does nothing on the way out.
LEMMA LeaveKeeps ==
    ASSUME ChainInv, NEW c \in Clients, NEW k \in 1 .. 2, Chain!Leave(c, k)
    PROVE  ChainInv'
<1> DEFINE m == hops[c]
           way == m.g[k].way
           rec == Chain!Back(m, k, way)
<1>1. /\ m \in Chain!CallStates /\ Placed(m) /\ Told(m) /\ system \in Systems
      /\ m.g \in [1 .. 2 -> Chain!Goroutines] /\ m.g[k].at \in 0 .. 6 /\ alive \in BOOLEAN
  BY CallKnown
<1>2. /\ alive /\ way \in {"out", "panic", "abort"}
      /\ \/ Http /\ m.g[k].at \in {1, 5}
         \/ system = "lesson62" /\ m.g[k].at = 3
         \/ system = "lesson63" /\ m.g[k].at = (IF Remote(m) THEN 2 ELSE 1)
         \/ way = "out" /\ m.g[k].at = RecAt(m)
         \/ way = "panic" /\ m.g[k].at = LogAt(m)
  BY <1>1, Layers DEF Chain!Leave, Chain!In
<1>3. /\ rec \in Chain!CallStates
      /\ rec.g[k].at = m.g[k].at - 1 /\ rec.g[k].way = m.g[k].way
      /\ \A j \in 1 .. 2 : j # k => rec.g[j] = m.g[j]
      /\ rec.key = m.key /\ rec.parent = m.parent /\ rec.header = m.header /\ rec.id = m.id
      /\ rec.writing = m.writing /\ rec.answer = m.answer /\ rec.recorded = m.recorded /\ rec.log = m.log
  <2>1. m.g[k].at > 0 /\ way = m.g[k].way
    BY <1>1, <1>2 DEF RecAt, LogAt
  <2> HIDE DEF m, way
  <2>2. QED
    BY <1>1, <1>2, <2>1, GoesBack
<1>4. hops' = [hops EXCEPT ![c] = rec] /\ UNCHANGED <<system, minted, alive>>
  BY DEF Chain!Leave, Chain!Becomes
<1> HIDE DEF m, rec, way
<1>5. Placed(rec)
  <2>1. Remote(rec) = Remote(m)
    BY <1>3 DEF Remote
  <2>2. CASE Http
    BY <1>1, <1>2, <1>3, <2>2 DEF way, Placed, RecAt, LogAt, Http, Remote, Chain!Resting
  <2>3. CASE system = "lesson62"
    BY <1>1, <1>2, <1>3, <2>1, <2>3 DEF way, Placed, RecAt, LogAt, Http, Remote, Chain!Resting
  <2>4. CASE system = "lesson63"
    BY <1>1, <1>2, <1>3, <2>1, <2>4 DEF way, Placed, RecAt, LogAt, Http, Chain!Resting
  <2>5. QED
    BY <1>1, <2>2, <2>3, <2>4 DEF Systems, Http
<1>6. Told(rec)
  <2>1. Http => Raced(rec)
    BY <1>1, <1>3, RacedAlike DEF Told
  <2>2. QED
    BY <1>1, <1>2, <1>3, <2>1 DEF way, Told, Placed, Logged, Remote, RecAt, LogAt, Http, Systems, Chain!Resting
<1>7. QED
  BY <1>1, <1>2, <1>3, <1>4, <1>5, <1>6, CallGoes DEF m

\* What a goroutine does to its call as it begins to write, records and sends.
MidAnswer(m, k, way, code) == [m EXCEPT !.g[k].way = way, !.writing[k] = code]
Noted(m, k) == [m EXCEPT !.recorded = m.writing[k], !.g[k].way = "send"]
Given(m, k) ==
    [m EXCEPT !.answer = IF @ = "none" THEN m.writing[k] ELSE @, !.writing[k] = "none"]

LEMMA BegunShape ==
    ASSUME NEW m \in Chain!CallStates, NEW k \in 1 .. 2, NEW way \in MidWrite,
           NEW code \in Chain!Answers
    PROVE  LET n == MidAnswer(m, k, way, code) IN
           /\ n \in Chain!CallStates
           /\ n.g[k].at = m.g[k].at /\ n.g[k].way = way /\ n.writing[k] = code
           /\ \A j \in 1 .. 2 : j # k => n.g[j] = m.g[j] /\ n.writing[j] = m.writing[j]
           /\ n.key = m.key /\ n.parent = m.parent /\ n.header = m.header /\ n.id = m.id
           /\ n.answer = m.answer /\ n.recorded = m.recorded /\ n.log = m.log
<1> DEFINE x == [at |-> m.g[k].at, way |-> way]
           gs == [m.g EXCEPT ![k] = x]
           ws == [m.writing EXCEPT ![k] = code]
<1>1. /\ m.g \in [1 .. 2 -> Chain!Goroutines] /\ m.g[k] \in Chain!Goroutines
      /\ m.writing \in [1 .. 2 -> Chain!Answers]
  BY DEF Chain!CallStates
<1>2. x \in Chain!Goroutines /\ [m.g[k] EXCEPT !.way = way] = x
  BY <1>1 DEF Chain!Goroutines, MidWrite
<1>3. MidAnswer(m, k, way, code) = [m EXCEPT !.g = [m.g EXCEPT ![k] = [m.g[k] EXCEPT !.way = way]],
                                           !.writing = ws]
  BY DEF MidAnswer
<1>4. x.at = m.g[k].at /\ x.way = way
  OBVIOUS
<1> HIDE DEF x
<1>5. /\ gs \in [1 .. 2 -> Chain!Goroutines] /\ ws \in [1 .. 2 -> Chain!Answers]
      /\ gs[k] = x /\ ws[k] = code
      /\ \A j \in 1 .. 2 : j # k => gs[j] = m.g[j] /\ ws[j] = m.writing[j]
  BY <1>1, <1>2
<1> HIDE DEF gs, ws
<1>6. MidAnswer(m, k, way, code) = [g |-> gs, key |-> m.key, parent |-> m.parent,
          header |-> m.header, id |-> m.id, writing |-> ws,
          answer |-> m.answer, recorded |-> m.recorded, log |-> m.log]
  <2>1. MidAnswer(m, k, way, code) = [m EXCEPT !.g = gs, !.writing = ws]
    BY <1>2, <1>3 DEF gs
  <2>2. QED
    BY <2>1 DEF Chain!CallStates
<1>7. MidAnswer(m, k, way, code) \in Chain!CallStates
  BY <1>5, <1>6 DEF Chain!CallStates
<1>8. QED
  BY <1>4, <1>5, <1>6, <1>7

LEMMA NotedShape ==
    ASSUME NEW m \in Chain!CallStates, NEW k \in 1 .. 2
    PROVE  LET n == Noted(m, k) IN
           /\ n \in Chain!CallStates
           /\ n.g[k].at = m.g[k].at /\ n.g[k].way = "send" /\ n.recorded = m.writing[k]
           /\ \A j \in 1 .. 2 : j # k => n.g[j] = m.g[j]
           /\ n.key = m.key /\ n.parent = m.parent /\ n.header = m.header /\ n.id = m.id
           /\ n.writing = m.writing /\ n.answer = m.answer /\ n.log = m.log
<1> DEFINE x == [at |-> m.g[k].at, way |-> "send"]
           gs == [m.g EXCEPT ![k] = x]
<1>1. /\ m.g \in [1 .. 2 -> Chain!Goroutines] /\ m.g[k] \in Chain!Goroutines
      /\ m.writing[k] \in Chain!Answers
  BY DEF Chain!CallStates
<1>2. x \in Chain!Goroutines /\ [m.g[k] EXCEPT !.way = "send"] = x
  BY <1>1 DEF Chain!Goroutines
<1>3. Noted(m, k) = [m EXCEPT !.recorded = m.writing[k],
                              !.g = [m.g EXCEPT ![k] = [m.g[k] EXCEPT !.way = "send"]]]
  BY DEF Noted
<1>4. x.at = m.g[k].at /\ x.way = "send"
  OBVIOUS
<1> HIDE DEF x
<1>5. /\ gs \in [1 .. 2 -> Chain!Goroutines] /\ gs[k] = x
      /\ \A j \in 1 .. 2 : j # k => gs[j] = m.g[j]
  BY <1>1, <1>2
<1> HIDE DEF gs
<1>6. Noted(m, k) = [g |-> gs, key |-> m.key, parent |-> m.parent,
          header |-> m.header, id |-> m.id, writing |-> m.writing,
          answer |-> m.answer, recorded |-> m.writing[k], log |-> m.log]
  <2>1. Noted(m, k) = [m EXCEPT !.recorded = m.writing[k], !.g = gs]
    BY <1>2, <1>3 DEF gs
  <2>2. QED
    BY <2>1 DEF Chain!CallStates
<1>7. Noted(m, k) \in Chain!CallStates
  BY <1>1, <1>5, <1>6 DEF Chain!CallStates
<1>8. QED
  BY <1>4, <1>5, <1>6, <1>7

LEMMA GivenShape ==
    ASSUME NEW m \in Chain!CallStates, NEW k \in 1 .. 2
    PROVE  LET n == Given(m, k) IN
           /\ n \in Chain!CallStates /\ n.g = m.g
           /\ n.answer = IF m.answer = "none" THEN m.writing[k] ELSE m.answer
           /\ \A j \in 1 .. 2 : j # k => n.writing[j] = m.writing[j]
           /\ n.key = m.key /\ n.parent = m.parent /\ n.header = m.header /\ n.id = m.id
           /\ n.recorded = m.recorded /\ n.log = m.log
<1> DEFINE ws == [m.writing EXCEPT ![k] = "none"]
           told == IF m.answer = "none" THEN m.writing[k] ELSE m.answer
<1>1. /\ m.writing \in [1 .. 2 -> Chain!Answers] /\ m.answer \in Chain!Answers
      /\ m.writing[k] \in Chain!Answers
  BY DEF Chain!CallStates
<1>2. "none" \in Chain!Answers
  BY DEF Chain!Answers
<1>3. /\ ws \in [1 .. 2 -> Chain!Answers] /\ told \in Chain!Answers
      /\ \A j \in 1 .. 2 : j # k => ws[j] = m.writing[j]
  BY <1>1, <1>2
<1>4. Given(m, k) = [m EXCEPT !.answer = told, !.writing = ws]
  BY DEF Given
<1> HIDE DEF ws, told
<1>5. Given(m, k) = [g |-> m.g, key |-> m.key, parent |-> m.parent,
          header |-> m.header, id |-> m.id, writing |-> ws,
          answer |-> told, recorded |-> m.recorded, log |-> m.log]
  BY <1>4 DEF Chain!CallStates
<1>6. Given(m, k) \in Chain!CallStates
  BY <1>3, <1>5 DEF Chain!CallStates
<1>7. QED
  BY <1>3, <1>5, <1>6 DEF told

\* A goroutine begins to write: Timeout's when the deadline passes, the inner one
\* once with an answer of its own, or with an error after a panic.
LEMMA AnswerStarts ==
    ASSUME ChainInv, Http, alive, NEW c \in Clients, NEW k \in 1 .. 2,
           NEW code \in {"ok", "error", "unauthorized", "internal", "timeout"},
           Chain!StartWriting(c, k, code),
           \/ k = 1 /\ hops[c].g[1].way = "wait" /\ code = "timeout"
           \/ /\ k = 2 /\ hops[c].g[2].way = "in" /\ hops[c].g[2].at \in 4 .. 6
              /\ code \in {"ok", "error", "unauthorized"}
           \/ k = 2 /\ hops[c].g[2].way = "panic" /\ code = "internal"
    PROVE  ChainInv'
<1> DEFINE m == hops[c]
           way == IF system = "lesson39" \/ m.recorded = "none" THEN "record" ELSE "send"
           rec == MidAnswer(m, k, way, code)
<1>1. /\ m \in Chain!CallStates /\ Placed(m) /\ Told(m) /\ system \in Systems
      /\ m.g \in [1 .. 2 -> Chain!Goroutines] /\ m.g[k].at \in 0 .. 6 /\ alive \in BOOLEAN
  BY CallKnown
<1>2. way \in MidWrite /\ code \in Chain!Answers
  BY DEF MidWrite, Chain!Answers
<1>3. /\ rec \in Chain!CallStates
      /\ rec.g[k].at = m.g[k].at /\ rec.g[k].way = way /\ rec.writing[k] = code
      /\ \A j \in 1 .. 2 : j # k => rec.g[j] = m.g[j] /\ rec.writing[j] = m.writing[j]
      /\ rec.key = m.key /\ rec.parent = m.parent /\ rec.header = m.header /\ rec.id = m.id
      /\ rec.answer = m.answer /\ rec.recorded = m.recorded /\ rec.log = m.log
  <2> HIDE DEF m, way
  <2>1. QED
    BY <1>1, <1>2, BegunShape
<1>4. /\ hops' = [hops EXCEPT ![c] = rec] /\ UNCHANGED <<system, minted>>
      /\ alive' \in IF Chain!Cloning(c, 3 - k) THEN BOOLEAN ELSE {TRUE}
  BY DEF Chain!StartWriting, Chain!Becomes, MidAnswer
<1>5. Chain!Cloning(c, 3 - k) => m.g[3 - k].way = "send"
  BY DEF Chain!Cloning
<1>6. alive' \in BOOLEAN /\ (alive' \/ \A j \in 1 .. 2 : rec.g[j].way \in MidWrite)
  <2>1. CASE Chain!Cloning(c, 3 - k)
    <3>1. m.g[3 - k].way = "send" /\ 3 - k \in 1 .. 2 /\ 3 - k # k
      BY <1>5, <2>1
    <3>2. rec.g[3 - k].way = "send"
      BY <1>3, <3>1
    <3>3. \A j \in 1 .. 2 : j = k \/ j = 3 - k
      OBVIOUS
    <3>4. QED
      BY <1>2, <1>3, <1>4, <3>2, <3>3 DEF MidWrite
  <2>2. CASE ~Chain!Cloning(c, 3 - k)
    BY <1>4, <2>2
  <2>3. QED
    BY <2>1, <2>2
<1>7. Raced(m) /\ ~Remote(m) /\ Chain!Late = IF system = "lesson39" THEN {"timeout", "internal"} ELSE {"timeout"}
  BY <1>1 DEF Told, Placed, Remote, Http, Chain!Late
<1> HIDE DEF m, rec, way
<1>8. Placed(rec)
  <2>1. CASE k = 1
    BY <1>1, <1>2, <1>3, <2>1 DEF m, Placed, Http, MidWrite, Chain!Resting
  <2>2. CASE k = 2
    BY <1>1, <1>2, <1>3, <2>2 DEF m, Placed, Http, MidWrite, Chain!Resting, Chain!NewCall
  <2>3. QED
    BY <2>1, <2>2
<1>9. Raced(rec)
  <2>1. (way = "record" /\ (system = "lesson39" \/ m.recorded = "none"))
        \/ (way = "send" /\ m.recorded # "none")
    BY DEF way
  <2>2. CASE k = 1
    BY <1>3, <1>7, <2>1, <2>2 DEF m, Raced, MidWrite, Agree
  <2>3. CASE k = 2
    <3>1. m.g[1].way # "in"
      BY <1>1, <2>3 DEF m, Placed, Chain!Resting
    <3>2. CASE m.g[2].way = "in"
      BY <1>3, <1>7, <2>1, <2>3, <3>1, <3>2 DEF m, Raced, MidWrite, Agree
    <3>3. CASE m.g[2].way = "panic"
      BY <1>3, <1>7, <2>1, <2>3, <3>1, <3>3 DEF m, Raced, MidWrite, Agree
    <3>4. QED
      BY <2>3, <3>2, <3>3 DEF m
  <2>4. QED
    BY <2>2, <2>3
<1>10. Told(rec)
  <2>1. ~Remote(rec)
    BY <1>3, <1>7 DEF Remote
  <2>2. Logged(m) => Logged(rec)
    BY <1>3, <1>7, <2>1 DEF Logged
  <2>3. CASE k = 1
    BY <1>1, <1>2, <1>3, <1>7, <1>9, <2>1, <2>3 DEF m, Told, LogAt, MidWrite
  <2>4. CASE k = 2
    BY <1>1, <1>2, <1>3, <1>7, <1>9, <2>1, <2>2, <2>4 DEF m, Told, LogAt, MidWrite
  <2>5. QED
    BY <2>3, <2>4
<1>11. QED
  BY <1>1, <1>3, <1>4, <1>6, <1>8, <1>10, CallGoes DEF m

\* Both record and send in any order, and the second to send is not heard.
LEMMA RecordKeeps ==
    ASSUME ChainInv, NEW c \in Clients, NEW k \in 1 .. 2, Chain!Record(c, k)
    PROVE  ChainInv'
<1> DEFINE m == hops[c]
           rec == Noted(m, k)
<1>1. /\ m \in Chain!CallStates /\ Placed(m) /\ Told(m) /\ system \in Systems
      /\ m.g \in [1 .. 2 -> Chain!Goroutines] /\ m.g[k].at \in 0 .. 6 /\ alive \in BOOLEAN
  BY CallKnown
<1>2. alive /\ m.g[k].way = "record"
  BY DEF Chain!Record
<1>3. /\ rec \in Chain!CallStates
      /\ rec.g[k].at = m.g[k].at /\ rec.g[k].way = "send" /\ rec.recorded = m.writing[k]
      /\ \A j \in 1 .. 2 : j # k => rec.g[j] = m.g[j]
      /\ rec.key = m.key /\ rec.parent = m.parent /\ rec.header = m.header /\ rec.id = m.id
      /\ rec.writing = m.writing /\ rec.answer = m.answer /\ rec.log = m.log
  BY <1>1, NotedShape
<1>4. hops' = [hops EXCEPT ![c] = rec] /\ UNCHANGED <<system, minted, alive>>
  BY DEF Chain!Record, Chain!Becomes, Noted
<1> HIDE DEF m, rec
<1>5. Http
  <2>1. CASE k = 1
    BY <1>1, <1>2, <2>1 DEF Placed
  <2>2. CASE k = 2
    BY <1>1, <1>2, <2>2 DEF Placed, Chain!Resting
  <2>3. QED
    BY <2>1, <2>2
<1>6. Raced(m) /\ ~Remote(m) /\ Chain!Late = IF system = "lesson39" THEN {"timeout", "internal"} ELSE {"timeout"}
  BY <1>1, <1>5 DEF Told, Placed, Remote, Http, Chain!Late
<1>7. Placed(rec)
  <2>1. CASE k = 1
    BY <1>1, <1>2, <1>3, <2>1 DEF Placed, Http, Chain!Resting
  <2>2. CASE k = 2
    BY <1>1, <1>2, <1>3, <2>2 DEF Placed, Http, Chain!Resting, Chain!NewCall
  <2>3. QED
    BY <2>1, <2>2
<1>8. Raced(rec)
  <2>1. CASE k = 1
    BY <1>2, <1>3, <1>6, <2>1 DEF Raced, MidWrite, Agree
  <2>2. CASE k = 2
    <3>1. m.g[1].way # "in"
      BY <1>1, <1>2, <1>5, <2>2 DEF Placed, Chain!Resting
    <3>2. QED
      BY <1>2, <1>3, <1>6, <2>2, <3>1 DEF Raced, MidWrite, Agree
  <2>3. QED
    BY <2>1, <2>2
<1>9. Told(rec)
  <2>1. ~Remote(rec)
    BY <1>3, <1>6 DEF Remote
  <2>2. Logged(m) => Logged(rec)
    BY <1>3, <1>6, <2>1 DEF Logged
  <2>3. CASE k = 1
    BY <1>1, <1>2, <1>3, <1>5, <1>6, <1>8, <2>1, <2>3 DEF Told, LogAt
  <2>4. CASE k = 2
    BY <1>1, <1>2, <1>3, <1>5, <1>6, <1>8, <2>1, <2>2, <2>4 DEF Told, LogAt
  <2>5. QED
    BY <2>3, <2>4
<1>10. QED
  BY <1>1, <1>2, <1>3, <1>4, <1>7, <1>9, CallGoes DEF m

LEMMA SendKeeps ==
    ASSUME ChainInv, NEW c \in Clients, NEW k \in 1 .. 2, Chain!Send(c, k)
    PROVE  ChainInv'
<1> DEFINE m == hops[c]
           w == Given(m, k)
<1>1. /\ m \in Chain!CallStates /\ Placed(m) /\ Told(m) /\ system \in Systems
      /\ m.g \in [1 .. 2 -> Chain!Goroutines] /\ m.g[k].at \in 0 .. 6 /\ alive \in BOOLEAN
  BY CallKnown
<1>2. alive /\ m.g[k].way = "send"
  BY DEF Chain!Send
<1>3. PICK way \in {"out", "panic", "abort"} :
          /\ way # "out" => Chain!Layer(c, k) = "handler"
          /\ Chain!Becomes(c, Chain!Back(w, k, way))
  BY DEF Chain!Send, Given
<1> DEFINE rec == Chain!Back(w, k, way)
<1>4. hops' = [hops EXCEPT ![c] = rec] /\ UNCHANGED <<system, minted, alive>>
  BY <1>3 DEF Chain!Send, Chain!Becomes
<1>5. Http
  <2>1. CASE k = 1
    BY <1>1, <1>2, <2>1 DEF Placed
  <2>2. CASE k = 2
    BY <1>1, <1>2, <2>2 DEF Placed, Chain!Resting
  <2>3. QED
    BY <2>1, <2>2
<1>6. way # "out" => m.g[k].at >= 6
  BY <1>1, <1>3, <1>5, Layers
<1>7. m.g[k].at > 0 /\ (k = 1 => m.g[1].at = 3) /\ (k = 2 => m.g[2].at \in 4 .. 6)
  <2>1. CASE k = 1
    BY <1>1, <1>2, <1>5, <2>1 DEF Placed
  <2>2. CASE k = 2
    BY <1>1, <1>2, <1>5, <2>2 DEF Placed
  <2>3. QED
    BY <2>1, <2>2
<1>8. /\ w \in Chain!CallStates /\ w.g = m.g
      /\ w.answer = IF m.answer = "none" THEN m.writing[k] ELSE m.answer
      /\ \A j \in 1 .. 2 : j # k => w.writing[j] = m.writing[j]
      /\ w.key = m.key /\ w.parent = m.parent /\ w.header = m.header /\ w.id = m.id
      /\ w.recorded = m.recorded /\ w.log = m.log
  BY <1>1, GivenShape
<1> HIDE DEF m, w
<1>9. /\ rec \in Chain!CallStates
      /\ rec.g[k].at = m.g[k].at - 1 /\ rec.g[k].way = way
      /\ \A j \in 1 .. 2 : j # k => rec.g[j] = m.g[j]
      /\ rec.key = m.key /\ rec.parent = m.parent /\ rec.header = m.header /\ rec.id = m.id
      /\ rec.writing = w.writing /\ rec.answer = w.answer /\ rec.recorded = m.recorded
      /\ rec.log = m.log
  BY <1>7, <1>8, GoesBack
<1> HIDE DEF rec
<1>10. Raced(m) /\ ~Remote(m) /\ Chain!Late = IF system = "lesson39" THEN {"timeout", "internal"} ELSE {"timeout"}
  BY <1>1, <1>5 DEF Told, Placed, Remote, Http, Chain!Late
<1>11. k = 1 => way = "out"
  BY <1>6, <1>7
<1>12. Placed(rec)
  <2>1. CASE k = 1
    BY <1>1, <1>2, <1>7, <1>9, <1>11, <2>1 DEF Placed, Http, Chain!Resting
  <2>2. CASE k = 2
    BY <1>1, <1>2, <1>5, <1>6, <1>7, <1>9, <2>2 DEF Placed, Http, Chain!Resting, Chain!NewCall
  <2>3. QED
    BY <2>1, <2>2
<1>13. Raced(rec)
  <2>1. CASE k = 1
    BY <1>2, <1>8, <1>9, <1>10, <1>11, <2>1 DEF Raced, MidWrite, Agree
  <2>2. CASE k = 2
    <3>1. m.g[1].way # "in"
      BY <1>1, <1>2, <1>5, <2>2 DEF Placed, Chain!Resting
    <3>2. QED
      BY <1>2, <1>8, <1>9, <1>10, <2>2, <3>1 DEF Raced, MidWrite, Agree
  <2>3. QED
    BY <2>1, <2>2
<1>14. Told(rec)
  <2>1. ~Remote(rec)
    BY <1>9, <1>10 DEF Remote
  <2>2. rec.answer # "dropped" /\ rec.answer # "none"
    BY <1>1, <1>2, <1>8, <1>9, <1>10 DEF Told, Raced, MidWrite
  <2>3. CASE k = 1
    BY <1>1, <1>2, <1>5, <1>7, <1>9, <1>10, <1>11, <1>13, <2>1, <2>2, <2>3 DEF Told, LogAt, Http
  <2>4. CASE k = 2
    <3>1. m.g[1].way \in {"out", "done"} => rec.answer = m.answer
      BY <1>2, <1>8, <1>9, <1>10, <2>4 DEF Raced
    <3>2. m.g[1].way \in {"out", "done"} /\ Logged(m) => Logged(rec)
      BY <1>9, <1>10, <2>1, <3>1 DEF Logged
    <3>3. QED
      BY <1>1, <1>2, <1>5, <1>9, <1>10, <1>13, <2>1, <2>2, <2>4, <3>1, <3>2 DEF Told, LogAt
  <2>5. QED
    BY <2>3, <2>4
<1>15. QED
  BY <1>1, <1>2, <1>4, <1>9, <1>12, <1>14, CallGoes DEF m

\* The end of a panic: an error is written, and the layers outside return.
LEMMA RecoverKeeps ==
    ASSUME ChainInv, NEW c \in Clients, NEW k \in 1 .. 2, Chain!Recover(c, k)
    PROVE  ChainInv'
<1> DEFINE m == hops[c]
           w == Chain!Write(c, m, "internal")
<1>1. /\ m \in Chain!CallStates /\ Placed(m) /\ Told(m) /\ system \in Systems
      /\ m.g \in [1 .. 2 -> Chain!Goroutines] /\ m.g[k].at \in 0 .. 6 /\ alive \in BOOLEAN
      /\ Chain!Rpc(c) <=> Remote(m)
  BY CallKnown
<1>2. /\ alive /\ m.g[k].at = RecAt(m)
      /\ \/ m.g[k].way = "panic" /\ Chain!Answer(c, k, "internal")
         \/ /\ m.g[k].way = "abort" /\ Chain!Becomes(c, Chain!Back(m, k, "abort"))
            /\ UNCHANGED <<minted, alive>>
  BY <1>1, Layers DEF Chain!Recover, Chain!In
<1>3. k = 1 => m.g[k].way # "abort" /\ ~Http
  BY <1>1, <1>2 DEF Placed, RecAt
<1>4. CASE m.g[k].way = "panic" /\ Http
  <2>1. k = 2 /\ Chain!StartWriting(c, k, "internal")
    BY <1>2, <1>3, <1>4 DEF Chain!Answer, Chain!Shared, Http
  <2>2. QED
    BY <1>2, <1>4, <2>1, AnswerStarts
<1>5. CASE m.g[k].way = "panic" /\ ~Http
  <2> DEFINE rec == Chain!Back(w, k, "out")
  <2>1. /\ w \in Chain!CallStates
        /\ w.g = m.g /\ w.key = m.key /\ w.parent = m.parent /\ w.header = m.header
        /\ w.id = m.id /\ w.writing = m.writing /\ w.log = m.log
        /\ w.answer = IF Remote(m) \/ m.answer = "none" THEN "internal" ELSE m.answer
        /\ w.recorded = IF ~Remote(m) /\ m.recorded = "none" THEN "internal" ELSE m.recorded
    BY <1>1, Writes DEF Chain!Answers
  <2> HIDE DEF w
  <2>2. /\ rec \in Chain!CallStates
        /\ rec.g[k].at = m.g[k].at - 1 /\ rec.g[k].way = "out"
        /\ \A j \in 1 .. 2 : j # k => rec.g[j] = m.g[j]
        /\ rec.key = m.key /\ rec.parent = m.parent /\ rec.header = m.header /\ rec.id = m.id
        /\ rec.writing = m.writing /\ rec.answer = w.answer /\ rec.recorded = w.recorded
        /\ rec.log = m.log
    BY <1>1, <1>2, <2>1, GoesBack DEF RecAt
  <2>3. hops' = [hops EXCEPT ![c] = rec] /\ UNCHANGED <<system, minted, alive>>
    BY <1>2, <1>5 DEF Chain!Answer, Chain!Shared, Http, Chain!Becomes, w
  <2> HIDE DEF m, rec
  <2>4. Placed(rec)
    BY <1>1, <1>2, <1>5, <2>2 DEF Placed, Remote, RecAt, LogAt, Http, Systems, Chain!Resting
  <2>5. Told(rec)
    BY <1>1, <1>2, <1>5, <2>1, <2>2
       DEF Told, Placed, Logged, Remote, RecAt, LogAt, Http, Systems, Chain!Resting
  <2>6. QED
    BY <1>1, <1>2, <2>2, <2>3, <2>4, <2>5, CallGoes DEF m
<1>6. CASE m.g[k].way = "abort"
  <2> DEFINE rec == Chain!Back(m, k, "abort")
  <2>0. k = 2 /\ Http
    BY <1>1, <1>3, <1>6 DEF Placed, Chain!Resting
  <2>1. /\ rec \in Chain!CallStates
        /\ rec.g[k].at = m.g[k].at - 1 /\ rec.g[k].way = m.g[k].way
        /\ \A j \in 1 .. 2 : j # k => rec.g[j] = m.g[j]
        /\ rec.key = m.key /\ rec.parent = m.parent /\ rec.header = m.header /\ rec.id = m.id
        /\ rec.writing = m.writing /\ rec.answer = m.answer /\ rec.recorded = m.recorded
        /\ rec.log = m.log
    BY <1>1, <1>2, <1>6, GoesBack DEF RecAt
  <2>2. hops' = [hops EXCEPT ![c] = rec] /\ UNCHANGED <<system, minted, alive>>
    BY <1>2, <1>6 DEF Chain!Becomes
  <2> HIDE DEF m, rec
  <2>3. Placed(rec)
    BY <1>1, <1>2, <1>6, <2>0, <2>1 DEF Placed, Remote, RecAt, Http, Chain!Resting, Chain!NewCall
  <2>4. Told(rec)
    <3>1. Raced(rec)
      BY <1>1, <2>0, <2>1, RacedAlike DEF Told
    <3>2. QED
      BY <1>1, <2>0, <2>1, <3>1 DEF Told, Logged, Remote, LogAt, Http
  <2>5. QED
    BY <1>1, <1>2, <2>1, <2>2, <2>3, <2>4, CallGoes DEF m
<1>7. QED
  BY <1>2, <1>4, <1>5, <1>6

\* A wrong key is answered where it is seen, a good one goes on.
LEMMA AuthKeeps ==
    ASSUME ChainInv, NEW c \in Clients, NEW k \in 1 .. 2, Chain!Auth(c, k)
    PROVE  ChainInv'
<1> DEFINE m == hops[c]
           w == Chain!Write(c, m, "unauthorized")
<1>1. /\ m \in Chain!CallStates /\ Placed(m) /\ Told(m) /\ system \in Systems
      /\ m.g \in [1 .. 2 -> Chain!Goroutines] /\ m.g[k].at \in 0 .. 6 /\ alive \in BOOLEAN
      /\ Chain!Rpc(c) <=> Remote(m)
  BY CallKnown
<1>2. /\ alive /\ m.g[k].way = "in"
      /\ (Http /\ m.g[k].at = 5) \/ (system = "lesson62" /\ m.g[k].at = 3)
  BY <1>1, Layers DEF Chain!Auth, Chain!In
<1>4. CASE m.key
  <2> DEFINE rec == Chain!Deeper(m, k)
  <2>1. /\ rec \in Chain!CallStates
        /\ rec.g[k].at = m.g[k].at + 1 /\ rec.g[k].way = m.g[k].way
        /\ \A j \in 1 .. 2 : j # k => rec.g[j] = m.g[j]
        /\ rec.key = m.key /\ rec.parent = m.parent /\ rec.header = m.header /\ rec.id = m.id
        /\ rec.writing = m.writing /\ rec.answer = m.answer /\ rec.recorded = m.recorded /\ rec.log = m.log
    BY <1>1, <1>2, GoesDeeper
  <2>2. hops' = [hops EXCEPT ![c] = rec] /\ UNCHANGED <<system, minted, alive>>
    BY <1>4 DEF Chain!Auth, Chain!Becomes
  <2> HIDE DEF m, rec
  <2>3. Placed(rec)
    BY <1>1, <1>2, <2>1 DEF Placed, Remote, RecAt, LogAt, Http, Systems, Chain!Resting
  <2>4. Told(rec)
    <3>1. Http => Raced(rec)
      BY <1>1, <2>1, RacedAlike DEF Told
    <3>2. QED
      BY <1>1, <1>2, <2>1, <3>1 DEF Told, Placed, Logged, Remote, LogAt, Http, Systems, Chain!Resting
  <2>5. QED
    BY <1>1, <1>2, <2>1, <2>2, <2>3, <2>4, CallGoes DEF m
<1>3. CASE ~m.key /\ Http
  <2>1. k = 2
    BY <1>1, <1>2, <1>3 DEF Placed, Http
  <2>2. Chain!StartWriting(c, k, "unauthorized")
    BY <1>3 DEF Chain!Auth, Chain!Answer, Chain!Shared, Http
  <2>3. QED
    BY <1>2, <1>3, <2>1, <2>2, AnswerStarts DEF Http
<1>5. CASE ~m.key /\ ~Http
  <2> DEFINE rec == Chain!Back(w, k, "out")
  <2>1. /\ w \in Chain!CallStates
        /\ w.g = m.g /\ w.key = m.key /\ w.parent = m.parent /\ w.header = m.header
        /\ w.id = m.id /\ w.writing = m.writing /\ w.log = m.log
        /\ w.answer = IF Remote(m) \/ m.answer = "none" THEN "unauthorized" ELSE m.answer
        /\ w.recorded = IF ~Remote(m) /\ m.recorded = "none" THEN "unauthorized" ELSE m.recorded
    BY <1>1, Writes DEF Chain!Answers
  <2> HIDE DEF w
  <2>2. /\ rec \in Chain!CallStates
        /\ rec.g[k].at = m.g[k].at - 1 /\ rec.g[k].way = "out"
        /\ \A j \in 1 .. 2 : j # k => rec.g[j] = m.g[j]
        /\ rec.key = m.key /\ rec.parent = m.parent /\ rec.header = m.header /\ rec.id = m.id
        /\ rec.writing = m.writing /\ rec.answer = w.answer /\ rec.recorded = w.recorded /\ rec.log = m.log
    BY <1>1, <1>2, <2>1, GoesBack
  <2>3. hops' = [hops EXCEPT ![c] = rec] /\ UNCHANGED <<system, minted, alive>>
    BY <1>5 DEF Chain!Auth, Chain!Answer, Chain!Shared, Http, Chain!Becomes, w
  <2> HIDE DEF m, rec
  <2>4. Placed(rec)
    BY <1>1, <1>2, <1>5, <2>2 DEF Placed, Remote, RecAt, LogAt, Http, Systems, Chain!Resting
  <2>5. Told(rec)
    BY <1>1, <1>2, <1>5, <2>1, <2>2
       DEF Told, Placed, Logged, Remote, RecAt, LogAt, Http, Systems, Chain!Resting
  <2>6. QED
    BY <1>1, <1>2, <2>2, <2>3, <2>4, <2>5, CallGoes DEF m
<1>6. QED
  BY <1>3, <1>4, <1>5

\* The handler returns or panics, having written or not.
LEMMA HandlerKeeps ==
    ASSUME ChainInv, NEW c \in Clients, NEW k \in 1 .. 2, Chain!Handler(c, k)
    PROVE  ChainInv'
<1> DEFINE m == hops[c]
<1>1. /\ m \in Chain!CallStates /\ Placed(m) /\ Told(m) /\ system \in Systems
      /\ m.g \in [1 .. 2 -> Chain!Goroutines] /\ m.g[k].at \in 0 .. 6 /\ alive \in BOOLEAN
      /\ Chain!Rpc(c) <=> Remote(m)
  BY CallKnown
<1>2. alive /\ m.g[k].way = "in" /\ m.g[k].at >= (IF Http THEN 6 ELSE 4)
  BY <1>1, Layers DEF Chain!Handler, Chain!In
\* It returns or panics in silence.
<1>3. ASSUME NEW way \in {"out", "panic", "abort"}, way = "abort" => Http,
             Chain!Rpc(c) => way = "panic",
             Chain!Becomes(c, Chain!Back(m, k, way)), UNCHANGED <<minted, alive>>
      PROVE  ChainInv'
  <2> DEFINE rec == Chain!Back(m, k, way)
  <2>1. /\ rec \in Chain!CallStates
        /\ rec.g[k].at = m.g[k].at - 1 /\ rec.g[k].way = way
        /\ \A j \in 1 .. 2 : j # k => rec.g[j] = m.g[j]
        /\ rec.key = m.key /\ rec.parent = m.parent /\ rec.header = m.header /\ rec.id = m.id
        /\ rec.writing = m.writing /\ rec.answer = m.answer /\ rec.recorded = m.recorded
        /\ rec.log = m.log
    BY <1>1, <1>2, GoesBack
  <2>2. hops' = [hops EXCEPT ![c] = rec] /\ UNCHANGED <<system, minted, alive>>
    BY <1>3 DEF Chain!Becomes
  <2> HIDE DEF m, rec
  <2>3. Placed(rec)
    BY <1>1, <1>2, <1>3, <2>1 DEF Placed, Remote, RecAt, LogAt, Http, Systems, Chain!Resting
  <2>4. CASE Http
    <3>1. k = 2 /\ m.g[1].way # "in"
      BY <1>1, <1>2, <2>4 DEF Placed, Chain!Resting
    <3>2. Raced(rec)
      BY <1>1, <1>2, <1>3, <2>1, <2>4, <3>1 DEF Told, Raced, MidWrite
    <3>3. Told(rec)
      BY <1>1, <2>1, <2>4, <3>1, <3>2 DEF Told, Logged, Remote, LogAt, Http
    <3>4. QED
      BY <1>1, <1>2, <2>1, <2>2, <2>3, <3>3, CallGoes DEF m
  <2>5. CASE ~Http
    <3>1. Told(rec)
      BY <1>1, <1>2, <1>3, <2>1, <2>5
         DEF Told, Placed, Logged, Remote, RecAt, LogAt, Http, Systems, Chain!Resting
    <3>2. QED
      BY <1>1, <1>2, <2>1, <2>2, <2>3, <3>1, CallGoes DEF m
  <2>6. QED
    BY <2>4, <2>5
\* It answers, where nobody else does, and returns or panics.
<1>4. ASSUME NEW code \in {"ok", "error"}, NEW way \in {"out", "panic"}, ~Http,
             Chain!Becomes(c, Chain!Back(Chain!Write(c, m, code), k, way)), UNCHANGED <<minted, alive>>
      PROVE  ChainInv'
  <2> DEFINE w == Chain!Write(c, m, code)
             rec == Chain!Back(w, k, way)
  <2>1. /\ w \in Chain!CallStates
        /\ w.g = m.g /\ w.key = m.key /\ w.parent = m.parent /\ w.header = m.header
        /\ w.id = m.id /\ w.writing = m.writing /\ w.log = m.log
        /\ w.answer = IF Remote(m) \/ m.answer = "none" THEN code ELSE m.answer
        /\ w.recorded = IF ~Remote(m) /\ m.recorded = "none" THEN code ELSE m.recorded
    BY <1>1, Writes DEF Chain!Answers
  <2>2. hops' = [hops EXCEPT ![c] = rec] /\ UNCHANGED <<system, minted, alive>>
    BY <1>4 DEF Chain!Becomes
  <2> HIDE DEF w
  <2>3. /\ rec \in Chain!CallStates
        /\ rec.g[k].at = m.g[k].at - 1 /\ rec.g[k].way = way
        /\ \A j \in 1 .. 2 : j # k => rec.g[j] = m.g[j]
        /\ rec.key = m.key /\ rec.parent = m.parent /\ rec.header = m.header /\ rec.id = m.id
        /\ rec.writing = m.writing /\ rec.answer = w.answer /\ rec.recorded = w.recorded
        /\ rec.log = m.log
    BY <1>1, <1>2, <2>1, GoesBack
  <2> HIDE DEF m, rec
  <2>4. Placed(rec)
    BY <1>1, <1>2, <1>4, <2>3 DEF Placed, Remote, RecAt, LogAt, Http, Systems, Chain!Resting
  <2>5. Told(rec)
    BY <1>1, <1>2, <1>4, <2>1, <2>3
       DEF Told, Placed, Logged, Remote, RecAt, LogAt, Http, Systems, Chain!Resting
  <2>6. QED
    BY <1>1, <1>2, <2>2, <2>3, <2>4, <2>5, CallGoes DEF m
\* It begins to answer where Timeout may.
<1>5. ASSUME NEW code \in {"ok", "error"}, Http, Chain!StartWriting(c, k, code)
      PROVE  ChainInv'
  <2>1. k = 2
    BY <1>1, <1>2, <1>5 DEF Placed
  <2>2. m.g[2].at \in 4 .. 6 /\ m.g[2].way = "in"
    BY <1>1, <1>2, <1>5, <2>1
  <2>3. QED
    BY <1>2, <1>5, <2>1, <2>2, AnswerStarts
<1>6. QED
  BY <1>3, <1>4, <1>5 DEF Chain!Handler, Chain!Shared, Http

\* The line in the log.
LEMMA LoggingKeeps ==
    ASSUME ChainInv, NEW c \in Clients, NEW k \in 1 .. 2, Chain!Logging(c, k)
    PROVE  ChainInv'
<1> DEFINE m == hops[c]
           line == Append(m.log, Chain!Seen(c))
           w == [m EXCEPT !.log = Append(@, Chain!Seen(c))]
           rec == Chain!Back(w, k, "out")
<1>1. /\ m \in Chain!CallStates /\ Placed(m) /\ Told(m) /\ system \in Systems
      /\ m.g \in [1 .. 2 -> Chain!Goroutines] /\ m.g[k].at \in 0 .. 6 /\ alive \in BOOLEAN
      /\ Chain!Rpc(c) <=> Remote(m)
  BY CallKnown
<1>2. alive /\ m.g[k].way = "out" /\ m.g[k].at = LogAt(m)
  BY <1>1, Layers DEF Chain!Logging, Chain!In
<1>3. k = 1
  BY <1>1, <1>2 DEF Placed, LogAt, Http, Systems, Chain!Resting
<1>4. Chain!Seen(c) = IF Remote(m) THEN (IF m.answer = "none" THEN "ok" ELSE m.answer)
                      ELSE (IF m.recorded = "none" THEN "ok" ELSE m.recorded)
  BY <1>1 DEF Chain!Seen
<1>5. m.log = <<>> /\ Chain!Seen(c) \in Chain!Answers
  <2>1. m.answer \in Chain!Answers /\ m.recorded \in Chain!Answers
    BY <1>1 DEF Chain!CallStates
  <2>2. Chain!Seen(c) \in Chain!Answers
    BY <1>4, <2>1 DEF Chain!Answers
  <2>3. QED
    BY <1>1, <1>2, <1>3, <2>2 DEF Told
<1>6. line = <<Chain!Seen(c)>> /\ line \in Seq(Chain!Answers)
  BY <1>5
<1>7. w = [g |-> m.g, key |-> m.key, parent |-> m.parent, header |-> m.header, id |-> m.id, writing |-> m.writing,
           answer |-> m.answer, recorded |-> m.recorded, log |-> line]
  <2>1. w = [m EXCEPT !.log = line]
    OBVIOUS
  <2> HIDE DEF line, w
  <2>2. QED
    BY <1>1, <2>1 DEF Chain!CallStates
<1> HIDE DEF line, w
<1>8. w \in Chain!CallStates
  BY <1>1, <1>6, <1>7 DEF Chain!CallStates
<1>9. /\ rec \in Chain!CallStates
      /\ rec.g[k].at = m.g[k].at - 1 /\ rec.g[k].way = "out"
      /\ \A j \in 1 .. 2 : j # k => rec.g[j] = m.g[j]
      /\ rec.parent = m.parent /\ rec.header = m.header /\ rec.id = m.id
      /\ rec.writing = m.writing /\ rec.answer = m.answer /\ rec.recorded = m.recorded /\ rec.log = line
  <2>1. w.g = m.g /\ m.g[k].at > 0
    BY <1>1, <1>2, <1>7 DEF LogAt
  <2>2. QED
    BY <1>7, <1>8, <2>1, GoesBack
<1>10. hops' = [hops EXCEPT ![c] = rec] /\ UNCHANGED <<system, minted, alive>>
  BY DEF Chain!Logging, Chain!Becomes, w
<1> HIDE DEF m, rec
<1>11. Placed(rec)
  BY <1>1, <1>2, <1>3, <1>9 DEF Placed, Remote, RecAt, LogAt, Http, Systems, Chain!Resting
<1>12. Told(rec)
  <2>1. CASE Http
    <3>1. Raced(m) /\ Raced(rec) /\ m.log = <<>> /\ ~Remote(m)
      <4>1. Raced(m) /\ m.log = <<>> /\ ~Remote(m)
        BY <1>1, <1>2, <1>3, <2>1 DEF Told, LogAt, Placed, Remote, Http
      <4>2. \A j \in 1 .. 2 : rec.g[j].way = m.g[j].way
        BY <1>2, <1>9
      <4>3. QED
        BY <1>9, <4>1, <4>2, RacedAlike
    <3>2. Agree(Chain!Seen(c), IF m.answer = "none" THEN "ok" ELSE m.answer)
      BY <1>2, <1>3, <1>4, <3>1 DEF Raced, Agree
    <3>3. Len(line) = 1 /\ line[1] = Chain!Seen(c)
      BY <1>6
    <3>4. Logged(rec)
      BY <1>9, <3>1, <3>2, <3>3 DEF Logged, Remote
    <3>5. m.answer # "dropped"
      BY <1>1 DEF Told
    <3>6. QED
      BY <1>2, <1>3, <1>9, <2>1, <3>1, <3>4, <3>5 DEF Told, Remote, LogAt, Http
  <2>2. CASE ~Http
    <3>1. Agree("ok", "ok") /\ Agree(m.answer, m.answer)
      BY DEF Agree
    <3>2. Len(line) = 1 /\ line[1] = Chain!Seen(c)
      BY <1>6
    <3>3. QED
      BY <1>1, <1>2, <1>3, <1>4, <1>5, <1>6, <1>9, <2>2, <3>1, <3>2 DEF Told, Logged, Remote, LogAt
  <2>3. QED
    BY <2>1, <2>2
<1>13. QED
  BY <1>1, <1>2, <1>9, <1>10, <1>11, <1>12, CallGoes DEF m

\* The outer goroutine starts the inner one, and stops waiting for it.
LEMMA TimeoutKeeps ==
    ASSUME ChainInv, NEW c \in Clients, Chain!Timeout(c)
    PROVE  ChainInv'
<1> DEFINE m == hops[c]
           x == [at |-> m.g[1].at, way |-> "wait"]
           y == [at |-> m.g[1].at + 1, way |-> "in"]
           rec == [m EXCEPT !.g = <<[@[1] EXCEPT !.way = "wait"], [at |-> @[1].at + 1, way |-> "in"]>>]
<1>1. /\ m \in Chain!CallStates /\ Placed(m) /\ Told(m) /\ system \in Systems
      /\ m.g \in [1 .. 2 -> Chain!Goroutines] /\ m.g[1].at \in 0 .. 6 /\ alive \in BOOLEAN
  BY CallKnown
<1>2. alive /\ m.g[1].way = "in" /\ m.g[1].at = 3 /\ Http
  BY <1>1, Layers DEF Chain!Timeout, Chain!In
<1>3. x \in Chain!Goroutines /\ y \in Chain!Goroutines /\ [m.g[1] EXCEPT !.way = "wait"] = x
  BY <1>1, <1>2 DEF Chain!Goroutines
<1>4. rec = [g |-> <<x, y>>, key |-> m.key, parent |-> m.parent, header |-> m.header, id |-> m.id,
             writing |-> m.writing, answer |-> m.answer, recorded |-> m.recorded, log |-> m.log]
  BY <1>1, <1>3 DEF Chain!CallStates
<1>5. x.at = 3 /\ x.way = "wait" /\ y.at = 4 /\ y.way = "in"
  BY <1>2
<1>6. hops' = [hops EXCEPT ![c] = rec] /\ UNCHANGED <<system, minted, alive>>
  BY DEF Chain!Timeout, Chain!Becomes
<1> HIDE DEF m, x, y, rec
<1>7. <<x, y>> \in [1 .. 2 -> Chain!Goroutines] /\ <<x, y>>[1] = x /\ <<x, y>>[2] = y
  BY <1>3
<1>8. /\ rec \in Chain!CallStates /\ rec.g[1] = x /\ rec.g[2] = y
      /\ rec.key = m.key /\ rec.parent = m.parent /\ rec.header = m.header /\ rec.id = m.id
      /\ rec.writing = m.writing /\ rec.answer = m.answer /\ rec.recorded = m.recorded /\ rec.log = m.log
  BY <1>1, <1>4, <1>7 DEF Chain!CallStates
<1>9. Placed(rec)
  BY <1>1, <1>2, <1>5, <1>8 DEF Placed, Http
<1>10. Told(rec)
  <2>1. Raced(m) /\ ~Remote(m) /\ m.log = <<>> /\ m.answer # "dropped"
    BY <1>1, <1>2 DEF Told, Placed, Remote, Http
  <2>2. m.recorded = "none" /\ m.answer = "none"
    BY <1>2, <2>1 DEF Raced
  <2>3. Raced(rec)
    BY <1>5, <1>8, <2>2 DEF Raced, MidWrite
  <2>4. QED
    BY <1>2, <1>5, <1>8, <2>1, <2>3 DEF Told, Remote
<1>11. QED
  BY <1>1, <1>2, <1>6, <1>8, <1>9, <1>10, CallGoes DEF m

LEMMA HandlerDoneKeeps ==
    ASSUME ChainInv, NEW c \in Clients, Chain!HandlerDone(c)
    PROVE  ChainInv'
<1> DEFINE m == hops[c]
           rec == Chain!Back(m, 1, "out")
<1>1. /\ m \in Chain!CallStates /\ Placed(m) /\ Told(m) /\ system \in Systems
      /\ m.g \in [1 .. 2 -> Chain!Goroutines] /\ m.g[1].at \in 0 .. 6 /\ alive \in BOOLEAN
  BY CallKnown
<1>2. alive /\ m.g[1].way = "wait" /\ m.g[1].at = 3 /\ Http /\ m.g[2].way = "done"
  BY <1>1, Layers DEF Chain!HandlerDone, Chain!In
<1>3. /\ rec \in Chain!CallStates
      /\ rec.g[1].at = 2 /\ rec.g[1].way = "out" /\ rec.g[2] = m.g[2]
      /\ rec.key = m.key /\ rec.parent = m.parent /\ rec.header = m.header /\ rec.id = m.id
      /\ rec.writing = m.writing /\ rec.answer = m.answer /\ rec.recorded = m.recorded /\ rec.log = m.log
  BY <1>1, <1>2, GoesBack
<1>4. hops' = [hops EXCEPT ![c] = rec] /\ UNCHANGED <<system, minted, alive>>
  BY DEF Chain!HandlerDone, Chain!Becomes
<1> HIDE DEF m, rec
<1>5. Placed(rec)
  BY <1>1, <1>2, <1>3 DEF Placed, Http
<1>6. Told(rec)
  <2>1. Raced(m)
    BY <1>1, <1>2 DEF Told
  <2>2. Raced(rec)
    BY <1>2, <1>3, <2>1 DEF Raced, MidWrite
  <2>3. QED
    BY <1>1, <1>2, <1>3, <2>2 DEF Told, Placed, Remote, LogAt, Http
<1>7. QED
  BY <1>1, <1>2, <1>3, <1>4, <1>5, <1>6, CallGoes DEF m

LEMMA TimedOutKeeps ==
    ASSUME ChainInv, NEW c \in Clients, Chain!TimedOut(c)
    PROVE  ChainInv'
<1>1. /\ hops[c] \in Chain!CallStates /\ Placed(hops[c]) /\ system \in Systems
      /\ hops[c].g[1].at \in 0 .. 6
  BY CallKnown
<1>2. alive /\ hops[c].g[1].way = "wait" /\ Http
  BY <1>1, Layers DEF Chain!TimedOut, Chain!In
<1>3. QED
  BY <1>2, AnswerStarts DEF Chain!TimedOut

\* A call that returns, and one that comes in: two and three fields change.
Returned(m, said) == [m EXCEPT !.g[1].way = "done", !.answer = said]
Arrived(m, in, key, header) == [m EXCEPT !.g[1] = in, !.key = key, !.header = header]

Forwarded(m, in, parent, header) ==
    [m EXCEPT !.g[1] = in, !.parent = parent, !.header = header]

LEMMA ReturnShape ==
    ASSUME NEW m \in Chain!CallStates, NEW said \in Chain!Answers
    PROVE  LET rec == Returned(m, said) IN
           /\ rec \in Chain!CallStates
           /\ rec.g = [m.g EXCEPT ![1] = [at |-> m.g[1].at, way |-> "done"]]
           /\ rec.key = m.key /\ rec.parent = m.parent /\ rec.header = m.header /\ rec.id = m.id
           /\ rec.writing = m.writing /\ rec.answer = said /\ rec.recorded = m.recorded /\ rec.log = m.log
<1> DEFINE rec == Returned(m, said)
<1>1. [m.g EXCEPT ![1].way = "done"] \in [1 .. 2 -> Chain!Goroutines]
  BY DEF Chain!CallStates, Chain!Goroutines
<1>2. rec = [[m EXCEPT !.g = [m.g EXCEPT ![1].way = "done"]] EXCEPT !.answer = said]
  BY DEF Returned
<1>3. rec \in Chain!CallStates
  BY <1>1, <1>2 DEF Chain!CallStates
<1>4. /\ rec.g = [m.g EXCEPT ![1] = [at |-> m.g[1].at, way |-> "done"]]
      /\ rec.key = m.key /\ rec.parent = m.parent /\ rec.header = m.header /\ rec.id = m.id
      /\ rec.writing = m.writing /\ rec.answer = said /\ rec.recorded = m.recorded /\ rec.log = m.log
  BY DEF Returned, Chain!CallStates, Chain!Goroutines
<1>5. QED
  BY <1>3, <1>4

LEMMA ArriveShape ==
    ASSUME NEW m \in Chain!CallStates, NEW key \in BOOLEAN, NEW header \in SUBSET Nat,
           NEW in \in Chain!Goroutines
    PROVE  LET rec == Arrived(m, in, key, header) IN
           /\ rec \in Chain!CallStates /\ rec.g = [m.g EXCEPT ![1] = in]
           /\ rec.key = key /\ rec.parent = m.parent /\ rec.header = header /\ rec.id = m.id
           /\ rec.writing = m.writing /\ rec.answer = m.answer /\ rec.recorded = m.recorded /\ rec.log = m.log
<1> DEFINE rec == Arrived(m, in, key, header)
<1>1. [m.g EXCEPT ![1] = in] \in [1 .. 2 -> Chain!Goroutines]
  BY DEF Chain!CallStates
<1>2. rec = [m EXCEPT !.g = [m.g EXCEPT ![1] = in], !.key = key, !.header = header]
  BY DEF Arrived
<1>3. rec \in Chain!CallStates
  BY <1>1, <1>2 DEF Chain!CallStates
<1>4. /\ rec.g = [m.g EXCEPT ![1] = in]
      /\ rec.key = key /\ rec.parent = m.parent /\ rec.header = header /\ rec.id = m.id
      /\ rec.writing = m.writing /\ rec.answer = m.answer /\ rec.recorded = m.recorded /\ rec.log = m.log
  BY DEF Arrived, Chain!CallStates
<1>5. QED
  BY <1>3, <1>4

LEMMA ForwardShape ==
    ASSUME NEW m \in Chain!CallStates, NEW parent \in SUBSET Clients, NEW header \in SUBSET Nat,
           NEW in \in Chain!Goroutines
    PROVE  LET rec == Forwarded(m, in, parent, header) IN
           /\ rec \in Chain!CallStates /\ rec.g = [m.g EXCEPT ![1] = in]
           /\ rec.key = m.key /\ rec.parent = parent /\ rec.header = header /\ rec.id = m.id
           /\ rec.writing = m.writing /\ rec.answer = m.answer /\ rec.recorded = m.recorded /\ rec.log = m.log
<1> DEFINE rec == Forwarded(m, in, parent, header)
<1>1. [m.g EXCEPT ![1] = in] \in [1 .. 2 -> Chain!Goroutines]
  BY DEF Chain!CallStates
<1>2. rec = [m EXCEPT !.g = [m.g EXCEPT ![1] = in], !.parent = parent, !.header = header]
  BY DEF Forwarded
<1>3. rec \in Chain!CallStates
  BY <1>1, <1>2 DEF Chain!CallStates
<1>4. /\ rec.g = [m.g EXCEPT ![1] = in]
      /\ rec.key = m.key /\ rec.parent = parent /\ rec.header = header /\ rec.id = m.id
      /\ rec.writing = m.writing /\ rec.answer = m.answer /\ rec.recorded = m.recorded /\ rec.log = m.log
  BY DEF Forwarded, Chain!CallStates
<1>5. QED
  BY <1>3, <1>4

\* A panic of the inner goroutine has been recovered before it is here.
LEMMA InnerEndsKeeps ==
    ASSUME ChainInv, NEW c \in Clients, Chain!InnerEnds(c)
    PROVE  ChainInv'
<1> DEFINE m == hops[c]
           x == [at |-> m.g[2].at, way |-> "done"]
           rec == [m EXCEPT !.g[2].way = "done"]
<1>1. /\ m \in Chain!CallStates /\ Placed(m) /\ Told(m) /\ system \in Systems
      /\ m.g \in [1 .. 2 -> Chain!Goroutines] /\ m.g[2].at \in 0 .. 6 /\ alive \in BOOLEAN
  BY CallKnown
<1>2. /\ alive /\ m.g[2].way \in {"out", "panic", "abort"} /\ m.g[2].at = 3 /\ Http
      /\ Chain!Layer(c, 2) = "timeout"
  BY <1>1, Layers DEF Chain!InnerEnds, Chain!In
<1>3. CASE m.g[2].way # "out"
  <2>1. m.g[2].way = "abort"
    BY <1>1, <1>2, <1>3 DEF Placed
  <2>2. alive' = FALSE /\ UNCHANGED <<system, hops, minted>>
    BY <1>3 DEF Chain!InnerEnds, Chain!In
  <2>3. Doomed
    BY <1>2, <2>1, SMTT(30) DEF Doomed
  <2>4. Doomed'
    BY <2>2, <2>3 DEF Doomed, Chain!Layer, Chain!Chain, Chain!Rpc
  <2>5. \A d \in Clients : (Placed(hops[d]) /\ Told(hops[d]))'
    BY <2>2, StaysFit
  <2>6. QED
    BY <2>2, <2>4, <2>5 DEF ChainInv, Identified, Chain!MiddlewareTypeOK
<1>4. CASE m.g[2].way = "out"
  <2>1. rec = [g |-> [m.g EXCEPT ![2] = x], key |-> m.key, parent |-> m.parent,
               header |-> m.header, id |-> m.id, writing |-> m.writing,
               answer |-> m.answer, recorded |-> m.recorded, log |-> m.log]
    <3> DEFINE gs == [m.g EXCEPT ![2] = x]
    <3>1. m.g[2] \in Chain!Goroutines
      BY <1>1
    <3>2. [m.g[2] EXCEPT !.way = "done"] = x
      BY <3>1 DEF Chain!Goroutines
    <3>3. rec = [m EXCEPT !.g = gs]
      BY <3>2
    <3> HIDE DEF x, gs, rec
    <3>4. m \in Chain!CallStates
      BY <1>1
    <3>5. rec = [g |-> gs, key |-> m.key, parent |-> m.parent,
                 header |-> m.header, id |-> m.id, writing |-> m.writing,
                 answer |-> m.answer, recorded |-> m.recorded, log |-> m.log]
      BY <3>3, <3>4 DEF Chain!CallStates
    <3>6. QED
      BY <3>5 DEF gs
  <2>2. x \in Chain!Goroutines /\ x.at = 3 /\ x.way = "done"
    BY <1>2 DEF Chain!Goroutines
  <2>3. hops' = [hops EXCEPT ![c] = rec] /\ UNCHANGED <<system, minted, alive>>
    BY <1>4 DEF Chain!InnerEnds, Chain!In, Chain!Becomes
  <2> HIDE DEF m, x, rec
  <2>4. /\ [m.g EXCEPT ![2] = x] \in [1 .. 2 -> Chain!Goroutines]
        /\ [m.g EXCEPT ![2] = x][2] = x /\ [m.g EXCEPT ![2] = x][1] = m.g[1]
    BY <1>1, <2>2
  <2>5. /\ rec \in Chain!CallStates /\ rec.g[2] = x /\ rec.g[1] = m.g[1]
        /\ rec.key = m.key /\ rec.parent = m.parent /\ rec.header = m.header /\ rec.id = m.id
        /\ rec.writing = m.writing /\ rec.answer = m.answer /\ rec.recorded = m.recorded
        /\ rec.log = m.log
    BY <1>1, <2>1, <2>4 DEF Chain!CallStates
  <2>6. m.g[1].way # "none" /\ m.g[1].way # "in"
    BY <1>1, <1>2, <1>4 DEF Placed, Chain!Resting, Chain!NewCall
  <2>7. Placed(rec)
    BY <1>1, <1>2, <2>2, <2>5, <2>6 DEF Placed, Http
  <2>8. Raced(rec)
    BY <1>1, <1>2, <1>4, <2>2, <2>5 DEF Told, Raced, MidWrite
  <2>9. Told(rec)
    BY <1>1, <2>5, <2>8 DEF Told, Remote, Logged, LogAt
  <2>10. QED
    BY <1>1, <1>2, <2>3, <2>5, <2>7, <2>9, CallGoes DEF m
<1>5. QED
  BY <1>3, <1>4

\* Nothing panics as far as the server.
LEMMA ReturnKeeps ==
    ASSUME ChainInv, NEW c \in Clients, Chain!Return(c)
    PROVE  ChainInv'
<1> DEFINE m == hops[c]
           x == [at |-> m.g[1].at, way |-> "done"]
           said == IF m.answer = "none" THEN "ok" ELSE m.answer
           rec == [m EXCEPT !.g[1].way = "done",
                            !.answer = IF m.g[1].way = "panic" THEN "dropped"
                                       ELSE IF @ = "none" THEN "ok" ELSE @]
<1>1. /\ m \in Chain!CallStates /\ Placed(m) /\ Told(m) /\ system \in Systems
      /\ m.g \in [1 .. 2 -> Chain!Goroutines] /\ m.g[1].at \in 0 .. 6 /\ alive \in BOOLEAN
  BY CallKnown
<1>2. alive /\ m.g[1].way \in {"out", "panic"} /\ m.g[1].at = 0
  BY <1>1, Layers DEF Chain!Return, Chain!In
<1>3. m.g[1].way = "out"
  BY <1>1, <1>2 DEF Placed, RecAt
<1>4. alive'
  BY <1>3 DEF Chain!Return
<1>5. hops' = [hops EXCEPT ![c] = rec] /\ UNCHANGED <<system, minted>>
  BY DEF Chain!Return, Chain!Becomes
<1>6. rec = Returned(m, said)
  BY <1>3 DEF Returned
<1>7. x.at = 0 /\ x.way = "done"
  BY <1>2
<1>8. said \in Chain!Answers /\ said # "none" /\ (said = m.answer \/ (m.answer = "none" /\ said = "ok"))
  BY <1>1 DEF Chain!CallStates, Chain!Answers
<1> HIDE DEF m, rec, said
<1>9. /\ rec \in Chain!CallStates /\ rec.g = [m.g EXCEPT ![1] = x]
      /\ rec.key = m.key /\ rec.parent = m.parent /\ rec.header = m.header /\ rec.id = m.id
      /\ rec.writing = m.writing /\ rec.answer = said /\ rec.recorded = m.recorded /\ rec.log = m.log
  BY <1>1, <1>6, <1>8, ReturnShape
<1> HIDE DEF x
<1>10. rec.g[1] = x /\ rec.g[2] = m.g[2]
  BY <1>1, <1>9
<1>11. Placed(rec)
  BY <1>1, <1>3, <1>7, <1>9, <1>10 DEF Placed, Http
<1>12. Told(rec)
  <2>1. Logged(m) /\ (Remote(m) => m.answer # "none") /\ m.answer # "dropped"
    BY <1>1, <1>2, <1>3 DEF Told, LogAt
  <2>2. Logged(rec)
    BY <1>8, <1>9, <2>1 DEF Logged, Remote
  <2>3. rec.answer # "none" /\ rec.answer # "dropped" /\ rec.g[1].way = "done"
    BY <1>7, <1>8, <1>9, <1>10, <2>1
  <2>4. Http => Raced(rec)
    <3>1. SUFFICES ASSUME Http
                   PROVE  Raced(rec)
      OBVIOUS
    <3>2. Raced(m)
      BY <1>1, <3>1 DEF Told
    <3>3. QED
      BY <1>3, <1>7, <1>8, <1>9, <1>10, <3>2 DEF Raced, MidWrite
  <2>5. QED
    BY <2>2, <2>3, <2>4 DEF Told
<1>13. QED
  BY <1>1, <1>4, <1>5, <1>9, <1>11, <1>12, CallGoes DEF m

\* A call that has come in and not been anywhere yet.
LEMMA ArrivedFits ==
    ASSUME NEW m \in Chain!CallStates, system \in Systems,
           m.g = <<[at |-> 1, way |-> "in"], Chain!Resting>>,
           m.id = {}, m.answer = "none", m.recorded = "none", m.log = <<>>,
           m.parent # {} => system = "lesson63"
    PROVE  Placed(m) /\ Told(m)
<1>1. m.g[1].at = 1 /\ m.g[1].way = "in" /\ m.g[2] = Chain!Resting
  OBVIOUS
<1>2. Chain!Resting.way = "none"
  BY DEF Chain!Resting
<1>3. Placed(m)
  BY <1>1, <1>2 DEF Placed, Remote
<1>4. Told(m)
  BY <1>1, <1>2 DEF Told, Raced, MidWrite
<1>5. QED
  BY <1>3, <1>4

LEMMA ArriveKeeps ==
    ASSUME ChainInv, NEW c \in Clients, Chain!Arrive(c)
    PROVE  ChainInv'
<1> DEFINE m == hops[c]
           in == [at |-> 1, way |-> "in"]
<1>1. m \in Chain!CallStates /\ Placed(m) /\ system \in Systems /\ alive \in BOOLEAN
  BY CallKnown
<1>2. alive /\ m = Chain!NewCall
  BY <1>1 DEF Chain!Arrive, Placed
<1>3. PICK key \in BOOLEAN, header \in {{}, {0}} :
          Chain!Becomes(c, [m EXCEPT !.g[1] = in, !.key = key, !.header = header])
  BY DEF Chain!Arrive
<1> DEFINE rec == [m EXCEPT !.g[1] = in, !.key = key, !.header = header]
<1>4. /\ m.g = <<Chain!Resting, Chain!Resting>> /\ m.parent = {} /\ m.id = {}
      /\ m.answer = "none" /\ m.recorded = "none" /\ m.log = <<>>
  BY <1>2 DEF Chain!NewCall
<1>5. in \in Chain!Goroutines /\ header \in SUBSET Nat
  BY DEF Chain!Goroutines
<1>6. /\ rec \in Chain!CallStates /\ rec.g = [m.g EXCEPT ![1] = in]
      /\ rec.key = key /\ rec.parent = m.parent /\ rec.header = header /\ rec.id = m.id
      /\ rec.writing = m.writing /\ rec.answer = m.answer /\ rec.recorded = m.recorded /\ rec.log = m.log
  <2>1. rec = Arrived(m, in, key, header)
    BY DEF Arrived
  <2> HIDE DEF rec, in, m
  <2>2. QED
    BY <1>1, <1>5, <2>1, ArriveShape
<1>7. hops' = [hops EXCEPT ![c] = rec] /\ UNCHANGED <<system, minted, alive>>
  BY <1>3 DEF Chain!Arrive, Chain!Becomes
<1> HIDE DEF m, rec
<1>8. rec.g = <<in, Chain!Resting>>
  BY <1>4, <1>6
<1>10. Placed(rec) /\ Told(rec)
  BY <1>1, <1>4, <1>6, <1>8, ArrivedFits
<1>11. QED
  BY <1>1, <1>2, <1>4, <1>6, <1>7, <1>10, CallGoes DEF m

\* A call gets its id: the one it has, or what came in, or the next one.
LEMMA IdGoes ==
    ASSUME ChainInv, NEW c \in Clients, NEW rec \in Chain!CallStates, NEW given,
           hops' = [hops EXCEPT ![c] = rec], system' = system, alive',
           minted' = IF hops[c].header = {} THEN minted + 1 ELSE minted,
           given = IF hops[c].id # {} THEN hops[c].id
                   ELSE IF hops[c].header = {} THEN {minted'} ELSE hops[c].header,
           Placed(rec), Told(rec), rec.parent = hops[c].parent, rec.id = given,
           rec.header = hops[c].header
    PROVE  ChainInv'
<1>1. /\ hops'[c] = rec /\ \A d \in Clients : d # c => hops'[d] = hops[d]
      /\ hops' \in [Clients -> Chain!CallStates] /\ minted \in Nat /\ minted' \in Nat
      /\ minted' >= minted
  BY DEF ChainInv, Chain!MiddlewareTypeOK
<1>2. \A d \in Clients : Placed(hops'[d]) /\ Told(hops'[d])
  BY <1>1 DEF ChainInv
<1>3. ASSUME NEW d \in Clients
      PROVE  (Placed(hops[d]) /\ Told(hops[d]))'
  <2>1. (Remote(hops[d]))' <=> Remote(hops'[d])
    BY SMTT(30) DEF Remote
  <2>2. (Placed(hops[d]))'
    BY <1>2, <2>1 DEF Placed, RecAt, Http
  <2>3. (Told(hops[d]))'
    BY <1>2, <2>1, ZenonT(40) DEF Told, Logged, LogAt, Http, Raced, Agree, Chain!Late
  <2>4. QED
    BY <2>2, <2>3
<1>4. /\ \A d \in Clients : hops'[d].parent = hops[d].parent /\ hops'[d].header = hops[d].header
      /\ \A d \in Clients : d # c => hops'[d].id = hops[d].id
      /\ hops'[c].id = given /\ (hops[c].id # {} => given = hops[c].id)
  BY <1>1
<1>5. ASSUME NEW d \in Clients, hops[d].parent = {}
      PROVE  /\ hops'[d].header \in {{}, {0}}
             /\ hops'[d].id \in {{}, {0}} \cup {{n} : n \in 1 .. minted'}
  <2>1. /\ hops[d].header \in {{}, {0}}
        /\ hops[d].id \in {{}, {0}} \cup {{n} : n \in 1 .. minted}
    BY <1>5 DEF ChainInv, Identified
  <2>2. hops[d].id \in {{}, {0}} \cup {{n} : n \in 1 .. minted'}
    BY <1>1, <2>1
  <2>3. CASE d = c /\ hops[c].id = {}
    BY <1>1, <1>4, <2>1, <2>3
  <2>4. CASE ~(d = c /\ hops[c].id = {})
    BY <1>4, <2>1, <2>2, <2>4
  <2>5. QED
    BY <2>3, <2>4
<1>6. ASSUME NEW d \in Clients, NEW e \in Clients, hops[d].parent = {e}
      PROVE  /\ hops'[e].id # {} /\ hops'[d].header = hops'[e].id
             /\ hops'[d].id \in {{}, hops'[e].id}
  <2>1. /\ hops[e].id # {} /\ hops[d].header = hops[e].id
        /\ hops[d].id \in {{}, hops[e].id}
    BY <1>6 DEF ChainInv, Identified
  <2>2. hops'[e].id = hops[e].id
    BY <1>4, <2>1
  <2>3. QED
    BY <1>4, <2>1, <2>2
<1>7. ASSUME NEW d \in Clients, NEW e \in Clients, hops[d].parent = {}, hops[e].parent = {},
             d # e, hops'[d].id = hops'[e].id
      PROVE  hops'[d].id \subseteq {0}
  <2>1. CASE hops[c].id # {} \/ hops[c].header # {}
    <3>1. \A x \in Clients : x = c \/ hops'[x].id = hops[x].id
      BY <1>4
    <3>2. hops'[c].id = hops[c].id \/ (hops[c].parent = {} => hops'[c].id \subseteq {0})
      BY <1>4, <2>1 DEF ChainInv, Identified
    <3>3. QED
      BY <1>7, <3>1, <3>2 DEF ChainInv, Identified
  <2>2. CASE hops[c].id = {} /\ hops[c].header = {}
    <3>1. hops'[c].id = {minted + 1}
      BY <1>4, <2>2
    <3>2. \A x \in Clients : hops[x].parent = {} /\ x # c => hops'[x].id # {minted + 1}
      BY <1>1, <1>4 DEF ChainInv, Identified
    <3>3. d # c /\ e # c
      BY <1>7, <3>1, <3>2
    <3>4. QED
      BY <1>4, <1>7, <3>3 DEF ChainInv, Identified
  <2>3. QED
    BY <2>1, <2>2
<1>8. Identified'
  BY <1>4, <1>5, <1>6, <1>7 DEF Identified
<1>9. QED
  BY <1>1, <1>3, <1>8 DEF ChainInv, Chain!MiddlewareTypeOK

LEMMA RequestIDKeeps ==
    ASSUME ChainInv, NEW c \in Clients, NEW k \in 1 .. 2, Chain!RequestID(c, k)
    PROVE  ChainInv'
<1> DEFINE m == hops[c]
           given == IF m.id # {} THEN m.id ELSE IF m.header = {} THEN {minted'} ELSE m.header
           w == [m EXCEPT !.id = given]
           rec == Chain!Deeper(w, k)
<1>1. /\ m \in Chain!CallStates /\ Placed(m) /\ Told(m) /\ system \in Systems
      /\ m.g \in [1 .. 2 -> Chain!Goroutines] /\ m.g[k].at \in 0 .. 6 /\ alive \in BOOLEAN
      /\ minted \in Nat
  BY CallKnown DEF ChainInv, Chain!MiddlewareTypeOK
<1>2. /\ alive /\ m.g[k].way = "in"
      /\ \/ Http /\ m.g[k].at = 1
         \/ system = "lesson63" /\ m.g[k].at = (IF Remote(m) THEN 2 ELSE 1)
  BY <1>1, Layers DEF Chain!RequestID, Chain!In
<1>3. minted' = (IF m.header = {} THEN minted + 1 ELSE minted) /\ UNCHANGED <<system, alive>>
  BY DEF Chain!RequestID, Chain!Becomes
<1>4. hops' = [hops EXCEPT ![c] = rec]
  <2>1. [m EXCEPT !.id = IF @ # {} THEN @ ELSE IF m.header = {} THEN {minted'} ELSE m.header] = w
    OBVIOUS
  <2>2. QED
    BY <2>1 DEF Chain!RequestID, Chain!Becomes
<1>5. given \in SUBSET Nat /\ given # {}
  <2>1. m.id \in SUBSET Nat /\ m.header \in SUBSET Nat
    BY <1>1 DEF Chain!CallStates
  <2> HIDE DEF m
  <2>2. m.header = {} => {minted'} \in SUBSET Nat /\ {minted'} # {}
    BY <1>1, <1>3
  <2>3. QED
    BY <2>1, <2>2
<1> HIDE DEF given
<1>6. /\ w \in Chain!CallStates /\ w.id = given
      /\ w.g = m.g /\ w.key = m.key /\ w.parent = m.parent /\ w.header = m.header
      /\ w.writing = m.writing /\ w.answer = m.answer /\ w.recorded = m.recorded /\ w.log = m.log
  BY <1>1, <1>5 DEF Chain!CallStates
<1> HIDE DEF w
<1>7. /\ rec \in Chain!CallStates
      /\ rec.g[k].at = m.g[k].at + 1 /\ rec.g[k].way = m.g[k].way
      /\ \A j \in 1 .. 2 : j # k => rec.g[j] = m.g[j]
      /\ rec.key = m.key /\ rec.parent = m.parent /\ rec.header = m.header /\ rec.id = given
      /\ rec.writing = m.writing /\ rec.answer = m.answer /\ rec.recorded = m.recorded /\ rec.log = m.log
  BY <1>1, <1>2, <1>6, GoesDeeper
<1> HIDE DEF m, rec
<1>8. Placed(rec)
  BY <1>1, <1>2, <1>5, <1>7 DEF Placed, Remote, RecAt, Http, Systems, Chain!Resting
<1>9. Told(rec)
  <2>1. Http => Raced(rec)
    BY <1>1, <1>7, RacedAlike DEF Told
  <2>2. QED
    BY <1>1, <1>2, <1>7, <2>1 DEF Told, Placed, Logged, Remote, LogAt, Http, Systems, Chain!Resting
<1>10. QED
  BY <1>1, <1>2, <1>3, <1>4, <1>7, <1>8, <1>9, IdGoes DEF m, given

\* A handler calls the next service: it has an id by then, which goes along.
LEMMA ForwardKeeps ==
    ASSUME ChainInv, NEW p \in Clients, NEW c \in Clients, Chain!ForwardRequestID(p, c)
    PROVE  ChainInv'
<1> DEFINE m == hops[c]
           in == [at |-> 1, way |-> "in"]
           rec == [m EXCEPT !.g[1] = in, !.parent = {p}, !.header = hops[p].id]
<1>1. m \in Chain!CallStates /\ Placed(m) /\ system \in Systems /\ alive \in BOOLEAN
  BY CallKnown
<1>2. alive /\ m = Chain!NewCall /\ system = "lesson63" /\ c # p
  BY <1>1 DEF Chain!ForwardRequestID, Chain!In, Placed
<1>3. hops[p].id # {} /\ hops[p].id \in SUBSET Nat
  <2>1. hops[p] \in Chain!CallStates /\ Placed(hops[p]) /\ hops[p].g[1].at \in 0 .. 6
    BY CallKnown
  <2>2. hops[p].g[1].way = "in" /\ hops[p].g[1].at >= 4
    BY <1>2, <2>1, Layers DEF Chain!ForwardRequestID, Chain!In, Systems, Http
  <2>3. QED
    BY <1>2, <2>1, <2>2 DEF Placed, Chain!CallStates
<1>4. /\ m.g = <<Chain!Resting, Chain!Resting>> /\ m.parent = {} /\ m.id = {} /\ m.key = TRUE
      /\ m.answer = "none" /\ m.recorded = "none" /\ m.log = <<>>
  BY <1>2 DEF Chain!NewCall
<1>5. hops' = [hops EXCEPT ![c] = rec] /\ UNCHANGED <<system, minted, alive>>
  BY DEF Chain!ForwardRequestID, Chain!Becomes
<1>6. /\ rec \in Chain!CallStates
      /\ rec.g = <<in, Chain!Resting>> /\ rec.parent = {p} /\ rec.header = hops[p].id
      /\ rec.id = {} /\ rec.answer = "none" /\ rec.recorded = "none" /\ rec.log = <<>>
  <2>1. rec = Forwarded(m, in, {p}, hops[p].id)
    BY DEF Forwarded
  <2>2. in \in Chain!Goroutines
    BY DEF Chain!Goroutines
  <2> HIDE DEF rec, m, in
  <2>3. /\ rec \in Chain!CallStates /\ rec.g = [m.g EXCEPT ![1] = in]
        /\ rec.parent = {p} /\ rec.header = hops[p].id /\ rec.id = m.id
        /\ rec.writing = m.writing /\ rec.answer = m.answer /\ rec.recorded = m.recorded /\ rec.log = m.log
    BY <1>1, <1>3, <2>1, <2>2, ForwardShape
  <2>4. QED
    BY <1>4, <2>3
<1> HIDE DEF m, rec
<1>7. Placed(rec) /\ Told(rec)
  BY <1>1, <1>2, <1>6, ArrivedFits
<1>8. /\ hops'[c] = rec /\ \A d \in Clients : d # c => hops'[d] = hops[d]
      /\ hops' \in [Clients -> Chain!CallStates]
  BY <1>5, <1>6 DEF ChainInv, Chain!MiddlewareTypeOK
<1>9. ASSUME NEW d \in Clients
      PROVE  (Placed(hops[d]) /\ Told(hops[d]))'
  <2>1. Placed(hops'[d]) /\ Told(hops'[d])
    BY <1>7, <1>8 DEF ChainInv
  <2>2. (Remote(hops[d]))' <=> Remote(hops'[d])
    BY <1>5 DEF Remote
  <2>3. (Placed(hops[d]))'
    BY <1>5, <2>1, <2>2 DEF Placed, RecAt, Http
  <2>4. (Told(hops[d]))'
    BY <1>5, <2>1, <2>2, ZenonT(40) DEF Told, Logged, LogAt, Http, Raced, Agree, Chain!Late
  <2>5. QED
    BY <2>3, <2>4
<1>10. Identified'
  <2>1. minted' = minted /\ hops'[p] = hops[p]
    BY <1>2, <1>5, <1>8
  <2>2. \A d, e \in Clients : hops[d].parent = {e} => e # c
    BY <1>4 DEF ChainInv, Identified, m
  <2>3. ASSUME NEW d \in Clients, NEW e \in Clients, hops'[d].parent = {e}
        PROVE  /\ hops'[e].id # {} /\ hops'[d].header = hops'[e].id
               /\ hops'[d].id \in {{}, hops'[e].id}
    <3>1. CASE d = c
      <4>1. e = p
        BY <1>6, <1>8, <2>3, <3>1
      <4>2. QED
        BY <1>3, <1>6, <1>8, <2>1, <3>1, <4>1
    <3>2. CASE d # c
      <4>1. hops'[d] = hops[d] /\ e # c
        BY <1>8, <2>2, <2>3, <3>2
      <4>2. hops'[e] = hops[e]
        BY <1>8, <4>1
      <4>3. QED
        BY <2>3, <4>1, <4>2 DEF ChainInv, Identified
    <3>3. QED
      BY <3>1, <3>2
  <2>4. \A d \in Clients : hops'[d].parent = {} => hops'[d] = hops[d]
    BY <1>6, <1>8
  <2>5. QED
    BY <2>1, <2>3, <2>4 DEF ChainInv, Identified
<1>11. QED
  BY <1>1, <1>2, <1>5, <1>8, <1>9, <1>10 DEF ChainInv, Chain!MiddlewareTypeOK

LEMMA ChainStep ==
    ASSUME ChainInv, [Chain!Next]_(Chain!vars)
    PROVE  ChainInv'
<1>1. CASE UNCHANGED Chain!vars
  <2>1. UNCHANGED <<system, hops, minted, alive>>
    BY <1>1 DEF Chain!vars
  <2>2. \A c \in Clients : (Placed(hops[c]) /\ Told(hops[c]))'
    BY <2>1, StaysFit, SMTT(30)
  <2>3. Doomed => Doomed'
    BY <2>1 DEF Doomed, Chain!Layer, Chain!Chain, Chain!Rpc
  <2>4. QED
    BY <2>1, <2>2, <2>3 DEF ChainInv, Identified, Chain!MiddlewareTypeOK
<1>2. ASSUME NEW c \in Clients, NEW k \in 1 .. 2, Chain!Run(c, k)
      PROVE  ChainInv'
  BY <1>2, RequestIDKeeps, EnterKeeps, AuthKeeps, HandlerKeeps, LeaveKeeps, RecoverKeeps,
     LoggingKeeps, RecordKeeps, SendKeeps DEF Chain!Run
<1>3. QED
  BY <1>1, <1>2, ArriveKeeps, TimeoutKeeps, InnerEndsKeeps, HandlerDoneKeeps, TimedOutKeeps,
     ReturnKeeps, ForwardKeeps DEF Chain!Next

LEMMA ChainTells ==
    ASSUME ChainInv
    PROVE  Chain!PanicsStayInside /\ Chain!LogTellsTheAnswer /\ Chain!OneIdPerClick
<1>1. Chain!PanicsStayInside
  BY DEF ChainInv, Told, Doomed, MidWrite, Chain!PanicsStayInside
<1>2. Chain!LogTellsTheAnswer
  <2> SUFFICES ASSUME NEW c \in Clients, hops[c].g[1].way = "done"
               PROVE  IF Chain!Rpc(c) /\ hops[c].log = <<>> THEN hops[c].answer = "internal"
                      ELSE /\ Len(hops[c].log) = 1
                           /\ \/ hops[c].log[1] = hops[c].answer
                              \/ {hops[c].log[1], hops[c].answer} \cap Chain!Late # {}
    BY DEF Chain!LogTellsTheAnswer
  <2>1. Logged(hops[c]) /\ hops[c].answer # "none" /\ (Chain!Rpc(c) <=> Remote(hops[c]))
    BY CallKnown DEF ChainInv, Told
  <2>2. CASE Remote(hops[c])
    <3>1. hops[c].log = <<hops[c].answer>> \/ (hops[c].log = <<>> /\ hops[c].answer = "internal")
      BY <2>1, <2>2 DEF Logged
    <3>2. <<hops[c].answer>> # <<>> /\ Len(<<hops[c].answer>>) = 1
          /\ <<hops[c].answer>>[1] = hops[c].answer
      OBVIOUS
    <3>3. QED
      BY <2>1, <2>2, <3>1, <3>2
  <2>3. CASE ~Remote(hops[c])
    BY <2>1, <2>3 DEF Logged, Agree
  <2>4. QED
    BY <2>2, <2>3
<1>3. Chain!OneIdPerClick
  <2> SUFFICES ASSUME NEW c \in Clients, NEW d \in Clients
               PROVE  /\ hops[c].id # {} /\ hops[c].parent = {d} => hops[c].id = hops[d].id
                      /\ hops[c].parent \cup hops[d].parent = {} /\ c # d /\ hops[c].id = hops[d].id
                            => hops[c].id \subseteq {0}
    BY DEF Chain!OneIdPerClick
  <2>1. hops[c].id # {} /\ hops[c].parent = {d} => hops[c].id = hops[d].id
    BY DEF ChainInv, Identified
  <2>2. hops[c].parent \cup hops[d].parent = {} => hops[c].parent = {} /\ hops[d].parent = {}
    OBVIOUS
  <2>3. QED
    BY <2>1, <2>2 DEF ChainInv, Identified
<1>4. QED
  BY <1>1, <1>2, <1>3

\* Whatever is lost on the way between a handler and its caller, the caller is
\* not misled: in the gateway the user's outcome decides (63 gateway.go); in the
\* chains of lessons 39, 47, 62 and 63 one click has one id, a panic of any value
\* but http.ErrAbortHandler ends no process, and the log of a call says what its
\* client got, unless Timeout answered while the handler was answering too.
THEOREM EdgeAlwaysTells == ServersSpec => []EdgeTellsTheTruth
<1> DEFINE I == (program = "edge" => EdgeInv) /\ (program = "chain" => ChainInv)
<1>1. ServersInit => I
  BY ServersBegin, EdgeInit, ChainInit
<1>2. I /\ [ServersNext]_everything => I'
  BY ServersMove, EdgeStep, ChainStep
<1>3. I => EdgeTellsTheTruth
  BY EdgeDecides, ChainTells DEF EdgeTellsTheTruth
<1>4. QED
  BY <1>1, <1>2, <1>3, PTL DEF ServersSpec

-----------------------------------------------------------------------------
(* The CRUD servers: StoreIsHistory and OneShot                              *)

Impls == {"locked", "sql", "tiny", "fake", "bare"}
Asked == [op : {"none", "create", "list", "get", "delete", "update"}, id : Nat,
          done : BOOLEAN, list : Seq(Crud!Records)]
Made(s) == {s[i] : i \in 1 .. Len(s)}

CrudTyped ==
    /\ impl \in Impls /\ nextID \in 1 .. MaxIds + 1
    /\ items \in Seq(Crud!Records) /\ marked \subseteq Crud!Ids
    /\ failNext \in BOOLEAN /\ overlapped \in BOOLEAN /\ misread \in BOOLEAN
    /\ created \in Seq(Crud!Ids) /\ deleted \in Seq(Crud!Ids)
    /\ request \in [Clients -> Asked]
    /\ \A c \in Clients : request[c].op = "create" /\ impl = "bare" => request[c].id >= 1
    /\ failed \in Nat /\ injected \in Nat

\* What the answers have to do with the store: ids are given out in order, and
\* a record is in the store once, from its 201 to its 204, as last updated.
Kept ==
    /\ \A i, j \in 1 .. Len(items) : items[i].id = items[j].id => i = j
    /\ Made(items) = {[id |-> i, done |-> i \in marked] : i \in Made(created) \ Made(deleted)}
    /\ \A i, j \in 1 .. Len(created) : created[i] = created[j] => i = j
    /\ \A i, j \in 1 .. Len(deleted) : deleted[i] = deleted[j] => i = j
    /\ \A i \in Made(created) : i < nextID
    /\ Made(deleted) \subseteq Made(created) /\ marked \subseteq Made(created)

\* An unguarded handler that is alone has read the slice and the id of now.
Fresh ==
    impl = "bare" => \A c \in Clients : request[c] # Crud!Idle =>
        /\ request[c].list = items
        /\ request[c].op = "create" => request[c].id = nextID
        /\ \A d \in Clients \ {c} : request[d] = Crud!Idle

LEMMA SameKept ==
    ASSUME Kept, UNCHANGED <<items, nextID, created, deleted, marked>>
    PROVE  Kept'
<1>1. /\ Made(items') = Made(items) /\ Made(created') = Made(created)
      /\ Made(deleted') = Made(deleted)
  BY DEF Made
<1>2. QED
  BY <1>1 DEF Kept

CrudInv ==
    /\ CrudTyped
    /\ (impl # "bare" \/ ~overlapped) => Kept /\ Fresh /\ ~misread
    /\ Crud!OneShot

LEMMA CrudSets ==
    /\ \A s \in Seq(Crud!Records) : Crud!ToSet(s) = Made(s)
    /\ \A s \in Seq(Crud!Ids) : Crud!ToSet(s) = Made(s)
    /\ \A s \in Seq(Crud!Ids) : Crud!IsInjective(s) <=> \A i, j \in 1 .. Len(s) : s[i] = s[j] => i = j
  BY DEF Crud!ToSet, Made, Crud!IsInjective

\* What is appended is one more thing made.
LEMMA MadeOne ==
    ASSUME NEW S, NEW s \in Seq(S), NEW e \in S
    PROVE  Made(Append(s, e)) = Made(s) \cup {e}
<1>1. /\ Len(Append(s, e)) = Len(s) + 1 /\ Len(s) \in Nat
      /\ \A i \in 1 .. Len(s) : Append(s, e)[i] = s[i]
      /\ Append(s, e)[Len(s) + 1] = e
  BY AppendProperties
<1>2. 1 .. Len(s) + 1 = (1 .. Len(s)) \cup {Len(s) + 1}
  BY <1>1
<1>3. QED
  BY <1>1, <1>2 DEF Made

LEMMA CrudPromise ==
    ASSUME CrudTyped
    PROVE  Crud!Promised = {[id |-> i, done |-> i \in marked] : i \in Made(created) \ Made(deleted)}
  BY CrudSets DEF CrudTyped, Crud!Promised

LEMMA CrudInit == Crud!CrudAssumption /\ Crud!Init => CrudInv
<1> SUFFICES ASSUME Crud!CrudAssumption, Crud!Init
             PROVE  CrudInv
  OBVIOUS
<1>1. Crud!Idle \in Asked /\ Crud!Idle.op = "none"
  BY DEF Crud!Idle, Asked, Crud!Records
<1>2. CrudTyped
  <2>1. impl \in Impls /\ nextID \in 1 .. MaxIds + 1 /\ failed \in Nat /\ injected \in Nat
    BY DEF Crud!CrudAssumption, Crud!Init, Impls
  <2>2. items \in Seq(Crud!Records) /\ created \in Seq(Crud!Ids) /\ deleted \in Seq(Crud!Ids)
    BY DEF Crud!Init
  <2>3. marked \subseteq Crud!Ids /\ failNext \in BOOLEAN /\ overlapped \in BOOLEAN /\ misread \in BOOLEAN
    BY DEF Crud!Init
  <2>4. request \in [Clients -> Asked]
    BY <1>1 DEF Crud!Init
  <2>5. \A c \in Clients : request[c].op # "create"
    BY <1>1 DEF Crud!Init
  <2>6. QED
    BY <2>1, <2>2, <2>3, <2>4, <2>5 DEF CrudTyped
<1>3. Made(items) = {} /\ Made(created) = {} /\ Made(deleted) = {}
  BY DEF Crud!Init, Made
<1>4. Kept
  BY <1>3 DEF Crud!Init, Kept
<1>5. Fresh /\ Crud!OneShot
  <2>1. \A c \in Clients : request[c] = Crud!Idle
    BY DEF Crud!Init
  <2>2. Fresh
    BY <2>1 DEF Fresh
  <2>3. Crud!OneShot
    <3>1. failed = 0 /\ injected = 0 /\ ~failNext
      BY DEF Crud!Init
    <3>2. (IF failNext THEN 1 ELSE 0) = 0
      BY <3>1
    <3>3. 0 = 0 - 0
      OBVIOUS
    <3>4. QED
      BY <3>1, <3>2, <3>3, Zenon DEF Crud!OneShot
  <2>4. QED
    BY <2>2, <2>3
<1>6. QED
  BY <1>2, <1>4, <1>5 DEF CrudInv, Crud!Init

\* A request is a record of its own, never the idle one while it asks.
LEMMA AskingIsBusy ==
    ASSUME NEW c \in Clients, NEW op, op # "none", Crud!Asked(c, op)
    PROVE  request[c] # Crud!Idle /\ request[c].op = op
  BY DEF Crud!Asked, Crud!Idle

\* An answer ends the request and leaves the others as they are.
LEMMA AnswerEnds ==
    ASSUME CrudTyped, NEW c \in Clients, Crud!Answered(c)
    PROVE  /\ request' \in [Clients -> Asked]
           /\ request'[c] = Crud!Idle /\ \A d \in Clients \ {c} : request'[d] = request[d]
           /\ \A d \in Clients : request'[d].op = "create" /\ impl' = "bare" => request'[d].id >= 1
           /\ UNCHANGED <<impl, failNext, overlapped>> /\ UNCHANGED <<failed, injected>>
<1>1. Crud!Idle \in Asked /\ Crud!Idle.op = "none"
  BY DEF Crud!Idle, Asked, Crud!Records
<1>2. request' = [request EXCEPT ![c] = Crud!Idle] /\ request \in [Clients -> Asked]
  BY DEF Crud!Answered, CrudTyped
<1>3. QED
  BY <1>1, <1>2 DEF Crud!Answered, CrudTyped

\* After an answer of an unguarded store that nobody else is in, nobody is.
LEMMA AnswerFresh ==
    ASSUME CrudTyped, Fresh, NEW c \in Clients, Crud!Answered(c), request[c] # Crud!Idle
    PROVE  Fresh'
  BY AnswerEnds DEF Fresh

\* What a handler sees is the store, and the id it takes is the next.
LEMMA SeesTheStore ==
    ASSUME CrudTyped, NEW c \in Clients
    PROVE  /\ Crud!Seen(c) \in Seq(Crud!Records)
           /\ Fresh /\ request[c] # Crud!Idle => Crud!Seen(c) = items
           /\ Fresh /\ Crud!Asked(c, "create") => Crud!NewId(c) = nextID
           /\ Crud!Asked(c, "create") => Crud!NewId(c) \in Nat \ {0}
<1>1. request[c] \in Asked
  BY DEF CrudTyped
<1>2. /\ Crud!Seen(c) \in Seq(Crud!Records)
      /\ Fresh /\ request[c] # Crud!Idle => Crud!Seen(c) = items
  BY <1>1 DEF CrudTyped, Crud!Seen, Fresh, Asked
<1>3. Crud!Asked(c, "create") => request[c] # Crud!Idle /\ request[c].op = "create"
  BY AskingIsBusy
<1>4. Crud!Asked(c, "create") => Crud!NewId(c) \in Nat \ {0}
  BY <1>1, <1>3 DEF CrudTyped, Crud!NewId, Asked
<1>5. Fresh /\ Crud!Asked(c, "create") => Crud!NewId(c) = nextID
  BY <1>3 DEF Crud!NewId, Fresh
<1>6. QED
  BY <1>2, <1>4, <1>5

\* Records with an id that was not there before.
LEMMA CreateKeeps ==
    ASSUME Crud!CrudAssumption, CrudInv, NEW c \in Clients, Crud!Create(c)
    PROVE  CrudInv'
<1> DEFINE id == Crud!NewId(c)
           new == [id |-> id, done |-> FALSE]
<1>1. /\ Crud!Asked(c, "create") /\ id <= MaxIds /\ nextID' = id + 1
      /\ items' = Append(Crud!Seen(c), new) /\ created' = Append(created, id)
      /\ Crud!Answered(c) /\ UNCHANGED <<deleted, marked, misread>>
  BY DEF Crud!Create
<1>2. CrudTyped /\ request[c] # Crud!Idle
  BY <1>1, AskingIsBusy DEF CrudInv
<1>3. Crud!Seen(c) \in Seq(Crud!Records) /\ id \in Nat \ {0}
  BY <1>1, <1>2, SeesTheStore
<1>4. id \in Crud!Ids /\ new \in Crud!Records
  BY <1>1, <1>3 DEF Crud!Ids, Crud!Records, CrudTyped
<1>5. CrudTyped'
  <2>1. items' \in Seq(Crud!Records) /\ created' \in Seq(Crud!Ids) /\ nextID' \in 1 .. MaxIds + 1
    <3>1. items' \in Seq(Crud!Records)
      BY <1>1, <1>3, <1>4
    <3>2. created' \in Seq(Crud!Ids)
      BY <1>1, <1>2, <1>4 DEF CrudTyped
    <3>3. nextID' \in 1 .. MaxIds + 1
      <4>1. nextID' = id + 1 /\ id \in 1 .. MaxIds
        BY <1>1, <1>4 DEF Crud!Ids
      <4>2. MaxIds \in Nat
        BY DEF Crud!CrudAssumption
      <4>3. QED
        BY <4>1, <4>2
    <3>4. QED
      BY <3>1, <3>2, <3>3
  <2>2. QED
    BY <1>1, <1>2, <2>1, AnswerEnds DEF CrudTyped
<1>6. ASSUME impl # "bare" \/ ~overlapped
      PROVE  Kept' /\ Fresh' /\ ~misread'
  <2>1. Kept /\ Fresh /\ ~misread
    BY <1>6 DEF CrudInv
  <2>2. id = nextID /\ Crud!Seen(c) = items
    BY <1>1, <1>2, <2>1, SeesTheStore
  <2>3. /\ Len(items') = Len(items) + 1 /\ Len(items) \in Nat
        /\ \A i \in 1 .. Len(items) : items'[i] = items[i]
        /\ items'[Len(items) + 1] = new
    BY <1>1, <1>2, <1>4, <2>2, AppendProperties DEF CrudTyped
  <2>4. /\ Len(created') = Len(created) + 1 /\ Len(created) \in Nat
        /\ \A i \in 1 .. Len(created) : created'[i] = created[i]
        /\ created'[Len(created) + 1] = id
    BY <1>1, <1>2, <1>4, AppendProperties DEF CrudTyped
  <2>5. Made(items') = Made(items) \cup {new} /\ Made(created') = Made(created) \cup {id}
    <3>1. Made(items') = Made(items) \cup {new}
      <4>1. items' = Append(items, new) /\ items \in Seq(Crud!Records)
        BY <1>1, <1>2, <2>2 DEF CrudTyped
      <4>2. ASSUME NEW e \in Crud!Records
            PROVE  Made(Append(items, e)) = Made(items) \cup {e}
        BY <4>1, MadeOne
      <4>3. QED
        BY <1>4, <4>1, <4>2
    <3>2. Made(created') = Made(created) \cup {id}
      BY <1>1, <1>2, <1>4, MadeOne DEF CrudTyped
    <3>3. QED
      BY <3>1, <3>2
  <2>6. id \notin Made(created) /\ \A i \in 1 .. Len(created) : created[i] # id
    <3>1. \A i \in Made(created) : i < id
      BY <2>1, <2>2 DEF Kept
    <3>2. id \notin Made(created)
      BY <1>3, <3>1
    <3>3. QED
      BY <3>2 DEF Made
  <2>7. \A r \in Made(items) : r.id # id
    BY <2>1, <2>6 DEF Kept
  <2>8. \A i \in 1 .. Len(items) : items[i].id # id
    BY <2>7 DEF Made
  <2>9. \A i, j \in 1 .. Len(items') : items'[i].id = items'[j].id => i = j
    BY <2>1, <2>3, <2>8 DEF Kept
  <2>10. \A i, j \in 1 .. Len(created') : created'[i] = created'[j] => i = j
    BY <2>1, <2>4, <2>6 DEF Kept
  <2>11. Made(deleted) \subseteq Made(created) /\ marked \subseteq Made(created)
    BY <2>1 DEF Kept
  <2>12. Made(items') = {[id |-> i, done |-> i \in marked] : i \in Made(created') \ Made(deleted)}
    <3>1. id \notin marked /\ id \notin Made(deleted)
      BY <2>6, <2>11
    <3>2. new = [id |-> id, done |-> id \in marked]
      <4>1. (id \in marked) = FALSE
        BY <3>1
      <4>2. QED
        BY <4>1, Zenon
    <3>3. Made(created') \ Made(deleted) = (Made(created) \ Made(deleted)) \cup {id}
      BY <2>5, <3>1
    <3>4. Made(items) = {[id |-> i, done |-> i \in marked] : i \in Made(created) \ Made(deleted)}
      BY <2>1 DEF Kept
    <3>5. QED
      BY <2>5, <3>2, <3>3, <3>4
  <2>13. \A i \in Made(created') : i < nextID'
    <3>1. \A i \in Made(created) : i \in Nat /\ i < id
      <4>1. \A i \in Made(created) : i \in Crud!Ids
        BY <1>2 DEF CrudTyped, Made
      <4>2. \A i \in Made(created) : i < id
        BY <2>1, <2>2 DEF Kept
      <4>3. QED
        BY <4>1, <4>2 DEF Crud!Ids
    <3>2. QED
      BY <1>1, <1>3, <2>5, <3>1
  <2>14. Kept'
    <3>1. Made(deleted') = Made(deleted) /\ deleted' = deleted /\ marked' = marked
      BY <1>1 DEF Made
    <3>2. \A i, j \in 1 .. Len(deleted) : deleted[i] = deleted[j] => i = j
      BY <2>1 DEF Kept
    <3>3. Made(deleted') \subseteq Made(created') /\ marked' \subseteq Made(created')
      BY <2>5, <2>11, <3>1
    <3>4. Made(items') = {[id |-> i, done |-> i \in marked'] : i \in Made(created') \ Made(deleted')}
      BY <2>12, <3>1
    <3>5. \A i, j \in 1 .. Len(deleted') : deleted'[i] = deleted'[j] => i = j
      BY <3>1, <3>2
    <3>6. QED
      BY <2>9, <2>10, <2>13, <3>3, <3>4, <3>5 DEF Kept
  <2>15. Fresh'
    BY <1>1, <1>2, <2>1, AnswerFresh
  <2>16. QED
    BY <1>1, <2>1, <2>14, <2>15
<1>7. Crud!OneShot' /\ UNCHANGED <<impl, overlapped>>
  BY <1>1, <1>2, AnswerEnds DEF CrudInv, Crud!OneShot
<1>8. QED
  BY <1>5, <1>6, <1>7 DEF CrudInv

\* Where the record of a request is: at its one index, or nowhere.
LEMMA WhereItIs ==
    ASSUME CrudTyped, Kept, Fresh, NEW c \in Clients, request[c] # Crud!Idle
    PROVE  /\ Crud!Found(c) \subseteq 1 .. Len(items)
           /\ \A i \in Crud!Found(c) : items[i].id = request[c].id
           /\ Crud!Found(c) = {} => \A r \in Made(items) : r.id # request[c].id
<1>1. Crud!Found(c) = {i \in DOMAIN items : /\ items[i].id = request[c].id
                                           /\ \A j \in 1 .. (i - 1) : items[j].id # request[c].id}
  BY SeesTheStore DEF Crud!Found, Crud!Find
<1>2. DOMAIN items = 1 .. Len(items) /\ Len(items) \in Nat
  BY DEF CrudTyped
<1>3. ASSUME NEW i \in 1 .. Len(items), items[i].id = request[c].id
      PROVE  i \in Crud!Found(c)
  BY <1>1, <1>2, <1>3 DEF Kept
<1>4. QED
  BY <1>1, <1>2, <1>3 DEF Made

\* A request that only reads leaves everything as it was.
LEMMA ReadKeeps ==
    ASSUME CrudInv, NEW c \in Clients, request[c] # Crud!Idle, Crud!Answered(c),
           UNCHANGED <<items, nextID, created, deleted, marked>>, misread' \in BOOLEAN,
           (impl # "bare" \/ ~overlapped) => ~misread'
    PROVE  CrudInv'
<1>1. CrudTyped'
  BY AnswerEnds DEF CrudInv, CrudTyped
<1>2. Crud!OneShot' /\ UNCHANGED <<impl, overlapped>>
  BY AnswerEnds DEF CrudInv, Crud!OneShot
<1>3. Kept => Kept'
  BY SameKept
<1>4. Fresh => Fresh'
  BY AnswerFresh DEF CrudInv
<1>5. QED
  BY <1>1, <1>2, <1>3, <1>4 DEF CrudInv

LEMMA GetKeeps ==
    ASSUME CrudInv, NEW c \in Clients, Crud!Get(c)
    PROVE  CrudInv'
<1>1. request[c] # Crud!Idle /\ CrudTyped
  BY AskingIsBusy DEF Crud!Get, CrudInv
<1>2. ASSUME impl # "bare" \/ ~overlapped
      PROVE  ~misread'
  <2>1. Kept /\ Fresh /\ ~misread
    BY <1>2 DEF CrudInv
  <2>2. Crud!Promised = Made(items)
    BY <1>1, <2>1, CrudPromise DEF Kept
  <2>3. \A i \in Crud!Found(c) : items[i] \in Crud!Promised
    BY <1>1, <2>1, <2>2, WhereItIs DEF Made
  <2>4. Crud!Found(c) = {} => ~\E r \in Crud!Promised : r.id = request[c].id
    BY <1>1, <2>1, <2>2, WhereItIs
  <2>5. Crud!Found(c) # {} => ~\A i \in Crud!Found(c) : i \in DOMAIN items =>
                                   ~(items[i].id = request[c].id /\ items[i] \in Crud!Promised)
    <3>1. DOMAIN items = 1 .. Len(items)
      BY <1>1 DEF CrudTyped
    <3>2. QED
      BY <1>1, <2>1, <2>3, <3>1, WhereItIs
  <2>6. QED
    BY <2>1, <2>4, <2>5 DEF Crud!Get
<1>3. misread' \in BOOLEAN
  BY <1>1 DEF Crud!Get, CrudTyped
<1>4. QED
  BY <1>1, <1>2, <1>3, ReadKeeps DEF Crud!Get

LEMMA ListKeeps ==
    ASSUME CrudInv, NEW c \in Clients, Crud!List(c)
    PROVE  CrudInv'
<1>1. request[c] # Crud!Idle /\ CrudTyped
  BY AskingIsBusy DEF Crud!List, CrudInv
<1>2. PICK n \in 0 .. Len(items), filter \in {{TRUE}, {FALSE}, BOOLEAN} :
         /\ impl # "tiny" => n = Len(items)
         /\ misread' = (misread
                \/ ~({r \in Crud!ToSet(SubSeq(items, 1, n)) : r.done \in filter}
                        \subseteq {r \in Crud!Promised : r.done \in filter})
                \/ (impl # "tiny" /\ {r \in Crud!ToSet(SubSeq(items, 1, n)) : r.done \in filter}
                                        # {r \in Crud!Promised : r.done \in filter}))
  <2>1. Len(items) \in Nat
    BY <1>1 DEF CrudTyped
  <2>2. (IF impl = "tiny" THEN 0 .. Len(items) ELSE {Len(items)}) \subseteq 0 .. Len(items)
    BY <2>1
  <2>3. QED
    BY <2>2 DEF Crud!List
<1>3. ASSUME impl # "bare" \/ ~overlapped
      PROVE  ~misread'
  <2>1. Kept /\ ~misread
    BY <1>3 DEF CrudInv
  <2>2. Crud!Promised = Made(items)
    BY <1>1, <2>1, CrudPromise DEF Kept
  <2>3. SubSeq(items, 1, n) \in Seq(Crud!Records) /\ Len(SubSeq(items, 1, n)) = n
        /\ \A i \in 1 .. n : SubSeq(items, 1, n)[i] = items[i]
    BY <1>1 DEF CrudTyped
  <2>4. Crud!ToSet(SubSeq(items, 1, n)) = {items[i] : i \in 1 .. n}
    <3>1. ASSUME NEW part \in Seq(Crud!Records), Len(part) = n, \A i \in 1 .. n : part[i] = items[i]
          PROVE  Crud!ToSet(part) = {items[i] : i \in 1 .. n}
      <4>1. Crud!ToSet(part) = {part[i] : i \in 1 .. n}
        BY <3>1, CrudSets DEF Made
      <4>2. QED
        BY <3>1, <4>1
    <3>2. QED
      BY <2>3, <3>1
  <2>5. {items[i] : i \in 1 .. n} \subseteq Made(items) /\ (impl # "tiny" => {items[i] : i \in 1 .. n} = Made(items))
    <3>1. 1 .. n \subseteq 1 .. Len(items) /\ Len(items) \in Nat
      BY <1>1, <1>2 DEF CrudTyped
    <3>2. impl # "tiny" => n = Len(items)
      BY <1>2
    <3>3. QED
      BY <3>1, <3>2 DEF Made
  <2>6. QED
    BY <1>2, <2>1, <2>2, <2>4, <2>5
<1>4. misread' \in BOOLEAN
  BY <1>1, <1>2 DEF CrudTyped
<1>5. QED
  BY <1>1, <1>3, <1>4, ReadKeeps DEF Crud!List

LEMMA UpdateKeeps ==
    ASSUME CrudInv, NEW c \in Clients, Crud!Update(c)
    PROVE  CrudInv'
<1> DEFINE id == request[c].id
           new == [id |-> id, done |-> request[c].done]
           spot == Crud!Found(c) \cap DOMAIN items
<1>1. /\ items' = [i \in DOMAIN items |-> IF i \in spot THEN new ELSE items[i]]
      /\ marked' = IF spot = {} THEN marked ELSE IF new.done THEN marked \cup {id} ELSE marked \ {id}
      /\ Crud!Answered(c) /\ UNCHANGED <<nextID, created, deleted, misread>>
  BY DEF Crud!Update
<1>2. CrudTyped /\ request[c] # Crud!Idle /\ request[c] \in Asked
  BY AskingIsBusy DEF Crud!Update, CrudInv, CrudTyped
<1>3. \A i \in Crud!Found(c) : Crud!Seen(c)[i].id = id /\ i \in DOMAIN Crud!Seen(c)
  BY DEF Crud!Found, Crud!Find
<1>4. spot # {} => id \in Crud!Ids /\ new \in Crud!Records
  <2>1. \A i \in Crud!Found(c) : Crud!Seen(c)[i] \in Crud!Records
    BY <1>2, <1>3, SeesTheStore
  <2>2. spot # {} => id \in Crud!Ids
    BY <1>3, <2>1 DEF Crud!Records
  <2>3. QED
    BY <1>2, <2>2 DEF Crud!Records, Asked
<1>5. /\ DOMAIN items = 1 .. Len(items) /\ Len(items) \in Nat
      /\ \A i \in 1 .. Len(items) : items[i] \in Crud!Records
  BY <1>2 DEF CrudTyped
<1>6. items' \in Seq(Crud!Records) /\ Len(items') = Len(items)
      /\ \A i \in 1 .. Len(items) : items'[i] = IF i \in spot THEN new ELSE items[i]
  BY <1>1, <1>4, <1>5
<1>7. marked' \subseteq Crud!Ids
  BY <1>1, <1>2, <1>4 DEF CrudTyped
<1>8. CrudTyped'
  BY <1>1, <1>2, <1>6, <1>7, AnswerEnds DEF CrudTyped
<1>9. ASSUME impl # "bare" \/ ~overlapped
      PROVE  Kept' /\ Fresh' /\ ~misread'
  <2>1. Kept /\ Fresh /\ ~misread
    BY <1>9 DEF CrudInv
  <2>2. Fresh'
    BY <1>1, <1>2, <2>1, AnswerFresh
  <2>3. spot = Crud!Found(c) /\ \A i \in spot : items[i].id = id
    BY <1>2, <1>5, <2>1, WhereItIs
  <2>4. CASE spot = {}
    <3>1. \A i \in 1 .. Len(items) : items'[i] = items[i]
      BY <1>6, <2>4
    <3>2. items' = items
      <4>1. items \in [1 .. Len(items) -> Crud!Records] /\ items' \in [1 .. Len(items) -> Crud!Records]
        BY <1>2, <1>5, <1>6 DEF CrudTyped
      <4>2. QED
        BY <3>1, <4>1
    <3>3. Kept'
      BY <1>1, <2>1, <2>4, <3>2, SameKept
    <3>4. QED
      BY <1>1, <2>1, <2>2, <3>3
  <2>5. CASE spot # {}
    <3>1. PICK k \in spot : items[k].id = id /\ k \in 1 .. Len(items)
      BY <1>5, <2>3, <2>5
    <3>2. \A i \in spot : i = k
      BY <1>5, <2>1, <2>3, <3>1 DEF Kept
    <3>3. \A i \in 1 .. Len(items) : items'[i] = (IF i = k THEN new ELSE items[i])
                                     /\ items'[i].id = items[i].id
      BY <1>6, <3>1, <3>2
    <3>4. \A i, j \in 1 .. Len(items') : items'[i].id = items'[j].id => i = j
      BY <1>6, <2>1, <3>3 DEF Kept
    <3>5. \A i \in 1 .. Len(items) : i # k => items[i].id # id
      BY <2>1, <3>1 DEF Kept
    <3>6. Made(items') = {r \in Made(items) : r.id # id} \cup {new}
      <4>1. ASSUME NEW r \in Made(items')
            PROVE  r \in {q \in Made(items) : q.id # id} \cup {new}
        BY <1>6, <3>3, <3>5 DEF Made
      <4>2. ASSUME NEW r \in Made(items), r.id # id
            PROVE  r \in Made(items')
        BY <1>6, <3>1, <3>3, <4>2 DEF Made
      <4>3. new \in Made(items')
        BY <1>6, <3>1, <3>3 DEF Made
      <4>4. QED
        BY <4>1, <4>2, <4>3
    <3>7. id \in Made(created) \ Made(deleted)
      <4>1. items[k] \in Made(items)
        BY <3>1 DEF Made
      <4>2. QED
        BY <2>1, <3>1, <4>1 DEF Kept
    <3>8. Made(items') = {[id |-> i, done |-> i \in marked'] : i \in Made(created) \ Made(deleted)}
      <4>1. request[c].done \in BOOLEAN
        BY <1>2 DEF Asked
      <4>2. \A i : i # id => (i \in marked' <=> i \in marked)
        BY <1>1, <2>5
      <4>3. new.done <=> id \in marked'
        BY <1>1, <2>5, <4>1
      <4>4. new = [id |-> id, done |-> id \in marked']
        BY <4>1, <4>3
      <4>5. \A i : i # id => [id |-> i, done |-> i \in marked'] = [id |-> i, done |-> i \in marked]
        BY <4>2
      <4>6. {r \in Made(items) : r.id # id}
              = {[id |-> i, done |-> i \in marked'] : i \in (Made(created) \ Made(deleted)) \ {id}}
        <5>1. Made(items) = {[id |-> i, done |-> i \in marked] : i \in Made(created) \ Made(deleted)}
          BY <2>1 DEF Kept
        <5>2. ASSUME NEW r \in Made(items), r.id # id
              PROVE  \E i \in (Made(created) \ Made(deleted)) \ {id} : r = [id |-> i, done |-> i \in marked']
          <6>1. PICK i \in Made(created) \ Made(deleted) : r = [id |-> i, done |-> i \in marked]
            BY <5>1, <5>2
          <6>2. i # id
            BY <5>2, <6>1
          <6>3. QED
            BY <4>5, <6>1, <6>2
        <5>3. ASSUME NEW i \in (Made(created) \ Made(deleted)) \ {id}
              PROVE  /\ [id |-> i, done |-> i \in marked'] \in Made(items)
                     /\ [id |-> i, done |-> i \in marked'].id # id
          BY <4>5, <5>1
        <5>4. QED
          BY <5>2, <5>3
      <4>7. QED
        BY <3>6, <3>7, <4>4, <4>6
    <3>9. marked' \subseteq Made(created)
      BY <1>1, <2>1, <2>5, <3>7 DEF Kept
    <3>10. Made(created') = Made(created) /\ Made(deleted') = Made(deleted)
      BY <1>1 DEF Made
    <3>11. Kept'
      BY <1>1, <2>1, <3>4, <3>8, <3>9, <3>10 DEF Kept
    <3>12. QED
      BY <1>1, <2>1, <2>2, <3>11
  <2>6. QED
    BY <2>4, <2>5
<1>10. Crud!OneShot' /\ UNCHANGED <<impl, overlapped>>
  BY <1>1, <1>2, AnswerEnds DEF CrudInv, Crud!OneShot
<1>11. QED
  BY <1>8, <1>9, <1>10 DEF CrudInv

\* A sequence without its i-th element.
LEMMA Removal ==
    ASSUME NEW S, NEW s \in Seq(S), NEW i \in 1 .. Len(s)
    PROVE  /\ Crud!RemoveAt(s, i) \in Seq(S) /\ Len(Crud!RemoveAt(s, i)) = Len(s) - 1
           /\ \A j \in 1 .. (Len(s) - 1) :
                Crud!RemoveAt(s, i)[j] = IF j < i THEN s[j] ELSE s[j + 1]
<1> DEFINE a == SubSeq(s, 1, i - 1)
           b == SubSeq(s, i + 1, Len(s))
<1>1. Len(s) \in Nat /\ i \in Nat
  OBVIOUS
<1>2. a \in Seq(S) /\ Len(a) = i - 1 /\ \A j \in 1 .. (i - 1) : a[j] = s[j]
  BY <1>1
<1>3. b \in Seq(S) /\ Len(b) = Len(s) - i /\ \A j \in 1 .. (Len(s) - i) : b[j] = s[j + i]
  BY <1>1
<1>4. Crud!RemoveAt(s, i) = a \o b
  BY DEF Crud!RemoveAt
<1> HIDE DEF a, b
<1>5. /\ a \o b \in Seq(S) /\ Len(a \o b) = Len(a) + Len(b)
      /\ \A j \in 1 .. Len(a) + Len(b) : (a \o b)[j] = IF j <= Len(a) THEN a[j] ELSE b[j - Len(a)]
  BY <1>2, <1>3, ConcatProperties
<1>6. ASSUME NEW j \in 1 .. (Len(s) - 1)
      PROVE  (a \o b)[j] = IF j < i THEN s[j] ELSE s[j + 1]
  <2>1. CASE j < i
    BY <1>1, <1>2, <1>3, <1>5, <2>1
  <2>2. CASE ~(j < i)
    <3>1. j - (i - 1) \in 1 .. (Len(s) - i) /\ j - (i - 1) + i = j + 1
      BY <1>1, <2>2
    <3>2. (a \o b)[j] = b[j - (i - 1)]
      BY <1>1, <1>2, <1>3, <1>5, <2>2
    <3>3. QED
      BY <1>3, <2>2, <3>1, <3>2
  <2>3. QED
    BY <2>1, <2>2
<1>7. QED
  BY <1>1, <1>2, <1>3, <1>4, <1>5, <1>6

LEMMA DeleteKeeps ==
    ASSUME CrudInv, NEW c \in Clients, Crud!Delete(c)
    PROVE  CrudInv'
<1> DEFINE id == request[c].id
<1>1. Crud!Answered(c) /\ UNCHANGED <<nextID, created, marked, misread>>
  BY DEF Crud!Delete
<1>2. CrudTyped /\ request[c] # Crud!Idle /\ request[c] \in Asked
  BY AskingIsBusy DEF Crud!Delete, CrudInv, CrudTyped
<1>3. CASE UNCHANGED <<items, deleted>>
  BY <1>1, <1>2, <1>3, ReadKeeps DEF CrudInv, CrudTyped
<1>4. ASSUME NEW k \in Crud!Found(c), items' = Crud!RemoveAt(Crud!Seen(c), k),
             deleted' = Append(deleted, id)
      PROVE  CrudInv'
  <2>1. Crud!Seen(c) \in Seq(Crud!Records) /\ k \in 1 .. Len(Crud!Seen(c)) /\ Crud!Seen(c)[k].id = id
    BY <1>2, <1>4, SeesTheStore DEF Crud!Found, Crud!Find
  <2>2. id \in Crud!Ids
    <3>1. Crud!Seen(c)[k] \in Crud!Records
      BY <2>1
    <3>2. QED
      BY <2>1, <3>1 DEF Crud!Records
  <2>3. CrudTyped'
    <3>1. items' \in Seq(Crud!Records) /\ deleted' \in Seq(Crud!Ids)
      BY <1>2, <1>4, <2>1, <2>2, Removal DEF CrudTyped
    <3>2. QED
      BY <1>1, <1>2, <3>1, AnswerEnds DEF CrudTyped
  <2>4. ASSUME impl # "bare" \/ ~overlapped
        PROVE  Kept' /\ Fresh' /\ ~misread'
    <3>1. Kept /\ Fresh /\ ~misread
      BY <2>4 DEF CrudInv
    <3>2. Crud!Seen(c) = items
      BY <1>2, <3>1, SeesTheStore
    <3>3. k \in 1 .. Len(items) /\ Len(items) \in Nat /\ items[k].id = id
      BY <1>2, <2>1, <3>2 DEF CrudTyped
    <3>4. /\ Len(items') = Len(items) - 1
          /\ \A j \in 1 .. (Len(items) - 1) : items'[j] = IF j < k THEN items[j] ELSE items[j + 1]
      BY <1>2, <1>4, <3>2, <3>3, Removal DEF CrudTyped
    <3>5. \A i, j \in 1 .. Len(items) : items[i].id = items[j].id => i = j
      BY <3>1 DEF Kept
    <3>6. \A i, j \in 1 .. Len(items') : items'[i].id = items'[j].id => i = j
      BY <3>3, <3>4, <3>5
    <3>7. Made(items') = {r \in Made(items) : r.id # id}
      <4>1. ASSUME NEW j \in 1 .. Len(items')
            PROVE  items'[j] \in {r \in Made(items) : r.id # id}
        <5>1. PICK i \in 1 .. Len(items) : i # k /\ items'[j] = items[i]
          BY <3>3, <3>4
        <5>2. QED
          BY <3>3, <3>5, <5>1 DEF Made
      <4>2. ASSUME NEW r \in Made(items), r.id # id
            PROVE  r \in Made(items')
        <5>1. PICK i \in 1 .. Len(items) : r = items[i] /\ i # k
          BY <3>3, <4>2 DEF Made
        <5>2. CASE i < k
          BY <3>3, <3>4, <5>1, <5>2 DEF Made
        <5>3. CASE i > k
          <6>1. i - 1 \in 1 .. Len(items') /\ items'[i - 1] = items[i]
            BY <3>3, <3>4, <5>1, <5>3
          <6>2. QED
            BY <5>1, <6>1 DEF Made
        <5>4. QED
          BY <3>3, <5>1, <5>2, <5>3
      <4>3. QED
        BY <4>1, <4>2 DEF Made
    <3>8. id \in Made(created) \ Made(deleted)
      <4>1. items[k] \in Made(items)
        BY <3>3 DEF Made
      <4>2. QED
        BY <3>1, <3>3, <4>1 DEF Kept
    <3>9. /\ Len(deleted') = Len(deleted) + 1 /\ Len(deleted) \in Nat
          /\ \A i \in 1 .. Len(deleted) : deleted'[i] = deleted[i]
          /\ deleted'[Len(deleted) + 1] = id
      BY <1>2, <1>4, <2>2, AppendProperties DEF CrudTyped
    <3>10. Made(deleted') = Made(deleted) \cup {id} /\ Made(created') = Made(created)
      BY <1>1, <3>9 DEF Made
    <3>11. \A i, j \in 1 .. Len(deleted') : deleted'[i] = deleted'[j] => i = j
      <4>1. \A i \in 1 .. Len(deleted) : deleted[i] # id
        BY <3>8 DEF Made
      <4>2. QED
        BY <3>1, <3>9, <4>1 DEF Kept
    <3>12. Made(items') = {[id |-> i, done |-> i \in marked] : i \in Made(created) \ Made(deleted')}
      <4>1. Made(items) = {[id |-> i, done |-> i \in marked] : i \in Made(created) \ Made(deleted)}
        BY <3>1 DEF Kept
      <4>2. QED
        BY <3>7, <3>10, <4>1
    <3>13. Kept'
      BY <1>1, <3>1, <3>6, <3>8, <3>10, <3>11, <3>12 DEF Kept
    <3>14. Fresh'
      BY <1>1, <1>2, <3>1, AnswerFresh
    <3>15. QED
      BY <1>1, <3>1, <3>13, <3>14
  <2>5. Crud!OneShot' /\ UNCHANGED <<impl, overlapped>>
    BY <1>1, <1>2, AnswerEnds DEF CrudInv, Crud!OneShot
  <2>6. QED
    BY <2>3, <2>4, <2>5 DEF CrudInv
<1>5. QED
  BY <1>3, <1>4 DEF Crud!Delete

\* A request that comes in, with what its handler has read.
LEMMA StartKeeps ==
    ASSUME CrudInv, NEW c \in Clients, NEW ask \in Crud!Asks, request[c] = Crud!Idle,
           Crud!Starts(c, ask), UNCHANGED <<impl, items, nextID, created, deleted, marked, misread>>,
           failNext' \in BOOLEAN, overlapped' \in BOOLEAN, failed' \in Nat, injected' \in Nat,
           impl = "bare" /\ ~overlapped' => ~overlapped /\ \A d \in Clients : request[d] = Crud!Idle,
           Crud!OneShot'
    PROVE  CrudInv'
<1> DEFINE id == IF impl = "bare" /\ ask.op = "create" THEN nextID ELSE ask.id
           list == IF impl = "bare" THEN items ELSE <<>>
           new == [op |-> ask.op, id |-> id, done |-> ask.done, list |-> list]
<1>1. CrudTyped
  BY DEF CrudInv
<1>2. request' = [request EXCEPT ![c] = new]
  BY DEF Crud!Starts
<1>3. ask.op \in {"create", "list", "get", "delete", "update"} /\ ask.id \in Nat /\ ask.done \in BOOLEAN
  <2>1. CASE ask \in [op : {"create", "list"}, id : {0}, done : {FALSE}]
    <3>1. ask.op \in {"create", "list"} /\ ask.id \in Nat
      BY <2>1
    <3>2. ask.done \in {FALSE}
      BY <2>1
    <3>3. ask.done \in BOOLEAN
      BY <3>2, Zenon
    <3>4. QED
      BY <3>1, <3>3
  <2>2. CASE ask \in [op : {"get", "delete"}, id : Crud!Ids, done : {FALSE}]
    <3>1. ask.op \in {"get", "delete"} /\ ask.id \in Nat
      BY <2>2 DEF Crud!Ids
    <3>2. ask.done \in {FALSE}
      BY <2>2
    <3>3. ask.done \in BOOLEAN
      BY <3>2, Zenon
    <3>4. QED
      BY <3>1, <3>3
  <2>3. CASE ask \in [op : {"update"}, id : Crud!Ids, done : BOOLEAN]
    BY <2>3 DEF Crud!Ids
  <2>4. QED
    BY <2>1, <2>2, <2>3 DEF Crud!Asks
<1>4. id \in Nat /\ list \in Seq(Crud!Records)
      /\ (impl = "bare" /\ ask.op = "create" => id = nextID /\ id >= 1)
  BY <1>1, <1>3 DEF CrudTyped
<1>5. new \in Asked
  BY <1>3, <1>4 DEF Asked
<1>6. /\ request' \in [Clients -> Asked] /\ request'[c] = new
      /\ \A d \in Clients \ {c} : request'[d] = request[d]
  BY <1>1, <1>2, <1>5 DEF CrudTyped
<1>7. CrudTyped'
  BY <1>1, <1>4, <1>6 DEF CrudTyped
<1>8. Kept => Kept'
  BY SameKept
<1>9. ASSUME impl # "bare" \/ ~overlapped'
      PROVE  Kept' /\ Fresh' /\ ~misread'
  <2>1. Kept /\ ~misread
    BY <1>9 DEF CrudInv
  <2>2. Fresh'
    BY <1>4, <1>6, <1>9 DEF Fresh
  <2>3. QED
    BY <1>8, <2>1, <2>2
<1>10. QED
  BY <1>7, <1>9 DEF CrudInv

\* An injected failure is waiting, or has failed the one request it was for.
LEMMA FaultKeeps ==
    ASSUME CrudInv, UNCHANGED <<impl, items, nextID, request, created, deleted, marked, misread, overlapped>>,
           failNext' \in BOOLEAN, failed' \in Nat, injected' \in Nat, Crud!OneShot'
    PROVE  CrudInv'
<1>1. CrudTyped'
  BY DEF CrudInv, CrudTyped
<1>2. Kept => Kept'
  BY SameKept
<1>3. Fresh => Fresh'
  BY DEF Fresh
<1>4. QED
  BY <1>1, <1>2, <1>3 DEF CrudInv

LEMMA CrudStep == Crud!CrudAssumption /\ CrudInv /\ [Crud!Next]_(Crud!vars) => CrudInv'
<1> SUFFICES ASSUME Crud!CrudAssumption, CrudInv, [Crud!Next]_(Crud!vars)
             PROVE  CrudInv'
  OBVIOUS
<1> USE DEF Crud!history
<1>1. /\ failNext \in BOOLEAN /\ failed \in Nat /\ injected \in Nat /\ overlapped \in BOOLEAN
      /\ failed = injected - (IF failNext THEN 1 ELSE 0)
  BY DEF CrudInv, CrudTyped, Crud!OneShot
<1>2. CASE Crud!Inject
  BY <1>1, <1>2, FaultKeeps DEF Crud!Inject, Crud!OneShot
<1>3. CASE Crud!CreateInvalid
  <2>1. failed' = failed + 1 /\ injected' = injected /\ failNext /\ failNext' = FALSE
    BY <1>3 DEF Crud!CreateInvalid
  <2>2. failed' = injected'
    BY <1>1, <2>1
  <2>3. Crud!OneShot'
    BY <1>1, <2>1, <2>2 DEF Crud!OneShot
  <2>4. QED
    <3>1. failNext' \in BOOLEAN /\ failed' \in Nat /\ injected' \in Nat
      <4>1. failNext' \in BOOLEAN
        BY <2>1, Zenon
      <4>2. failed' \in Nat /\ injected' \in Nat
        BY <1>1, <2>1
      <4>3. QED
        BY <4>1, <4>2
    <3>2. UNCHANGED <<impl, items, nextID, request, created, deleted, marked, misread, overlapped>>
      BY <1>3 DEF Crud!CreateInvalid
    <3>3. QED
      BY <2>3, <3>1, <3>2, FaultKeeps
<1>4. ASSUME NEW c \in Clients, NEW ask \in Crud!Asks, Crud!TakeFailure(c, ask)
      PROVE  CrudInv'
  <2>1. CASE failNext
    <3>1. /\ failed' = failed + 1 /\ injected' = injected /\ failNext' = FALSE
          /\ UNCHANGED <<impl, items, nextID, request, created, deleted, marked, misread, overlapped>>
      BY <1>4, <2>1 DEF Crud!TakeFailure
    <3>2. failed' = injected'
      BY <1>1, <2>1, <3>1
    <3>3. Crud!OneShot'
      BY <1>1, <3>1, <3>2 DEF Crud!OneShot
    <3>4. QED
      <4>1. failNext' \in BOOLEAN /\ failed' \in Nat /\ injected' \in Nat
        <5>1. failNext' \in BOOLEAN
          BY <3>1, Zenon
        <5>2. failed' \in Nat /\ injected' \in Nat
          BY <1>1, <3>1
        <5>3. QED
          BY <5>1, <5>2
      <4>2. QED
        BY <3>1, <3>3, <4>1, FaultKeeps
  <2>2. CASE ~failNext
    <3>1. /\ Crud!Starts(c, ask) /\ UNCHANGED <<failed, injected, overlapped>> /\ failNext' = FALSE
          /\ impl = "locked" /\ request[c] = Crud!Idle
          /\ UNCHANGED <<impl, items, nextID, created, deleted, marked, misread>>
      BY <1>4, <2>2 DEF Crud!TakeFailure
    <3>2. failed' = injected'
      BY <1>1, <2>2, <3>1
    <3>3. Crud!OneShot'
      BY <1>1, <3>1, <3>2 DEF Crud!OneShot
    <3>4. /\ failNext' \in BOOLEAN /\ overlapped' \in BOOLEAN /\ failed' \in Nat /\ injected' \in Nat
          /\ impl # "bare"
      BY <1>1, <3>1
    <3>5. QED
      BY <3>1, <3>3, <3>4, StartKeeps
  <2>3. QED
    BY <1>1, <2>1, <2>2
<1>5. ASSUME NEW c \in Clients, NEW ask \in Crud!Asks, Crud!Arrive(c, ask)
      PROVE  CrudInv'
  <2>1. Crud!Starts(c, ask) /\ UNCHANGED <<failed, injected, failNext>>
        /\ request[c] = Crud!Idle /\ ~overlapped
        /\ UNCHANGED <<impl, items, nextID, created, deleted, marked, misread>>
    BY <1>5 DEF Crud!Arrive
  <2>2. overlapped' = (impl = "bare" /\ \E d \in Clients : request[d] # Crud!Idle)
    BY <1>5, <2>1 DEF Crud!Arrive
  <2>3. Crud!OneShot'
    BY <1>1, <2>1 DEF Crud!OneShot
  <2>4. QED
    BY <1>1, <2>1, <2>2, <2>3, StartKeeps
<1>6. ASSUME NEW c \in Clients, Crud!StatementFails(c)
      PROVE  CrudInv'
  BY <1>6, ReadKeeps DEF Crud!StatementFails, CrudInv, CrudTyped
<1>7. CASE UNCHANGED Crud!vars
  BY <1>1, <1>7, FaultKeeps DEF Crud!vars, Crud!OneShot, CrudInv
<1>8. QED
  BY <1>2, <1>3, <1>4, <1>5, <1>6, <1>7, CreateKeeps, GetKeeps, ListKeeps, UpdateKeeps, DeleteKeeps
     DEF Crud!Next

\* The store is what was answered.
LEMMA CrudTells == CrudInv => Crud!StoreIsHistory /\ Crud!OneShot
<1> SUFFICES ASSUME CrudInv, impl # "bare" \/ ~overlapped
             PROVE  /\ Crud!Cardinality({r.id : r \in Crud!ToSet(items)}) = Len(items)
                    /\ Crud!IsInjective(created) /\ Crud!IsInjective(deleted)
                    /\ Crud!ToSet(items) = Crud!Promised /\ ~misread
  BY DEF CrudInv, Crud!StoreIsHistory
<1>1. CrudTyped /\ Kept /\ ~misread
  BY DEF CrudInv
<1>2. Crud!ToSet(items) = Crud!Promised /\ Crud!ToSet(items) = Made(items)
  BY <1>1, CrudSets, CrudPromise DEF Kept, CrudTyped
<1>3. Crud!IsInjective(created) /\ Crud!IsInjective(deleted)
  BY <1>1, CrudSets DEF Kept, CrudTyped
<1>4. Crud!Cardinality({r.id : r \in Made(items)}) = Len(items)
  <2> DEFINE S == {r.id : r \in Made(items)}
             f == [i \in 1 .. Len(items) |-> items[i].id]
  <2>1. \A T : Crud!Cardinality(T) = Cardinality(T)
    BY Zenon DEF Crud!Cardinality, Cardinality
  <2>2. S = {items[i].id : i \in 1 .. Len(items)}
    BY DEF Made
  <2>3. f \in Bijection(1 .. Len(items), S)
    <3>1. \A i, j \in 1 .. Len(items) : items[i].id = items[j].id => i = j
      BY <1>1 DEF Kept
    <3>2. f \in [1 .. Len(items) -> S]
      BY <2>2
    <3>3. \A x \in S : \E i \in 1 .. Len(items) : f[i] = x
      BY <2>2
    <3>4. QED
      BY <3>1, <3>2, <3>3 DEF Bijection, Injection, Surjection, IsInjective
  <2>4. Len(items) \in Nat /\ IsFiniteSet(1 .. Len(items)) /\ Cardinality(1 .. Len(items)) = Len(items)
    <3>1. Len(items) \in Nat
      BY <1>1 DEF CrudTyped
    <3>2. IsFiniteSet(1 .. Len(items))
          /\ Cardinality(1 .. Len(items)) = IF 1 > Len(items) THEN 0 ELSE Len(items) - 1 + 1
      BY <3>1, FS_Interval
    <3>3. QED
      BY <3>1, <3>2
  <2>5. Cardinality(S) = Cardinality(1 .. Len(items))
    BY <2>3, <2>4, FS_Bijection DEF ExistsBijection
  <2>6. QED
    BY <2>1, <2>4, <2>5
<1>5. QED
  BY <1>1, <1>2, <1>3, <1>4

-----------------------------------------------------------------------------
(* Transactions: NothingHalfDone and ReadsAgree                              *)

\* Tables of the type they should have, users one for each address.
GoodTables(d) ==
    /\ Tabl!TablesTypeOK(d)
    /\ lesson \in {36, 38} => d = [x \in DOMAIN d |-> d[x]]
    /\ lesson = 61 =>
        /\ d = [users |-> d.users, tasks |-> d.tasks, last |-> d.last]
        /\ d.tasks = [t \in DOMAIN d.tasks |-> d.tasks[t]]
        /\ \A u, v \in 1 .. Len(d.users) : d.users[u] = d.users[v] => u = v

OwnedBy(d, u) == {t \in DOMAIN d.tasks : d.tasks[t].owner = u /\ u \in DOMAIN d.users}
Moved(d, S, to) ==
    [d EXCEPT !.tasks = [t \in DOMAIN d.tasks |->
        IF t \in S THEN [d.tasks[t] EXCEPT !.owner = to] ELSE d.tasks[t]]]

\* How far a writer is: what its copy has of the call's effect.
Begun(ask, copy, todo) ==
    /\ ask[1] = "transferPages" =>
        /\ copy = Tabl!AddPages(tables, ask[2], -1)
        /\ \A b \in DOMAIN tables : -MaxPages < tables[b] /\ tables[b] < MaxPages
    /\ ask[1] \in {"create", "fails"} =>
        ask[2] \cap DOMAIN tables = {} /\ copy = Tabl!InsertAuthors(tables, ask[2])
    /\ ask[1] = "transferAllTasks" =>
        /\ todo \in Seq(Tabl!TaskIds)
        /\ \A i, j \in 1 .. Len(todo) : todo[i] = todo[j] => i = j
        /\ Made(todo) \subseteq OwnedBy(tables, ask[2])
        /\ copy = Moved(tables, OwnedBy(tables, ask[2]) \ Made(todo), ask[3])
    /\ ask[1] = "failingTx" =>
        tables.last < MaxTasks /\ copy = Tabl!CreateTask(tables, ask[2], 1, {})

TxSound(r) ==
    /\ r = [phase |-> r.phase, call |-> r.call, todo |-> r.todo, copy |-> r.copy]
    /\ r.phase \in {"none", "begun", "second", "commit"}
    /\ r.phase # "none" => r.call \in Tabl!CallsOf(lesson)
    /\ r.phase \in {"second", "commit"} => GoodTables(r.copy)
    /\ r.phase = "second" => Begun(r.call, r.copy, r.todo)
    /\ r.phase = "commit" => r.copy = Tabl!Effect(tables, r.call)

\* One writer, and with one connection nobody besides.
Alone ==
    /\ \A c, d \in Clients : Tabl!Writes(c) /\ Tabl!Writes(d) => c = d
    /\ lesson = 61 => \A c, d \in Clients : ~Tabl!Idle(c) /\ ~Tabl!Idle(d) => c = d

TablInv ==
    /\ lesson \in {36, 38, 61} /\ promised = tables /\ GoodTables(tables)
    /\ tx = [c \in Clients |-> tx[c]] /\ \A c \in Clients : TxSound(tx[c])
    /\ Alone

LEMMA Writing ==
    ASSUME NEW c \in Clients, TxSound(tx[c])
    PROVE  /\ Tabl!Writes(c) <=> tx[c].phase \in {"second", "commit"}
           /\ Tabl!Idle(c) <=> tx[c].phase = "none"
  BY DEF TxSound, Tabl!Writes, Tabl!Idle

\* What a step of another client leaves as it was.
LEMMA GoodStays ==
    ASSUME lesson' = lesson
    PROVE  \A d : GoodTables(d) => GoodTables(d)'
  BY DEF GoodTables, Tabl!TablesTypeOK

LEMMA BegunStays ==
    ASSUME UNCHANGED <<lesson, tables>>
    PROVE  /\ \A ask, copy, todo : Begun(ask, copy, todo) => Begun(ask, copy, todo)'
           /\ \A ask : Tabl!Effect(tables, ask)' = Tabl!Effect(tables, ask)
<1>1. \A ask, copy, todo : Begun(ask, copy, todo) => Begun(ask, copy, todo)'
  BY DEF Begun, OwnedBy, Moved, Tabl!AddPages, Tabl!InsertAuthors, Tabl!CreateTask
<1>2. \A ask : Tabl!Effect(tables, ask)' = Tabl!Effect(tables, ask)
  BY DEF Tabl!Effect, Tabl!CreateUser, Tabl!CreateTask
<1>3. QED
  BY <1>1, <1>2

LEMMA TxStays ==
    ASSUME UNCHANGED <<lesson, tables>>
    PROVE  \A r : TxSound(r) => TxSound(r)'
<1> SUFFICES ASSUME NEW r, TxSound(r)
             PROVE  TxSound(r)'
  OBVIOUS
<1>1. r.phase # "none" => r.call \in Tabl!CallsOf(lesson)'
  BY DEF TxSound, Tabl!CallsOf
<1>2. r.phase \in {"second", "commit"} => GoodTables(r.copy)'
  BY GoodStays DEF TxSound
<1>3. r.phase = "second" => Begun(r.call, r.copy, r.todo)'
  BY BegunStays DEF TxSound
<1>4. r.phase = "commit" => r.copy = Tabl!Effect(tables, r.call)'
  BY BegunStays DEF TxSound
<1>5. QED
  BY <1>1, <1>2, <1>3, <1>4 DEF TxSound

LEMMA TablInit == Tabl!TransactionsAssumption /\ Tabl!Init => TablInv
<1> SUFFICES ASSUME Tabl!TransactionsAssumption, Tabl!Init
             PROVE  TablInv
  OBVIOUS
<1>1. lesson = 36 => GoodTables(tables)
  <2> SUFFICES ASSUME lesson = 36
               PROVE  GoodTables(tables)
    OBVIOUS
  <2>1. tables = [b \in {1, 2} |-> 1]
    BY DEF Tabl!Init
  <2>2. Tabl!TablesTypeOK(tables)
    <3>1. DOMAIN tables \subseteq Tabl!BookIds
      BY <2>1 DEF Tabl!BookIds
    <3>2. QED
      BY <2>1, <3>1 DEF Tabl!TablesTypeOK, Tabl!TransactionsAssumption
  <2>3. QED
    BY <2>1, <2>2 DEF GoodTables
<1>2. lesson = 38 => GoodTables(tables)
  BY DEF Tabl!Init, GoodTables, Tabl!TablesTypeOK
<1>3. lesson = 61 => GoodTables(tables)
  BY DEF Tabl!Init, GoodTables, Tabl!TablesTypeOK, Tabl!Nobody, Tabl!TransactionsAssumption
<1>4. \A c \in Clients : TxSound(tx[c]) /\ tx[c].phase = "none"
  BY DEF Tabl!Init, TxSound, Tabl!NoTx
<1>5. Alone
  BY <1>4 DEF Alone, Tabl!Writes, Tabl!Idle
<1>6. QED
  BY <1>1, <1>2, <1>3, <1>4, <1>5 DEF Tabl!Init, TablInv

-----------------------------------------------------------------------------
(* What the statements make of good tables *)

LEMMA PagesGood ==
    ASSUME Tabl!TransactionsAssumption, lesson = 36, NEW d, GoodTables(d), NEW b,
           NEW n \in {-1, 1}, \A x \in DOMAIN d : x = b => d[x] + n \in -MaxPages .. MaxPages
    PROVE  GoodTables(Tabl!AddPages(d, b, n))
<1> DEFINE e == Tabl!AddPages(d, b, n)
<1>1. e = [x \in DOMAIN d |-> IF x = b THEN d[x] + n ELSE d[x]]
  BY DEF Tabl!AddPages
<1>2. DOMAIN d \subseteq Tabl!BookIds /\ \A x \in DOMAIN d : d[x] \in -MaxPages .. MaxPages
  BY DEF GoodTables, Tabl!TablesTypeOK
<1>3. DOMAIN e = DOMAIN d /\ \A x \in DOMAIN d : e[x] \in -MaxPages .. MaxPages
  BY <1>1, <1>2
<1>4. e = [x \in DOMAIN e |-> e[x]]
  BY <1>1
<1> HIDE DEF e
<1>5. Tabl!TablesTypeOK(e)
  BY <1>2, <1>3 DEF Tabl!TablesTypeOK
<1>6. GoodTables(e)
  BY <1>4, <1>5 DEF GoodTables
<1>7. QED
  BY <1>6 DEF e

LEMMA WithoutGood ==
    ASSUME lesson = 36, NEW d, GoodTables(d), NEW b
    PROVE  GoodTables(Tabl!Without(d, b))
<1> DEFINE e == Tabl!Without(d, b)
<1>1. e = [x \in DOMAIN d \ {b} |-> d[x]]
  BY DEF Tabl!Without
<1>2. DOMAIN d \subseteq Tabl!BookIds /\ \A x \in DOMAIN d : d[x] \in -MaxPages .. MaxPages
  BY DEF GoodTables, Tabl!TablesTypeOK
<1>3. DOMAIN e \subseteq DOMAIN d /\ \A x \in DOMAIN e : e[x] = d[x]
  BY <1>1
<1>4. e = [x \in DOMAIN e |-> e[x]]
  BY <1>1
<1> HIDE DEF e
<1>5. Tabl!TablesTypeOK(e)
  BY <1>2, <1>3 DEF Tabl!TablesTypeOK
<1>6. GoodTables(e)
  BY <1>4, <1>5 DEF GoodTables
<1>7. QED
  BY <1>6 DEF e

LEMMA BooksGood ==
    ASSUME lesson = 38, NEW d, GoodTables(d), NEW S, NEW n \in 0 .. 1
    PROVE  GoodTables(Tabl!InsertBooks(d, S, n))
<1> DEFINE e == Tabl!InsertBooks(d, S, n)
<1>1. e = [x \in DOMAIN d |-> IF x \in S THEN n ELSE d[x]]
  BY DEF Tabl!InsertBooks
<1>2. DOMAIN d \subseteq Names /\ \A x \in DOMAIN d : d[x] \in 0 .. 1
  BY DEF GoodTables, Tabl!TablesTypeOK
<1>3. DOMAIN e = DOMAIN d /\ \A x \in DOMAIN d : e[x] \in 0 .. 1
  BY <1>1, <1>2
<1>4. e = [x \in DOMAIN e |-> e[x]]
  BY <1>1
<1> HIDE DEF e
<1>5. Tabl!TablesTypeOK(e)
  BY <1>2, <1>3 DEF Tabl!TablesTypeOK
<1>6. GoodTables(e)
  BY <1>4, <1>5 DEF GoodTables
<1>7. QED
  BY <1>6 DEF e

LEMMA AuthorsGood ==
    ASSUME lesson = 38, NEW d, GoodTables(d), NEW S \in SUBSET Names
    PROVE  GoodTables(Tabl!InsertAuthors(d, S))
<1> DEFINE e == Tabl!InsertAuthors(d, S)
<1>1. e = [x \in DOMAIN d \cup S |-> IF x \in S THEN 0 ELSE d[x]]
  BY DEF Tabl!InsertAuthors
<1>2. DOMAIN d \subseteq Names /\ \A x \in DOMAIN d : d[x] \in 0 .. 1
  BY DEF GoodTables, Tabl!TablesTypeOK
<1>3. DOMAIN e \subseteq Names /\ \A x \in DOMAIN e : e[x] \in 0 .. 1
  BY <1>1, <1>2
<1>4. e = [x \in DOMAIN e |-> e[x]]
  BY <1>1
<1> HIDE DEF e
<1>5. Tabl!TablesTypeOK(e)
  BY <1>3 DEF Tabl!TablesTypeOK
<1>6. GoodTables(e)
  BY <1>4, <1>5 DEF GoodTables
<1>7. QED
  BY <1>6 DEF e

\* Lesson 61, field by field.
Shaped(users, rows, top) ==
    /\ users \in Seq(Names) /\ top \in 0 .. MaxTasks
    /\ \A u, v \in 1 .. Len(users) : users[u] = users[v] => u = v
    /\ rows = [t \in DOMAIN rows |-> rows[t]]
    /\ DOMAIN rows \subseteq 1 .. top /\ \A t \in DOMAIN rows : rows[t] \in Tabl!Tasks

LEMMA GoodShape ==
    ASSUME lesson = 61
    PROVE  /\ \A d : GoodTables(d) => /\ Shaped(d.users, d.tasks, d.last)
                                      /\ d = [users |-> d.users, tasks |-> d.tasks, last |-> d.last]
           /\ \A users, rows, top : Shaped(users, rows, top) =>
                GoodTables([users |-> users, tasks |-> rows, last |-> top])
<1>1. ASSUME NEW d, GoodTables(d)
      PROVE  /\ Shaped(d.users, d.tasks, d.last)
             /\ d = [users |-> d.users, tasks |-> d.tasks, last |-> d.last]
  BY <1>1 DEF GoodTables, Tabl!TablesTypeOK, Shaped
<1>2. ASSUME NEW users, NEW rows, NEW top, Shaped(users, rows, top)
      PROVE  GoodTables([users |-> users, tasks |-> rows, last |-> top])
  <2> DEFINE d == [users |-> users, tasks |-> rows, last |-> top]
  <2>1. d.users = users /\ d.tasks = rows /\ d.last = top
        /\ d = [users |-> d.users, tasks |-> d.tasks, last |-> d.last]
    OBVIOUS
  <2> HIDE DEF d
  <2>2. GoodTables(d)
    BY <1>2, <2>1 DEF GoodTables, Tabl!TablesTypeOK, Shaped
  <2>3. QED
    BY <2>2 DEF d
<1>3. QED
  BY <1>1, <1>2

LEMMA UserGood ==
    ASSUME lesson = 61, NEW d, GoodTables(d), NEW e \in Names, ~Tabl!EmailTaken(d, e)
    PROVE  GoodTables(Tabl!CreateUser(d, e))
<1>1. Shaped(d.users, d.tasks, d.last) /\ d = [users |-> d.users, tasks |-> d.tasks, last |-> d.last]
  BY GoodShape
<1> DEFINE s == Append(d.users, e)
<1>2. d.users \in Seq(Names) /\ \A i \in 1 .. Len(d.users) : d.users[i] # e
  BY <1>1 DEF Tabl!EmailTaken, Tabl!Contains, Shaped
<1>3. /\ s \in Seq(Names) /\ Len(s) = Len(d.users) + 1 /\ Len(d.users) \in Nat
      /\ \A i \in 1 .. Len(d.users) : s[i] = d.users[i]
      /\ s[Len(d.users) + 1] = e
  BY <1>2, AppendProperties
<1> HIDE DEF s
<1>4. Shaped(s, d.tasks, d.last)
  BY <1>1, <1>2, <1>3 DEF Shaped
<1>5. Tabl!CreateUser(d, e) = [users |-> s, tasks |-> d.tasks, last |-> d.last]
  BY <1>1 DEF Tabl!CreateUser, s
<1>6. QED
  BY <1>4, <1>5, GoodShape

LEMMA TaskGood ==
    ASSUME Tabl!TransactionsAssumption, lesson = 61, NEW d, GoodTables(d), d.last < MaxTasks,
           NEW u \in Tabl!UserIds, NEW p \in {1, 2}, NEW due \in {{}, {1}}
    PROVE  GoodTables(Tabl!CreateTask(d, u, p, due))
<1>1. Shaped(d.users, d.tasks, d.last) /\ d = [users |-> d.users, tasks |-> d.tasks, last |-> d.last]
  BY GoodShape
<1> DEFINE row1 == [owner |-> u, status |-> "todo", priority |-> p, due |-> due]
           rows == [z \in DOMAIN d.tasks \cup {d.last + 1} |->
                        IF z = d.last + 1 THEN row1 ELSE d.tasks[z]]
<1>2. row1 \in Tabl!Tasks
  BY DEF Tabl!Tasks, Tabl!Statuses
<1>3. d.last \in Nat /\ d.last + 1 \in 0 .. MaxTasks /\ MaxTasks \in Nat
  BY <1>1 DEF Shaped, Tabl!TransactionsAssumption
<1>4. Shaped(d.users, rows, d.last + 1)
  <2>1. DOMAIN rows \subseteq 1 .. d.last + 1
    BY <1>1, <1>3 DEF Shaped
  <2>2. \A t \in DOMAIN rows : rows[t] \in Tabl!Tasks
    BY <1>1, <1>2 DEF Shaped
  <2>3. rows = [t \in DOMAIN rows |-> rows[t]]
    OBVIOUS
  <2> HIDE DEF rows
  <2>4. QED
    BY <1>1, <1>3, <2>1, <2>2, <2>3 DEF Shaped
<1>5. Tabl!CreateTask(d, u, p, due) = [users |-> d.users, tasks |-> rows, last |-> d.last + 1]
  <2>1. rows = Tabl!With(d.tasks, d.last + 1, row1)
    BY DEF Tabl!With
  <2> DEFINE q == [d EXCEPT !.last = d.last + 1, !.tasks = rows]
  <2> HIDE DEF rows, row1
  <2>2. Tabl!CreateTask(d, u, p, due) = q
    BY <1>1, <2>1 DEF Tabl!CreateTask, row1
  <2>3. q = [x \in DOMAIN d |-> q[x]]
    BY <1>1
  <2>4. DOMAIN q = {"users", "tasks", "last"}
    BY <1>1
  <2>5. q.users = d.users /\ q.tasks = rows /\ q.last = d.last + 1
    BY <1>1
  <2> HIDE DEF q
  <2>6. q = [users |-> d.users, tasks |-> rows, last |-> d.last + 1]
    BY <2>3, <2>4, <2>5
  <2>7. QED
    BY <2>2, <2>6
<1> HIDE DEF rows
<1>6. QED
  BY <1>4, <1>5, GoodShape

\* Rows that change their status or their owner, or go.
LEMMA RowsGood ==
    ASSUME lesson = 61, NEW d, GoodTables(d), NEW rows, DOMAIN rows \subseteq DOMAIN d.tasks,
           rows = [t \in DOMAIN rows |-> rows[t]], \A t \in DOMAIN rows : rows[t] \in Tabl!Tasks
    PROVE  GoodTables([d EXCEPT !.tasks = rows])
<1>1. Shaped(d.users, d.tasks, d.last) /\ d = [users |-> d.users, tasks |-> d.tasks, last |-> d.last]
  BY GoodShape
<1>2. Shaped(d.users, rows, d.last)
  BY <1>1 DEF Shaped
<1>3. [d EXCEPT !.tasks = rows] = [users |-> d.users, tasks |-> rows, last |-> d.last]
  BY <1>1
<1>4. QED
  BY <1>2, <1>3, GoodShape

LEMMA StatusGood ==
    ASSUME lesson = 61, NEW d, GoodTables(d), NEW id
    PROVE  GoodTables(Tabl!CompleteTask(d, id))
<1>1. Shaped(d.users, d.tasks, d.last) /\ d = [users |-> d.users, tasks |-> d.tasks, last |-> d.last]
  BY GoodShape
<1> DEFINE rows == [t \in DOMAIN d.tasks |->
                IF t = id THEN [d.tasks[t] EXCEPT !.status = "done"] ELSE d.tasks[t]]
<1>2. \A t \in DOMAIN d.tasks : /\ d.tasks[t] \in Tabl!Tasks
                                /\ [d.tasks[t] EXCEPT !.status = "done"] \in Tabl!Tasks
  BY <1>1 DEF Shaped, Tabl!Tasks, Tabl!Statuses
<1>3. DOMAIN rows \subseteq DOMAIN d.tasks /\ rows = [t \in DOMAIN rows |-> rows[t]]
      /\ \A t \in DOMAIN rows : rows[t] \in Tabl!Tasks
  BY <1>2
<1>4. Tabl!CompleteTask(d, id) = [d EXCEPT !.tasks = rows]
  BY <1>1 DEF Tabl!CompleteTask
<1> HIDE DEF rows
<1>5. QED
  BY <1>3, <1>4, RowsGood

LEMMA CleanupGood ==
    ASSUME lesson = 61, NEW d, GoodTables(d), NEW u, NEW s
    PROVE  GoodTables(Tabl!DeleteTasksByStatus(d, u, s))
<1>1. Shaped(d.users, d.tasks, d.last) /\ d = [users |-> d.users, tasks |-> d.tasks, last |-> d.last]
  BY GoodShape
<1> DEFINE left == {t \in DOMAIN d.tasks : d.tasks[t].owner # u \/ d.tasks[t].status # s}
           rows == [t \in left |-> d.tasks[t]]
<1>2. DOMAIN rows \subseteq DOMAIN d.tasks /\ rows = [t \in DOMAIN rows |-> rows[t]]
      /\ \A t \in DOMAIN rows : rows[t] \in Tabl!Tasks
  BY <1>1 DEF Shaped
<1>3. Tabl!DeleteTasksByStatus(d, u, s) = [d EXCEPT !.tasks = rows]
  BY <1>1 DEF Tabl!DeleteTasksByStatus
<1> HIDE DEF rows
<1>4. QED
  BY <1>2, <1>3, RowsGood

LEMMA MovedGood ==
    ASSUME lesson = 61, NEW d, GoodTables(d), NEW S, NEW u \in Tabl!UserIds
    PROVE  GoodTables(Moved(d, S, u))
<1>1. Shaped(d.users, d.tasks, d.last)
  BY GoodShape
<1> DEFINE rows == [t \in DOMAIN d.tasks |->
                IF t \in S THEN [d.tasks[t] EXCEPT !.owner = u] ELSE d.tasks[t]]
<1>2. \A t \in DOMAIN d.tasks : /\ d.tasks[t] \in Tabl!Tasks
                                /\ [d.tasks[t] EXCEPT !.owner = u] \in Tabl!Tasks
  BY <1>1 DEF Shaped, Tabl!Tasks
<1>3. DOMAIN rows \subseteq DOMAIN d.tasks /\ rows = [t \in DOMAIN rows |-> rows[t]]
      /\ \A t \in DOMAIN rows : rows[t] \in Tabl!Tasks
  BY <1>2
<1>4. Moved(d, S, u) = [d EXCEPT !.tasks = rows]
  BY DEF Moved
<1> HIDE DEF rows
<1>5. QED
  BY <1>3, <1>4, RowsGood

\* A statement by itself.
LEMMA AutocommitGood ==
    ASSUME Tabl!TransactionsAssumption, GoodTables(tables), lesson \in {36, 38, 61},
           NEW d \in Tabl!Autocommits(tables)
    PROVE  GoodTables(d)
<1>1. CASE lesson = 36
  <2>1. CASE \E b \in DOMAIN tables : tables[b] < MaxPages /\ d = Tabl!AddPages(tables, b, 1)
    <3>1. PICK b \in DOMAIN tables : tables[b] < MaxPages /\ d = Tabl!AddPages(tables, b, 1)
      BY <2>1
    <3>2. tables[b] \in -MaxPages .. MaxPages
      BY <1>1 DEF GoodTables, Tabl!TablesTypeOK
    <3>3. tables[b] + 1 \in -MaxPages .. MaxPages
      BY <3>1, <3>2 DEF Tabl!TransactionsAssumption
    <3>4. QED
      BY <1>1, <3>1, <3>3, PagesGood
  <2>2. CASE \E b \in Tabl!BookIds : d = Tabl!Without(tables, b)
    BY <1>1, <2>2, WithoutGood
  <2>3. QED
    BY <1>1, <2>1, <2>2 DEF Tabl!Autocommits, Tabl!BookStatements
<1>2. CASE lesson = 38
  <2>1. PICK n \in Names : d = Tabl!InsertBooks(tables, {n}, 1)
    BY <1>2 DEF Tabl!Autocommits, Tabl!AuthorStatements
  <2>2. QED
    BY <1>2, <2>1, BooksGood
<1>3. CASE lesson = 61
  <2>1. CASE \E e \in Names : ~Tabl!EmailTaken(tables, e) /\ d = Tabl!CreateUser(tables, e)
    BY <1>3, <2>1, UserGood
  <2>2. CASE \E u \in Tabl!UserIds :
                /\ tables.last < MaxTasks
                /\ \/ d = Tabl!CreateTask(tables, u, 1, {})
                   \/ d = Tabl!CreateTask(tables, u, 2, {1})
    <3>1. PICK u \in Tabl!UserIds :
             /\ tables.last < MaxTasks
             /\ \/ d = Tabl!CreateTask(tables, u, 1, {})
                \/ d = Tabl!CreateTask(tables, u, 2, {1})
      BY <2>2
    <3>2. GoodTables(Tabl!CreateTask(tables, u, 1, {})) /\ GoodTables(Tabl!CreateTask(tables, u, 2, {1}))
      BY <1>3, <3>1, TaskGood
    <3>3. QED
      BY <3>1, <3>2
  <2>3. CASE \E t \in Tabl!TaskIds : d = Tabl!CompleteTask(tables, t)
    BY <1>3, <2>3, StatusGood
  <2>4. CASE \E u \in Tabl!UserIds : \E s \in Tabl!Statuses : d = Tabl!DeleteTasksByStatus(tables, u, s)
    BY <1>3, <2>4, CleanupGood
  <2> DEFINE W == {Tabl!CreateUser(tables, e) : e \in {e \in Names : ~Tabl!EmailTaken(tables, e)}}
             X == UNION {{Tabl!CreateTask(tables, u, 1, {}), Tabl!CreateTask(tables, u, 2, {1})} :
                            u \in IF tables.last < MaxTasks THEN Tabl!UserIds ELSE {}}
             Y == {Tabl!CompleteTask(tables, t) : t \in Tabl!TaskIds}
             Z == UNION {{Tabl!DeleteTasksByStatus(tables, u, s) : s \in Tabl!Statuses} : u \in Tabl!UserIds}
  <2>5. d \in W => GoodTables(d)
    BY <2>1
  <2>6. d \in X => GoodTables(d)
    BY <2>2
  <2>7. d \in Y => GoodTables(d)
    BY <2>3
  <2>8. d \in Z => GoodTables(d)
    BY <2>4
  <2>9. Tabl!Autocommits(tables) = W \cup X \cup Y \cup Z
    <3>1. Tabl!Autocommits(tables) = Tabl!TaskStatements(tables)
      BY <1>3 DEF Tabl!Autocommits
    <3>2. Tabl!TaskStatements(tables) = W \cup X \cup Y \cup Z
      BY DEF Tabl!TaskStatements
    <3>3. QED
      BY <3>1, <3>2
  <2> HIDE DEF W, X, Y, Z
  <2>10. QED
    BY <2>5, <2>6, <2>7, <2>8, <2>9
<1>4. QED
  BY <1>1, <1>2, <1>3

-----------------------------------------------------------------------------
(* The steps of a transaction *)

\* What a call asks for, by its kind; the kinds of the lessons differ.
LEMMA CallKinds ==
    ASSUME lesson \in {36, 38, 61}, NEW ask \in Tabl!CallsOf(lesson)
    PROVE  /\ ask[1] = "transferPages" => lesson = 36
           /\ ask[1] \in {"create", "fails"} => lesson = 38 /\ ask[2] \subseteq Names /\ ask[3] \in {-1, 1}
           /\ ask[1] = "transferAllTasks" => lesson = 61 /\ ask[3] \in Tabl!UserIds
           /\ ask[1] = "failingTx" => lesson = 61 /\ ask[2] \in Tabl!UserIds /\ ask[3] \in Names
<1>1. lesson = 36 => ask[1] = "transferPages"
  BY DEF Tabl!CallsOf
<1>2. lesson = 38 => ask[1] \in {"create", "fails"} /\ ask[2] \subseteq Names /\ ask[3] \in {-1, 1}
  BY DEF Tabl!CallsOf
<1>3. lesson = 61 => \/ ask[1] = "transferAllTasks" /\ ask[3] \in Tabl!UserIds
                     \/ ask[1] = "failingTx" /\ ask[2] \in Tabl!UserIds /\ ask[3] \in Names
  BY DEF Tabl!CallsOf
<1>4. QED
  BY <1>1, <1>2, <1>3

\* A transaction goes on, alone, and its copy is sound.
LEMMA TxGoes ==
    ASSUME TablInv, NEW c \in Clients, NEW phase \in {"second", "commit"}, NEW copy, NEW todo,
           Tabl!Goes(c, phase, copy, todo), ~Tabl!Idle(c), GoodTables(copy),
           phase = "second" => Begun(tx[c].call, copy, todo),
           phase = "commit" => copy = Tabl!Effect(tables, tx[c].call),
           Tabl!Writes(c) \/ Tabl!Locks(c) \/ lesson = 61
    PROVE  TablInv'
<1> DEFINE r == [tx[c] EXCEPT !.phase = phase, !.copy = copy, !.todo = todo]
<1>1. tx' = [tx EXCEPT ![c] = r] /\ UNCHANGED <<lesson, tables, promised>>
  BY DEF Tabl!Goes
<1>2. /\ r.phase = phase /\ r.call = tx[c].call /\ r.todo = todo /\ r.copy = copy
      /\ r = [phase |-> r.phase, call |-> r.call, todo |-> r.todo, copy |-> r.copy]
  <2>1. PICK s : s = tx[c]
    OBVIOUS
  <2>2. s = [phase |-> s.phase, call |-> s.call, todo |-> s.todo, copy |-> s.copy]
    BY <2>1 DEF TablInv, TxSound
  <2> DEFINE q == [s EXCEPT !.phase = phase, !.copy = copy, !.todo = todo]
  <2>3. q = [x \in DOMAIN s |-> q[x]]
    BY <2>2
  <2>4. DOMAIN q = {"phase", "call", "todo", "copy"}
    BY <2>2
  <2>5. q.phase = phase /\ q.call = s.call /\ q.todo = todo /\ q.copy = copy
    BY <2>2
  <2>6. q = r
    BY <2>1
  <2> HIDE DEF q, r
  <2>7. q = [phase |-> q.phase, call |-> q.call, todo |-> q.todo, copy |-> q.copy]
    BY <2>3, <2>4
  <2>8. QED
    BY <2>1, <2>5, <2>6, <2>7
<1> HIDE DEF r
<1>3. tx[c].phase # "none" /\ tx[c].call \in Tabl!CallsOf(lesson)
  BY Writing DEF TablInv, TxSound
<1>4. TxSound(r)
  BY <1>2, <1>3 DEF TxSound
<1>5. /\ tx' = [d \in Clients |-> tx'[d]] /\ tx'[c] = r
      /\ \A d \in Clients \ {c} : tx'[d] = tx[d]
  BY <1>1 DEF TablInv
<1>6. \A d \in Clients : TxSound(tx'[d])
  BY <1>4, <1>5 DEF TablInv
<1>7. \A d \in Clients : TxSound(tx[d])'
  BY <1>1, <1>6, TxStays
<1>8. Alone'
  <2>1. \A d \in Clients \ {c} : (Tabl!Writes(d)' <=> Tabl!Writes(d)) /\ (Tabl!Idle(d)' <=> Tabl!Idle(d))
    BY <1>5 DEF Tabl!Writes, Tabl!Idle
  <2>2. \A d \in Clients \ {c} : ~Tabl!Writes(d)
    <3>1. \A d \in Clients : Tabl!Writes(d) => ~Tabl!Idle(d)
      BY DEF Tabl!Writes, Tabl!Idle
    <3>2. QED
      BY <3>1 DEF TablInv, Alone, Tabl!Locks
  <2>3. lesson = 61 => \A d \in Clients \ {c} : Tabl!Idle(d)
    BY DEF TablInv, Alone
  <2>4. QED
    BY <1>1, <2>1, <2>2, <2>3 DEF Alone
<1>9. QED
  <2>1. GoodTables(tables)'
    BY <1>1, GoodStays DEF TablInv
  <2>2. QED
    BY <1>1, <1>5, <1>7, <1>8, <2>1 DEF TablInv

\* A call begins or ends: its record is a new one that has no copy.
LEMMA TxTurns ==
    ASSUME TablInv, NEW c \in Clients, lesson' = lesson,
           tx' = [d \in Clients |-> tx'[d]], \A d \in Clients \ {c} : tx'[d] = tx[d],
           NEW r, tx'[c] = r, r.phase \in {"none", "begun"},
           r = [phase |-> r.phase, call |-> r.call, todo |-> r.todo, copy |-> r.copy],
           r.phase = "begun" => /\ r.call \in Tabl!CallsOf(lesson)
                                /\ lesson = 61 => \A d \in Clients : Tabl!Idle(d),
           \/ tables' = tables /\ promised' = promised
           \/ Tabl!Writes(c) /\ GoodTables(tables') /\ promised' = tables'
    PROVE  TablInv'
<1>1. /\ tx' = [d \in Clients |-> tx'[d]] /\ tx'[c] = r
      /\ \A d \in Clients \ {c} : tx'[d] = tx[d]
  OBVIOUS
<1>2. TxSound(r)'
  BY DEF TxSound, Tabl!CallsOf
<1>3. ASSUME NEW d \in Clients \ {c}
      PROVE  TxSound(tx[d])'
  <2>1. TxSound(tx[d])
    BY DEF TablInv
  <2>2. CASE UNCHANGED <<tables, promised>>
    BY <1>1, <2>1, <2>2, TxStays
  <2>3. CASE Tabl!Writes(c)
    <3>1. ~Tabl!Writes(d)
      BY <2>3 DEF TablInv, Alone
    <3>2. tx[d].phase \in {"none", "begun"}
      BY <2>1, <3>1, Writing DEF TxSound
    <3>3. QED
      BY <1>1, <2>1, <3>2 DEF TxSound, Tabl!CallsOf
  <2>4. QED
    BY <2>2, <2>3
<1>4. Alone'
  <2>1. \A d \in Clients \ {c} : (Tabl!Writes(d)' <=> Tabl!Writes(d)) /\ (Tabl!Idle(d)' <=> Tabl!Idle(d))
    BY <1>1 DEF Tabl!Writes, Tabl!Idle
  <2>2. ~Tabl!Writes(c)' /\ (Tabl!Idle(c)' <=> r.phase = "none")
    BY <1>1 DEF Tabl!Writes, Tabl!Idle
  <2>3. QED
    BY <2>1, <2>2 DEF TablInv, Alone
<1>5. GoodTables(tables)' /\ promised' = tables'
  BY GoodStays DEF TablInv
<1>6. \A d \in Clients : TxSound(tx[d])'
  BY <1>1, <1>2, <1>3
<1>7. QED
  BY <1>1, <1>4, <1>5, <1>6 DEF TablInv

LEMMA BeginKeeps ==
    ASSUME TablInv, NEW c \in Clients, Tabl!Begin(c)
    PROVE  TablInv'
<1>1. PICK ask \in Tabl!CallsOf(lesson) :
         tx' = [tx EXCEPT ![c] = [Tabl!NoTx EXCEPT !.phase = "begun", !.call = ask]]
  BY DEF Tabl!Begin
<1> DEFINE r == [Tabl!NoTx EXCEPT !.phase = "begun", !.call = ask]
<1>2. r.phase = "begun" /\ r.call = ask
      /\ r = [phase |-> r.phase, call |-> r.call, todo |-> r.todo, copy |-> r.copy]
  <2>1. PICK s : s = Tabl!NoTx
    OBVIOUS
  <2>2. s = [phase |-> "none", call |-> << >>, todo |-> << >>, copy |-> << >>]
    BY <2>1 DEF Tabl!NoTx
  <2> DEFINE q == [s EXCEPT !.phase = "begun", !.call = ask]
  <2>3. q = [x \in DOMAIN s |-> q[x]]
    BY <2>2
  <2>4. DOMAIN q = {"phase", "call", "todo", "copy"}
    BY <2>2
  <2>5. q.phase = "begun" /\ q.call = ask
    BY <2>2
  <2>6. q = r
    BY <2>1
  <2> HIDE DEF q, r
  <2>7. q = [phase |-> q.phase, call |-> q.call, todo |-> q.todo, copy |-> q.copy]
    BY <2>3, <2>4
  <2>8. QED
    BY <2>5, <2>6, <2>7
<1>3. tx' = [tx EXCEPT ![c] = r] /\ UNCHANGED <<lesson, tables, promised>>
      /\ (lesson = 61 => \A d \in Clients : Tabl!Idle(d))
  BY <1>1 DEF Tabl!Begin
<1> HIDE DEF r
<1>4. /\ tx' = [d \in Clients |-> tx'[d]] /\ tx'[c] = r
      /\ \A d \in Clients \ {c} : tx'[d] = tx[d]
  BY <1>3 DEF TablInv
<1>5. QED
  BY <1>2, <1>3, <1>4, TxTurns

LEMMA NoTxShape ==
    /\ Tabl!NoTx.phase = "none"
    /\ Tabl!NoTx = [phase |-> Tabl!NoTx.phase, call |-> Tabl!NoTx.call,
                    todo |-> Tabl!NoTx.todo, copy |-> Tabl!NoTx.copy]
<1>1. Tabl!NoTx = [phase |-> "none", call |-> << >>, todo |-> << >>, copy |-> << >>]
  BY DEF Tabl!NoTx
<1>2. /\ Tabl!NoTx.phase = "none" /\ Tabl!NoTx.call = << >>
      /\ Tabl!NoTx.todo = << >> /\ Tabl!NoTx.copy = << >>
  BY <1>1
<1>3. QED
  BY <1>1, <1>2

LEMMA RollbackKeeps ==
    ASSUME TablInv, NEW c \in Clients, Tabl!Rollback(c)
    PROVE  TablInv'
<1>1. tx' = [tx EXCEPT ![c] = Tabl!NoTx] /\ UNCHANGED <<lesson, tables, promised>>
  BY DEF Tabl!Rollback
<1>2. /\ tx' = [d \in Clients |-> tx'[d]] /\ tx'[c] = Tabl!NoTx
      /\ \A d \in Clients \ {c} : tx'[d] = tx[d]
  BY <1>1 DEF TablInv
<1>3. QED
  BY <1>1, <1>2, TxTurns, NoTxShape

LEMMA TxCommitKeeps ==
    ASSUME TablInv, NEW c \in Clients, Tabl!Commit(c)
    PROVE  TablInv'
<1>1. tx[c].phase = "commit" /\ TxSound(tx[c]) /\ promised = tables
  BY DEF Tabl!Commit, TablInv
<1>2. Tabl!Writes(c) /\ GoodTables(tx[c].copy) /\ tx[c].copy = Tabl!Effect(tables, tx[c].call)
  BY <1>1, Writing DEF TxSound
<1>3. tables' = tx[c].copy /\ promised' = tables' /\ tx' = [tx EXCEPT ![c] = Tabl!NoTx] /\ lesson' = lesson
  BY <1>1, <1>2 DEF Tabl!Commit
<1>4. GoodTables(tables')
  BY <1>2, <1>3
<1>5. /\ tx' = [d \in Clients |-> tx'[d]] /\ tx'[c] = Tabl!NoTx
      /\ \A d \in Clients \ {c} : tx'[d] = tx[d]
  BY <1>3 DEF TablInv
<1>6. QED
  BY <1>2, <1>3, <1>4, <1>5, TxTurns, NoTxShape

LEMMA ExecuteKeeps ==
    ASSUME Tabl!TransactionsAssumption, TablInv, Tabl!Execute
    PROVE  TablInv'
<1>1. PICK d \in Tabl!Autocommits(tables) : tables' = d /\ promised' = d
  BY DEF Tabl!Execute
<1>2. GoodTables(tables') /\ lesson' = lesson /\ tx' = tx
  BY <1>1, AutocommitGood DEF TablInv, Tabl!Execute
<1>3. GoodTables(tables)'
  BY <1>2 DEF GoodTables, Tabl!TablesTypeOK
<1>4. ASSUME NEW c \in Clients
      PROVE  TxSound(tx[c])'
  <2>1. TxSound(tx[c])
    BY DEF TablInv
  <2>2. tx[c].phase \in {"none", "begun"}
    BY <2>1, Writing DEF Tabl!Execute, TxSound
  <2>3. QED
    BY <1>2, <2>1, <2>2 DEF TxSound, Tabl!CallsOf
<1>5. Alone'
  BY <1>2 DEF TablInv, Alone, Tabl!Writes, Tabl!Idle
<1>6. QED
  BY <1>1, <1>2, <1>3, <1>4, <1>5 DEF TablInv

-----------------------------------------------------------------------------
(* ORDER BY has an answer: the ranks of the rows are the places              *)

LEMMA OrderedList ==
    ASSUME lesson = 61, NEW d, GoodTables(d), NEW S, S \subseteq DOMAIN d.tasks
    PROVE  LET list == Tabl!Ordered(d, S) IN
           /\ IsFiniteSet(S) /\ Cardinality(S) \in Nat
           /\ list \in Seq(S) /\ Len(list) = Cardinality(S) /\ Made(list) = S
           /\ \A i, j \in 1 .. Len(list) : list[i] = list[j] => i = j
<1> DEFINE n == Cardinality(S)
           list == Tabl!Ordered(d, S)
           P(t, u) == Tabl!Before(d, t, u)
           upto(t) == {u \in S : P(u, t) \/ u = t}
           rank == [t \in S |-> Cardinality(upto(t))]
<1>1. Shaped(d.users, d.tasks, d.last)
  BY GoodShape
<1>2. IsFiniteSet(S) /\ n \in Nat
  <2>1. IsFiniteSet(1 .. d.last)
    BY <1>1, FS_Interval DEF Shaped
  <2>2. S \in SUBSET (1 .. d.last)
    BY <1>1 DEF Shaped
  <2>3. IsFiniteSet(S)
    BY <2>1, <2>2, FS_Subset
  <2>4. QED
    BY <2>3, FS_CardinalityType
<1>3. IsFiniteSet(1 .. n) /\ Cardinality(1 .. n) = n
  <2>1. IsFiniteSet(1 .. n) /\ Cardinality(1 .. n) = IF 1 > n THEN 0 ELSE n - 1 + 1
    BY <1>2, FS_Interval
  <2>2. QED
    BY <1>2, <2>1
<1>4. \A t \in S : t \in Int /\ d.tasks[t].priority \in Int
  BY <1>1 DEF Shaped, Tabl!Tasks
<1>5. /\ \A t \in S : ~P(t, t)
      /\ \A t, u \in S : t # u => P(t, u) \/ P(u, t)
      /\ \A t, u, v \in S : P(t, u) /\ P(u, v) => P(t, v)
  BY <1>4 DEF Tabl!Before
<1> HIDE DEF P
<1>6. \A t \in S : upto(t) \in SUBSET S /\ t \in upto(t) /\ IsFiniteSet(upto(t))
                   /\ Cardinality(upto(t)) \in 1 .. n
  <2> SUFFICES ASSUME NEW t \in S
               PROVE  upto(t) \in SUBSET S /\ t \in upto(t) /\ IsFiniteSet(upto(t))
                      /\ Cardinality(upto(t)) \in 1 .. n
    OBVIOUS
  <2> DEFINE U == upto(t)
  <2>1. U \in SUBSET S /\ t \in U
    OBVIOUS
  <2> HIDE DEF U
  <2>2. IsFiniteSet(U) /\ Cardinality(U) <= n
    BY <1>2, <2>1, FS_Subset
  <2>3. Cardinality(U) \in Nat /\ Cardinality(U) # 0
    BY <2>1, <2>2, FS_CardinalityType, FS_EmptySet
  <2>4. Cardinality(U) \in 1 .. n
    BY <1>2, <2>2, <2>3
  <2>5. QED
    BY <2>1, <2>2, <2>4 DEF U
<1>7. \A t, u \in S : P(t, u) => rank[t] < rank[u]
  <2> SUFFICES ASSUME NEW t \in S, NEW u \in S, P(t, u)
               PROVE  Cardinality(upto(t)) < Cardinality(upto(u))
    OBVIOUS
  <2> DEFINE T == upto(t)
             U == upto(u)
  <2>1. T \subseteq U /\ u \in U /\ u \notin T
    BY <1>5
  <2>2. IsFiniteSet(U) /\ Cardinality(T) \in 1 .. n /\ Cardinality(U) \in 1 .. n
    BY <1>6
  <2> HIDE DEF T, U
  <2>3. Cardinality(T) <= Cardinality(U) /\ Cardinality(T) # Cardinality(U)
    BY <2>1, <2>2, FS_Subset
  <2>4. Cardinality(T) < Cardinality(U)
    BY <1>2, <2>2, <2>3
  <2>5. QED
    BY <2>4 DEF T, U
<1>8. rank \in [S -> 1 .. n]
  BY <1>6
<1> HIDE DEF rank, upto
<1>9. \A t, u \in S : rank[t] = rank[u] => t = u
  <2>1. \A t \in S : rank[t] \in Int
    BY <1>2, <1>8
  <2>2. QED
    BY <1>5, <1>7, <2>1
<1>10. \A i \in 1 .. n : \E t \in S : rank[t] = i
  <2>1. rank \in Injection(S, 1 .. n)
    BY <1>8, <1>9 DEF Injection, IsInjective
  <2>2. rank \in Surjection(S, 1 .. n)
    BY <1>3, <2>1, FS_Injection
  <2>3. QED
    BY <2>2 DEF Surjection
<1>11. \E s \in [1 .. n -> S] : \A i, j \in DOMAIN s : i < j => P(s[i], s[j])
  <2> DEFINE s == [i \in 1 .. n |-> CHOOSE t \in S : rank[t] = i]
  <2>1. \A i \in 1 .. n : s[i] \in S /\ rank[s[i]] = i
    BY <1>10
  <2>2. s \in [1 .. n -> S] /\ DOMAIN s = 1 .. n
    BY <2>1
  <2> HIDE DEF s
  <2>3. ASSUME NEW i \in 1 .. n, NEW j \in 1 .. n, i < j
        PROVE  P(s[i], s[j])
    <3>1. s[i] # s[j] /\ ~(rank[s[j]] < rank[s[i]])
      BY <1>2, <2>1, <2>3
    <3>2. QED
      BY <1>5, <1>7, <2>1, <3>1
  <2>4. QED
    BY <2>2, <2>3
<1>12. Tabl!Cardinality(S) = n
  BY Zenon DEF Tabl!Cardinality, Cardinality
<1>13. list \in [1 .. n -> S] /\ \A i, j \in 1 .. n : i < j => P(list[i], list[j])
  <2>1. list = CHOOSE s \in [1 .. n -> S] : \A i, j \in DOMAIN s : i < j => P(s[i], s[j])
    BY <1>12 DEF Tabl!Ordered, P
  <2> HIDE DEF list
  <2>2. list \in [1 .. n -> S] /\ \A i, j \in DOMAIN list : i < j => P(list[i], list[j])
    BY <1>11, <2>1
  <2>3. QED
    BY <2>2
<1> HIDE DEF list
<1>14. \A i, j \in 1 .. n : list[i] = list[j] => i = j
  <2> SUFFICES ASSUME NEW i \in 1 .. n, NEW j \in 1 .. n, list[i] = list[j], i # j
               PROVE  FALSE
    OBVIOUS
  <2>1. i < j \/ j < i
    BY <1>2
  <2>2. list[i] \in S
    BY <1>13
  <2>3. P(list[i], list[i])
    BY <1>13, <2>1
  <2>4. QED
    BY <1>5, <2>2, <2>3
<1>15. \A t \in S : \E i \in 1 .. n : list[i] = t
  <2>1. list \in Injection(1 .. n, S)
    BY <1>13, <1>14 DEF Injection, IsInjective
  <2>2. list \in Surjection(1 .. n, S)
    BY <1>2, <1>3, <2>1, FS_Injection
  <2>3. QED
    BY <2>2 DEF Surjection
<1>16. list \in Seq(S) /\ Len(list) = n
  BY <1>2, <1>13
<1>17. Made(list) = S
  BY <1>2, <1>13, <1>15, <1>16 DEF Made
<1>18. /\ IsFiniteSet(S) /\ n \in Nat
       /\ list \in Seq(S) /\ Len(list) = n /\ Made(list) = S
       /\ \A i, j \in 1 .. Len(list) : list[i] = list[j] => i = j
  BY <1>2, <1>14, <1>16, <1>17
<1>19. QED
  BY <1>18 DEF list

-----------------------------------------------------------------------------
(* The steps of the three lessons *)

LEMMA Kinds ==
    ASSUME TablInv, NEW c \in Clients, NEW kind1, NEW phase, phase # "none", Tabl!In(c, kind1, phase)
    PROVE  /\ TxSound(tx[c]) /\ tx[c].phase = phase /\ tx[c].call[1] = kind1
           /\ ~Tabl!Idle(c) /\ tx[c].call \in Tabl!CallsOf(lesson)
           /\ phase \in {"second", "commit"} => Tabl!Writes(c)
           /\ Tabl!Arg(c, 1) = tx[c].call[2] /\ Tabl!Arg(c, 2) = tx[c].call[3]
  BY DEF TablInv, TxSound, Tabl!In, Tabl!Idle, Tabl!Writes, Tabl!Arg

LEMMA DebitKeeps ==
    ASSUME Tabl!TransactionsAssumption, TablInv, NEW c \in Clients, Tabl!Debit(c)
    PROVE  TablInv'
<1> DEFINE ask == tx[c].call
           copy == Tabl!AddPages(tables, ask[2], -1)
<1>1. ask[1] = "transferPages" /\ ~Tabl!Idle(c) /\ ask \in Tabl!CallsOf(lesson) /\ Tabl!Arg(c, 1) = ask[2]
  BY Kinds DEF Tabl!Debit
<1>2. lesson = 36 /\ GoodTables(tables)
  BY <1>1, CallKinds DEF TablInv
<1>3. Tabl!Locks(c) /\ \A b \in DOMAIN tables : -MaxPages < tables[b] /\ tables[b] < MaxPages
  BY DEF Tabl!Debit
<1>4. Tabl!Goes(c, "second", copy, <<>>)
  BY <1>1 DEF Tabl!Debit
<1>5. \A x \in DOMAIN tables : x = ask[2] => tables[x] + -1 \in -MaxPages .. MaxPages
  <2>1. \A x \in DOMAIN tables : tables[x] \in -MaxPages .. MaxPages
    BY <1>2 DEF GoodTables, Tabl!TablesTypeOK
  <2>2. QED
    BY <1>3, <2>1 DEF Tabl!TransactionsAssumption
<1>6. GoodTables(copy)
  BY <1>2, <1>5, PagesGood
<1>7. Begun(ask, copy, <<>>)
  BY <1>1, <1>3 DEF Begun
<1> HIDE DEF copy
<1>8. QED
  BY <1>1, <1>3, <1>4, <1>6, <1>7, TxGoes

LEMMA CreditKeeps ==
    ASSUME Tabl!TransactionsAssumption, TablInv, NEW c \in Clients, Tabl!Credit(c)
    PROVE  TablInv'
<1> DEFINE ask == tx[c].call
           old == tx[c].copy
           copy == Tabl!AddPages(old, ask[3], 1)
<1>1. /\ ask[1] = "transferPages" /\ ~Tabl!Idle(c) /\ ask \in Tabl!CallsOf(lesson)
      /\ Tabl!Arg(c, 2) = ask[3] /\ Tabl!Writes(c)
      /\ TxSound(tx[c]) /\ tx[c].phase = "second"
  BY Kinds DEF Tabl!Credit
<1>2. lesson = 36 /\ GoodTables(tables)
  BY <1>1, CallKinds DEF TablInv
<1>3. /\ old = Tabl!AddPages(tables, ask[2], -1) /\ GoodTables(old)
      /\ \A b \in DOMAIN tables : -MaxPages < tables[b] /\ tables[b] < MaxPages
  BY <1>1 DEF TxSound, Begun
<1>4. Tabl!Goes(c, "commit", copy, <<>>)
  BY <1>1 DEF Tabl!Credit
<1>5. \A b \in DOMAIN tables : tables[b] \in -MaxPages .. MaxPages
  BY <1>2 DEF GoodTables, Tabl!TablesTypeOK
<1>6. old = [b \in DOMAIN tables |-> IF b = ask[2] THEN tables[b] + -1 ELSE tables[b]]
  BY <1>3 DEF Tabl!AddPages
<1>7. \A x \in DOMAIN old : x = ask[3] => old[x] + 1 \in -MaxPages .. MaxPages
  BY <1>3, <1>5, <1>6 DEF Tabl!TransactionsAssumption
<1>8. GoodTables(copy)
  BY <1>2, <1>3, <1>7, PagesGood
<1>9. copy = Tabl!Effect(tables, ask)
  <2>1. copy = [b \in DOMAIN tables |->
                    IF b = ask[3] THEN (IF b = ask[2] THEN tables[b] + -1 ELSE tables[b]) + 1
                    ELSE IF b = ask[2] THEN tables[b] + -1 ELSE tables[b]]
    BY <1>6 DEF Tabl!AddPages
  <2>2. Tabl!Effect(tables, ask) =
            [b \in DOMAIN tables |-> tables[b] - (IF b = ask[2] THEN 1 ELSE 0) + (IF b = ask[3] THEN 1 ELSE 0)]
    BY <1>1 DEF Tabl!Effect
  <2>3. \A b \in DOMAIN tables : tables[b] \in Int
    BY <1>5 DEF Tabl!TransactionsAssumption
  <2> HIDE DEF copy
  <2>4. QED
    BY <2>1, <2>2, <2>3
<1> HIDE DEF copy
<1>10. QED
  BY <1>1, <1>4, <1>8, <1>9, TxGoes

LEMMA AuthorsKeep ==
    ASSUME TablInv, NEW c \in Clients, Tabl!CreateAuthors(c)
    PROVE  TablInv'
<1> DEFINE ask == tx[c].call
           copy == Tabl!InsertAuthors(tables, ask[2])
<1>1. ask[1] \in {"create", "fails"} /\ ~Tabl!Idle(c) /\ ask \in Tabl!CallsOf(lesson) /\ Tabl!Arg(c, 1) = ask[2]
  BY Kinds DEF Tabl!CreateAuthors
<1>2. lesson = 38 /\ GoodTables(tables) /\ ask[2] \in SUBSET Names
  BY <1>1, CallKinds DEF TablInv
<1>3. Tabl!Locks(c) /\ ask[2] \cap DOMAIN tables = {} /\ Tabl!Goes(c, "second", copy, <<>>)
  BY <1>1 DEF Tabl!CreateAuthors
<1>4. GoodTables(copy)
  BY <1>2, AuthorsGood
<1>5. Begun(ask, copy, <<>>)
  BY <1>1, <1>3 DEF Begun
<1> HIDE DEF copy
<1>6. QED
  BY <1>1, <1>3, <1>4, <1>5, TxGoes

LEMMA BooksKeep ==
    ASSUME TablInv, NEW c \in Clients, Tabl!CreateBooks(c)
    PROVE  TablInv'
<1> DEFINE ask == tx[c].call
           old == tx[c].copy
           copy == Tabl!InsertBooks(old, ask[2], ask[3])
<1>1. /\ ask[1] = "create" /\ ~Tabl!Idle(c) /\ ask \in Tabl!CallsOf(lesson)
      /\ Tabl!Arg(c, 1) = ask[2] /\ Tabl!Arg(c, 2) = ask[3] /\ Tabl!Writes(c)
      /\ TxSound(tx[c]) /\ tx[c].phase = "second"
  BY Kinds DEF Tabl!CreateBooks
<1>2. lesson = 38 /\ ask[3] \in {-1, 1} /\ ask[3] >= 0
  BY <1>1, CallKinds DEF TablInv, Tabl!CreateBooks
<1>3. /\ old = Tabl!InsertAuthors(tables, ask[2]) /\ GoodTables(old)
  BY <1>1 DEF TxSound, Begun
<1>4. Tabl!Goes(c, "commit", copy, <<>>)
  BY <1>1 DEF Tabl!CreateBooks
<1>5. GoodTables(copy)
  BY <1>2, <1>3, BooksGood
<1>6. copy = Tabl!Effect(tables, ask)
  <2>1. old = [n \in DOMAIN tables \cup ask[2] |-> IF n \in ask[2] THEN 0 ELSE tables[n]]
    BY <1>3 DEF Tabl!InsertAuthors
  <2>2. copy = [n \in DOMAIN tables \cup ask[2] |-> IF n \in ask[2] THEN ask[3] ELSE tables[n]]
    BY <2>1 DEF Tabl!InsertBooks
  <2>3. Tabl!Effect(tables, ask) =
            [n \in DOMAIN tables \cup ask[2] |-> IF n \in ask[2] THEN ask[3] ELSE tables[n]]
    BY <1>1 DEF Tabl!Effect
  <2>4. QED
    BY <2>2, <2>3
<1> HIDE DEF copy
<1>7. QED
  BY <1>1, <1>4, <1>5, <1>6, TxGoes

LEMMA ListKeepsTables ==
    ASSUME Tabl!TransactionsAssumption, TablInv, NEW c \in Clients, Tabl!ListTasks(c)
    PROVE  TablInv'
<1> DEFINE ask == tx[c].call
           S == OwnedBy(tables, ask[2])
           todo == Tabl!Ordered(tables, S)
<1>1. /\ ask[1] = "transferAllTasks" /\ ~Tabl!Idle(c) /\ ask \in Tabl!CallsOf(lesson)
      /\ Tabl!Arg(c, 1) = ask[2]
  BY Kinds DEF Tabl!ListTasks
<1>2. lesson = 61 /\ GoodTables(tables)
  BY <1>1, CallKinds DEF TablInv
<1>3. Tabl!Goes(c, "second", tables, todo)
  <2>1. Tabl!ListTasksByUser(tables, ask[2], {}) = todo
    <3>1. {t \in DOMAIN tables.tasks : /\ tables.tasks[t].owner = ask[2]
                                       /\ Tabl!GetUser(tables, ask[2]) # {}
                                       /\ {} = {} \/ tables.tasks[t].status \in {}} = S
      BY DEF Tabl!GetUser, OwnedBy
    <3>2. QED
      BY <3>1 DEF Tabl!ListTasksByUser
  <2>2. QED
    BY <1>1, <2>1 DEF Tabl!ListTasks
<1>4. Shaped(tables.users, tables.tasks, tables.last)
      /\ tables = [users |-> tables.users, tasks |-> tables.tasks, last |-> tables.last]
  BY <1>2, GoodShape
<1>5. S \subseteq DOMAIN tables.tasks
  BY DEF OwnedBy
<1>6. todo \in Seq(S) /\ Made(todo) = S /\ \A i, j \in 1 .. Len(todo) : todo[i] = todo[j] => i = j
  BY <1>2, <1>5, OrderedList
<1>7. todo \in Seq(Tabl!TaskIds)
  <2>1. S \subseteq Tabl!TaskIds
    BY <1>4, <1>5 DEF Shaped, Tabl!TaskIds, Tabl!TransactionsAssumption
  <2>2. QED
    BY <1>6, <2>1, SeqMonotonic
<1>8. tables = Moved(tables, S \ Made(todo), ask[3])
  <2>1. [t \in DOMAIN tables.tasks |->
            IF t \in {} THEN [tables.tasks[t] EXCEPT !.owner = ask[3]] ELSE tables.tasks[t]] = tables.tasks
    BY <1>4 DEF Shaped
  <2>2. [tables EXCEPT !.tasks = tables.tasks] = tables
    BY <1>4
  <2>3. S \ Made(todo) = {}
    BY <1>6
  <2>4. Moved(tables, {}, ask[3]) = tables
    BY <2>1, <2>2 DEF Moved
  <2>5. QED
    BY <2>3, <2>4
<1> HIDE DEF todo
<1>9. Begun(ask, tables, todo)
  BY <1>1, <1>6, <1>7, <1>8 DEF Begun
<1>10. QED
  BY <1>1, <1>2, <1>3, <1>9, TxGoes

LEMMA MoveKeeps ==
    ASSUME Tabl!TransactionsAssumption, TablInv, NEW c \in Clients, Tabl!MoveTask(c)
    PROVE  TablInv'
<1> DEFINE ask == tx[c].call
           old == tx[c].copy
           todo == tx[c].todo
           S == OwnedBy(tables, ask[2])
           copy == Tabl!SetOwner(old, Head(todo), ask[3])
<1>1. /\ ask[1] = "transferAllTasks" /\ ~Tabl!Idle(c) /\ ask \in Tabl!CallsOf(lesson)
      /\ Tabl!Arg(c, 2) = ask[3] /\ Tabl!Writes(c)
      /\ TxSound(tx[c]) /\ tx[c].phase = "second"
  BY Kinds DEF Tabl!MoveTask
<1>2. lesson = 61 /\ GoodTables(tables) /\ ask[3] \in Tabl!UserIds
  BY <1>1, CallKinds DEF TablInv
<1>3. /\ todo \in Seq(Tabl!TaskIds) /\ Made(todo) \subseteq S
      /\ \A i, j \in 1 .. Len(todo) : todo[i] = todo[j] => i = j
      /\ old = Moved(tables, S \ Made(todo), ask[3])
  BY <1>1 DEF TxSound, Begun
<1>4. todo # <<>> /\ Tabl!Goes(c, "second", copy, Tail(todo))
  BY <1>1 DEF Tabl!MoveTask
<1>5. /\ Head(todo) = todo[1] /\ Len(todo) \in Nat \ {0} /\ Tail(todo) \in Seq(Tabl!TaskIds)
      /\ Len(Tail(todo)) = Len(todo) - 1
      /\ \A i \in 1 .. (Len(todo) - 1) : Tail(todo)[i] = todo[i + 1]
  BY <1>3, <1>4
<1>6. Made(Tail(todo)) = Made(todo) \ {Head(todo)} /\ Head(todo) \in Made(todo)
  <2>1. Head(todo) \in Made(todo)
    BY <1>5 DEF Made
  <2>2. ASSUME NEW i \in 1 .. Len(Tail(todo))
        PROVE  Tail(todo)[i] \in Made(todo) \ {Head(todo)}
    <3>1. i + 1 \in 1 .. Len(todo) /\ i + 1 # 1 /\ 1 \in 1 .. Len(todo) /\ Tail(todo)[i] = todo[i + 1]
      BY <1>5
    <3>2. QED
      BY <1>3, <1>5, <3>1 DEF Made
  <2>3. ASSUME NEW i \in 1 .. Len(todo), todo[i] # Head(todo)
        PROVE  todo[i] \in Made(Tail(todo))
    <3>1. i - 1 \in 1 .. Len(Tail(todo)) /\ Tail(todo)[i - 1] = todo[i]
      BY <1>5, <2>3
    <3>2. QED
      BY <3>1 DEF Made
  <2>4. QED
    BY <2>1, <2>2, <2>3 DEF Made
<1>7. \A i, j \in 1 .. Len(Tail(todo)) : Tail(todo)[i] = Tail(todo)[j] => i = j
  BY <1>3, <1>5, SMTT(30)
<1>8. copy = Moved(tables, S \ Made(Tail(todo)), ask[3])
  <2> DEFINE h == Head(todo)
             was == [t \in DOMAIN tables.tasks |->
                        IF t \in S \ Made(todo) THEN [tables.tasks[t] EXCEPT !.owner = ask[3]]
                        ELSE tables.tasks[t]]
             is == [t \in DOMAIN tables.tasks |->
                        IF t \in S \ Made(Tail(todo)) THEN [tables.tasks[t] EXCEPT !.owner = ask[3]]
                        ELSE tables.tasks[t]]
  <2>1. tables = [users |-> tables.users, tasks |-> tables.tasks, last |-> tables.last]
    BY <1>2, GoodShape
  <2>2. old = [users |-> tables.users, tasks |-> was, last |-> tables.last]
    BY <1>3, <2>1 DEF Moved
  <2>3. Moved(tables, S \ Made(Tail(todo)), ask[3]) = [users |-> tables.users, tasks |-> is, last |-> tables.last]
    BY <2>1 DEF Moved
  <2>4. copy = [users |-> tables.users, tasks |-> [was EXCEPT ![h].owner = ask[3]], last |-> tables.last]
    <3> HIDE DEF was, h
    <3>1. old.tasks = was
      BY <2>2
    <3>2. QED
      BY <2>2 DEF Tabl!SetOwner, h
  <2>5. h \in S /\ h \in Made(todo) /\ h \in DOMAIN tables.tasks
    BY <1>3, <1>6, SMTT(30) DEF OwnedBy
  <2>6. [was EXCEPT ![h].owner = ask[3]] = is
    <3>1. was[h] = tables.tasks[h]
      BY <2>5
    <3>2. [was EXCEPT ![h].owner = ask[3]] =
            [t \in DOMAIN tables.tasks |-> IF t = h THEN [tables.tasks[h] EXCEPT !.owner = ask[3]] ELSE was[t]]
      BY <2>5, <3>1
    <3>3. \A t \in DOMAIN tables.tasks : t \in S \ Made(Tail(todo)) <=> t = h \/ t \in S \ Made(todo)
      BY <1>6, <2>5
    <3>4. QED
      BY <3>2, <3>3
  <2>7. QED
    BY <2>3, <2>4, <2>6
<1>9. GoodTables(copy)
  BY <1>2, <1>8, MovedGood
<1> HIDE DEF copy
<1>10. Begun(ask, copy, Tail(todo))
  BY <1>1, <1>3, <1>5, <1>6, <1>7, <1>8 DEF Begun
<1>11. QED
  BY <1>1, <1>4, <1>9, <1>10, TxGoes

LEMMA AllMovedKeeps ==
    ASSUME TablInv, NEW c \in Clients, Tabl!AllMoved(c)
    PROVE  TablInv'
<1> DEFINE ask == tx[c].call
           copy == tx[c].copy
<1>1. /\ ask[1] = "transferAllTasks" /\ ~Tabl!Idle(c) /\ ask \in Tabl!CallsOf(lesson)
      /\ Tabl!Writes(c) /\ TxSound(tx[c]) /\ tx[c].phase = "second"
  BY Kinds DEF Tabl!AllMoved
<1>2. tx[c].todo = <<>> /\ Tabl!Goes(c, "commit", copy, <<>>)
  BY DEF Tabl!AllMoved
<1>3. GoodTables(copy) /\ copy = Moved(tables, OwnedBy(tables, ask[2]) \ Made(tx[c].todo), ask[3])
  BY <1>1 DEF TxSound, Begun
<1>4. Made(tx[c].todo) = {}
  BY <1>2 DEF Made
<1>5. copy = Moved(tables, OwnedBy(tables, ask[2]), ask[3])
  BY <1>3, <1>4
<1>6. copy = Tabl!Effect(tables, ask)
  <2> DEFINE a == [t \in DOMAIN tables.tasks |->
                    IF t \in OwnedBy(tables, ask[2]) THEN [tables.tasks[t] EXCEPT !.owner = ask[3]]
                    ELSE tables.tasks[t]]
             b == [t \in DOMAIN tables.tasks |->
                    IF tables.tasks[t].owner = ask[2] /\ ask[2] \in DOMAIN tables.users
                    THEN [tables.tasks[t] EXCEPT !.owner = ask[3]] ELSE tables.tasks[t]]
  <2>1. a = b
    BY DEF OwnedBy
  <2>2. copy = [tables EXCEPT !.tasks = a]
    BY <1>5 DEF Moved
  <2>3. Tabl!Effect(tables, ask) = [tables EXCEPT !.tasks = b]
    BY <1>1 DEF Tabl!Effect
  <2>4. QED
    BY <2>1, <2>2, <2>3
<1>7. QED
  BY <1>1, <1>2, <1>3, <1>6, TxGoes

LEMMA VanishingKeeps ==
    ASSUME Tabl!TransactionsAssumption, TablInv, NEW c \in Clients, Tabl!AddVanishingTask(c)
    PROVE  TablInv'
<1> DEFINE ask == tx[c].call
           copy == Tabl!CreateTask(tables, ask[2], 1, {})
<1>1. ask[1] = "failingTx" /\ ~Tabl!Idle(c) /\ ask \in Tabl!CallsOf(lesson) /\ Tabl!Arg(c, 1) = ask[2]
  BY Kinds DEF Tabl!AddVanishingTask
<1>2. lesson = 61 /\ GoodTables(tables) /\ ask[2] \in Tabl!UserIds
  BY <1>1, CallKinds DEF TablInv
<1>3. tables.last < MaxTasks /\ Tabl!Goes(c, "second", copy, <<>>)
  BY <1>1 DEF Tabl!AddVanishingTask
<1>4. GoodTables(copy)
  BY <1>2, <1>3, TaskGood
<1>5. Begun(ask, copy, <<>>)
  BY <1>1, <1>3 DEF Begun
<1> HIDE DEF copy
<1>6. QED
  BY <1>1, <1>2, <1>3, <1>4, <1>5, TxGoes

LEMMA AddUserKeeps ==
    ASSUME TablInv, NEW c \in Clients, Tabl!AddUser(c)
    PROVE  TablInv'
<1> DEFINE ask == tx[c].call
           old == tx[c].copy
           copy == Tabl!CreateUser(old, ask[3])
<1>1. /\ ask[1] = "failingTx" /\ ~Tabl!Idle(c) /\ ask \in Tabl!CallsOf(lesson)
      /\ Tabl!Arg(c, 2) = ask[3] /\ Tabl!Writes(c)
      /\ TxSound(tx[c]) /\ tx[c].phase = "second"
  BY Kinds DEF Tabl!AddUser
<1>2. lesson = 61 /\ ask[3] \in Names
  BY <1>1, CallKinds DEF TablInv
<1>3. old = Tabl!CreateTask(tables, ask[2], 1, {}) /\ GoodTables(old)
  BY <1>1 DEF TxSound, Begun
<1>4. ~Tabl!EmailTaken(old, ask[3]) /\ Tabl!Goes(c, "commit", copy, <<>>)
  BY <1>1 DEF Tabl!AddUser
<1>5. GoodTables(copy)
  BY <1>2, <1>3, <1>4, UserGood
<1>6. copy = Tabl!Effect(tables, ask)
  BY <1>1, <1>3 DEF Tabl!Effect
<1> HIDE DEF copy
<1>7. QED
  BY <1>1, <1>4, <1>5, <1>6, TxGoes

LEMMA TablStep == Tabl!TransactionsAssumption /\ TablInv /\ [Tabl!Next]_(Tabl!vars) => TablInv'
<1> SUFFICES ASSUME Tabl!TransactionsAssumption, TablInv, [Tabl!Next]_(Tabl!vars)
             PROVE  TablInv'
  OBVIOUS
<1>1. ASSUME NEW c \in Clients, Tabl!Step(c)
      PROVE  TablInv'
  BY <1>1, DebitKeeps, CreditKeeps, AuthorsKeep, BooksKeep, ListKeepsTables, MoveKeeps,
     AllMovedKeeps, VanishingKeeps, AddUserKeeps, TxCommitKeeps, RollbackKeeps DEF Tabl!Step
<1>2. CASE UNCHANGED Tabl!vars
  <2>1. UNCHANGED <<lesson, tables, tx, promised>>
    BY <1>2 DEF Tabl!vars
  <2>2. GoodTables(tables)'
    BY <2>1, GoodStays DEF TablInv
  <2>3. \A c \in Clients : TxSound(tx[c])'
    BY <2>1, TxStays DEF TablInv
  <2>4. Alone'
    BY <2>1 DEF TablInv, Alone, Tabl!Writes, Tabl!Idle
  <2>5. tx' = [c \in Clients |-> tx'[c]] /\ lesson' \in {36, 38, 61} /\ promised' = tables'
    BY <2>1 DEF TablInv
  <2>6. QED
    BY <2>2, <2>3, <2>4, <2>5 DEF TablInv
<1>3. QED
  BY <1>1, <1>2, BeginKeeps, ExecuteKeeps DEF Tabl!Next

-----------------------------------------------------------------------------
(* The queries agree                                                         *)

LEMMA SameCount ==
    /\ \A S : Tabl!Cardinality(S) = Cardinality(S)
    /\ \A f : Tabl!SumFunction(f) = SumFunctionOnSet(f, DOMAIN f)
<1>1. \A S : Tabl!Cardinality(S) = Cardinality(S)
  BY Zenon DEF Tabl!Cardinality, Cardinality
<1>2. \A f : Tabl!SumFunction(f) = SumFunctionOnSet(f, DOMAIN f)
  BY DEF Tabl!SumFunction, Tabl!SumFunctionOnSet, Tabl!FoldFunctionOnSet, Tabl!MapThenFoldSet,
         SumFunctionOnSet, FoldFunctionOnSet, MapThenFoldSet
<1>3. QED
  BY <1>1, <1>2

\* A sum over what there is of two things.
LEMMA SumOfTwo ==
    ASSUME NEW f, NEW x, NEW y, x # y, NEW m \in Nat, NEW n \in Nat,
           DOMAIN f \subseteq {x, y},
           IF x \in DOMAIN f THEN f[x] = m ELSE m = 0,
           IF y \in DOMAIN f THEN f[y] = n ELSE n = 0
    PROVE  SumFunctionOnSet(f, DOMAIN f) = m + n
<1>1. SumFunctionOnSet(f, {}) = 0 /\ IsFiniteSet({})
  BY SumEmpty, FS_EmptySet
<1>2. IsFiniteSet({x}) /\ IsFiniteSet({x, y}) /\ IsFiniteSet({y})
  <2>1. IsFiniteSet({x}) /\ IsFiniteSet({y})
    BY FS_Singleton
  <2>2. IsFiniteSet({x} \cup {y}) /\ {x} \cup {y} = {x, y}
    BY <2>1, FS_Union
  <2>3. QED
    BY <2>1, <2>2
<1>3. CASE DOMAIN f = {}
  BY <1>1, <1>3
<1>4. CASE DOMAIN f = {x}
  <2>1. SumFunctionOnSet(f, {x}) = f[x] + SumFunctionOnSet(f, {x} \ {x})
    BY <1>2, <1>4, SumRemove
  <2>2. {x} \ {x} = {}
    OBVIOUS
  <2>3. QED
    BY <1>1, <1>4, <2>1, <2>2
<1>5. CASE DOMAIN f = {y}
  <2>1. SumFunctionOnSet(f, {y}) = f[y] + SumFunctionOnSet(f, {y} \ {y})
    BY <1>2, <1>5, SumRemove
  <2>2. {y} \ {y} = {}
    OBVIOUS
  <2>3. QED
    BY <1>1, <1>5, <2>1, <2>2
<1>6. CASE DOMAIN f = {x, y}
  <2>1. SumFunctionOnSet(f, {x, y}) = f[x] + SumFunctionOnSet(f, {x, y} \ {x})
    BY <1>2, <1>6, SumRemove
  <2>2. {x, y} \ {x} = {y} /\ {y} \ {y} = {}
    OBVIOUS
  <2>3. SumFunctionOnSet(f, {y}) = f[y] + SumFunctionOnSet(f, {y} \ {y})
    BY <1>2, <1>6, SumRemove
  <2>4. QED
    BY <1>1, <1>6, <2>1, <2>2, <2>3
<1>7. QED
  BY <1>3, <1>4, <1>5, <1>6

\* The tasks of a user, those of a status, and the lists of them.
LEMMA ListsOf ==
    ASSUME lesson = 61, GoodTables(tables), NEW u \in DOMAIN tables.users
    PROVE  LET own == {t \in DOMAIN tables.tasks : tables.tasks[t].owner = u}
               of(s) == {t \in own : tables.tasks[t].status = s} IN
           /\ IsFiniteSet(own) /\ Len(Tabl!ListTasksByUser(tables, u, {})) = Cardinality(own)
           /\ \A s : /\ Len(Tabl!ListTasksByUser(tables, u, {s})) = Cardinality(of(s))
                     /\ Made(Tabl!ListTasksByUser(tables, u, {s})) = of(s)
                     /\ Tabl!ListTasksByUser(tables, u, {s}) \in Seq(of(s))
                     /\ IsFiniteSet(of(s)) /\ Cardinality(of(s)) \in Nat
<1> DEFINE own == {t \in DOMAIN tables.tasks : tables.tasks[t].owner = u}
           of(s) == {t \in own : tables.tasks[t].status = s}
<1>1. Tabl!GetUser(tables, u) # {}
  BY DEF Tabl!GetUser
<1>2. Tabl!ListTasksByUser(tables, u, {}) = Tabl!Ordered(tables, own)
  <2>1. own = {t \in DOMAIN tables.tasks : /\ tables.tasks[t].owner = u /\ Tabl!GetUser(tables, u) # {}
                                           /\ {} = {} \/ tables.tasks[t].status \in {}}
    BY <1>1
  <2>2. QED
    BY <2>1 DEF Tabl!ListTasksByUser
<1>3. ASSUME NEW s
      PROVE  Tabl!ListTasksByUser(tables, u, {s}) = Tabl!Ordered(tables, of(s))
  <2>1. of(s) = {t \in DOMAIN tables.tasks : /\ tables.tasks[t].owner = u /\ Tabl!GetUser(tables, u) # {}
                                             /\ {s} = {} \/ tables.tasks[t].status \in {s}}
    BY <1>1
  <2>2. QED
    BY <2>1 DEF Tabl!ListTasksByUser
<1>4. own \subseteq DOMAIN tables.tasks /\ \A s : of(s) \subseteq DOMAIN tables.tasks
  OBVIOUS
<1> HIDE DEF own, of
<1>5. IsFiniteSet(own) /\ Len(Tabl!Ordered(tables, own)) = Cardinality(own)
  BY <1>4, OrderedList
<1>6. ASSUME NEW s
      PROVE  /\ Len(Tabl!Ordered(tables, of(s))) = Cardinality(of(s))
             /\ Made(Tabl!Ordered(tables, of(s))) = of(s)
             /\ Tabl!Ordered(tables, of(s)) \in Seq(of(s))
             /\ IsFiniteSet(of(s)) /\ Cardinality(of(s)) \in Nat
  BY <1>4, OrderedList
<1>7. /\ IsFiniteSet(own) /\ Len(Tabl!ListTasksByUser(tables, u, {})) = Cardinality(own)
      /\ \A s : /\ Len(Tabl!ListTasksByUser(tables, u, {s})) = Cardinality(of(s))
                /\ Made(Tabl!ListTasksByUser(tables, u, {s})) = of(s)
                /\ Tabl!ListTasksByUser(tables, u, {s}) \in Seq(of(s))
                /\ IsFiniteSet(of(s)) /\ Cardinality(of(s)) \in Nat
  BY <1>2, <1>3, <1>5, <1>6
<1>8. QED
  BY <1>7 DEF own, of

\* By status and in all.
LEMMA CountsAgree ==
    ASSUME lesson = 61, GoodTables(tables), NEW u \in DOMAIN tables.users
    PROVE  /\ Tabl!Summary(tables, u) = Len(Tabl!ListTasksByUser(tables, u, {}))
           /\ \A s \in DOMAIN Tabl!CountTasksByStatus(tables, u) :
                Tabl!CountTasksByStatus(tables, u)[s] = Len(Tabl!ListTasksByUser(tables, u, {s}))
<1> DEFINE own == {t \in DOMAIN tables.tasks : tables.tasks[t].owner = u}
           of(s) == {t \in own : tables.tasks[t].status = s}
           counts == Tabl!CountTasksByStatus(tables, u)
<1>1. /\ IsFiniteSet(own) /\ Len(Tabl!ListTasksByUser(tables, u, {})) = Cardinality(own)
      /\ \A s : /\ Len(Tabl!ListTasksByUser(tables, u, {s})) = Cardinality(of(s))
                /\ IsFiniteSet(of(s)) /\ Cardinality(of(s)) \in Nat
  BY ListsOf
<1>2. counts = [s \in {tables.tasks[t].status : t \in own} |-> Cardinality(of(s))]
  BY SameCount DEF Tabl!CountTasksByStatus
<1>3. \A t \in own : tables.tasks[t].status \in {"todo", "done"}
  BY DEF GoodTables, Tabl!TablesTypeOK, Tabl!Tasks, Tabl!Statuses
<1>4. /\ DOMAIN counts = {tables.tasks[t].status : t \in own}
      /\ \A s \in DOMAIN counts : counts[s] = Cardinality(of(s))
  BY <1>2
<1>5. Tabl!Summary(tables, u) = SumFunctionOnSet(counts, DOMAIN counts)
  BY SameCount DEF Tabl!Summary
<1>6. \A s : s \in DOMAIN counts <=> of(s) # {}
  BY <1>4
<1>7. DOMAIN counts \subseteq {"todo", "done"}
  BY <1>3, <1>4
<1>8. own = of("todo") \cup of("done") /\ of("todo") \cap of("done") = {}
  <2>1. "todo" # "done"
    OBVIOUS
  <2>2. QED
    BY <1>3, <2>1
<1> HIDE DEF own, of, counts
<1>9. Cardinality(own) = Cardinality(of("todo")) + Cardinality(of("done"))
  <2>1. Cardinality(own) = Cardinality(of("todo")) + Cardinality(of("done"))
                           - Cardinality(of("todo") \cap of("done"))
    BY <1>1, <1>8, FS_Union
  <2>2. Cardinality({}) = 0
    BY FS_EmptySet
  <2>3. Cardinality(of("todo") \cap of("done")) = 0
    BY <1>8, <2>2
  <2>4. Cardinality(of("todo")) \in Nat /\ Cardinality(of("done")) \in Nat
    BY <1>1
  <2>5. QED
    BY <2>1, <2>3, <2>4
<1>10. SumFunctionOnSet(counts, DOMAIN counts) = Cardinality(of("todo")) + Cardinality(of("done"))
  <2>1. \A s : IF s \in DOMAIN counts THEN counts[s] = Cardinality(of(s)) ELSE Cardinality(of(s)) = 0
    BY <1>4, <1>6, FS_EmptySet
  <2>2. "todo" # "done" /\ Cardinality(of("todo")) \in Nat /\ Cardinality(of("done")) \in Nat
    BY <1>1
  <2>3. /\ IF "todo" \in DOMAIN counts THEN counts["todo"] = Cardinality(of("todo"))
            ELSE Cardinality(of("todo")) = 0
        /\ IF "done" \in DOMAIN counts THEN counts["done"] = Cardinality(of("done"))
            ELSE Cardinality(of("done")) = 0
    BY <2>1
  <2> DEFINE m == Cardinality(of("todo"))
             k == Cardinality(of("done"))
  <2>4. m \in Nat /\ k \in Nat
    BY <2>2
  <2>5. IF "todo" \in DOMAIN counts THEN counts["todo"] = m ELSE m = 0
    BY <2>3
  <2>6. IF "done" \in DOMAIN counts THEN counts["done"] = k ELSE k = 0
    BY <2>3
  <2> HIDE DEF m, k
  <2>7. SumFunctionOnSet(counts, DOMAIN counts) = m + k
    BY <1>7, <2>2, <2>4, <2>5, <2>6, SumOfTwo
  <2>8. QED
    BY <2>7 DEF m, k
<1>11. Tabl!Summary(tables, u) = Len(Tabl!ListTasksByUser(tables, u, {}))
  BY <1>1, <1>5, <1>9, <1>10
<1>12. \A s \in DOMAIN counts : counts[s] = Len(Tabl!ListTasksByUser(tables, u, {s}))
  BY <1>1, <1>4
<1>13. QED
  BY <1>11, <1>12 DEF counts

\* What is overdue is not done, so it is in the list of what is to do.
LEMMA OverdueListed ==
    ASSUME lesson = 61, GoodTables(tables), NEW u \in DOMAIN tables.users
    PROVE  {t \in Tabl!OverdueTasks(tables, 2) : tables.tasks[t].owner = u}
             \subseteq Tabl!ToSet(Tabl!ListTasksByUser(tables, u, {"todo"}))
<1> DEFINE todo == {t \in {t \in DOMAIN tables.tasks : tables.tasks[t].owner = u} :
                        tables.tasks[t].status = "todo"}
           list == Tabl!ListTasksByUser(tables, u, {"todo"})
<1>1. Made(list) = todo /\ list \in Seq(todo)
  BY ListsOf
<1>2. ASSUME NEW t \in Tabl!OverdueTasks(tables, 2), tables.tasks[t].owner = u
      PROVE  t \in todo
  <2>1. t \in DOMAIN tables.tasks /\ tables.tasks[t].status # "done"
    BY DEF Tabl!OverdueTasks
  <2>2. tables.tasks[t].status \in {"todo", "done"}
    BY <2>1 DEF GoodTables, Tabl!TablesTypeOK, Tabl!Tasks, Tabl!Statuses
  <2>3. QED
    BY <1>2, <2>1, <2>2
<1> HIDE DEF todo, list
<1>3. Tabl!ToSet(list) = todo
  <2>1. DOMAIN list = 1 .. Len(list)
    BY <1>1
  <2>2. QED
    BY <1>1, <2>1 DEF Tabl!ToSet, Made
<1>4. {t \in Tabl!OverdueTasks(tables, 2) : tables.tasks[t].owner = u} \subseteq Tabl!ToSet(list)
  BY <1>2, <1>3
<1>5. QED
  BY <1>4 DEF list

\* The pages of the list of users, put together.
LEMMA PagesJoin ==
    ASSUME lesson = 61, GoodTables(tables)
    PROVE  Tabl!ListUsers(tables, 1, 0) \o Tabl!ListUsers(tables, 2, 1) = Tabl!ListUsers(tables, 3, 0)
<1> DEFINE n == Len(tables.users)
           ids == [v \in DOMAIN tables.users |-> v]
           r == Tabl!Reverse(ids)
<1>1. n \in Nat /\ DOMAIN tables.users = 1 .. n
  BY DEF GoodTables, Tabl!TablesTypeOK
<1>2. ids \in Seq(Nat) /\ Len(ids) = n
  BY <1>1
<1>3. r = [i \in 1 .. n |-> ids[(n - i) + 1]]
  BY <1>2 DEF Tabl!Reverse
<1>4. r \in Seq(Nat) /\ Len(r) = n
  <2>1. \A i \in 1 .. n : ids[(n - i) + 1] \in Nat
    BY <1>1
  <2> HIDE DEF ids
  <2>2. r \in [1 .. n -> Nat]
    BY <1>3, <2>1
  <2> HIDE DEF r
  <2>3. QED
    BY <1>1, <2>2
<1>5. \A k \in Nat : Tabl!Min({k, n}) = IF k <= n THEN k ELSE n
  <2> SUFFICES ASSUME NEW k \in Nat
               PROVE  Tabl!Min({k, n}) = IF k <= n THEN k ELSE n
    OBVIOUS
  <2> DEFINE m == IF k <= n THEN k ELSE n
  <2>1. m \in {k, n} /\ \A y \in {k, n} : m =< y
    BY <1>1
  <2>2. \A x \in {k, n} : (\A y \in {k, n} : x =< y) => x = m
    BY <1>1
  <2> HIDE DEF m
  <2>3. (CHOOSE x \in {k, n} : \A y \in {k, n} : x =< y) = m
    BY <2>1, <2>2
  <2>4. Tabl!Min({k, n}) = m
    BY <2>3 DEF Tabl!Min
  <2>5. QED
    BY <2>4 DEF m
<1>6. /\ Tabl!ListUsers(tables, 1, 0) = SubSeq(r, 1, Tabl!Min({1, n}))
      /\ Tabl!ListUsers(tables, 2, 1) = SubSeq(r, 2, Tabl!Min({3, n}))
      /\ Tabl!ListUsers(tables, 3, 0) = SubSeq(r, 1, Tabl!Min({3, n}))
  BY DEF Tabl!ListUsers
<1> HIDE DEF n, r, ids
<1>7. CASE n = 0
  <2>1. Tabl!Min({1, n}) = 0 /\ Tabl!Min({3, n}) = 0
    BY <1>5, <1>7
  <2>2. SubSeq(r, 1, 0) = << >> /\ SubSeq(r, 2, 0) = << >>
    BY <1>4, SubSeqEmpty
  <2>3. << >> \o << >> = << >>
    OBVIOUS
  <2>4. QED
    BY <1>6, <2>1, <2>2, <2>3
<1>8. CASE n # 0
  <2> DEFINE e == Tabl!Min({3, n})
  <2>1. Tabl!Min({1, n}) = 1 /\ e \in 1 .. n
    <3>1. Tabl!Min({1, n}) = (IF 1 <= n THEN 1 ELSE n) /\ Tabl!Min({3, n}) = (IF 3 <= n THEN 3 ELSE n)
      BY <1>5
    <3>2. n \in Nat /\ n >= 1
      BY <1>1, <1>8
    <3>3. QED
      BY <3>1, <3>2
  <2> HIDE DEF e
  <2>2. 1 \in 1 .. Len(r) + 1 /\ 1 \in (1 - 1) .. Len(r) /\ e \in 1 .. Len(r)
    BY <1>1, <1>4, <1>8, <2>1
  <2>3. SubSeq(r, 1, 1) \o SubSeq(r, 1 + 1, e) = SubSeq(r, 1, e)
    BY <1>4, <2>2, ConcatAdjacentSubSeq
  <2>4. SubSeq(r, 1, 1) \o SubSeq(r, 2, e) = SubSeq(r, 1, e)
    <3>1. 1 + 1 = 2
      OBVIOUS
    <3>2. QED
      BY <2>3, <3>1, Zenon
  <2>5. QED
    BY <1>6, <2>1, <2>4 DEF e
<1>9. QED
  BY <1>7, <1>8

LEMMA TablTells == TablInv => Tabl!NothingHalfDone /\ Tabl!ReadsAgree
<1> SUFFICES ASSUME TablInv
             PROVE  Tabl!NothingHalfDone /\ Tabl!ReadsAgree
  OBVIOUS
<1>1. Tabl!NothingHalfDone
  BY DEF TablInv, Tabl!NothingHalfDone
<1>2. ASSUME lesson = 61
      PROVE  Tabl!ReadsAgree
  <2>1. GoodTables(tables)
    BY DEF TablInv
  <2>2. ASSUME NEW u \in DOMAIN tables.users
        PROVE  Tabl!GetUserByEmail(tables, tables.users[u]) = Tabl!GetUser(tables, u)
    <3>1. DOMAIN tables.users = 1 .. Len(tables.users)
      BY <1>2, <2>1 DEF GoodTables, Tabl!TablesTypeOK
    <3>2. \A v \in DOMAIN tables.users : tables.users[v] = tables.users[u] => v = u
      BY <1>2, <2>1, <3>1 DEF GoodTables
    <3>3. QED
      BY <3>2 DEF Tabl!GetUserByEmail, Tabl!GetUser
  <2>3. Tabl!GetTasksByIDs(tables, Tabl!TaskIds) = UNION {Tabl!GetTask(tables, t) : t \in Tabl!TaskIds}
    BY DEF Tabl!GetTasksByIDs, Tabl!GetTask
  <2>4. QED
    BY <1>2, <2>1, <2>2, <2>3, CountsAgree, OverdueListed, PagesJoin DEF Tabl!ReadsAgree
<1>3. QED
  BY <1>1, <1>2 DEF Tabl!ReadsAgree

\* The types, of the copies too.
LEMMA TablTypes == TablInv => Tabl!TransactionsTypeOK
<1> SUFFICES ASSUME TablInv
             PROVE  Tabl!TransactionsTypeOK
  OBVIOUS
<1>1. Tabl!TablesTypeOK(tables)
  BY DEF TablInv, GoodTables
<1>2. ASSUME NEW c \in Clients, Tabl!Writes(c)
      PROVE  Tabl!TablesTypeOK(tx[c].copy)
  <2>1. TxSound(tx[c])
    BY DEF TablInv
  <2>2. tx[c].phase \in {"second", "commit"}
    BY <1>2, <2>1, Writing
  <2>3. QED
    BY <2>1, <2>2 DEF TxSound, GoodTables
<1>3. QED
  BY <1>1, <1>2 DEF Tabl!TransactionsTypeOK

\* Stores hold what was answered, each injected failure fails one request, of a
\* transaction everything is done or nothing, and the queries of lesson 61 agree
\* with each other (43 api.go, 36 main.go:276, 38 main.go:201, 61 query.sql).
THEOREM StoresAreHistory == ServersSpec => []StoreIsHistory
<1> DEFINE I == (program = "crud" => CrudInv) /\ (program = "tables" => TablInv)
<1>1. Crud!CrudAssumption /\ Tabl!TransactionsAssumption
  BY ServersAssumption
<1>2. ServersInit => I
  BY <1>1, ServersBegin, CrudInit, TablInit
<1>3. I /\ [ServersNext]_everything => I'
  BY <1>1, ServersMove, CrudStep, TablStep
<1>4. I => StoreIsHistory
  BY CrudTells, TablTells DEF StoreIsHistory
<1>5. QED
  BY <1>2, <1>3, <1>4, PTL DEF ServersSpec

-----------------------------------------------------------------------------
(* The types: of the shop first, from the invariant of ShopOrdersProofs      *)

\* The module of its proofs about the same variables.  Its definitions say what
\* those of Shop say, under names of their own.
ShopP == INSTANCE ShopOrdersProofs WITH
    Users <- {ann}, Products <- {pen, ink}, Prices <- {0}, Statuses <- {"pending"},
    Carts <- {<<pen, ink>>, <<ink, pen>>}, MaxStock <- 1, MaxOrders <- 1,
    row <- shelf, call <- order

\* What ShopOrdersProofs assumes of its constants holds of these.
LEMMA ShopSound == ShopP!ShopAssumption
  BY ServersAssumption DEF ServersAssumption, Shop!ShopAssumption, ShopP!ShopAssumption

LEMMA ShopBegins == Shop!Init => ShopP!Init
  BY DEF Shop!Init, ShopP!Init, Shop!Ledger!Init, ShopP!Ledger!Init, Shop!Idle, ShopP!Idle

LEMMA SameShop ==
    /\ Shop!Calls = ShopP!Calls /\ Shop!Ledger!Orders = ShopP!Ledger!Orders
    /\ Shop!Idle = ShopP!Idle
    /\ UNCHANGED Shop!tables <=> UNCHANGED ShopP!tables
    /\ UNCHANGED Shop!vars <=> UNCHANGED ShopP!vars
<1>1. Shop!Calls = ShopP!Calls
  BY DEF Shop!Calls, ShopP!Calls, Shop!Phases, ShopP!Phases
<1>2. Shop!Ledger!Orders = ShopP!Ledger!Orders
  BY DEF Shop!Ledger!Orders, ShopP!Ledger!Orders
<1>3. Shop!Idle = ShopP!Idle
  BY DEF Shop!Idle, ShopP!Idle
<1>4. UNCHANGED Shop!tables <=> UNCHANGED ShopP!tables
  BY DEF Shop!tables, ShopP!tables
<1>5. UNCHANGED Shop!vars <=> UNCHANGED ShopP!vars
  BY DEF Shop!vars, ShopP!vars, Shop!tables, ShopP!tables
<1>6. QED
  BY <1>1, <1>2, <1>3, <1>4, <1>5

\* The operators the actions are guarded by.
LEMMA SameGuards ==
    /\ \A x : Shop!Live(x) <=> ShopP!Live(x)
    /\ \A p, cart, n : Shop!UnitsOf(p, cart, n) = ShopP!UnitsOf(p, cart, n)
    /\ \A c : Shop!Taken(c) = ShopP!Taken(c) /\ Shop!Wanted(c) = ShopP!Wanted(c)
    /\ \A c, p : Shop!Holds(c, p) <=> ShopP!Holds(c, p)
    /\ \A p, c : Shop!Free(p, c) <=> ShopP!Free(p, c)
    /\ \A c, d : Shop!Waits(c, d) <=> ShopP!Waits(c, d)
    /\ \A p, c : Shop!StockSeen(p, c) = ShopP!StockSeen(p, c)
    /\ \A u : Shop!UserPinned(u) <=> ShopP!UserPinned(u)
    /\ \A p : Shop!Unlocked(p) <=> ShopP!Unlocked(p)
<1>1. \A x : Shop!Live(x) <=> ShopP!Live(x)
  BY DEF Shop!Live, ShopP!Live
<1>2. \A p, cart, n : Shop!UnitsOf(p, cart, n) = ShopP!UnitsOf(p, cart, n)
  BY Zenon DEF Shop!UnitsOf, ShopP!UnitsOf, Shop!Ledger!UnitsOf, ShopP!Ledger!UnitsOf,
     Shop!Ledger!Cardinality, ShopP!Ledger!Cardinality
<1>3. \A c : Shop!Taken(c) = ShopP!Taken(c)
  BY DEF Shop!Taken, ShopP!Taken
<1>4. \A c : Shop!Wanted(c) = ShopP!Wanted(c)
  BY <1>3 DEF Shop!Wanted, ShopP!Wanted
<1>5. \A c, p : Shop!Holds(c, p) <=> ShopP!Holds(c, p)
  BY Zenon DEF Shop!Holds, ShopP!Holds, Shop!Locked, ShopP!Locked
<1>6. \A p, c : Shop!Free(p, c) <=> ShopP!Free(p, c)
  BY <1>5, Zenon DEF Shop!Free, ShopP!Free
<1>7. \A c, d : Shop!Waits(c, d) <=> ShopP!Waits(c, d)
  BY <1>4, <1>5 DEF Shop!Waits, ShopP!Waits
<1>8. \A p, c : Shop!StockSeen(p, c) = ShopP!StockSeen(p, c)
  BY <1>2, <1>3 DEF Shop!StockSeen, ShopP!StockSeen
<1>9. \A u : Shop!UserPinned(u) <=> ShopP!UserPinned(u)
  BY Zenon DEF Shop!UserPinned, ShopP!UserPinned
<1>10. \A p : Shop!Unlocked(p) <=> ShopP!Unlocked(p)
  BY <1>5, Zenon DEF Shop!Unlocked, ShopP!Unlocked
<1>11. QED
  BY <1>1, <1>2, <1>3, <1>4, <1>5, <1>6, <1>7, <1>8, <1>9, <1>10, Zenon

\* A statement of a request.
LEMMA SameStatements ==
    ASSUME NEW c \in Clients
    PROVE  /\ \A u, cart : Shop!Request(c, u, cart) => ShopP!Request(c, u, cart)
           /\ Shop!SelectPrice(c) => ShopP!SelectPrice(c)
           /\ Shop!Statement(c) => ShopP!Statement(c)
           /\ Shop!StatementFails(c) => ShopP!StatementFails(c)
<1>1. Shop!Return(c) <=> ShopP!Return(c)
  BY SameShop DEF Shop!Return, ShopP!Return
<1>2. \A u, cart : Shop!Request(c, u, cart) => ShopP!Request(c, u, cart)
  BY SameShop, SameGuards, Zenon DEF Shop!Request, ShopP!Request
<1>3. Shop!SelectPrice(c) => ShopP!SelectPrice(c)
  BY <1>1, SameShop, SameGuards, Zenon DEF Shop!SelectPrice, ShopP!SelectPrice
<1>4. Shop!AdjustStock(c) => ShopP!AdjustStock(c)
  BY <1>1, SameShop, SameGuards, Zenon DEF Shop!AdjustStock, ShopP!AdjustStock
<1>5. Shop!InsertOrder(c) => ShopP!InsertOrder(c)
  BY <1>1, SameShop, SameGuards, Zenon DEF Shop!InsertOrder, ShopP!InsertOrder
<1>6. Shop!Commit(c) => ShopP!Commit(c)
  BY <1>1, SameGuards, Zenon DEF Shop!Commit, ShopP!Commit
<1>7. Shop!OutOfNumbers(c) => ShopP!OutOfNumbers(c)
  BY <1>1, SameShop DEF Shop!OutOfNumbers, ShopP!OutOfNumbers
<1>8. Shop!DeadlockAbort(c) => ShopP!DeadlockAbort(c)
  BY <1>1, SameShop, SameGuards, Zenon DEF Shop!DeadlockAbort, ShopP!DeadlockAbort
<1>9. Shop!StatementFails(c) => ShopP!StatementFails(c)
  BY <1>1, SameShop DEF Shop!StatementFails, ShopP!StatementFails
<1>10. QED
  BY <1>2, <1>3, <1>4, <1>5, <1>6, <1>7, <1>8, <1>9, Zenon DEF Shop!Statement, ShopP!Statement

LEMMA SameBackOffice == Shop!BackOffice => ShopP!BackOffice
<1>1. \A p, cost, units : Shop!CreateProduct(p, cost, units) => ShopP!CreateProduct(p, cost, units)
  BY Zenon DEF Shop!CreateProduct, ShopP!CreateProduct, Shop!Ledger!SetProduct, ShopP!Ledger!SetProduct
<1>2. \A p, cost, units : Shop!UpdateProduct(p, cost, units) => ShopP!UpdateProduct(p, cost, units)
  BY SameGuards, Zenon DEF Shop!UpdateProduct, ShopP!UpdateProduct
<1>3. \A p : Shop!DeleteProduct(p) => ShopP!DeleteProduct(p)
  BY SameGuards, Zenon DEF Shop!DeleteProduct, ShopP!DeleteProduct
<1>4. \A u : Shop!CreateUser(u) => ShopP!CreateUser(u)
  BY Zenon DEF Shop!CreateUser, ShopP!CreateUser, Shop!Ledger!AddUser, ShopP!Ledger!AddUser
<1>5. \A u : Shop!DeleteUser(u) => ShopP!DeleteUser(u)
  BY SameGuards, Zenon DEF Shop!DeleteUser, ShopP!DeleteUser
<1>6. \A id, s : Shop!UpdateStatus(id, s) => ShopP!UpdateStatus(id, s)
  BY Zenon DEF Shop!UpdateStatus, ShopP!UpdateStatus
<1>7. \A id : Shop!DeleteOrder(id) => ShopP!DeleteOrder(id)
  BY Zenon DEF Shop!DeleteOrder, ShopP!DeleteOrder
<1>8. QED
  BY <1>1, <1>2, <1>3, <1>4, <1>5, <1>6, <1>7, Zenon DEF Shop!BackOffice, ShopP!BackOffice

LEMMA ShopMoves == [Shop!Next]_(Shop!vars) => [ShopP!Next]_(ShopP!vars)
<1>1. Shop!Crash => ShopP!Crash
  BY SameShop, Zenon DEF Shop!Crash, ShopP!Crash
<1>2. Shop!Next => ShopP!Next
  BY <1>1, SameStatements, SameBackOffice, Zenon DEF Shop!Next, ShopP!Next
<1>3. QED
  BY <1>2, SameShop

LEMMA ShopTypes == ShopP!ShopInv => Shop!ShopTypeOK
  BY SameShop DEF ShopP!ShopInv, ShopP!ShopTypeOK, Shop!ShopTypeOK

\* At most one element, in the two sets of the gateway that stand for a value
\* that may be missing.
LEMMA GatewayTypes == EdgeInv => Edge!GatewayTypeOK
<1> SUFFICES ASSUME EdgeInv
             PROVE  Edge!GatewayTypeOK
  OBVIOUS
<1>1. \A S : Edge!Cardinality(S) = Cardinality(S)
  BY Zenon DEF Edge!Cardinality, Cardinality
<1>2. \A x : Edge!Cardinality({x}) = 1
  BY <1>1, FS_Singleton
<1>3. Edge!Cardinality({}) = 0
  BY <1>1, FS_EmptySet
<1>4. ASSUME NEW S, S = {} \/ \E x : S = {x}
      PROVE  Edge!Cardinality(S) <= 1
  <2>1. Edge!Cardinality(S) = 0 \/ Edge!Cardinality(S) = 1
    BY <1>2, <1>3, <1>4, Zenon
  <2>2. QED
    BY <2>1
<1>5. ASSUME NEW r \in Clicks
      PROVE  Edge!Cardinality(gone[r]) <= 1 /\ Edge!Cardinality(answer[r]) <= 1
  <2>1. gone[r] = {} \/ \E x : gone[r] = {x}
    BY ZenonT(40) DEF EdgeInv, EdgeTypes, Errors
  <2>2. answer[r] = {} \/ \E x : answer[r] = {x}
    BY DEF EdgeInv, EdgeTypes
  <2>3. QED
    BY <1>4, <2>1, <2>2
<1>6. QED
  BY <1>5 DEF EdgeInv, EdgeTypes, CallNow, Edge!GatewayTypeOK

LEMMA StoreTypes == CrudInv => Crud!CrudTypeOK
<1> SUFFICES ASSUME CrudInv
             PROVE  Crud!CrudTypeOK
  OBVIOUS
<1>1. CrudTyped /\ Crud!OneShot
  BY DEF CrudInv
<1>2. failed <= injected
  BY <1>1 DEF CrudTyped, Crud!OneShot
<1>3. {failNext, overlapped, misread} \subseteq BOOLEAN
  BY <1>1, Zenon DEF CrudTyped
<1>4. QED
  BY <1>1, <1>2, <1>3 DEF CrudTyped, Impls, Crud!CrudTypeOK

\* Whichever server runs, its variables have the types its module gives them.
THEOREM TypesHold == ServersSpec => []TypeOK
<1> DEFINE I == /\ program \in {"api", "migrations", "shutdown", "edge", "settings", "crud",
                                "shop", "chain", "tables"}
                /\ program = "api" => TaskInv
                /\ program = "migrations" => MigInv
                /\ program = "shutdown" => ShutInv
                /\ program = "edge" => EdgeInv
                /\ program = "settings" => ConfInv
                /\ program = "crud" => CrudInv
                /\ program = "shop" => ShopP!ShopInv
                /\ program = "chain" => ChainInv
                /\ program = "tables" => TablInv
<1>1. /\ Mig!MigrationsAssumption /\ Shut!ShutdownAssumption /\ Conf!SettingsAssumption
      /\ Crud!CrudAssumption /\ Tabl!TransactionsAssumption /\ ShopP!ShopAssumption
  BY ServersAssumption, ShopSound
<1>2. ServersInit => I
  <2>1. ServersInit => program \in {"api", "migrations", "shutdown", "edge", "settings", "crud",
                                    "shop", "chain", "tables"}
    BY DEF ServersInit
  <2>2. QED
    BY <1>1, <2>1, ServersBegin, TaskInit, MigInit, ShutInit, EdgeInit, ConfInit, CrudInit,
       ShopBegins, ShopP!ShopInit, ChainInit, TablInit
<1>3. I /\ [ServersNext]_everything => I'
  <2> SUFFICES ASSUME I, [ServersNext]_everything
               PROVE  I'
    OBVIOUS
  <2>1. program' = program
    BY ServersMove
  <2>2. program = "api" => TaskInv'
    BY ServersMove, TaskStep
  <2>3. program = "migrations" => MigInv'
    BY <1>1, ServersMove, MigStep
  <2>4. program = "shutdown" => ShutInv'
    BY <1>1, ServersMove, ShutStep
  <2>5. program = "edge" => EdgeInv'
    BY ServersMove, EdgeStep
  <2>6. program = "settings" => ConfInv'
    BY <1>1, ServersMove, ConfStep
  <2>7. program = "crud" => CrudInv'
    BY <1>1, ServersMove, CrudStep
  <2>8. program = "shop" => (ShopP!ShopInv)'
    BY <1>1, ServersMove, ShopMoves, ShopP!ShopStep
  <2>9. program = "chain" => ChainInv'
    BY ServersMove, ChainStep
  <2>10. program = "tables" => TablInv'
    BY <1>1, ServersMove, TablStep
  <2>11. QED
    BY <2>1, <2>2, <2>3, <2>4, <2>5, <2>6, <2>7, <2>8, <2>9, <2>10, Zenon
<1>4. I => TypeOK
  <2> SUFFICES ASSUME I
               PROVE  TypeOK
    OBVIOUS
  <2>1. program = "api" => TaskTypeOK
    BY DEF TaskInv
  <2>2. program = "migrations" => Mig!MigrationsTypeOK
    BY DEF MigInv
  <2>3. program = "shutdown" => Shut!ShutdownTypeOK
    BY DEF ShutInv
  <2>4. program = "edge" => Edge!GatewayTypeOK
    BY GatewayTypes
  <2>5. program = "settings" => Conf!SettingsTypeOK
    BY DEF ConfInv
  <2>6. program = "crud" => Crud!CrudTypeOK
    BY StoreTypes
  <2>7. program = "shop" => Shop!ShopTypeOK
    BY ShopTypes
  <2>8. program = "chain" => Chain!MiddlewareTypeOK
    BY DEF ChainInv
  <2>9. program = "tables" => Tabl!TransactionsTypeOK
    BY TablTypes
  <2>10. QED
    BY <2>1, <2>2, <2>3, <2>4, <2>5, <2>6, <2>7, <2>8, <2>9 DEF TypeOK
<1>5. QED
  BY <1>2, <1>3, <1>4, PTL DEF ServersSpec
=============================================================================
