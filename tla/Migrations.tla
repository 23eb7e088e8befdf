----------------------------- MODULE Migrations -----------------------------
(* The migration runner of go-crud, lesson 37 and the capstone, as the start *)
(* of every instance of a service runs it: read the versions already         *)
(* recorded, then apply the files that are missing, in order, each in a      *)
(* transaction with its row of schema_migrations.  Instances start together, *)
(* crash anywhere and are started again; nothing locks the table for them.   *)
EXTENDS Naturals

CONSTANTS
    Instances,      \* processes that start on the same database
    Files,          \* number of migration files, in the order of their names
    MaxFaults       \* bound: crashes and failed statements

\* What the constants have to be.
MigrationsAssumption ==
    Files \in Nat /\ MaxFaults \in Nat

VARIABLES
    ifNotExists,\* the files say CREATE ... IF NOT EXISTS (go-crud), or not
    schema,     \* committed: the files whose statements the schema has
    recorded,   \* committed: the versions in schema_migrations
    proc,       \* the processes
    faults

vars == <<ifNotExists, schema, recorded, proc, faults>>

Versions == 1..Files

\* A process: down, or somewhere in Migrate, or serving.  at is the file the
\* loop is at; in "record" and "commit" that file's transaction is open.
Procs == [pc : {"down", "read", "loop", "record", "commit", "serving"},
          done : SUBSET Versions, at : 1..Files + 1]

Stopped == [pc |-> "down", done |-> {}, at |-> 1]

InTx(i) == proc[i].pc \in {"record", "commit"}

Init ==
    /\ ifNotExists \in BOOLEAN
    /\ schema = {} /\ recorded = {}
    /\ proc = [i \in Instances |-> Stopped]
    /\ faults = 0

Go(i, p) == proc' = [proc EXCEPT ![i] = p] /\ UNCHANGED <<ifNotExists, faults>>

\* Every error leaves Migrate, and main with it (log.Fatalf): the deferred or
\* explicit Rollback undoes what the open transaction did.
Exit(i) == Go(i, Stopped)

\* The process starts, connects, and creates the bookkeeping table if needed.
Start(i) ==
    /\ proc[i].pc = "down"
    /\ Go(i, [Stopped EXCEPT !.pc = "read"])
    /\ UNCHANGED <<schema, recorded>>

\* The list of applied versions is read once; it may be stale when it is used.
ReadDone(i) ==
    /\ proc[i].pc = "read"
    /\ Go(i, [pc |-> "loop", done |-> recorded, at |-> 1])
    /\ UNCHANGED <<schema, recorded>>

Skip(i) ==
    /\ proc[i].pc = "loop" /\ proc[i].at \in proc[i].done
    /\ Go(i, [proc[i] EXCEPT !.at = @ + 1])
    /\ UNCHANGED <<schema, recorded>>

\* Mutant: the statements run outside the transaction.
ApplyOutsideTx(i) ==
    /\ proc[i].pc = "loop" /\ proc[i].at \in Versions \ proc[i].done
    /\ \A j \in Instances \ {i} : ~(InTx(j) /\ proc[j].at = proc[i].at)
    /\ IF proc[i].at \in schema /\ ~ifNotExists
       THEN Exit(i) /\ UNCHANGED schema
       ELSE Go(i, [proc[i] EXCEPT !.pc = "record"]) /\ schema' = schema \cup {proc[i].at}
    /\ UNCHANGED recorded

\* BEGIN and the file's statements.  They wait for a transaction that is at
\* the same file (its rows and tables are locked) and fail on what exists.
Apply(i) ==
    /\ proc[i].pc = "loop" /\ proc[i].at \in Versions \ proc[i].done
    /\ \A j \in Instances \ {i} : ~(InTx(j) /\ proc[j].at = proc[i].at)
    /\ IF proc[i].at \in schema /\ ~ifNotExists
       THEN Exit(i)
       ELSE Go(i, [proc[i] EXCEPT !.pc = "record"])
    /\ UNCHANGED <<schema, recorded>>

\* INSERT INTO schema_migrations: version is its primary key.
Record(i) ==
    /\ proc[i].pc = "record"
    /\ IF proc[i].at \in recorded
       THEN Exit(i)
       ELSE Go(i, [proc[i] EXCEPT !.pc = "commit"])
    /\ UNCHANGED <<schema, recorded>>

\* The file and its row become permanent together.
Commit(i) ==
    /\ proc[i].pc = "commit"
    /\ schema' = schema \cup {proc[i].at}
    /\ recorded' = recorded \cup {proc[i].at}
    /\ Go(i, [pc |-> "loop", done |-> proc[i].done, at |-> proc[i].at + 1])

\* The loop is over: main goes on to serve requests.
Serve(i) ==
    /\ proc[i].pc = "loop" /\ proc[i].at > Files
    /\ Go(i, [proc[i] EXCEPT !.pc = "serving"])
    /\ UNCHANGED <<schema, recorded>>

\* The process dies, or a statement fails and ends it.
Crash(i) ==
    /\ proc[i].pc # "down" /\ faults < MaxFaults
    /\ proc' = [proc EXCEPT ![i] = Stopped]
    /\ faults' = faults + 1
    /\ UNCHANGED <<ifNotExists, schema, recorded>>

Step(i) == Start(i) \/ ReadDone(i) \/ Skip(i) \/ Apply(i) \/ Record(i) \/ Commit(i) \/ Serve(i)

Next == \E i \in Instances : Step(i) \/ Crash(i)

\* A process that is up goes on, and whoever runs it starts it again.
Spec == Init /\ [][Next]_vars /\ \A i \in Instances : WF_vars(Step(i))

-----------------------------------------------------------------------------
(* Properties *)

MigrationsTypeOK ==
    /\ ifNotExists \in BOOLEAN
    /\ schema \subseteq Versions /\ recorded \subseteq Versions
    /\ proc \in [Instances -> Procs]
    /\ faults \in 0..MaxFaults

(***************************************************************************)
(* A crash between the file and its row leaves neither: what the schema    *)
(* has is what schema_migrations says (postgres.go:149, "No in-between     *)
(* broken state is ever possible"), and no file ran before an earlier one. *)
(***************************************************************************)
RecordedIsApplied ==
    /\ schema = recorded
    /\ \A v \in recorded : 1..v \subseteq recorded

(***************************************************************************)
(* An instance that serves has every table, whatever the others did        *)
(* (cmd/server/main.go:41: "your Postgres database is GUARANTEED to have   *)
(* users/products/orders/order_items tables").                             *)
(***************************************************************************)
ServesMigrated == \A i \in Instances : proc[i].pc = "serving" => recorded = Versions

(***************************************************************************)
(* Restarts converge: although instances that start together make one      *)
(* another fail, once the crashes end all of them come to serve.           *)
(***************************************************************************)
AllComeToServe == <>[](\A i \in Instances : proc[i].pc = "serving")
=============================================================================
