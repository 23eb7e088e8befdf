------------------------------ MODULE TaskApi ------------------------------
(* The capstone API (lesson 47): requests pass RequestID, Logging, Timeout, *)
(* Recover and APIKeyAuth to a handler, and the handlers that change a task *)
(* use the SQLite store.  Timeout runs the rest on a goroutine of its own,  *)
(* so a request is two processes that share one ResponseWriter: the outer   *)
(* one may answer 504 and return while the handler goroutine works on.      *)
(*                                                                          *)
(* One task is enough for what is said here: tasks are rows of their own.   *)
EXTENDS Naturals

CONSTANTS
    Requests,   \* PATCH and DELETE requests for the task
    Fields      \* the fields a PATCH may set (one each)

VARIABLES
    row,        \* committed: the task, by who wrote each field last
    last,       \* history: the last committed PATCH of each field
    handler,    \* the handler goroutine
    outer,      \* the goroutine that serves the connection
    expired,    \* the request's context is past its deadline
    status      \* the first status written, which is the one that is sent

vars == <<row, last, handler, outer, expired, status>>

\* version counts the committed changes, which is what SQLite compares.
Rows == [live : BOOLEAN, version : Nat, by : [Fields -> Requests \cup {"created"}]]
Created == [live |-> TRUE, version |-> 0, by |-> [f \in Fields |-> "created"]]

\* pc "write" and "commit" are inside the transaction of SQLRepo.Update, which
\* read the task as seen; a request sets one field, or deletes the task.
Handlers == [pc : {"idle", "begin", "write", "commit", "done"},
             patch : Fields \cup {"delete"}, seen : Rows]

Statuses == {"none", "ok", "not found", "failed", "unauthorized", "timed out", "empty"}

Init ==
    /\ row = Created /\ last = Created.by
    /\ handler = [r \in Requests |-> [pc |-> "idle", patch |-> "delete", seen |-> Created]]
    /\ outer = [r \in Requests |-> "new"]
    /\ expired = [r \in Requests |-> FALSE]
    /\ status = [r \in Requests |-> "none"]

db == <<row, last>>

-----------------------------------------------------------------------------
(* The middleware *)

\* net/http accepts the request: Timeout starts the handler goroutine.
Accept(r) ==
    /\ outer[r] = "new"
    /\ outer' = [outer EXCEPT ![r] = "waiting"]
    /\ \E p \in Fields \cup {"delete"} :
        handler' = [handler EXCEPT ![r].pc = "begin", ![r].patch = p]
    /\ UNCHANGED <<db, expired, status>>

\* WriteHeader on w: the first one counts, and none after ServeHTTP returned.
Wrote(r, code) ==
    IF status[r] = "none" /\ outer[r] = "waiting" THEN [status EXCEPT ![r] = code] ELSE status

\* The handler goroutine writes its answer and closes done.
Reply(r, code) ==
    /\ status' = Wrote(r, code)
    /\ handler' = [handler EXCEPT ![r].pc = "done", ![r].seen = Created]
    /\ UNCHANGED <<outer, expired>>

\* writeStoreError finds the request's context ended and writes nothing.
KeepSilent(r) ==
    /\ expired[r]
    /\ handler' = [handler EXCEPT ![r].pc = "done", ![r].seen = Created]
    /\ UNCHANGED <<outer, expired, status>>

\* A statement, or a panic that Recover turns into a 500, ends the handler.
Fails(r) ==
    /\ handler[r].pc \in {"begin", "write", "commit"}
    /\ Reply(r, "failed") \/ KeepSilent(r)
    /\ UNCHANGED db

\* APIKeyAuth answers 401 without calling next.
Unauthorized(r) ==
    /\ handler[r].pc = "begin"
    /\ Reply(r, "unauthorized")
    /\ UNCHANGED db

Expire(r) ==
    /\ outer[r] = "waiting" /\ ~expired[r]
    /\ expired' = [expired EXCEPT ![r] = TRUE]
    /\ UNCHANGED <<db, handler, outer, status>>

\* select: done is closed.  A handler that wrote nothing leaves an empty 200.
HandlerDone(r) ==
    /\ outer[r] = "waiting" /\ handler[r].pc = "done"
    /\ status' = Wrote(r, "empty")
    /\ outer' = [outer EXCEPT ![r] = "returned"]
    /\ UNCHANGED <<db, handler, expired>>

\* select: ctx.Done is closed, whether or not done is closed as well.
TimedOut(r) ==
    /\ outer[r] = "waiting" /\ expired[r]
    /\ status' = Wrote(r, "timed out")
    /\ outer' = [outer EXCEPT ![r] = "returned"]
    /\ UNCHANGED <<db, handler, expired>>

-----------------------------------------------------------------------------
(* The store: SQLite in WAL mode, one writer at a time, snapshots for reads *)

WriteLocked == \E r \in Requests : handler[r].pc = "commit"

\* SQLRepo.Update begins a transaction and reads the row.
Read(r) ==
    /\ handler[r].pc = "begin" /\ handler[r].patch \in Fields
    /\ IF ~row.live
       THEN Reply(r, "not found")
       ELSE /\ handler' = [handler EXCEPT ![r].pc = "write", ![r].seen = row]
            /\ UNCHANGED <<outer, expired, status>>
    /\ UNCHANGED db

\* Mutant: the store does not notice that the row was changed after the read.
WriteBlindly(r) ==
    /\ handler[r].pc = "write" /\ ~WriteLocked
    /\ handler' = [handler EXCEPT ![r].pc = "commit"]
    /\ UNCHANGED <<outer, expired, status, db>>

\* The UPDATE turns the read transaction into a writing one; SQLite refuses
\* when the snapshot is no longer the newest.
Write(r) ==
    /\ handler[r].pc = "write" /\ ~WriteLocked
    /\ IF handler[r].seen.version # row.version
       THEN Reply(r, "failed")
       ELSE /\ handler' = [handler EXCEPT ![r].pc = "commit"]
            /\ UNCHANGED <<outer, expired, status>>
    /\ UNCHANGED db

\* Every field is written: the patched one, and the others as they were read.
Commit(r) ==
    LET f == handler[r].patch IN
    /\ handler[r].pc = "commit"
    /\ row' = [row EXCEPT !.version = @ + 1, !.by = [handler[r].seen.by EXCEPT ![f] = r]]
    /\ last' = [last EXCEPT ![f] = r]
    /\ Reply(r, "ok")

\* DELETE is one statement.
Delete(r) ==
    /\ handler[r].pc = "begin" /\ handler[r].patch = "delete" /\ ~WriteLocked
    /\ IF row.live
       THEN row' = [row EXCEPT !.live = FALSE, !.version = @ + 1] /\ Reply(r, "ok")
       ELSE UNCHANGED row /\ Reply(r, "not found")
    /\ UNCHANGED last

Handle(r) == Unauthorized(r) \/ Fails(r) \/ Read(r) \/ Write(r) \/ Commit(r) \/ Delete(r)

Next == \E r \in Requests :
    Accept(r) \/ Handle(r) \/ Expire(r) \/ HandlerDone(r) \/ TimedOut(r)

\* The timer fires and the waiting goroutine goes on; a handler owes nothing
\* (its query may be stuck), which is what Timeout is there for.
Fairness == \A r \in Requests : WF_vars(Expire(r)) /\ WF_vars(HandlerDone(r) \/ TimedOut(r))

Spec == Init /\ [][Next]_vars /\ Fairness

-----------------------------------------------------------------------------
(* Properties *)

TaskTypeOK ==
    /\ row \in Rows /\ last \in [Fields -> Requests \cup {"created"}]
    /\ handler \in [Requests -> Handlers]
    /\ outer \in [Requests -> {"new", "waiting", "returned"}]
    /\ expired \in [Requests -> BOOLEAN]
    /\ status \in [Requests -> Statuses]

(***************************************************************************)
(* Concurrent PATCHes of one task lose nothing (store.go:315): a field has *)
(* the value of the last PATCH of it that was committed, although each     *)
(* PATCH writes every field of the row it read.                            *)
(***************************************************************************)
NoLostPatch == row.live => row.by = last

(* Every request that is accepted is answered, even if its query hangs.    *)
EveryRequestReturns == \A r \in Requests : outer[r] = "waiting" ~> outer[r] = "returned"
=============================================================================
