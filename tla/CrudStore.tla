----------------------------- MODULE CrudStore -----------------------------
(* Small CRUD servers: lesson 43 keeps tasks in a map behind a mutex         *)
(* ("locked"), lesson 37 and tiny-crud keep rows in SQLite ("sql", "tiny"),  *)
(* lesson 37's fake is a map for one goroutine ("fake"), and bookmarks-api   *)
(* keeps a slice that its handlers share unguarded ("bare").  A record is    *)
(* its id and one field that updates set.                                    *)
EXTENDS Naturals, Sequences, FiniteSets, SequencesExt

CONSTANTS
    Clients,    \* requests that can be under way at a time
    MaxIds,     \* bound: records ever made
    MaxFaults   \* bound: failures a test injects

\* What the constants have to be.
CrudAssumption == MaxIds \in Nat \ {0} /\ MaxFaults \in Nat

VARIABLES
    impl,
    items,      \* the records in the store
    nextID,
    failNext,   \* lesson 43: the injected failure is waiting
    request,
    created, deleted,   \* history: the ids of 201 and of 204 answers, in order
    marked,             \* history: the ids whose last 200 to an update said done
    misread,            \* history: a read was answered with something else
    failed, injected,   \* history: 500 answers, and failures injected
    overlapped          \* history: two unguarded requests were under way at once

history == <<created, deleted, marked, misread, overlapped>>
vars == <<impl, items, nextID, failNext, request, history, failed, injected>>

Ids == 1..MaxIds
Records == [id : Ids, done : BOOLEAN]
Idle == [op |-> "none", id |-> 0, done |-> FALSE, list |-> <<>>]

\* What clients ask for.  Lesson 43 updates nothing.
Asks ==
    [op : {"create", "list"}, id : {0}, done : {FALSE}]
    \cup [op : {"get", "delete"}, id : Ids, done : {FALSE}]
    \cup (IF impl = "locked" THEN {} ELSE [op : {"update"}, id : Ids, done : BOOLEAN])

Init ==
    /\ impl \in {"locked", "sql", "tiny", "fake", "bare"}
    /\ items = <<>> /\ nextID = 1 /\ failNext = FALSE
    /\ request = [c \in Clients |-> Idle]
    /\ created = <<>> /\ deleted = <<>> /\ marked = {} /\ misread = FALSE
    /\ failed = 0 /\ injected = 0 /\ overlapped = FALSE

-----------------------------------------------------------------------------
(* Requests *)

\* A test sets FailNext for the next call, whoever makes it.
Inject ==
    /\ impl = "locked" /\ ~failNext /\ injected < MaxFaults
    /\ failNext' = TRUE /\ injected' = injected + 1
    /\ UNCHANGED <<impl, items, nextID, request, history, failed>>

\* The handlers of bookmarks-api read nextID or the slice to begin with.
Starts(c, ask) ==
    request' = [request EXCEPT ![c] =
        [op |-> ask.op, done |-> ask.done,
         id |-> IF impl = "bare" /\ ask.op = "create" THEN nextID ELSE ask.id,
         list |-> IF impl = "bare" THEN items ELSE <<>>]]

\* Mutant: the failure is not taken back.
TakeFailureAgain(c, ask) ==
    /\ impl = "locked" /\ request[c] = Idle /\ UNCHANGED failNext
    /\ IF failNext
       THEN failed' = failed + 1 /\ UNCHANGED request
       ELSE Starts(c, ask) /\ UNCHANGED failed
    /\ UNCHANGED <<impl, items, nextID, history, injected>>

\* Every method of MemStore takes the failure first, under the lock, and
\* takes the lock again for its work.
TakeFailure(c, ask) ==
    /\ impl = "locked" /\ request[c] = Idle /\ failNext' = FALSE
    /\ IF failNext
       THEN failed' = failed + 1 /\ UNCHANGED request
       ELSE Starts(c, ask) /\ UNCHANGED failed
    /\ UNCHANGED <<impl, items, nextID, history, injected>>

\* An empty title is refused, but after the failure was taken.
CreateInvalid ==
    /\ impl = "locked" /\ failNext
    /\ failNext' = FALSE /\ failed' = failed + 1
    /\ UNCHANGED <<impl, items, nextID, request, history, injected>>

\* SQL handlers go straight to their one statement; the fake has one caller.
\* Bound: nobody calls an unguarded store any more once calls have overlapped.
Arrive(c, ask) ==
    LET others == \E d \in Clients : request[d] # Idle IN
    /\ impl # "locked" /\ request[c] = Idle /\ ~overlapped
    /\ impl = "fake" => ~others
    /\ Starts(c, ask)
    /\ overlapped' = (overlapped \/ (impl = "bare" /\ others))
    /\ UNCHANGED <<impl, items, nextID, failNext, created, deleted, marked, misread, failed, injected>>

-----------------------------------------------------------------------------
(* Answers *)

Asked(c, op) == request[c].op = op
Answered(c) ==
    /\ request' = [request EXCEPT ![c] = Idle]
    /\ UNCHANGED <<impl, failNext, overlapped, failed, injected>>

\* What a handler works on: what is there, or, unguarded, what it has read.
Seen(c) == IF impl = "bare" THEN request[c].list ELSE items
NewId(c) == IF impl = "bare" THEN request[c].id ELSE nextID

\* The first index of a record, as a set: empty stands for -1 and 404.
Find(list, id) == {i \in DOMAIN list : list[i].id = id /\ \A j \in 1..(i - 1) : list[j].id # id}
Found(c) == Find(Seen(c), request[c].id)

Create(c) ==
    /\ Asked(c, "create") /\ NewId(c) <= MaxIds
    /\ items' = Append(Seen(c), [id |-> NewId(c), done |-> FALSE]) /\ nextID' = NewId(c) + 1
    /\ created' = Append(created, NewId(c))
    /\ Answered(c) /\ UNCHANGED <<deleted, marked, misread>>

\* What the answers given so far say that is in the store.
Promised == {[id |-> i, done |-> i \in marked] : i \in ToSet(created) \ ToSet(deleted)}

\* The record at the index found, from the slice as it is now.  An index past
\* its end is a panic, which gin answers with 500.
Get(c) ==
    /\ Asked(c, "get")
    /\ misread' = (misread \/
        IF Found(c) = {} THEN \E r \in Promised : r.id = request[c].id
        ELSE \A i \in Found(c) : i \in DOMAIN items =>
                ~(items[i].id = request[c].id /\ items[i] \in Promised))
    /\ Answered(c) /\ UNCHANGED <<items, nextID, created, deleted, marked>>

\* Lesson 37 can ask for what is done, or is not.  tiny-crud does not look at
\* rows.Err: what it had read when the rows broke off is answered as the list.
List(c) ==
    /\ Asked(c, "list")
    /\ \E filter \in IF impl \in {"sql", "fake"} THEN {{TRUE}, {FALSE}, BOOLEAN} ELSE {BOOLEAN},
          n \in IF impl = "tiny" THEN 0..Len(items) ELSE {Len(items)} :
        LET answer == {r \in ToSet(SubSeq(items, 1, n)) : r.done \in filter}
            promised == {r \in Promised : r.done \in filter}
        IN  misread' = (misread \/ ~(answer \subseteq promised)
                                \/ (impl # "tiny" /\ answer # promised))
    /\ Answered(c) /\ UNCHANGED <<items, nextID, created, deleted, marked>>

\* The update goes to the index that was found, wherever that is by now.
Update(c) ==
    /\ Asked(c, "update")
    /\ LET id == request[c].id
           new == [id |-> id, done |-> request[c].done]
           at == Found(c) \cap DOMAIN items
       IN  /\ items' = [i \in DOMAIN items |-> IF i \in at THEN new ELSE items[i]]
           /\ marked' = IF at = {} THEN marked ELSE IF new.done THEN marked \cup {id} ELSE marked \ {id}
    /\ Answered(c) /\ UNCHANGED <<nextID, created, deleted, misread>>

\* Mutant: a delete that finds nothing is answered 204 as well.
DeleteBlindly(c) ==
    /\ Asked(c, "delete")
    /\ \/ Found(c) = {} /\ UNCHANGED items
       \/ \E i \in Found(c) : items' = RemoveAt(Seen(c), i)
    /\ deleted' = Append(deleted, request[c].id)
    /\ Answered(c) /\ UNCHANGED <<nextID, created, marked, misread>>

\* A 204 when it found the record and a 404 when not.
Delete(c) ==
    /\ Asked(c, "delete")
    /\ \/ Found(c) = {} /\ UNCHANGED <<items, deleted>>
       \/ /\ \E i \in Found(c) : items' = RemoveAt(Seen(c), i)
          /\ deleted' = Append(deleted, request[c].id)
    /\ Answered(c) /\ UNCHANGED <<nextID, created, marked, misread>>

\* The driver reports an error, such as a locked database: a 500, nothing done.
StatementFails(c) ==
    /\ impl \in {"sql", "tiny"} /\ request[c] # Idle
    /\ Answered(c) /\ UNCHANGED <<items, nextID, created, deleted, marked, misread>>

Next ==
    \/ Inject \/ CreateInvalid
    \/ \E c \in Clients :
        \/ Create(c) \/ Get(c) \/ List(c) \/ Update(c) \/ Delete(c) \/ StatementFails(c)
        \/ \E ask \in Asks : TakeFailure(c, ask) \/ Arrive(c, ask)

Spec == Init /\ [][Next]_vars

-----------------------------------------------------------------------------
(* Properties *)

CrudTypeOK ==
    /\ impl \in {"locked", "sql", "tiny", "fake", "bare"} /\ nextID \in 1..(MaxIds + 1)
    /\ items \in Seq(Records) /\ marked \subseteq Ids
    /\ {failNext, overlapped, misread} \subseteq BOOLEAN
    /\ failed <= injected

(***************************************************************************)
(* The store holds what was answered, and reads say so: what was created   *)
(* and not deleted, as it was last updated, every id given out once and    *)
(* deleted once, however the requests overlap.  bookmarks-api promises it  *)
(* only while they do not (main.go:22), and tiny-crud's list may be short. *)
(***************************************************************************)
StoreIsHistory ==
    impl # "bare" \/ ~overlapped =>
        /\ Cardinality({r.id : r \in ToSet(items)}) = Len(items)
        /\ IsInjective(created) /\ IsInjective(deleted)
        /\ ToSet(items) = Promised /\ ~misread

(* An injected failure fails one request, not two and not none that is made *)
(* after it (api.go:130, "one-shot").                                       *)
OneShot == failed = injected - (IF failNext THEN 1 ELSE 0)
=============================================================================
