---------------------------- MODULE Transactions ----------------------------
(* The transactions of three programs on one SQLite database: lesson 36       *)
(* moves pages between books, lesson 38 lets GORM create authors with their   *)
(* books, and lesson 61 runs the queries sqlc generated.  A writer works on a *)
(* copy that becomes the database when it commits.  A second writer is told   *)
(* that the database is locked, and in lesson 61, whose pool is one           *)
(* connection, everybody waits.  Foreign keys are not enforced.               *)
EXTENDS Integers, Sequences, FiniteSets, SequencesExt, FiniteSetsExt

CONSTANTS
    Clients,
    Names,      \* e-mail addresses, and names of authors
    MaxTasks,   \* bound: tasks ever made
    MaxPages    \* bound: pages a book gets

\* What the constants have to be.
TransactionsAssumption == MaxTasks \in Nat \ {0} /\ MaxPages \in Nat \ {0}

VARIABLES
    lesson,
    tables,     \* what is committed
    tx,         \* for each client the transaction it is in
    promised    \* history: the tables that the answers given so far add up to

vars == <<lesson, tables, tx, promised>>

UserIds == 1..Cardinality(Names)
TaskIds == 1..MaxTasks
BookIds == 1..3
Statuses == {"todo", "done"}
Tasks == [owner : UserIds, status : Statuses, priority : {1, 2}, due : {{}, {1}}]

Nobody == [users |-> <<>>, tasks |-> <<>>, last |-> 0]
NoTx == [phase |-> "none", call |-> <<>>, todo |-> <<>>, copy |-> <<>>]

Init ==
    /\ lesson \in {36, 38, 61}
    /\ tables = CASE lesson = 36 -> [b \in {1, 2} |-> 1]
                  [] lesson = 38 -> [n \in {} |-> 0]
                  [] lesson = 61 -> Nobody
    /\ tx = [c \in Clients |-> NoTx]
    /\ promised = tables

Without(f, x) == [y \in DOMAIN f \ {x} |-> f[y]]
With(f, x, y) == [z \in DOMAIN f \cup {x} |-> IF z = x THEN y ELSE f[z]]

-----------------------------------------------------------------------------
(* The statements: what they make of a database.  An update of a row that is *)
(* not there changes nothing, and says so in a count of affected rows.        *)

\* Lesson 36: books are ids with their pages, which may go below zero.
AddPages(d, id, n) == [b \in DOMAIN d |-> IF b = id THEN d[b] + n ELSE d[b]]

\* Lesson 38: an author is a name with the pages of their book; the name is
\* unique, and the pages are not negative.
InsertAuthors(d, names) == [n \in DOMAIN d \cup names |-> IF n \in names THEN 0 ELSE d[n]]
InsertBooks(d, names, pages) == [n \in DOMAIN d |-> IF n \in names THEN pages ELSE d[n]]

\* Lesson 61: ids are counted up and not used again.
CreateUser(d, email) == [d EXCEPT !.users = Append(@, email)]
EmailTaken(d, email) == Contains(d.users, email)
CreateTask(d, owner, priority, due) ==
    [d EXCEPT !.last = @ + 1,
              !.tasks = With(@, d.last + 1, [owner |-> owner, status |-> "todo",
                                             priority |-> priority, due |-> due])]
CompleteTask(d, id) ==
    [d EXCEPT !.tasks = [t \in DOMAIN @ |-> IF t = id THEN [@[t] EXCEPT !.status = "done"] ELSE @[t]]]
DeleteTasksByStatus(d, owner, status) ==
    [d EXCEPT !.tasks = [t \in {u \in DOMAIN @ : @[u].owner # owner \/ @[u].status # status} |-> @[t]]]
SetOwner(d, id, to) == [d EXCEPT !.tasks[id].owner = to]

\* What the queries return, ids standing for rows; no row is {} or <<>>.
GetUser(d, id) == {id} \cap DOMAIN d.users
GetUserByEmail(d, email) == {u \in DOMAIN d.users : d.users[u] = email}
ListUsers(d, limit, offset) ==
    SubSeq(Reverse([u \in DOMAIN d.users |-> u]), offset + 1, Min({offset + limit, Len(d.users)}))
GetTask(d, id) == {id} \cap DOMAIN d.tasks
GetTasksByIDs(d, ids) == ids \cap DOMAIN d.tasks

\* ORDER BY priority DESC, id.
Before(d, t, u) == \/ d.tasks[t].priority > d.tasks[u].priority
                   \/ d.tasks[t].priority = d.tasks[u].priority /\ t < u
Ordered(d, rows) ==
    CHOOSE list \in [1..Cardinality(rows) -> rows] :
        \A i, j \in DOMAIN list : i < j => Before(d, list[i], list[j])

\* A join drops the tasks whose user is missing; an empty filter is no filter.
ListTasksByUser(d, owner, filter) ==
    Ordered(d, {t \in DOMAIN d.tasks : /\ d.tasks[t].owner = owner /\ GetUser(d, owner) # {}
                                       /\ filter = {} \/ d.tasks[t].status \in filter})

CountTasksByStatus(d, owner) ==
    LET own == {t \in DOMAIN d.tasks : d.tasks[t].owner = owner} IN
    [s \in {d.tasks[t].status : t \in own} |-> Cardinality({t \in own : d.tasks[t].status = s})]

OverdueTasks(d, now) ==
    {t \in DOMAIN d.tasks : /\ \E due \in d.tasks[t].due : due < now
                            /\ d.tasks[t].status # "done"
                            /\ GetUser(d, d.tasks[t].owner) # {}}

Summary(d, owner) == SumFunction(CountTasksByStatus(d, owner))

-----------------------------------------------------------------------------
(* Outside transactions every statement commits by itself *)

BookStatements(d) ==
    {AddPages(d, b, 1) : b \in {b \in DOMAIN d : d[b] < MaxPages}}
    \cup {Without(d, b) : b \in BookIds}

AuthorStatements(d) == {InsertBooks(d, {n}, 1) : n \in Names}

TaskStatements(d) ==
    {CreateUser(d, e) : e \in {e \in Names : ~EmailTaken(d, e)}}
    \cup (UNION {{CreateTask(d, u, 1, {}), CreateTask(d, u, 2, {1})} :
                    u \in IF d.last < MaxTasks THEN UserIds ELSE {}})
    \cup {CompleteTask(d, t) : t \in TaskIds}
    \cup (UNION {{DeleteTasksByStatus(d, u, s) : s \in Statuses} : u \in UserIds})

Autocommits(d) ==
    CASE lesson = 36 -> BookStatements(d)
      [] lesson = 38 -> AuthorStatements(d)
      [] lesson = 61 -> TaskStatements(d)

Writes(c) == tx[c].phase \notin {"none", "begun"}
Idle(c) == tx[c].phase = "none"

Execute ==
    /\ \A c \in Clients : IF lesson = 61 THEN Idle(c) ELSE ~Writes(c)
    /\ \E d \in Autocommits(tables) : tables' = d /\ promised' = d
    /\ UNCHANGED <<lesson, tx>>

-----------------------------------------------------------------------------
(* Transactions *)

CallsOf(l) ==
    CASE l = 36 -> {"transferPages"} \X BookIds \X BookIds
      [] l = 38 -> {"create", "fails"} \X ((SUBSET Names) \ {{}}) \X {-1, 1}
      [] l = 61 -> ({"transferAllTasks"} \X UserIds \X UserIds) \cup ({"failingTx"} \X UserIds \X Names)

Begin(c) ==
    /\ Idle(c)
    /\ lesson = 61 => \A d \in Clients : Idle(d)
    /\ \E call \in CallsOf(lesson) : tx' = [tx EXCEPT ![c] = [NoTx EXCEPT !.phase = "begun", !.call = call]]
    /\ UNCHANGED <<lesson, tables, promised>>

In(c, kind, phase) == tx[c].phase = phase /\ tx[c].call[1] = kind
Arg(c, i) == tx[c].call[i + 1]

\* The first statement takes the write lock.
Locks(c) == \A d \in Clients \ {c} : ~Writes(d)

Goes(c, phase, copy, todo) ==
    /\ tx' = [tx EXCEPT ![c] = [@ EXCEPT !.phase = phase, !.copy = copy, !.todo = todo]]
    /\ UNCHANGED <<lesson, tables, promised>>

\* The debit does not look whether there is a book to take the pages from.
Debit(c) ==
    /\ In(c, "transferPages", "begun") /\ Locks(c)
    /\ \A b \in DOMAIN tables : -MaxPages < tables[b] /\ tables[b] < MaxPages
    /\ Goes(c, "second", AddPages(tables, Arg(c, 1), -1), <<>>)

Credit(c) ==
    /\ In(c, "transferPages", "second") /\ Arg(c, 2) \in DOMAIN tx[c].copy
    /\ Goes(c, "commit", AddPages(tx[c].copy, Arg(c, 2), 1), <<>>)

\* GORM inserts the authors, then their books with the authors' ids.
CreateAuthors(c) ==
    /\ In(c, "create", "begun") \/ In(c, "fails", "begun")
    /\ Locks(c) /\ Arg(c, 1) \cap DOMAIN tables = {}
    /\ Goes(c, "second", InsertAuthors(tables, Arg(c, 1)), <<>>)

CreateBooks(c) ==
    /\ In(c, "create", "second") /\ Arg(c, 2) >= 0
    /\ Goes(c, "commit", InsertBooks(tx[c].copy, Arg(c, 1), Arg(c, 2)), <<>>)

ListTasks(c) ==
    /\ In(c, "transferAllTasks", "begun")
    /\ Goes(c, "second", tables, ListTasksByUser(tables, Arg(c, 1), {}))

MoveTask(c) ==
    /\ In(c, "transferAllTasks", "second") /\ tx[c].todo # <<>>
    /\ Goes(c, "second", SetOwner(tx[c].copy, Head(tx[c].todo), Arg(c, 2)), Tail(tx[c].todo))

AllMoved(c) ==
    /\ In(c, "transferAllTasks", "second") /\ tx[c].todo = <<>>
    /\ Goes(c, "commit", tx[c].copy, <<>>)

AddVanishingTask(c) ==
    /\ In(c, "failingTx", "begun") /\ tables.last < MaxTasks
    /\ Goes(c, "second", CreateTask(tables, Arg(c, 1), 1, {}), <<>>)

AddUser(c) ==
    /\ In(c, "failingTx", "second") /\ ~EmailTaken(tx[c].copy, Arg(c, 2))
    /\ Goes(c, "commit", CreateUser(tx[c].copy, Arg(c, 2)), <<>>)

\* What a call that succeeds has done, taken as one step.
Effect(d, call) ==
    CASE call[1] = "transferPages" ->
            [b \in DOMAIN d |-> d[b] - (IF b = call[2] THEN 1 ELSE 0) + (IF b = call[3] THEN 1 ELSE 0)]
      [] call[1] = "create" ->
            [n \in DOMAIN d \cup call[2] |-> IF n \in call[2] THEN call[3] ELSE d[n]]
      [] call[1] = "transferAllTasks" ->
            [d EXCEPT !.tasks = [t \in DOMAIN @ |->
                IF @[t].owner = call[2] /\ call[2] \in DOMAIN d.users
                THEN [@[t] EXCEPT !.owner = call[3]] ELSE @[t]]]
      [] call[1] = "failingTx" -> CreateUser(CreateTask(d, call[2], 1, {}), call[3])

Commit(c) ==
    /\ tx[c].phase = "commit"
    /\ tables' = tx[c].copy /\ promised' = Effect(promised, tx[c].call)
    /\ tx' = [tx EXCEPT ![c] = NoTx]
    /\ UNCHANGED lesson

\* A statement fails (a constraint, a missing row, a lock, the disk), the
\* closure returns an error, or the commit fails: the deferred Rollback runs.
Rollback(c) ==
    /\ ~Idle(c)
    /\ tx' = [tx EXCEPT ![c] = NoTx]
    /\ UNCHANGED <<lesson, tables, promised>>

Step(c) ==
    \/ Debit(c) \/ Credit(c) \/ CreateAuthors(c) \/ CreateBooks(c)
    \/ ListTasks(c) \/ MoveTask(c) \/ AllMoved(c) \/ AddVanishingTask(c) \/ AddUser(c)
    \/ Commit(c) \/ Rollback(c)

Next == Execute \/ \E c \in Clients : Begin(c) \/ Step(c)

Spec == Init /\ [][Next]_vars

-----------------------------------------------------------------------------
(* Properties *)

TablesTypeOK(d) ==
    CASE lesson = 36 -> DOMAIN d \subseteq BookIds /\ \A b \in DOMAIN d : d[b] \in -MaxPages..MaxPages
      [] lesson = 38 -> DOMAIN d \subseteq Names /\ \A n \in DOMAIN d : d[n] \in 0..1
      [] lesson = 61 -> /\ d.users \in Seq(Names) /\ d.last \in 0..MaxTasks
                        /\ DOMAIN d.tasks \subseteq 1..d.last
                        /\ \A t \in DOMAIN d.tasks : d.tasks[t] \in Tasks

TransactionsTypeOK ==
    /\ TablesTypeOK(tables)
    /\ \A c \in Clients : Writes(c) => TablesTypeOK(tx[c].copy)

(***************************************************************************)
(* A call that succeeded has done all it was asked, one that failed has    *)
(* left nothing, and nobody ever sees the middle of a transaction: the     *)
(* committed tables are what the answered calls make when each of them is  *)
(* one step (36 main.go:276, 38 main.go:201, 61 main.go:283).              *)
(***************************************************************************)
NothingHalfDone == tables = promised

(***************************************************************************)
(* The queries agree with each other: of a user who is there the counts    *)
(* add up to the list, by status and in all, what is overdue is in its     *)
(* owner's list, an e-mail address finds its one user, and pages of the    *)
(* list of users have every user once (61 query.sql).                      *)
(***************************************************************************)
ReadsAgree ==
    lesson = 61 =>
        /\ \A u \in DOMAIN tables.users :
            LET counts == CountTasksByStatus(tables, u)
                overdue == OverdueTasks(tables, 2) IN
            /\ Summary(tables, u) = Len(ListTasksByUser(tables, u, {}))
            /\ \A s \in DOMAIN counts : counts[s] = Len(ListTasksByUser(tables, u, {s}))
            /\ {t \in overdue : tables.tasks[t].owner = u} \subseteq ToSet(ListTasksByUser(tables, u, {"todo"}))
            /\ GetUserByEmail(tables, tables.users[u]) = GetUser(tables, u)
        /\ ListUsers(tables, 1, 0) \o ListUsers(tables, 2, 1) = ListUsers(tables, 3, 0)
        /\ GetTasksByIDs(tables, TaskIds) = UNION {GetTask(tables, t) : t \in TaskIds}
=============================================================================
