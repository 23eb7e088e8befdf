----------------------------- MODULE TaskQueue -----------------------------
(* Lesson 65: handlers behind asynq, a job queue kept in Redis.  The queue  *)
(* is a library; its tables and what it does with a handler's result are    *)
(* modelled from how the lesson uses and describes it.  Workers die between *)
(* the work and its acknowledgement, and are shut down with work in hand.   *)
EXTENDS Naturals, FiniteSets

CONSTANTS
    Tasks,
    MaxRetry,       \* retries a task is enqueued with
    Concurrency,    \* handlers that run at a time
    MaxStops        \* bound: crashes and shutdowns of the worker

\* What the constants have to be.
QueueAssumption == {MaxRetry, MaxStops} \subseteq Nat /\ Concurrency \in Nat \ {0}

VARIABLES
    kind,       \* what each task is, the payload included
    state,      \* where Redis has it
    retried,    \* retries so far, which the handler's context knows
    flakyRuns,  \* the counter of handleFlaky
    effects,    \* times the work of a task was done
    alerted,    \* tasks the ErrorHandler raised an alert for
    worker,     \* the worker server
    stops

vars == <<kind, state, retried, flakyRuns, effects, alerted, worker, stops>>

Kinds == {"email", "malformed", "flaky", "report"}

\* "running" is in the handler, then there is its result; "lost" is active in
\* Redis, but the worker that had it is gone.
Held == {"running", "ok", "error", "skip", "failed", "skipped"}
States == {"none", "scheduled", "pending", "retry", "lost", "completed", "archived"} \cup Held

Init ==
    /\ kind \in [Tasks -> Kinds]
    /\ state = [t \in Tasks |-> "none"]
    /\ retried = [t \in Tasks |-> 0]
    /\ flakyRuns = 0
    /\ effects = [t \in Tasks |-> 0]
    /\ alerted = {}
    /\ worker = "up" /\ stops = 0

Becomes(t, s) == state' = [state EXCEPT ![t] = s]

-----------------------------------------------------------------------------
(* The producer and the queue *)

\* Mutant: an id is taken again while its completed task is still retained.
EnqueueAgain(t) ==
    /\ state[t] \in {"none", "completed"}
    /\ \E s \in {"pending", "scheduled"} : Becomes(t, s)
    /\ UNCHANGED <<kind, retried, flakyRuns, effects, alerted, worker, stops>>

\* A task whose id is there already - queued, running, archived, or completed
\* and retained - is refused (ErrTaskIDConflict).  Once a completed task is
\* gone its id names a new task.
Enqueue(t) ==
    /\ state[t] = "none"
    /\ \E s \in {"pending", "scheduled"} : Becomes(t, s)
    /\ UNCHANGED <<kind, retried, flakyRuns, effects, alerted, worker, stops>>

\* The forwarder of a running worker moves what is due.
Forward(t) ==
    /\ worker = "up" /\ state[t] \in {"scheduled", "retry"}
    /\ Becomes(t, "pending")
    /\ UNCHANGED <<kind, retried, flakyRuns, effects, alerted, worker, stops>>

Take(t) ==
    /\ worker = "up" /\ state[t] = "pending"
    /\ Cardinality({u \in Tasks : state[u] \in Held}) < Concurrency
    /\ Becomes(t, "running")
    /\ UNCHANGED <<kind, retried, flakyRuns, effects, alerted, worker, stops>>

\* Out of retries, or not worth one: the archive.
Requeue(t, skip) ==
    IF skip \/ retried[t] >= MaxRetry
    THEN Becomes(t, "archived") /\ UNCHANGED retried
    ELSE Becomes(t, "retry") /\ retried' = [retried EXCEPT ![t] = @ + 1]

\* A lease nobody extends: the recoverer takes the task back, silently.
Recover(t) ==
    /\ worker = "up" /\ state[t] = "lost"
    /\ Requeue(t, FALSE)
    /\ UNCHANGED <<kind, flakyRuns, effects, alerted, worker, stops>>

-----------------------------------------------------------------------------
(* The handlers *)

Result(t, s, done) ==
    /\ state[t] = "running" /\ Becomes(t, s)
    /\ effects' = [effects EXCEPT ![t] = @ + done]
    /\ UNCHANGED <<kind, retried, alerted, worker, stops>>

\* A welcome email or a thumbnail; the email is given up when ctx is done.
HandleWelcomeEmail(t) ==
    /\ kind[t] = "email"
    /\ Result(t, "ok", 1) \/ Result(t, "error", 0)
    /\ UNCHANGED flakyRuns

\* A payload that does not unmarshal, like a panic the middleware recovers.
HandleMalformed(t) ==
    kind[t] = "malformed" /\ Result(t, "skip", 0) /\ UNCHANGED flakyRuns

\* The counter is one for all flaky tasks, and for all their attempts.
HandleFlaky(t) ==
    /\ kind[t] = "flaky" /\ flakyRuns' = flakyRuns + 1
    /\ IF flakyRuns' < 2 THEN Result(t, "error", 0) ELSE Result(t, "ok", 1)

HandleReport(t) == kind[t] = "report" /\ Result(t, "error", 0) /\ UNCHANGED flakyRuns

Ack(t) ==
    /\ state[t] = "ok" /\ Becomes(t, "completed")
    /\ UNCHANGED <<kind, retried, flakyRuns, effects, alerted, worker, stops>>

\* asynq calls the ErrorHandler for every failure; it alerts on the last try.
HandleError(t) ==
    /\ state[t] \in {"error", "skip"}
    /\ alerted' = IF retried[t] >= MaxRetry THEN alerted \cup {t} ELSE alerted
    /\ Becomes(t, IF state[t] = "skip" THEN "skipped" ELSE "failed")
    /\ UNCHANGED <<kind, retried, flakyRuns, effects, worker, stops>>

\* Then it writes the outcome to Redis.
Fail(t) ==
    /\ state[t] \in {"failed", "skipped"}
    /\ Requeue(t, state[t] = "skipped")
    /\ UNCHANGED <<kind, flakyRuns, effects, alerted, worker, stops>>

-----------------------------------------------------------------------------
(* The worker process *)

Crash ==
    /\ worker # "down" /\ stops < MaxStops
    /\ worker' = "down" /\ stops' = stops + 1
    /\ state' = [t \in Tasks |-> IF state[t] \in Held THEN "lost" ELSE state[t]]
    /\ UNCHANGED <<kind, retried, flakyRuns, effects, alerted>>

\* srv.Shutdown stops taking tasks, waits ShutdownTimeout for those in hand...
Shutdown ==
    /\ worker = "up" /\ stops < MaxStops
    /\ worker' = "draining" /\ stops' = stops + 1
    /\ UNCHANGED <<kind, state, retried, flakyRuns, effects, alerted>>

\* ...and puts the handlers that overran back in the queue.
Down ==
    /\ worker = "draining" /\ worker' = "down"
    /\ state' = [t \in Tasks |-> IF state[t] \in Held THEN "pending" ELSE state[t]]
    /\ UNCHANGED <<kind, retried, flakyRuns, effects, alerted, stops>>

\* The next worker that starts: its counters begin at zero.
Restart ==
    /\ worker = "down" /\ worker' = "up" /\ flakyRuns' = 0
    /\ UNCHANGED <<kind, state, retried, effects, alerted, stops>>

Handle(t) == HandleWelcomeEmail(t) \/ HandleMalformed(t) \/ HandleFlaky(t) \/ HandleReport(t)
Work(t) == Forward(t) \/ Take(t) \/ Recover(t) \/ Handle(t) \/ Ack(t) \/ HandleError(t) \/ Fail(t)

Next ==
    \/ \E t \in Tasks : Enqueue(t) \/ Work(t)
    \/ Crash \/ Shutdown \/ Down \/ Restart

\* Somebody starts the next worker; a worker that is up works.
Spec == Init /\ [][Next]_vars /\ WF_vars(Down) /\ WF_vars(Restart) /\ \A t \in Tasks : WF_vars(Work(t))

-----------------------------------------------------------------------------
(* Properties *)

QueueTypeOK ==
    /\ kind \in [Tasks -> Kinds] /\ state \in [Tasks -> States]
    /\ retried \in [Tasks -> 0..MaxRetry]
    /\ flakyRuns \in Nat /\ effects \in [Tasks -> Nat]
    /\ alerted \subseteq Tasks
    /\ worker \in {"up", "draining", "down"} /\ stops \in 0..MaxStops

(***************************************************************************)
(* At-least-once: a completed task was done, and it was done again only    *)
(* because a worker stopped between the work and its acknowledgement.      *)
(***************************************************************************)
DoneAndMoreOnlyAfterStops ==
    \A t \in Tasks :
        /\ state[t] = "completed" => effects[t] >= 1
        /\ effects[t] <= 1 + stops

(***************************************************************************)
(* The archive is a dead-letter queue of tasks that had every retry, or that*)
(* can never succeed, although workers die between the alert and the       *)
(* archiving.  An alert means that the last try failed.  (An archived task *)
(* need not have raised one: SkipRetry on an earlier try raises none, nor  *)
(* does a last try that died with its worker.)                             *)
(***************************************************************************)
DeadLettersAreTried ==
    /\ \A t \in Tasks : state[t] = "archived" => retried[t] = MaxRetry \/ kind[t] = "malformed"
    /\ \A t \in alerted : retried[t] = MaxRetry

(* Every task that was enqueued ends up completed or archived: none is lost,*)
(* and none is retried for ever.                                           *)
EveryTaskSettles ==
    \A t \in Tasks : state[t] # "none" ~> state[t] \in {"completed", "archived"}
=============================================================================
