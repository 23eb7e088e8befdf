----------------------------- MODULE WorkerPool -----------------------------
(* The worker pools of lesson 48 and demo 3: a fixed number of workers read *)
(* jobs from one channel and write results to another, main ranges over the *)
(* results until somebody closes them, and a context may be cancelled at    *)
(* any moment.  Lesson 48 produces jobs while the workers run; demo 3 fills *)
(* the channel and closes it before the first worker starts.                *)
EXTENDS Naturals, Sequences, FiniteSets

CONSTANTS
    Workers,
    Jobs,       \* number of jobs (1000 in both programs)
    Buffer      \* lesson 48: capacity of both channels

\* What the constants have to be.
PoolAssumption == Workers # {} /\ Jobs \in Nat /\ Buffer \in Nat \ {0}

VARIABLES
    prefilled,      \* demo 3 rather than lesson 48
    cancelled,      \* ctx.Done is closed
    produced,       \* jobs the producer has sent
    jobs,           \* the jobs channel, oldest first
    jobsClosed,
    worker,         \* what each worker does, and with which job
    counted,        \* workers that have been counted out
    results,        \* the results channel, oldest first
    resultsClosed,
    collected,      \* what main has received
    finished        \* main's range loop has ended

vars == <<prefilled, cancelled, produced, jobs, jobsClosed, worker, counted,
          results, resultsClosed, collected, finished>>

Capacity == IF prefilled THEN Jobs ELSE Buffer

\* pc "count" is the deferred done <- struct{}{} or wg.Done.
States == [pc : {"receive", "process", "send", "count", "gone"}, job : 0..Jobs]

Init ==
    /\ prefilled \in BOOLEAN
    /\ cancelled = FALSE
    /\ produced = (IF prefilled THEN Jobs ELSE 0)
    /\ jobs = [i \in 1..produced |-> i]
    /\ jobsClosed = prefilled
    /\ worker = [w \in Workers |-> [pc |-> "receive", job |-> 0]]
    /\ counted = {}
    /\ results = <<>> /\ resultsClosed = FALSE
    /\ collected = <<>> /\ finished = FALSE

pipeline == <<prefilled, cancelled, produced, jobs, jobsClosed>>
outcome == <<results, resultsClosed, collected, finished>>

Cancel ==
    /\ ~cancelled /\ cancelled' = TRUE
    /\ UNCHANGED <<prefilled, produced, jobs, jobsClosed, worker, counted, outcome>>

-----------------------------------------------------------------------------
(* produce: the deferred close runs on both ways out *)

Feed ==
    /\ ~jobsClosed /\ produced < Jobs /\ Len(jobs) < Capacity
    /\ produced' = produced + 1 /\ jobs' = Append(jobs, produced + 1)
    /\ UNCHANGED <<prefilled, cancelled, jobsClosed, worker, counted, outcome>>

StopFeeding ==
    /\ ~jobsClosed /\ (produced = Jobs \/ cancelled)
    /\ jobsClosed' = TRUE
    /\ UNCHANGED <<prefilled, cancelled, produced, jobs, worker, counted, outcome>>

-----------------------------------------------------------------------------
(* worker *)

Becomes(w, pc, job) == worker' = [worker EXCEPT ![w] = [pc |-> pc, job |-> job]]

\* A job is received; lesson 48 drops it when the run was cancelled meanwhile.
Receive(w) ==
    /\ worker[w].pc = "receive" /\ jobs # <<>>
    /\ jobs' = Tail(jobs)
    /\ IF cancelled /\ ~prefilled
       THEN Becomes(w, "count", 0)
       ELSE Becomes(w, "process", Head(jobs))
    /\ UNCHANGED <<prefilled, cancelled, produced, jobsClosed, counted, outcome>>

\* The channel is closed and empty, or (demo 3 selects) ctx.Done is chosen.
Leave(w) ==
    /\ worker[w].pc = "receive"
    /\ (jobs = <<>> /\ jobsClosed) \/ (prefilled /\ cancelled)
    /\ Becomes(w, "count", 0)
    /\ UNCHANGED <<pipeline, counted, outcome>>

\* The work succeeds, fails, or is cut short: there is a result every time.
Process(w) ==
    /\ worker[w].pc = "process"
    /\ Becomes(w, "send", worker[w].job)
    /\ UNCHANGED <<pipeline, counted, outcome>>

Send(w) ==
    /\ worker[w].pc = "send" /\ Len(results) < Capacity
    /\ results' = Append(results, worker[w].job)
    /\ Becomes(w, "receive", 0)
    /\ UNCHANGED <<pipeline, counted, resultsClosed, collected, finished>>

\* The result is dropped: ctx.Done is chosen over the send.
Drop(w) ==
    /\ worker[w].pc = "send" /\ cancelled
    /\ Becomes(w, "count", 0)
    /\ UNCHANGED <<pipeline, counted, outcome>>

CountOut(w) ==
    /\ worker[w].pc = "count"
    /\ counted' = counted \cup {w}
    /\ Becomes(w, "gone", 0)
    /\ UNCHANGED <<pipeline, outcome>>

-----------------------------------------------------------------------------
(* The closer, and main *)

\* Mutant: the first worker that ends has the results closed.
CloseResultsEarly ==
    /\ counted # {} /\ ~resultsClosed
    /\ resultsClosed' = TRUE
    /\ UNCHANGED <<pipeline, worker, counted, results, collected, finished>>

\* Only the goroutine that counts the workers may close what all of them write.
CloseResults ==
    /\ counted = Workers /\ ~resultsClosed
    /\ resultsClosed' = TRUE
    /\ UNCHANGED <<pipeline, worker, counted, results, collected, finished>>

Collect ==
    /\ results # <<>>
    /\ results' = Tail(results) /\ collected' = Append(collected, Head(results))
    /\ UNCHANGED <<pipeline, worker, counted, resultsClosed, finished>>

Finish ==
    /\ results = <<>> /\ resultsClosed /\ ~finished
    /\ finished' = TRUE
    /\ UNCHANGED <<pipeline, worker, counted, results, resultsClosed, collected>>

Work(w) == Receive(w) \/ Leave(w) \/ Process(w) \/ Send(w) \/ Drop(w) \/ CountOut(w)
Rest == Feed \/ StopFeeding \/ CloseResults \/ Collect \/ Finish

Next == Cancel \/ Rest \/ \E w \in Workers : Work(w)

\* Goroutines that can run do run; nobody has to cancel.
Spec == Init /\ [][Next]_vars /\ WF_vars(Rest) /\ \A w \in Workers : WF_vars(Work(w))

-----------------------------------------------------------------------------
(* Properties *)

PoolTypeOK ==
    /\ {prefilled, cancelled, jobsClosed, resultsClosed, finished} \subseteq BOOLEAN
    /\ produced \in 0..Jobs /\ jobs \in Seq(1..Jobs)
    /\ worker \in [Workers -> States] /\ counted \subseteq Workers
    /\ results \in Seq(1..Jobs) /\ collected \in Seq(1..Jobs)

(***************************************************************************)
(* Nobody sends on, or closes again, a channel that is closed - either     *)
(* would panic: when results are closed every worker has gone for good.    *)
(***************************************************************************)
ClosedForGood ==
    /\ resultsClosed => \A w \in Workers : worker[w].pc = "gone"
    /\ jobsClosed /\ ~cancelled => produced = Jobs

(***************************************************************************)
(* Whatever the interleaving, a run that nobody cancelled ends with one    *)
(* result for every job, and a cancelled one never has two for a job.      *)
(***************************************************************************)
OneResultPerJob ==
    LET seen == collected \o results IN
    /\ \A i, j \in DOMAIN seen : seen[i] = seen[j] => i = j
    /\ finished /\ ~cancelled => Len(collected) = Jobs

(* main and every goroutine it started end, cancelled or not.              *)
PoolEnds == <>(finished /\ \A w \in Workers : worker[w].pc = "gone")
=============================================================================
