------------------------------- MODULE Fanout -------------------------------
(* Lesson 64, the fan-out tools: errgroup with its cancellation ("errgroup") *)
(* and its limit ("limit"), a weighted semaphore ("semaphore"), singleflight *)
(* ("flight"), and calls that stop waiting for their worker ("leaky" with an *)
(* unbuffered channel, "fixed" with a buffer of one).  The packages of       *)
(* golang.org/x/sync are modelled from how the lesson uses them.             *)
EXTENDS Naturals, Sequences, FiniteSets, FiniteSetsExt, Functions

CONSTANTS
    Tasks,
    Limit,      \* g.SetLimit
    Cost,       \* units each task takes of the semaphore
    Capacity    \* units there are

\* What the constants have to be.
FanoutAssumption ==
    /\ IsFiniteSet(Tasks) /\ {Limit, Capacity} \subseteq Nat \ {0}
    /\ \A t \in Tasks : Cost[t] \in 1..Capacity

VARIABLES
    demo,
    pc,
    err,        \* errgroup: the error Wait returns, the task it came from, {} for none
    fate,       \* how each task ended
    running,    \* limit, semaphore: tasks counted by inFlight / used
    queue,      \* semaphore: who waits, first come first
    held,       \* tasks that hold a slot or their units
    cur, old,   \* what Add and peak.Load returned to a task
    peak, most, \* the peak the lesson prints, and the real one
    call        \* flight: the tasks that share the call in flight

vars == <<demo, pc, err, fate, running, queue, held, cur, old, peak, most, call>>

Demos == {"errgroup", "limit", "semaphore", "flight", "leaky", "fixed"}
Counting == {"limit", "semaphore"}

Weight == [t \in Tasks |-> IF demo = "semaphore" THEN Cost[t] ELSE 1]
Used(S) == SumFunctionOnSet(Weight, S)

Init ==
    /\ demo \in Demos
    /\ pc = [t \in Tasks |-> "none"]
    /\ err = {} /\ fate = [t \in Tasks |-> "none"]
    /\ running = 0 /\ queue = <<>> /\ held = {}
    /\ cur = [t \in Tasks |-> 0] /\ old = [t \in Tasks |-> 0]
    /\ peak = 0 /\ most = 0
    /\ call = {}

Goes(t, from, to) == pc[t] = from /\ pc' = [pc EXCEPT ![t] = to]
Ends(t, how) == fate' = [fate EXCEPT ![t] = how]

\* g.Go, or `go`: with a limit it blocks until a slot is free.
Spawn(t) ==
    /\ Goes(t, "none", "start")
    /\ IF demo = "limit"
       THEN Cardinality(held) < Limit /\ held' = held \cup {t}
       ELSE UNCHANGED held
    /\ UNCHANGED <<demo, err, fate, running, queue, cur, old, peak, most, call>>

-----------------------------------------------------------------------------
(* errgroup.WithContext *)

\* A task returns a value, an error of its own, or, once some error has
\* cancelled the group's context, that.  The first error is the one kept.
Finish(t) ==
    /\ demo = "errgroup" /\ Goes(t, "start", "done")
    /\ \E how \in {"ok", "failed"} \cup (IF err = {} THEN {} ELSE {"cancelled"}) :
        /\ Ends(t, how)
        /\ err' = IF how # "ok" /\ err = {} THEN {t} ELSE err
    /\ UNCHANGED <<demo, running, queue, held, cur, old, peak, most, call>>

-----------------------------------------------------------------------------
(* Bounded parallelism *)

\* sem.Acquire: at once when nobody waits and there is room, else in turn.
Acquire(t) ==
    /\ demo = "semaphore"
    /\ \/ /\ pc[t] = "start"
          /\ IF queue = <<>> /\ Used(held) + Cost[t] <= Capacity
             THEN Goes(t, "start", "in") /\ held' = held \cup {t} /\ UNCHANGED queue
             ELSE Goes(t, "start", "waits") /\ queue' = Append(queue, t) /\ UNCHANGED held
       \/ /\ queue # <<>> /\ Head(queue) = t /\ Used(held) + Cost[t] <= Capacity
          /\ Goes(t, "waits", "in") /\ held' = held \cup {t} /\ queue' = Tail(queue)
    /\ UNCHANGED <<demo, err, fate, running, cur, old, peak, most, call>>

\* inFlight.Add(1), used.Add(cost)
Enter(t) ==
    /\ IF demo = "limit" THEN Goes(t, "start", "load") ELSE Goes(t, "in", "load")
    /\ demo \in Counting
    /\ running' = running + Weight[t] /\ cur' = [cur EXCEPT ![t] = running']
    /\ most' = Max({most, running'})
    /\ UNCHANGED <<demo, err, fate, queue, held, old, peak, call>>

LoadPeak(t) ==
    /\ Goes(t, "load", IF cur[t] <= peak THEN "work" ELSE "store")
    /\ old' = [old EXCEPT ![t] = peak]
    /\ UNCHANGED <<demo, err, fate, running, queue, held, cur, peak, most, call>>

\* Mutant: the peak is stored whatever came between.
StorePeakBlindly(t) ==
    /\ Goes(t, "store", "work") /\ peak' = cur[t]
    /\ UNCHANGED <<demo, err, fate, running, queue, held, cur, old, most, call>>

\* CompareAndSwap goes round again when somebody came between; the
\* semaphore's demo stores without looking.
StorePeak(t) ==
    /\ IF demo = "limit" /\ peak # old[t]
       THEN Goes(t, "store", "load") /\ UNCHANGED peak
       ELSE Goes(t, "store", "work") /\ peak' = cur[t]
    /\ UNCHANGED <<demo, err, fate, running, queue, held, cur, old, most, call>>

\* The count goes down, then the slot or the units are given back.
Leave(t) ==
    /\ Goes(t, "work", "leave") /\ running' = running - Weight[t]
    /\ UNCHANGED <<demo, err, fate, queue, held, cur, old, peak, most, call>>

Release(t) ==
    /\ Goes(t, "leave", "done") /\ held' = held \ {t} /\ Ends(t, "ok")
    /\ UNCHANGED <<demo, err, running, queue, cur, old, peak, most, call>>

-----------------------------------------------------------------------------
(* singleflight *)

\* group.Do: the first caller of a key makes the call, the others join it.
Do(t) ==
    /\ demo = "flight" /\ Goes(t, "start", IF call = {} THEN "loads" ELSE "shares")
    /\ call' = call \cup {t}
    /\ UNCHANGED <<demo, err, fate, running, queue, held, cur, old, peak, most>>

\* The call returns to all of them; who comes later makes another.
Loaded(t) ==
    /\ demo = "flight" /\ pc[t] = "loads"
    /\ pc' = [u \in Tasks |-> IF u \in call THEN "done" ELSE pc[u]]
    /\ fate' = [u \in Tasks |-> IF u \in call THEN "ok" ELSE fate[u]]
    /\ call' = {}
    /\ UNCHANGED <<demo, err, running, queue, held, cur, old, peak, most>>

-----------------------------------------------------------------------------
(* The leak: pc is the worker's, fate the caller's *)

CallDemos == {"leaky", "fixed"}

\* The worker's send: to a waiting caller, or into the buffer of one.
Send(t) ==
    /\ demo \in CallDemos /\ Goes(t, "start", "done")
    /\ fate[t] = "none" \/ demo = "fixed"
    /\ IF fate[t] = "none" THEN Ends(t, "ok") ELSE UNCHANGED fate
    /\ UNCHANGED <<demo, err, running, queue, held, cur, old, peak, most, call>>

\* The caller's deadline.
GiveUp(t) ==
    /\ demo \in CallDemos /\ fate[t] = "none" /\ pc[t] # "none" /\ Ends(t, "left")
    /\ UNCHANGED <<demo, pc, err, running, queue, held, cur, old, peak, most, call>>

-----------------------------------------------------------------------------

Run(t) ==
    \/ Finish(t) \/ Acquire(t) \/ Enter(t) \/ LoadPeak(t) \/ StorePeak(t)
    \/ Leave(t) \/ Release(t) \/ Do(t) \/ Loaded(t) \/ Send(t)

Next == \E t \in Tasks : Spawn(t) \/ Run(t) \/ GiveUp(t)

\* Every goroutine that can go on does.
Spec == Init /\ [][Next]_vars /\ \A t \in Tasks : WF_vars(Spawn(t)) /\ WF_vars(Run(t)) /\ WF_vars(GiveUp(t))

-----------------------------------------------------------------------------
(* Properties *)

FanoutTypeOK ==
    /\ demo \in Demos /\ held \subseteq Tasks /\ call \subseteq Tasks
    /\ running \in Nat /\ cur \in [Tasks -> Nat] /\ old \in [Tasks -> Nat]
    /\ Len(queue) <= Cardinality(Tasks)

AllDone == \A t \in Tasks : pc[t] = "done"

(***************************************************************************)
(* What the lesson prints: no more run at a time than the limit, or the    *)
(* units, allow; with compare-and-swap the printed peak is the real one,   *)
(* without it it is at most that.                                          *)
(***************************************************************************)
PeakIsTrue ==
    /\ demo = "limit" => most <= Limit /\ (AllDone => peak = most)
    /\ demo = "semaphore" => most <= Capacity /\ peak <= most

(***************************************************************************)
(* Wait returns what went wrong, not the "context canceled" of a task that *)
(* was stopped because of it (main.go:112).                                *)
(***************************************************************************)
FirstErrorIsTheCause == \A t \in err : fate[t] = "failed"

(***************************************************************************)
(* Every task and every caller comes to an end, but for the worker of the  *)
(* leaky demo whose caller has gone.                                       *)
(***************************************************************************)
NothingLeaks == demo # "leaky" ~> AllDone /\ \A t \in Tasks : fate[t] # "none"
=============================================================================
