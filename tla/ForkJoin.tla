------------------------------ MODULE ForkJoin ------------------------------
(* Lessons 22, 24, 45, 49-51, 54 and 58: main starts goroutines that share a *)
(* counter, waits for them on a WaitGroup, and reads the result.  What they  *)
(* share is guarded in one of the ways the lessons show, or in none.         *)
EXTENDS Naturals, FiniteSets

CONSTANTS
    Writers,    \* goroutines that add one
    Readers     \* goroutines that only look

\* What the constants have to be.
ForkJoinAssumption == IsFiniteSet(Writers) /\ Writers # {} /\ Writers \cap Readers = {}

VARIABLES
    how,        \* "racy", "mutex", "rwmutex", "atomic", "channel" or "once"
    pc,         \* goroutines: "none" before `go`, "done" after wg.Done
    count,      \* what they share
    local,      \* what a goroutine has read of it
    lock,       \* the writer and the readers that hold the lock
    wg,         \* the WaitGroup's counter
    ch,         \* channel: values in the buffer, and whether it is closed
    main

vars == <<how, pc, count, local, lock, wg, ch, main>>

Goroutines == Writers \cup Readers
N == Cardinality(Writers)
Locks == {"mutex", "rwmutex"}
Hows == {"racy", "atomic", "channel", "once"} \cup Locks

Init ==
    /\ how \in Hows
    /\ pc = [g \in Goroutines |-> "none"]
    /\ count = 0 /\ local = [g \in Goroutines |-> 0]
    /\ lock = [w |-> {}, r |-> {}]
    /\ wg = 0 /\ ch = [n |-> 0, closed |-> FALSE]
    /\ main = "spawn"

Goes(g, from, to) == pc[g] = from /\ pc' = [pc EXCEPT ![g] = to]

-----------------------------------------------------------------------------
(* main *)

\* Mutant: go without wg.Add(1).
SpawnUncounted(g) ==
    /\ main = "spawn" /\ Goes(g, "none", "start")
    /\ UNCHANGED <<how, count, local, lock, wg, ch, main>>

\* wg.Add(1), then go: before the goroutine can call Done.
Spawn(g) ==
    /\ main = "spawn" /\ Goes(g, "none", "start")
    /\ wg' = wg + 1
    /\ UNCHANGED <<how, count, local, lock, ch, main>>

\* Wait returns at zero.  With a channel, a goroutine of its own waits and
\* closes it, and main goes on to the range loop.
Wait ==
    /\ main = "spawn" /\ \A g \in Goroutines : pc[g] # "none"
    /\ IF how = "channel" THEN main' = "range" ELSE wg = 0 /\ main' = "done"
    /\ UNCHANGED <<how, pc, count, local, lock, wg, ch>>

Closer ==
    /\ main = "range" /\ wg = 0 /\ ~ch.closed
    /\ ch' = [ch EXCEPT !.closed = TRUE]
    /\ UNCHANGED <<how, pc, count, local, lock, wg, main>>

\* One goroutine owns the slice the values go to.
Collect ==
    /\ main = "range"
    /\ \/ /\ ch.n > 0
          /\ ch' = [ch EXCEPT !.n = @ - 1] /\ count' = count + 1 /\ UNCHANGED main
       \/ /\ ch.n = 0 /\ ch.closed
          /\ main' = "done" /\ UNCHANGED <<ch, count>>
    /\ UNCHANGED <<how, pc, local, lock, wg>>

-----------------------------------------------------------------------------
(* The goroutines *)

Free == lock.w = {} /\ lock.r = {}

\* mu.Lock, or RLock for a reader of an RWMutex.
Acquire(g) ==
    /\ how \in Locks /\ Goes(g, "start", "locked")
    /\ IF how = "rwmutex" /\ g \in Readers
       THEN lock.w = {} /\ lock' = [lock EXCEPT !.r = @ \cup {g}]
       ELSE Free /\ lock' = [lock EXCEPT !.w = {g}]
    /\ UNCHANGED <<how, count, local, wg, ch, main>>

\* count++ reads...
Read(g) ==
    /\ IF how = "racy" THEN Goes(g, "start", "read") ELSE Goes(g, "locked", "read")
    /\ local' = [local EXCEPT ![g] = count]
    /\ UNCHANGED <<how, count, lock, wg, ch, main>>

\* ...and writes, with whatever went on between.
Write(g) ==
    /\ Goes(g, "read", IF how = "racy" THEN "end" ELSE "unlock")
    /\ count' = IF g \in Writers THEN local[g] + 1 ELSE count
    /\ UNCHANGED <<how, local, lock, wg, ch, main>>

Unlock(g) ==
    /\ Goes(g, "unlock", "end")
    /\ lock' = [w |-> lock.w \ {g}, r |-> lock.r \ {g}]
    /\ UNCHANGED <<how, count, local, wg, ch, main>>

\* count.Add(1), or count.Load.
Atomic(g) ==
    /\ how = "atomic" /\ Goes(g, "start", "end")
    /\ count' = IF g \in Writers THEN count + 1 ELSE count
    /\ UNCHANGED <<how, local, lock, wg, ch, main>>

\* The buffer has room for all of them: a send never blocks.
Send(g) ==
    /\ how = "channel" /\ Goes(g, "start", "end")
    /\ ch' = IF g \in Writers THEN [ch EXCEPT !.n = @ + 1] ELSE ch
    /\ UNCHANGED <<how, count, local, lock, wg, main>>

\* once.Do: the first one in runs the function, the others wait until it is
\* over (lock.w is the one that runs it, lock.r those that have returned).
Once(g) ==
    /\ how = "once"
    /\ \/ /\ Free /\ Goes(g, "start", "running")
          /\ lock' = [lock EXCEPT !.w = {g}] /\ UNCHANGED count
       \/ /\ Goes(g, "running", "end")
          /\ lock' = [w |-> {}, r |-> {g}] /\ count' = count + 1
       \/ /\ lock.r # {} /\ Goes(g, "start", "end")
          /\ UNCHANGED <<lock, count>>
    /\ UNCHANGED <<how, local, wg, ch, main>>

Done(g) ==
    /\ Goes(g, "end", "done")
    /\ wg' = wg - 1
    /\ UNCHANGED <<how, count, local, lock, ch, main>>

Go(g) ==
    Acquire(g) \/ Read(g) \/ Write(g) \/ Unlock(g) \/ Atomic(g) \/ Send(g) \/ Once(g) \/ Done(g)

Next ==
    \/ Wait \/ Closer \/ Collect
    \/ \E g \in Goroutines : Spawn(g) \/ Go(g)

\* The scheduler lets every goroutine run (each takes the lock once).
Spec ==
    /\ Init /\ [][Next]_vars
    /\ WF_vars(Wait) /\ WF_vars(Closer) /\ WF_vars(Collect)
    /\ \A g \in Goroutines : WF_vars(Spawn(g)) /\ WF_vars(Go(g))

-----------------------------------------------------------------------------
(* Properties *)

ForkJoinTypeOK ==
    /\ how \in Hows /\ main \in {"spawn", "range", "done"}
    /\ count \in 0..N /\ local \in [Goroutines -> 0..N]
    /\ lock.w \subseteq Goroutines /\ lock.r \subseteq Goroutines
    /\ wg = Cardinality({g \in Goroutines : pc[g] \notin {"none", "done"}})
    /\ ch.n \in 0..N

(***************************************************************************)
(* What the lessons print after Wait: all increments with any guard, one   *)
(* initialisation with Once, and without a guard some of them, never more  *)
(* and never none.                                                         *)
(***************************************************************************)
JoinedIsCounted ==
    main = "done" =>
        /\ how \in Locks \cup {"atomic", "channel"} => count = N
        /\ how = "once" => count = 1
        /\ how = "racy" => count \in 1..N

(* Wait returns: no goroutine is left behind, and no collector waits for a  *)
(* channel nobody closes.                                                   *)
EveryJoinReturns == <>(main = "done")
=============================================================================
