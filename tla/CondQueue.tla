----------------------------- MODULE CondQueue -----------------------------
(* Lesson 52: a bounded FIFO behind a mutex and one condition variable.  A  *)
(* producer that finds it full and a consumer that finds it empty sleep on  *)
(* the same Cond, and every Push and Pop wakes everybody.                   *)
EXTENDS Naturals, Sequences, FiniteSets

CONSTANTS Producers, Consumers,
    Capacity,       \* of the queue
    Rounds          \* items each producer pushes and each consumer pops

\* What the constants have to be.
CondQueueAssumption ==
    /\ {Capacity, Rounds} \subseteq Nat \ {0}
    /\ IsFiniteSet(Producers) /\ IsFiniteSet(Consumers) /\ Producers \cap Consumers = {}
    /\ Cardinality(Producers) = Cardinality(Consumers)

VARIABLES
    items,      \* the queue: <<producer, its how-manieth item>>
    asleep,     \* goroutines in cond.Wait
    rounds,     \* Push and Pop calls each goroutine has finished
    popped      \* what came out, in order

vars == <<items, asleep, rounds, popped>>

Everyone == Producers \cup Consumers

Init ==
    /\ items = <<>> /\ asleep = {} /\ popped = <<>>
    /\ rounds = [g \in Everyone |-> 0]

\* cond.Wait releases the mutex and sleeps until a Broadcast.
Sleep(g) == asleep' = asleep \cup {g} /\ UNCHANGED <<items, rounds, popped>>

\* Mutant: cond.Signal, which wakes one of those who sleep.
SignalOne(g) ==
    /\ IF asleep = {} THEN UNCHANGED asleep ELSE \E x \in asleep : asleep' = asleep \ {x}
    /\ rounds' = [rounds EXCEPT ![g] = @ + 1]

Broadcast(g) == asleep' = {} /\ rounds' = [rounds EXCEPT ![g] = @ + 1]

Runs(g) == g \notin asleep /\ rounds[g] < Rounds

\* A critical section each; a goroutine that wakes up looks again (`for`).
Push(g) ==
    /\ g \in Producers /\ Runs(g)
    /\ IF Len(items) = Capacity THEN Sleep(g)
       ELSE items' = Append(items, <<g, rounds[g] + 1>>) /\ Broadcast(g) /\ UNCHANGED popped

Pop(g) ==
    /\ g \in Consumers /\ Runs(g)
    /\ IF items = <<>> THEN Sleep(g)
       ELSE items' = Tail(items) /\ popped' = Append(popped, Head(items)) /\ Broadcast(g)

Next == \E g \in Everyone : Push(g) \/ Pop(g)

Spec == Init /\ [][Next]_vars /\ \A g \in Everyone : WF_vars(Push(g) \/ Pop(g))

-----------------------------------------------------------------------------
(* Properties *)

CondQueueTypeOK ==
    /\ Len(items) \in 0..Capacity
    /\ asleep \subseteq Everyone /\ rounds \in [Everyone -> 0..Rounds]

(***************************************************************************)
(* Each producer's items come out once each and in the order it pushed     *)
(* them, and never are all who could go on asleep: no wake-up is lost, and *)
(* none wakes only the wrong side.                                         *)
(***************************************************************************)
FirstInFirstOut ==
    LET out == popped \o items IN
    \A i \in 1..Len(out) :
        out[i][2] = 1 + Cardinality({j \in 1..(i - 1) : out[j][1] = out[i][1]})

QueueDrains == <>(items = <<>> /\ \A g \in Everyone : rounds[g] = Rounds)
=============================================================================
