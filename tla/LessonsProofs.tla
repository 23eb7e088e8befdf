--------------------------- MODULE LessonsProofs ---------------------------
(* Proofs about the lessons of MCPrograms: LessonsTellTheTruth, from its       *)
(* conjuncts about joins, the queue with a condition variable and the fan-out  *)
(* tools, for any number of goroutines, and about channels, for any schedule.  *)
(* ProgramsProofs says what the composition adds to each. The last section     *)
(* puts the types of all the programs together.                                *)
EXTENDS ProgramsProofs, Sums

-----------------------------------------------------------------------------
(* Fork and join: JoinedIsCounted                                            *)

Gor == Writers \cup Readers
JoinStages == {"none", "start", "locked", "read", "unlock", "running", "end", "done"}

\* Goroutines the WaitGroup counts, and writers whose addition is made.
Alive == {g \in Gor : at[g] \notin {"none", "done"}}
Past == {"unlock", "end", "done"}
Added == {g \in Writers : at[g] \in Past}

JoinTyped ==
    /\ how \in Join!Hows /\ main \in {"spawn", "range", "done"}
    /\ at \in [Gor -> JoinStages] /\ local \in [Gor -> Nat] /\ count \in Nat
    /\ lock \in [w : SUBSET Gor, r : SUBSET Gor]
    /\ wg \in Nat /\ ch \in [n : Nat, closed : BOOLEAN]

\* Where the goroutines can be with each guard.
Road ==
    CASE how \in Join!Locks -> {"none", "start", "locked", "read", "unlock", "end", "done"}
      [] how = "racy" -> {"none", "start", "read", "end", "done"}
      [] how = "once" -> {"none", "start", "running", "end", "done"}
      [] OTHER -> {"none", "start", "end", "done"}
OnRoad == \A g \in Gor : at[g] \in Road

\* Between Lock and Unlock a goroutine holds the lock: a writer alone, and the
\* readers of an RWMutex together.
Inside == {"locked", "read", "unlock"}
Locked ==
    /\ \A g \in Gor : at[g] \in Inside <=> g \in lock.w \cup lock.r
    /\ lock.r \subseteq Readers
    /\ lock.w # {} => lock.r = {}
    /\ \A g, h \in lock.w : g = h

\* The WaitGroup counts who was started and has not called Done; Wait, the
\* closing of the channel and the end of main come after the last of them.
Waited ==
    /\ IsFiniteSet(Alive) /\ wg = Cardinality(Alive)
    /\ main = "range" => how = "channel"
    /\ main # "spawn" => \A g \in Gor : at[g] # "none"
    /\ ch.closed \/ main = "done" => \A g \in Gor : at[g] = "done"
    /\ how # "channel" \/ main = "done" => ch.n = 0

\* A guarded counter is the number of additions made, those in the channel
\* included; an unguarded one is at most that, and what a goroutine has read of
\* it as well; once.Do has run its function before anybody goes on.
Guarded ==
    /\ count + ch.n = Cardinality(Added)
    /\ how \in Join!Locks => \A g \in Writers : at[g] = "read" => local[g] = count
Unguarded ==
    /\ count <= Cardinality(Added)
    /\ \A g \in Writers : at[g] = "read" => local[g] <= Cardinality(Added)
    /\ Added # {} => count >= 1
RunsOnce ==
    /\ count = IF lock.r = {} THEN 0 ELSE 1
    /\ \A g \in Gor : at[g] = "running" => lock.w = {g} /\ lock.r = {}
    /\ \A g \in Gor : at[g] \in {"end", "done"} => lock.r # {}

JoinInv ==
    /\ JoinTyped /\ OnRoad /\ Waited
    /\ how \in Join!Locks => Locked
    /\ how \in Join!Locks \cup {"atomic", "channel"} => Guarded
    /\ how = "racy" => Unguarded
    /\ how = "once" => RunsOnce

\* An instance has its own copies of the operators on finite sets.
LEMMA JoinSizes ==
    ASSUME Join!ForkJoinAssumption
    PROVE  /\ IsFiniteSet(Writers) /\ Writers # {} /\ Writers \cap Readers = {}
           /\ Join!N = Cardinality(Writers) /\ Join!Goroutines = Gor
           /\ IsFiniteSet(Added) /\ Cardinality(Added) \in Nat
<1>1. Join!IsFiniteSet(Writers) => IsFiniteSet(Writers)
  BY DEF Join!IsFiniteSet, IsFiniteSet
<1>2. Join!N = Cardinality(Writers)
  BY DEF Join!N, Join!Cardinality, Cardinality
<1>3. IsFiniteSet(Writers) /\ Writers # {} /\ Writers \cap Readers = {}
  BY <1>1 DEF Join!ForkJoinAssumption
<1>4. IsFiniteSet(Added)
  BY <1>3, FS_Subset DEF Added
<1>5. QED
  BY <1>2, <1>3, <1>4, FS_CardinalityType DEF Join!Goroutines, Gor

\* One goroutine goes on: what that does to those who count.
LEMMA JoinGoes ==
    ASSUME Join!ForkJoinAssumption, at \in [Gor -> JoinStages],
           NEW g \in Gor, NEW from, NEW to \in JoinStages, Join!Goes(g, from, to)
    PROVE  /\ at' \in [Gor -> JoinStages] /\ at[g] = from /\ at'[g] = to
           /\ \A h \in Gor : h # g => at'[h] = at[h]
           /\ g \notin Writers \/ (from \in Past <=> to \in Past) => Added' = Added
           /\ g \in Writers /\ from \notin Past /\ to \in Past =>
                Added' = Added \cup {g} /\ Cardinality(Added') = Cardinality(Added) + 1
<1>1. /\ at' \in [Gor -> JoinStages] /\ at[g] = from /\ at'[g] = to
      /\ \A h \in Gor : h # g => at'[h] = at[h]
  BY DEF Join!Goes
<1>2. Writers \subseteq Gor
  BY DEF Gor
<1>3. ASSUME g \notin Writers \/ (from \in Past <=> to \in Past)
      PROVE  Added' = Added
  BY <1>1, <1>2, <1>3 DEF Added
<1>4. ASSUME g \in Writers, from \notin Past, to \in Past
      PROVE  Added' = Added \cup {g} /\ g \notin Added
  BY <1>1, <1>2, <1>4 DEF Added
<1>5. ASSUME g \in Writers, from \notin Past, to \in Past
      PROVE  Cardinality(Added') = Cardinality(Added) + 1
  BY <1>4, <1>5, JoinSizes, FS_AddElement
<1>6. QED
  BY <1>1, <1>3, <1>4, <1>5

\* The WaitGroup stays right.
LEMMA AliveMoves ==
    ASSUME JoinTyped, Waited, at' \in [Gor -> JoinStages], NEW g \in Gor,
           \A h \in Gor : h # g => at'[h] = at[h]
    PROVE  /\ at[g] \notin {"none", "done"} /\ at'[g] \notin {"none", "done"} /\ wg' = wg =>
                IsFiniteSet(Alive') /\ wg' = Cardinality(Alive')
           /\ at[g] = "none" /\ at'[g] \notin {"none", "done"} /\ wg' = wg + 1 =>
                IsFiniteSet(Alive') /\ wg' = Cardinality(Alive')
           /\ at[g] \notin {"none", "done"} /\ at'[g] = "done" /\ wg' = wg - 1 =>
                IsFiniteSet(Alive') /\ wg' = Cardinality(Alive')
<1>1. IsFiniteSet(Alive) /\ wg = Cardinality(Alive) /\ wg \in Nat
  BY DEF Waited, JoinTyped
<1>2. ASSUME at[g] \notin {"none", "done"}, at'[g] \notin {"none", "done"}
      PROVE  Alive' = Alive
  BY <1>2 DEF Alive
<1>3. ASSUME at[g] = "none", at'[g] \notin {"none", "done"}
      PROVE  Alive' = Alive \cup {g} /\ g \notin Alive
  BY <1>3 DEF Alive
<1>4. ASSUME at[g] \notin {"none", "done"}, at'[g] = "done"
      PROVE  Alive' = Alive \ {g} /\ g \in Alive
  BY <1>4 DEF Alive
<1>5. ASSUME at[g] = "none", at'[g] \notin {"none", "done"}, wg' = wg + 1
      PROVE  IsFiniteSet(Alive') /\ wg' = Cardinality(Alive')
  BY <1>1, <1>3, <1>5, FS_AddElement
<1>6. ASSUME at[g] \notin {"none", "done"}, at'[g] = "done", wg' = wg - 1
      PROVE  IsFiniteSet(Alive') /\ wg' = Cardinality(Alive')
  BY <1>1, <1>4, <1>6, FS_RemoveElement
<1>7. QED
  BY <1>1, <1>2, <1>5, <1>6

LEMMA JoinInit ==
    ASSUME Join!ForkJoinAssumption, Join!Init
    PROVE  JoinInv
<1>0. /\ how \in Join!Hows /\ at = [g \in Gor |-> "none"] /\ count = 0
      /\ local = [g \in Gor |-> 0] /\ lock = [w |-> {}, r |-> {}]
      /\ wg = 0 /\ ch = [n |-> 0, closed |-> FALSE] /\ main = "spawn"
  BY JoinSizes DEF Join!Init
<1>1. Alive = {} /\ Added = {}
  BY <1>0 DEF Alive, Added, Past, Gor
<1>2. IsFiniteSet({}) /\ Cardinality({}) = 0
  BY FS_EmptySet
<1>3. JoinTyped
  BY <1>0 DEF JoinTyped, JoinStages
<1>4. OnRoad
  BY <1>0 DEF OnRoad, Road
<1>5. Waited
  BY <1>0, <1>1, <1>2 DEF Waited
<1>6. Locked
  BY <1>0 DEF Locked, Inside
<1>7. Guarded /\ Unguarded
  BY <1>0, <1>1, <1>2 DEF Guarded, Unguarded, Gor
<1>8. RunsOnce
  BY <1>0 DEF RunsOnce
<1>9. QED
  BY <1>3, <1>4, <1>5, <1>6, <1>7, <1>8 DEF JoinInv

\* main starts a goroutine.
LEMMA SpawnKeeps ==
    ASSUME Join!ForkJoinAssumption, JoinInv, NEW g \in Gor, Join!Spawn(g)
    PROVE  JoinInv'
<1>0. /\ JoinTyped /\ OnRoad /\ Waited /\ main = "spawn" /\ wg' = wg + 1
      /\ UNCHANGED <<how, count, local, lock, ch, main>>
      /\ Join!Goes(g, "none", "start")
  BY DEF Join!Spawn, JoinInv
<1>1. /\ at' \in [Gor -> JoinStages] /\ at[g] = "none" /\ at'[g] = "start"
      /\ \A h \in Gor : h # g => at'[h] = at[h]
      /\ Added' = Added
  <2>1. "start" \in JoinStages /\ "none" \notin Past /\ "start" \notin Past
    BY DEF JoinStages, Past
  <2>2. QED
    BY <1>0, <2>1, JoinGoes DEF JoinTyped
<1>2. JoinTyped'
  BY <1>0, <1>1 DEF JoinTyped
<1>3. OnRoad'
  BY <1>0, <1>1 DEF OnRoad, Road
<1>4. Waited'
  BY <1>0, <1>1, AliveMoves DEF Waited
<1>5. how \in Join!Locks => Locked'
  BY <1>0, <1>1 DEF JoinInv, Locked, Inside
<1>6. how \in Join!Locks \cup {"atomic", "channel"} => Guarded'
  <2>1. \A h \in Writers : at'[h] = "read" => at[h] = "read"
    BY <1>1 DEF Gor
  <2>2. QED
    BY <1>0, <1>1, <2>1 DEF JoinInv, Guarded
<1>7. how = "racy" => Unguarded'
  <2>1. \A h \in Writers : at'[h] = "read" => at[h] = "read"
    BY <1>1 DEF Gor
  <2>2. QED
    BY <1>0, <1>1, <2>1 DEF JoinInv, Unguarded
<1>8. how = "once" => RunsOnce'
  BY <1>0, <1>1 DEF JoinInv, RunsOnce
<1>9. QED
  BY <1>0, <1>2, <1>3, <1>4, <1>5, <1>6, <1>7, <1>8 DEF JoinInv

\* Wait returns, the channel is closed, a value is collected.
LEMMA MainKeeps ==
    ASSUME Join!ForkJoinAssumption, JoinInv, Join!Wait \/ Join!Closer \/ Join!Collect
    PROVE  JoinInv'
<1>0. /\ JoinTyped /\ OnRoad /\ Waited
      /\ UNCHANGED <<how, at, local, lock, wg>>
  BY DEF Join!Wait, Join!Closer, Join!Collect, JoinInv
<1>1. Alive' = Alive /\ Added' = Added /\ OnRoad'
  BY <1>0 DEF Alive, Added, OnRoad, Road
<1>2. wg = 0 /\ (\A g \in Gor : at[g] # "none") => \A g \in Gor : at[g] = "done"
  <2>1. wg = 0 => Alive = {}
    BY <1>0, FS_EmptySet DEF Waited
  <2>2. QED
    BY <2>1 DEF Alive
<1>3. how \in Join!Locks => Locked'
  BY <1>0 DEF JoinInv, Locked
<1>4. CASE Join!Wait
  <2>1. /\ UNCHANGED <<count, ch>> /\ \A g \in Gor : at[g] # "none"
        /\ \/ how = "channel" /\ main' = "range"
           \/ how # "channel" /\ wg = 0 /\ main' = "done"
    BY <1>4, JoinSizes DEF Join!Wait
  <2>2. JoinTyped' /\ Waited'
    BY <1>0, <1>1, <1>2, <2>1 DEF JoinTyped, Waited
  <2>3. /\ how \in Join!Locks \cup {"atomic", "channel"} => Guarded'
        /\ how = "racy" => Unguarded'
        /\ how = "once" => RunsOnce'
    BY <1>0, <1>1, <2>1 DEF JoinInv, Guarded, Unguarded, RunsOnce
  <2>4. QED
    BY <1>0, <1>1, <1>3, <2>2, <2>3 DEF JoinInv
<1>5. CASE Join!Closer
  <2>1. /\ UNCHANGED <<count, main>> /\ main = "range" /\ wg = 0
        /\ ch' = [ch EXCEPT !.closed = TRUE]
    BY <1>5 DEF Join!Closer
  <2>2. ch' \in [n : Nat, closed : BOOLEAN] /\ ch'.n = ch.n
    BY <1>0, <2>1 DEF JoinTyped
  <2>3. JoinTyped' /\ Waited'
    BY <1>0, <1>1, <1>2, <2>1, <2>2 DEF JoinTyped, Waited
  <2>4. /\ how \in Join!Locks \cup {"atomic", "channel"} => Guarded'
        /\ how = "racy" => Unguarded'
        /\ how = "once" => RunsOnce'
    BY <1>0, <1>1, <2>1, <2>2 DEF JoinInv, Guarded, Unguarded, RunsOnce
  <2>5. QED
    BY <1>0, <1>1, <1>3, <2>3, <2>4 DEF JoinInv
<1>6. CASE Join!Collect
  <2>0. main = "range" /\ how = "channel" /\ how \notin Join!Locks
    BY <1>0, <1>6 DEF Join!Collect, Waited, Join!Locks
  <2>1. CASE ch.n > 0 /\ ch' = [ch EXCEPT !.n = @ - 1] /\ count' = count + 1 /\ main' = main
    <3>1. /\ ch' \in [n : Nat, closed : BOOLEAN] /\ ch'.n = ch.n - 1 /\ ch'.closed = ch.closed
          /\ ch.n \in Nat /\ count \in Nat
      BY <1>0, <2>1 DEF JoinTyped
    <3>2. JoinTyped' /\ Waited'
      BY <1>0, <1>1, <2>0, <2>1, <3>1 DEF JoinTyped, Waited
    <3>3. Guarded'
      <4>1. count + ch.n = Cardinality(Added)
        BY <2>0 DEF JoinInv, Guarded
      <4>2. count' + ch'.n = Cardinality(Added')
        BY <1>1, <2>1, <3>1, <4>1
      <4>3. QED
        BY <1>0, <2>0, <4>2 DEF Guarded
    <3>4. QED
      BY <1>0, <1>1, <2>0, <3>2, <3>3 DEF JoinInv
  <2>2. CASE ch.n = 0 /\ ch.closed /\ main' = "done" /\ UNCHANGED <<ch, count>>
    <3>1. JoinTyped' /\ Waited'
      BY <1>0, <1>1, <2>0, <2>2 DEF JoinTyped, Waited
    <3>2. Guarded'
      BY <1>0, <1>1, <2>0, <2>2 DEF JoinInv, Guarded
    <3>3. QED
      BY <1>0, <1>1, <2>0, <3>1, <3>2 DEF JoinInv
  <2>3. QED
    BY <1>6, <2>1, <2>2 DEF Join!Collect
<1>7. QED
  BY <1>4, <1>5, <1>6


\* A goroutine that goes on, but not to its end, disturbs only its guard.
LEMMA RunsOn ==
    ASSUME Join!ForkJoinAssumption, JoinInv, NEW g \in Gor, NEW from, NEW to,
           Join!Goes(g, from, to), from \notin {"none", "done"}, to \notin {"none", "done"},
           to \in Road, how' = how, wg' = wg, main' = main,
           count' \in Nat, local' \in [Gor -> Nat], lock' \in [w : SUBSET Gor, r : SUBSET Gor],
           ch' \in [n : Nat, closed : BOOLEAN], ch'.closed = ch.closed,
           how = "channel" \/ ch' = ch
    PROVE  /\ JoinTyped' /\ OnRoad' /\ Waited'
           /\ to \in JoinStages
<1>0. JoinTyped /\ OnRoad /\ Waited
  BY DEF JoinInv
<1>1. to \in JoinStages
  BY <1>0 DEF Road, JoinStages, Join!Locks, Join!Hows, JoinTyped
<1>2. /\ at' \in [Gor -> JoinStages] /\ at[g] = from /\ at'[g] = to
      /\ \A h \in Gor : h # g => at'[h] = at[h]
  BY <1>0, <1>1, JoinGoes DEF JoinTyped
<1>3. JoinTyped'
  BY <1>0, <1>2 DEF JoinTyped
<1>4. OnRoad'
  BY <1>0, <1>2 DEF OnRoad, Road
<1>5. IsFiniteSet(Alive') /\ wg' = Cardinality(Alive')
  BY <1>0, <1>2, AliveMoves
<1>6. ~ch.closed /\ main # "done"
  BY <1>0, <1>2 DEF Waited
<1>7. Waited'
  BY <1>0, <1>2, <1>5, <1>6 DEF Waited
<1>8. QED
  BY <1>1, <1>3, <1>4, <1>7

\* With a lock.
LEMMA LockKeeps ==
    ASSUME Join!ForkJoinAssumption, JoinInv, NEW g \in Gor, how \in Join!Locks,
           Join!Acquire(g) \/ Join!Read(g) \/ Join!Write(g) \/ Join!Unlock(g)
    PROVE  JoinInv'
<1>0. /\ JoinTyped /\ Locked /\ Guarded
      /\ Writers \cap Readers = {} /\ Gor = Writers \cup Readers /\ how # "racy"
      /\ Road = {"none", "start", "locked", "read", "unlock", "end", "done"}
  BY JoinSizes DEF JoinInv, Join!Locks, Road, Gor
<1>1. how' = how /\ wg' = wg /\ main' = main /\ ch' = ch
  BY DEF Join!Acquire, Join!Read, Join!Write, Join!Unlock
<1>2. ASSUME JoinTyped', OnRoad', Waited', Locked', Guarded'
      PROVE  JoinInv'
  BY <1>0, <1>1, <1>2 DEF JoinInv, Join!Locks
<1>3. lock.w \subseteq Gor /\ lock.r \subseteq Gor /\ lock = [w |-> lock.w, r |-> lock.r]
  BY <1>0 DEF JoinTyped
<1>4. CASE Join!Acquire(g)
  <2>1. Join!Goes(g, "start", "locked") /\ UNCHANGED <<count, local>>
    BY <1>4 DEF Join!Acquire
  <2>2. \/ /\ g \in Readers /\ lock.w = {} /\ lock' = [w |-> lock.w, r |-> lock.r \cup {g}]
        \/ /\ lock.w = {} /\ lock.r = {} /\ lock' = [w |-> {g}, r |-> lock.r]
    BY <1>3, <1>4 DEF Join!Acquire, Join!Free
  <2>3. lock' \in [w : SUBSET Gor, r : SUBSET Gor]
    BY <1>3, <2>2
  <2>4. JoinTyped' /\ OnRoad' /\ Waited'
    BY <1>0, <1>1, <2>1, <2>3, RunsOn DEF JoinTyped
  <2>5. /\ at[g] = "start" /\ at'[g] = "locked"
        /\ \A h \in Gor : h # g => at'[h] = at[h]
        /\ Added' = Added
    BY <1>0, <2>1, JoinGoes DEF JoinTyped, JoinStages, Past
  <2>6. Locked'
    BY <1>0, <1>3, <2>2, <2>5 DEF Locked, Inside
  <2>7. Guarded'
    BY <1>0, <1>1, <2>1, <2>5 DEF Guarded
  <2>8. QED
    BY <1>2, <2>4, <2>6, <2>7
<1>5. CASE Join!Read(g)
  <2>1. Join!Goes(g, "locked", "read") /\ UNCHANGED <<count, lock>> /\ local' = [local EXCEPT ![g] = count]
    BY <1>0, <1>5 DEF Join!Read
  <2>2. /\ local' \in [Gor -> Nat] /\ local'[g] = count
        /\ \A h \in Gor : h # g => local'[h] = local[h]
    BY <1>0, <2>1 DEF JoinTyped
  <2>3. JoinTyped' /\ OnRoad' /\ Waited'
    BY <1>0, <1>1, <2>1, <2>2, RunsOn DEF JoinTyped
  <2>4. /\ at[g] = "locked" /\ at'[g] = "read"
        /\ \A h \in Gor : h # g => at'[h] = at[h]
        /\ Added' = Added
    BY <1>0, <2>1, JoinGoes DEF JoinTyped, JoinStages, Past
  <2>5. Locked'
    BY <1>0, <2>1, <2>4 DEF Locked, Inside
  <2>6. Guarded'
    BY <1>0, <1>1, <2>1, <2>2, <2>4 DEF Guarded
  <2>7. QED
    BY <1>2, <2>3, <2>5, <2>6
<1>6. CASE Join!Write(g)
  <2>1. /\ Join!Goes(g, "read", "unlock") /\ UNCHANGED <<local, lock>>
        /\ count' = IF g \in Writers THEN local[g] + 1 ELSE count
    BY <1>0, <1>6 DEF Join!Write
  <2>2. count \in Nat /\ local[g] \in Nat /\ at \in [Gor -> JoinStages] /\ ch.n \in Nat
    BY <1>0 DEF JoinTyped
  <2>3. JoinTyped' /\ OnRoad' /\ Waited'
    BY <1>0, <1>1, <2>1, <2>2, RunsOn DEF JoinTyped
  <2>4. /\ at[g] = "read" /\ at'[g] = "unlock"
        /\ \A h \in Gor : h # g => at'[h] = at[h]
        /\ g \notin Writers => Added' = Added
        /\ g \in Writers => Cardinality(Added') = Cardinality(Added) + 1
    BY <2>1, <2>2, JoinGoes DEF JoinStages, Past
  <2>5. Locked'
    BY <1>0, <2>1, <2>4 DEF Locked, Inside
  <2>6. CASE g \in Writers
    <3>1. lock.w = {g} /\ lock.r = {}
      BY <1>0, <1>3, <2>4, <2>6 DEF Locked, Inside
    <3>2. \A h \in Writers : at'[h] # "read"
      BY <1>0, <3>1, <2>4 DEF Locked, Inside
    <3>3. count' = count + 1
      BY <1>0, <2>1, <2>4, <2>6 DEF Guarded
    <3>4. Cardinality(Added) \in Nat /\ count + ch.n = Cardinality(Added)
      BY <1>0, JoinSizes DEF Guarded
    <3>5. count' + ch'.n = Cardinality(Added')
      BY <1>1, <2>2, <2>4, <2>6, <3>3, <3>4
    <3>6. QED
      BY <1>2, <2>3, <2>5, <3>2, <3>5 DEF Guarded
  <2>7. CASE g \notin Writers
    <3>1. Guarded'
      BY <1>0, <1>1, <2>1, <2>4, <2>7 DEF Guarded
    <3>2. QED
      BY <1>2, <2>3, <2>5, <3>1
  <2>8. QED
    BY <2>6, <2>7
<1>7. CASE Join!Unlock(g)
  <2>1. /\ Join!Goes(g, "unlock", "end") /\ UNCHANGED <<count, local>>
        /\ lock' = [w |-> lock.w \ {g}, r |-> lock.r \ {g}]
    BY <1>7 DEF Join!Unlock
  <2>2. JoinTyped' /\ OnRoad' /\ Waited'
    BY <1>0, <1>1, <1>3, <2>1, RunsOn DEF JoinTyped
  <2>3. /\ at[g] = "unlock" /\ at'[g] = "end"
        /\ \A h \in Gor : h # g => at'[h] = at[h]
        /\ Added' = Added
    BY <1>0, <2>1, JoinGoes DEF JoinTyped, JoinStages, Past
  <2>4. Locked'
    BY <1>0, <1>3, <2>1, <2>3 DEF Locked, Inside
  <2>5. Guarded'
    BY <1>0, <1>1, <2>1, <2>3 DEF Guarded
  <2>6. QED
    BY <1>2, <2>2, <2>4, <2>5
<1>8. QED
  BY <1>4, <1>5, <1>6, <1>7

\* Without a guard: an addition may be lost, and none is made up.
LEMMA RacyKeeps ==
    ASSUME Join!ForkJoinAssumption, JoinInv, NEW g \in Gor, how = "racy",
           Join!Read(g) \/ Join!Write(g)
    PROVE  JoinInv'
<1>0. /\ JoinTyped /\ Unguarded /\ Gor = Writers \cup Readers
      /\ Road = {"none", "start", "read", "end", "done"}
      /\ how \notin Join!Locks \cup {"atomic", "channel"} /\ how # "once"
      /\ Cardinality(Added) \in Nat /\ count \in Nat /\ local \in [Gor -> Nat]
  BY JoinSizes DEF JoinInv, Join!Locks, Road, Gor, JoinTyped
<1>1. how' = how /\ wg' = wg /\ main' = main /\ ch' = ch /\ lock' = lock
  BY DEF Join!Read, Join!Write
<1>2. ASSUME JoinTyped', OnRoad', Waited', Unguarded'
      PROVE  JoinInv'
  BY <1>0, <1>1, <1>2 DEF JoinInv
<1>3. CASE Join!Read(g)
  <2>1. Join!Goes(g, "start", "read") /\ UNCHANGED count /\ local' = [local EXCEPT ![g] = count]
    BY <1>3 DEF Join!Read
  <2>2. /\ local' \in [Gor -> Nat] /\ local'[g] = count
        /\ \A h \in Gor : h # g => local'[h] = local[h]
    BY <1>0, <2>1
  <2>3. JoinTyped' /\ OnRoad' /\ Waited'
    BY <1>0, <1>1, <2>1, <2>2, RunsOn DEF JoinTyped
  <2>4. /\ at[g] = "start" /\ at'[g] = "read"
        /\ \A h \in Gor : h # g => at'[h] = at[h]
        /\ Added' = Added
    BY <1>0, <2>1, JoinGoes DEF JoinTyped, JoinStages, Past
  <2>5. Unguarded'
    BY <1>0, <1>1, <2>1, <2>2, <2>4 DEF Unguarded
  <2>6. QED
    BY <1>2, <2>3, <2>5
<1>4. CASE Join!Write(g)
  <2>1. /\ Join!Goes(g, "read", "end") /\ UNCHANGED local
        /\ count' = IF g \in Writers THEN local[g] + 1 ELSE count
    BY <1>4 DEF Join!Write
  <2>2. local[g] \in Nat /\ at \in [Gor -> JoinStages] /\ count' \in Nat
    BY <1>0, <2>1 DEF JoinTyped
  <2>3. JoinTyped' /\ OnRoad' /\ Waited'
    BY <1>0, <1>1, <2>1, <2>2, RunsOn DEF JoinTyped
  <2>4. /\ at[g] = "read" /\ at'[g] = "end"
        /\ \A h \in Gor : h # g => at'[h] = at[h]
        /\ g \notin Writers => Added' = Added
        /\ g \in Writers => Cardinality(Added') = Cardinality(Added) + 1
    BY <2>1, <2>2, JoinGoes DEF JoinStages, Past
  <2>5. \A h \in Writers : at'[h] = "read" => at[h] = "read" /\ local[h] <= Cardinality(Added)
    BY <1>0, <2>4 DEF Unguarded
  <2>6. CASE g \in Writers
    <3>1. local[g] <= Cardinality(Added)
      BY <1>0, <2>4, <2>6 DEF Unguarded
    <3>2. count' <= Cardinality(Added') /\ count' >= 1
      BY <1>0, <2>1, <2>2, <2>4, <2>6, <3>1
    <3>3. \A h \in Writers : at'[h] = "read" => local'[h] <= Cardinality(Added')
      BY <1>0, <2>1, <2>4, <2>5, <2>6
    <3>4. QED
      BY <1>2, <2>3, <3>2, <3>3 DEF Unguarded
  <2>7. CASE g \notin Writers
    <3>1. Unguarded'
      BY <1>0, <2>1, <2>4, <2>5, <2>7 DEF Unguarded
    <3>2. QED
      BY <1>2, <2>3, <3>1
  <2>8. QED
    BY <2>6, <2>7
<1>5. QED
  BY <1>3, <1>4

\* Atomically, or through a channel.
LEMMA OneStepKeeps ==
    ASSUME Join!ForkJoinAssumption, JoinInv, NEW g \in Gor, Join!Atomic(g) \/ Join!Send(g)
    PROVE  JoinInv'
<1>0. /\ JoinTyped /\ Guarded /\ how \in {"atomic", "channel"}
      /\ Gor = Writers \cup Readers
      /\ Road = {"none", "start", "end", "done"}
      /\ how \notin Join!Locks /\ how # "racy" /\ how # "once"
      /\ Cardinality(Added) \in Nat /\ count \in Nat /\ ch.n \in Nat
  BY JoinSizes DEF JoinInv, Join!Locks, Road, Gor, JoinTyped, Join!Atomic, Join!Send
<1>1. /\ Join!Goes(g, "start", "end")
      /\ how' = how /\ wg' = wg /\ main' = main /\ lock' = lock /\ local' = local
  BY DEF Join!Atomic, Join!Send
<1>2. \/ UNCHANGED <<count, ch>> /\ g \notin Writers
      \/ count' = count + 1 /\ ch' = ch /\ g \in Writers
      \/ UNCHANGED count /\ ch' = [ch EXCEPT !.n = @ + 1] /\ g \in Writers /\ how = "channel"
  BY DEF Join!Atomic, Join!Send
<1>3. /\ ch' \in [n : Nat, closed : BOOLEAN] /\ ch'.closed = ch.closed
      /\ count' \in Nat /\ (how = "channel" \/ ch' = ch)
      /\ g \notin Writers => count' + ch'.n = count + ch.n
      /\ g \in Writers => count' + ch'.n = count + ch.n + 1
  BY <1>0, <1>2 DEF JoinTyped
<1>4. JoinTyped' /\ OnRoad' /\ Waited'
  BY <1>0, <1>1, <1>3, RunsOn DEF JoinTyped
<1>5. /\ g \notin Writers => Added' = Added
      /\ g \in Writers => Cardinality(Added') = Cardinality(Added) + 1
  BY <1>0, <1>1, JoinGoes DEF JoinTyped, JoinStages, Past
<1>6. count + ch.n = Cardinality(Added)
  BY <1>0 DEF Guarded
<1>7. count' + ch'.n = Cardinality(Added')
  BY <1>0, <1>3, <1>5, <1>6
<1>8. QED
  BY <1>0, <1>1, <1>4, <1>7 DEF JoinInv, Guarded

LEMMA OnceKeeps ==
    ASSUME Join!ForkJoinAssumption, JoinInv, NEW g \in Gor, Join!Once(g)
    PROVE  JoinInv'
<1>0. /\ JoinTyped /\ RunsOnce /\ how = "once"
      /\ Road = {"none", "start", "running", "end", "done"}
      /\ how \notin Join!Locks \cup {"atomic", "channel"} /\ how # "racy"
      /\ count \in Nat
  BY DEF JoinInv, Join!Locks, Road, JoinTyped, Join!Once
<1>1. how' = how /\ wg' = wg /\ main' = main /\ ch' = ch /\ local' = local
  BY DEF Join!Once
<1>2. lock.w \subseteq Gor /\ lock.r \subseteq Gor /\ lock = [w |-> lock.w, r |-> lock.r]
  BY <1>0 DEF JoinTyped
<1>3. PICK from \in {"start", "running"}, to \in {"running", "end"} :
        /\ Join!Goes(g, from, to)
        /\ \/ /\ lock.w = {} /\ lock.r = {} /\ from = "start" /\ to = "running"
              /\ lock' = [w |-> {g}, r |-> {}] /\ count' = count
           \/ /\ from = "running" /\ to = "end"
              /\ lock' = [w |-> {}, r |-> {g}] /\ count' = count + 1
           \/ /\ lock.r # {} /\ from = "start" /\ to = "end"
              /\ lock' = lock /\ count' = count
  BY <1>2 DEF Join!Once, Join!Free
<1>4. lock' \in [w : SUBSET Gor, r : SUBSET Gor] /\ count' \in Nat
  BY <1>0, <1>2, <1>3
<1>5. JoinTyped' /\ OnRoad' /\ Waited'
  BY <1>0, <1>1, <1>3, <1>4, RunsOn DEF JoinTyped
<1>6. /\ at[g] = from /\ at'[g] = to
      /\ \A h \in Gor : h # g => at'[h] = at[h]
  BY <1>0, <1>3, JoinGoes DEF JoinTyped, JoinStages
<1>7. RunsOnce'
  BY <1>0, <1>3, <1>6 DEF RunsOnce
<1>8. QED
  BY <1>0, <1>1, <1>5, <1>7 DEF JoinInv

LEMMA DoneKeeps ==
    ASSUME Join!ForkJoinAssumption, JoinInv, NEW g \in Gor, Join!Done(g)
    PROVE  JoinInv'
<1>0. /\ JoinTyped /\ OnRoad /\ Waited /\ Join!Goes(g, "end", "done") /\ wg' = wg - 1
      /\ UNCHANGED <<how, count, local, lock, ch, main>>
  BY DEF JoinInv, Join!Done
<1>1. /\ at' \in [Gor -> JoinStages] /\ at[g] = "end" /\ at'[g] = "done"
      /\ \A h \in Gor : h # g => at'[h] = at[h]
      /\ Added' = Added
  BY <1>0, JoinGoes DEF JoinTyped, JoinStages, Past
<1>2. IsFiniteSet(Alive') /\ wg' = Cardinality(Alive') /\ wg' \in Nat
  BY <1>0, <1>1, AliveMoves, FS_CardinalityType
<1>3. JoinTyped'
  BY <1>0, <1>1, <1>2 DEF JoinTyped
<1>4. OnRoad'
  BY <1>0, <1>1 DEF OnRoad, Road
<1>5. Waited'
  BY <1>0, <1>1, <1>2 DEF Waited
<1>6. \A h \in Writers : at'[h] = "read" => at[h] = "read"
  BY <1>1 DEF Gor
<1>7. how \in Join!Locks => Locked'
  BY <1>0, <1>1 DEF JoinInv, Locked, Inside
<1>8. how \in Join!Locks \cup {"atomic", "channel"} => Guarded'
  BY <1>0, <1>1, <1>6 DEF JoinInv, Guarded
<1>9. how = "racy" => Unguarded'
  BY <1>0, <1>1, <1>6 DEF JoinInv, Unguarded
<1>10. how = "once" => RunsOnce'
  BY <1>0, <1>1 DEF JoinInv, RunsOnce
<1>11. QED
  BY <1>0, <1>3, <1>4, <1>5, <1>7, <1>8, <1>9, <1>10 DEF JoinInv

LEMMA JoinStep ==
    ASSUME Join!ForkJoinAssumption, JoinInv, [Join!Next]_(Join!vars)
    PROVE  JoinInv'
<1>1. CASE Join!Wait \/ Join!Closer \/ Join!Collect
  BY <1>1, MainKeeps
<1>2. CASE \E g \in Gor : Join!Spawn(g)
  BY <1>2, SpawnKeeps
<1>3. ASSUME NEW g \in Gor, Join!Go(g)
      PROVE  JoinInv'
  <2>1. Join!Read(g) \/ Join!Write(g) \/ Join!Unlock(g) => how = "racy" \/ how \in Join!Locks
    BY DEF JoinInv, OnRoad, Road, Join!Read, Join!Write, Join!Unlock, Join!Goes
  <2>2. Join!Unlock(g) => how # "racy"
    BY DEF JoinInv, OnRoad, Road, Join!Unlock, Join!Goes, Join!Locks
  <2>3. Join!Acquire(g) => how \in Join!Locks
    BY DEF Join!Acquire
  <2>4. QED
    BY <1>3, <2>1, <2>2, <2>3, LockKeeps, RacyKeeps, OneStepKeeps, OnceKeeps, DoneKeeps DEF Join!Go
<1>4. CASE UNCHANGED Join!vars
  <2>1. UNCHANGED <<how, at, count, local>> /\ UNCHANGED <<lock, wg, ch, main>>
    BY <1>4 DEF Join!vars
  <2>2. Alive' = Alive /\ Added' = Added
    BY <2>1 DEF Alive, Added
  <2>3. QED
    BY <2>1, <2>2 DEF JoinInv, JoinTyped, OnRoad, Road, Waited, Locked, Guarded, Unguarded, RunsOnce
<1>5. QED
  BY <1>1, <1>2, <1>3, <1>4, JoinSizes DEF Join!Next

\* When main is done everybody is, and all the writers have added.
LEMMA JoinCounts ==
    ASSUME Join!ForkJoinAssumption, JoinInv
    PROVE  Join!JoinedIsCounted
<1>1. SUFFICES ASSUME main = "done"
               PROVE  /\ how \in Join!Locks \cup {"atomic", "channel"} => count = Join!N
                      /\ how = "once" => count = 1
                      /\ how = "racy" => count \in 1 .. Join!N
  BY DEF Join!JoinedIsCounted
<1>2. /\ \A g \in Gor : at[g] = "done" /\ ch.n = 0 /\ count \in Nat
      /\ Writers \subseteq Gor /\ Writers # {} /\ Join!N = Cardinality(Writers)
      /\ Cardinality(Added) \in Nat
  BY <1>1, JoinSizes DEF JoinInv, Waited, JoinTyped, Gor
<1>3. Added = Writers
  BY <1>2 DEF Added, Past
<1>4. ASSUME how \in Join!Locks \cup {"atomic", "channel"}
      PROVE  count = Join!N
  BY <1>2, <1>3, <1>4 DEF JoinInv, Guarded
<1>5. ASSUME how = "once"
      PROVE  count = 1
  BY <1>2, <1>5 DEF JoinInv, RunsOnce
<1>6. ASSUME how = "racy"
      PROVE  count \in 1 .. Join!N
  BY <1>2, <1>3, <1>6 DEF JoinInv, Unguarded
<1>7. QED
  BY <1>4, <1>5, <1>6

(***************************************************************************)
(* Whatever number of goroutines main starts: after Wait it reads all of    *)
(* their additions under a lock, atomically or from a channel, one          *)
(* initialisation with Once, and without a guard at least one and at most    *)
(* all (lessons 22, 24, 45, 49-51, 54, 58).                                  *)
(***************************************************************************)
THEOREM JoinsCount == ProgramsSpec => [](program = "join" => Join!JoinedIsCounted)
<1>1. Join!ForkJoinAssumption
  BY ProgramsAssumption
<1>2. ProgramsInit => (program = "join" => JoinInv)
  BY <1>1, ProgramsBegin, JoinInit
<1>3. (program = "join" => JoinInv) /\ [ProgramsNext]_everything => (program = "join" => JoinInv)'
  BY <1>1, ProgramsMove, JoinStep
<1>4. (program = "join" => JoinInv) => (program = "join" => Join!JoinedIsCounted)
  BY <1>1, JoinCounts
<1>5. QED
  BY <1>2, <1>3, <1>4, PTL DEF ProgramsSpec

-----------------------------------------------------------------------------
(* The queue with a condition variable: FirstInFirstOut                      *)

\* All that was pushed, in order: what came out and what is still there.
Pushed == popped \o items
PushedBy(s, p) == {j \in 1 .. Len(s) : s[j][1] = p}

\* A producer has pushed as many items as it has finished rounds, and each of
\* them says how many it had pushed by then.
Numbered(s) ==
    \A i \in 1 .. Len(s) :
        s[i][2] = 1 + Cardinality({j \in 1 .. (i - 1) : s[j][1] = s[i][1]})

CondInv ==
    /\ items \in Seq(Producers \X Nat) /\ popped \in Seq(Producers \X Nat)
    /\ rounds \in [Producers \cup Consumers -> Nat]
    /\ Numbered(Pushed)
    /\ \A p \in Producers : rounds[p] = Cardinality(PushedBy(Pushed, p))

LEMMA CondInit ==
    ASSUME Cond!Init
    PROVE  CondInv
<1>1. /\ items = <<>> /\ popped = <<>>
      /\ rounds = [g \in Producers \cup Consumers |-> 0]
  BY DEF Cond!Init, Cond!Everyone
<1>2. Pushed = <<>> /\ Len(Pushed) = 0
  BY <1>1 DEF Pushed
<1>3. \A p \in Producers : PushedBy(Pushed, p) = {}
  BY <1>2 DEF PushedBy
<1>4. Cardinality({}) = 0
  BY FS_EmptySet
<1>5. QED
  BY <1>1, <1>2, <1>3, <1>4, SMTT(30) DEF CondInv, Numbered

\* One item more, with its number.
LEMMA PushesOne ==
    ASSUME NEW s \in Seq(Producers \X Nat), Numbered(s),
           NEW x \in Producers \X Nat, x[2] = Cardinality(PushedBy(s, x[1])) + 1
    PROVE  /\ Append(s, x) \in Seq(Producers \X Nat)
           /\ Numbered(Append(s, x))
           /\ Cardinality(PushedBy(Append(s, x), x[1])) = Cardinality(PushedBy(s, x[1])) + 1
           /\ \A p \in Producers \ {x[1]} : PushedBy(Append(s, x), p) = PushedBy(s, p)
<1> DEFINE t == Append(s, x)
           n == Len(s)
<1>1. /\ t \in Seq(Producers \X Nat) /\ n \in Nat /\ Len(t) = n + 1 /\ t[n + 1] = x
      /\ \A j \in 1 .. n : t[j] = s[j]
  OBVIOUS
<1> HIDE DEF t, n
<1>2. PushedBy(t, x[1]) = PushedBy(s, x[1]) \cup {n + 1}
  BY <1>1, SMTT(30) DEF PushedBy, n
<1>3. ASSUME NEW p \in Producers \ {x[1]}
      PROVE  PushedBy(t, p) = PushedBy(s, p)
  <2>1. n + 1 \notin PushedBy(t, p)
    BY <1>1 DEF PushedBy
  <2>2. \A j \in 1 .. n : t[j][1] = s[j][1]
    BY <1>1
  <2>3. \A j : j \in 1 .. n + 1 <=> j \in 1 .. n \/ j = n + 1
    BY <1>1
  <2>4. QED
    BY <1>1, <2>1, <2>2, <2>3 DEF PushedBy, n
<1>4. IsFiniteSet(PushedBy(s, x[1])) /\ n + 1 \notin PushedBy(s, x[1])
  <2>1. IsFiniteSet(1 .. n)
    BY <1>1, FS_Interval
  <2>2. PushedBy(s, x[1]) \subseteq 1 .. n
    BY DEF PushedBy, n
  <2>3. QED
    BY <1>1, <2>1, <2>2, FS_Subset
<1>5. Cardinality(PushedBy(t, x[1])) = Cardinality(PushedBy(s, x[1])) + 1
  BY <1>2, <1>4, FS_AddElement
<1>6. Numbered(t)
  <2>1. SUFFICES ASSUME NEW i \in 1 .. n + 1
                 PROVE  t[i][2] = 1 + Cardinality({j \in 1 .. (i - 1) : t[j][1] = t[i][1]})
    BY <1>1 DEF Numbered
  <2>2. CASE i = n + 1
    <3>1. {j \in 1 .. (i - 1) : t[j][1] = t[i][1]} = PushedBy(s, x[1])
      BY <1>1, <2>2 DEF PushedBy, n
    <3>2. Cardinality(PushedBy(s, x[1])) \in Nat
      BY <1>4, FS_CardinalityType
    <3>3. t[i][2] = 1 + Cardinality(PushedBy(s, x[1]))
      BY <1>1, <2>2, <3>2
    <3>4. QED
      BY <3>1, <3>3
  <2>3. CASE i \in 1 .. n
    <3>0. t[i] = s[i] /\ \A j \in 1 .. (i - 1) : t[j] = s[j]
      BY <1>1, <2>3
    <3>1. {j \in 1 .. (i - 1) : t[j][1] = t[i][1]} = {j \in 1 .. (i - 1) : s[j][1] = s[i][1]}
      BY <3>0
    <3>2. s[i][2] = 1 + Cardinality({j \in 1 .. (i - 1) : s[j][1] = s[i][1]})
      BY <2>3 DEF Numbered, n
    <3>3. QED
      BY <1>1, <2>3, <3>1, <3>2
  <2>4. QED
    BY <1>1, <2>2, <2>3
<1>7. QED
  BY <1>1, <1>3, <1>5, <1>6 DEF t

\* What is put behind the second of two sequences is behind both, and the
\* head of the second may as well be the last of the first.
LEMMA BehindBoth ==
    ASSUME NEW S, NEW s \in Seq(S), NEW t \in Seq(S), NEW x \in S
    PROVE  s \o Append(t, x) = Append(s \o t, x)
<1>1. << x >> \in Seq(S) /\ s \o t \in Seq(S)
  OBVIOUS
<1>2. Append(t, x) = t \o << x >> /\ Append(s \o t, x) = (s \o t) \o << x >>
  BY <1>1, AppendIsConcat
<1>3. QED
  BY <1>1, <1>2, ConcatAssociative

LEMMA HeadMoves ==
    ASSUME NEW S, NEW s \in Seq(S), NEW t \in Seq(S), t # <<>>
    PROVE  Append(s, Head(t)) \o Tail(t) = s \o t
<1> DEFINE a == Append(s, Head(t))
           b == Tail(t)
<1>1. /\ a \in Seq(S) /\ Len(a) = Len(s) + 1 /\ a[Len(s) + 1] = t[1]
      /\ \A i \in 1 .. Len(s) : a[i] = s[i]
      /\ b \in Seq(S) /\ Len(b) = Len(t) - 1 /\ \A i \in 1 .. Len(b) : b[i] = t[i + 1]
      /\ Len(s) \in Nat /\ Len(t) \in Nat \ {0} /\ Head(t) \in S
  OBVIOUS
<1> HIDE DEF a, b
<1>2. /\ a \o b \in Seq(S) /\ Len(a \o b) = Len(a) + Len(b)
      /\ \A i \in 1 .. Len(a) + Len(b) : (a \o b)[i] = IF i <= Len(a) THEN a[i] ELSE b[i - Len(a)]
  BY <1>1, ConcatProperties
<1>3. /\ s \o t \in Seq(S) /\ Len(s \o t) = Len(s) + Len(t)
      /\ \A i \in 1 .. Len(s) + Len(t) : (s \o t)[i] = IF i <= Len(s) THEN s[i] ELSE t[i - Len(s)]
  BY ConcatProperties
<1>4. Len(a \o b) = Len(s \o t)
  BY <1>1, <1>2, <1>3
<1>5. ASSUME NEW i \in 1 .. Len(s) + Len(t)
      PROVE  (a \o b)[i] = (s \o t)[i]
  <2>1. CASE i <= Len(s)
    BY <1>1, <1>2, <1>3, <2>1
  <2>2. CASE i = Len(s) + 1
    BY <1>1, <1>2, <1>3, <2>2
  <2>3. CASE i > Len(s) + 1
    <3>1. i - Len(a) \in 1 .. Len(b) /\ (i - Len(a)) + 1 = i - Len(s)
      BY <1>1, <2>3
    <3>2. (a \o b)[i] = b[i - Len(a)] /\ (s \o t)[i] = t[i - Len(s)]
      BY <1>1, <1>2, <1>3, <2>3
    <3>3. QED
      BY <1>1, <3>1, <3>2
  <2>4. QED
    BY <1>1, <2>1, <2>2, <2>3
<1>6. a \o b = s \o t
  BY <1>2, <1>3, <1>4, <1>5, SeqEqual
<1>7. QED
  BY <1>6 DEF a, b

LEMMA PushKeeps ==
    ASSUME Cond!CondQueueAssumption, CondInv, NEW g \in Producers, Cond!Push(g)
    PROVE  CondInv'
<1>0. /\ items \in Seq(Producers \X Nat) /\ popped \in Seq(Producers \X Nat)
      /\ rounds \in [Producers \cup Consumers -> Nat]
      /\ Pushed \in Seq(Producers \X Nat) /\ Numbered(Pushed)
      /\ \A p \in Producers : rounds[p] = Cardinality(PushedBy(Pushed, p))
  BY DEF CondInv, Pushed
<1>1. CASE UNCHANGED <<items, rounds, popped>>
  <2>1. Pushed' = Pushed
    BY <1>1 DEF Pushed
  <2>2. QED
    BY <1>0, <1>1, <2>1 DEF CondInv
<1>2. CASE /\ items' = Append(items, <<g, rounds[g] + 1>>) /\ popped' = popped
           /\ rounds' = [rounds EXCEPT ![g] = @ + 1]
  <2>1. PICK x : x = <<g, rounds[g] + 1>>
    OBVIOUS
  <2>2. x \in Producers \X Nat /\ x[1] = g /\ x[2] = Cardinality(PushedBy(Pushed, x[1])) + 1
    BY <1>0, <2>1
  <2>3. items' \in Seq(Producers \X Nat) /\ Pushed' = Append(Pushed, x)
    <3>1. items' = Append(items, x) /\ popped' = popped
      BY <1>2, <2>1
    <3>2. popped \o Append(items, x) = Append(popped \o items, x)
      BY <1>0, <2>2, BehindBoth, SMTT(30)
    <3>3. Pushed' = Append(Pushed, x)
      BY <3>1, <3>2 DEF Pushed
    <3>4. Append(items, x) \in Seq(Producers \X Nat)
      BY <1>0, <2>2
    <3>5. QED
      BY <3>1, <3>3, <3>4
  <2>4. /\ Numbered(Pushed')
        /\ Cardinality(PushedBy(Pushed', g)) = rounds[g] + 1
        /\ \A p \in Producers \ {g} : PushedBy(Pushed', p) = PushedBy(Pushed, p)
    BY <1>0, <2>2, <2>3, PushesOne
  <2>5. /\ rounds' \in [Producers \cup Consumers -> Nat]
        /\ \A p \in Producers : rounds'[p] = Cardinality(PushedBy(Pushed', p))
    BY <1>0, <1>2, <2>4
  <2>6. QED
    BY <1>0, <1>2, <2>3, <2>4, <2>5 DEF CondInv
<1>3. QED
  BY <1>1, <1>2 DEF Cond!Push, Cond!Sleep, Cond!Broadcast

\* What is taken from the one end is put at the other.
LEMMA PopKeeps ==
    ASSUME Cond!CondQueueAssumption, CondInv, NEW g \in Consumers, Cond!Pop(g)
    PROVE  CondInv'
<1>0. /\ items \in Seq(Producers \X Nat) /\ popped \in Seq(Producers \X Nat)
      /\ rounds \in [Producers \cup Consumers -> Nat] /\ g \notin Producers
  BY DEF CondInv, Cond!CondQueueAssumption
<1>1. CASE UNCHANGED <<items, rounds, popped>>
  <2>1. Pushed' = Pushed
    BY <1>1 DEF Pushed
  <2>2. QED
    BY <1>0, <1>1, <2>1 DEF CondInv
<1>2. CASE /\ items # <<>> /\ items' = Tail(items) /\ popped' = Append(popped, Head(items))
           /\ rounds' = [rounds EXCEPT ![g] = @ + 1]
  <2>1. items' \in Seq(Producers \X Nat) /\ popped' \in Seq(Producers \X Nat)
    BY <1>0, <1>2
  <2>2. Pushed' = Pushed
    BY <1>0, <1>2, HeadMoves DEF Pushed
  <2>3. /\ rounds' \in [Producers \cup Consumers -> Nat]
        /\ \A p \in Producers : rounds'[p] = rounds[p]
    BY <1>0, <1>2
  <2>4. QED
    BY <2>1, <2>2, <2>3 DEF CondInv
<1>3. QED
  BY <1>1, <1>2 DEF Cond!Pop, Cond!Sleep, Cond!Broadcast

LEMMA CondStep ==
    ASSUME Cond!CondQueueAssumption, CondInv, [Cond!Next]_(Cond!vars)
    PROVE  CondInv'
<1>1. ASSUME NEW g \in Producers \cup Consumers, Cond!Push(g) \/ Cond!Pop(g)
      PROVE  CondInv'
  <2>1. (Cond!Push(g) => g \in Producers) /\ (Cond!Pop(g) => g \in Consumers)
    BY DEF Cond!Push, Cond!Pop
  <2>2. QED
    BY <1>1, <2>1, PushKeeps, PopKeeps
<1>2. CASE UNCHANGED Cond!vars
  BY <1>2 DEF Cond!vars, CondInv, Pushed
<1>3. QED
  BY <1>1, <1>2 DEF Cond!Next, Cond!Everyone

(***************************************************************************)
(* However many producers and consumers share the queue, and whatever its   *)
(* capacity: what comes out is each producer's items, once each and in the  *)
(* order it pushed them (lesson 52).                                        *)
(***************************************************************************)
THEOREM QueueKeepsOrder == ProgramsSpec => [](program = "cond" => Cond!FirstInFirstOut)
<1>1. Cond!CondQueueAssumption
  BY ProgramsAssumption
<1>2. ProgramsInit => (program = "cond" => CondInv)
  BY ProgramsBegin, CondInit
<1>3. (program = "cond" => CondInv) /\ [ProgramsNext]_everything => (program = "cond" => CondInv)'
  BY <1>1, ProgramsMove, CondStep
<1>4. CondInv => Cond!FirstInFirstOut
  BY DEF CondInv, Numbered, Pushed, Cond!FirstInFirstOut, Cond!Cardinality, Cardinality
<1>5. QED
  BY <1>2, <1>3, <1>4, PTL DEF ProgramsSpec

-----------------------------------------------------------------------------
(* Fan-out: PeakIsTrue and FirstErrorIsTheCause                              *)

FanStages == {"none", "start", "waits", "in", "load", "store", "work", "leave",
              "loads", "shares", "done"}
FanTyped ==
    /\ demo \in Fan!Demos /\ step \in [Tasks -> FanStages]
    /\ held \subseteq Tasks /\ running \in Nat /\ peak \in Nat /\ most \in Nat
    /\ cur \in [Tasks -> Nat] /\ old \in [Tasks -> Nat]

\* Only the two demos that count have tasks in a bounded part.
Bounded == {"in", "load", "store", "work", "leave"}
Uncounted == demo \notin Fan!Counting => \A t \in Tasks : step[t] \notin Bounded

\* The error that is kept is of a task that has failed, and a task ends once.
CauseKept ==
    /\ err # {} => demo = "errgroup"
    /\ fate \in [Tasks -> {"none", "ok", "failed", "cancelled", "left"}]
    /\ \A t \in err : t \in Tasks /\ step[t] = "done" /\ fate[t] = "failed"

\* What tasks take of the limit or of the semaphore, and how much there is.
Share == [t \in Tasks |-> IF demo = "semaphore" THEN IF t \in Heavy THEN 2 ELSE 1 ELSE 1]
Using(S) == SumFunctionOnSet(Share, S)
Room == IF demo = "limit" THEN Limit ELSE Units

\* Who is counted holds what it takes, and not more is held than there is; so
\* the count and its peaks are at most that.  With compare-and-swap a task that
\* is about to store has seen a lower peak, and who has seen the highest count
\* will store it unless it is stored.
Inwards == IF demo = "limit" THEN "start" ELSE "in"
CountedNow == {t \in Tasks : step[t] \in {"load", "store", "work"}}
Peaks ==
    /\ held = {t \in Tasks : step[t] \in {Inwards, "load", "store", "work", "leave"}}
    /\ running = Using(CountedNow) /\ Using(held) <= Room
    /\ peak <= most /\ most <= Room
    /\ \A t \in Tasks : cur[t] <= most
    /\ demo = "limit" =>
        /\ \A t \in Tasks : step[t] = "store" => old[t] < cur[t]
        /\ most <= peak \/ \E t \in Tasks : step[t] \in {"load", "store"} /\ cur[t] = most

FanInv ==
    /\ FanTyped /\ Uncounted /\ CauseKept
    /\ demo \in Fan!Counting => Peaks

\* The instance's sums are sums.
LEMMA FanSums ==
    ASSUME NEW S
    PROVE  Fan!Used(S) = Using(S) /\ Fan!Weight = Share
<1>1. Fan!Weight = Share
  BY DEF Fan!Weight, Share
<1>2. Fan!SumFunctionOnSet(Share, S) = Summation(Share, S)[S]
  BY DEF Fan!SumFunctionOnSet, Fan!FoldFunctionOnSet, Fan!MapThenFoldSet, IsSummation, Pick, Summation
<1>3. SumFunctionOnSet(Share, S) = Summation(Share, S)[S]
  BY SumUnfolds
<1>4. QED
  BY <1>1, <1>2, <1>3 DEF Fan!Used, Using

LEMMA FanFacts ==
    ASSUME Fan!FanoutAssumption
    PROVE  /\ IsFiniteSet(Tasks) /\ Limit \in Nat /\ Units \in Nat /\ Room \in Nat
           /\ \A t \in Tasks : Share[t] \in Nat
           /\ Using({}) = 0
           /\ \A S \in SUBSET Tasks :
                /\ IsFiniteSet(S) /\ Using(S) \in Nat
                /\ \A R \in SUBSET S : Using(R) <= Using(S)
                /\ \A t \in Tasks \ S : Using(S \cup {t}) = Using(S) + Share[t]
                /\ \A t \in S : Using(S) = Using(S \ {t}) + Share[t]
                /\ demo = "limit" => Using(S) = Fan!Cardinality(S)
<1>1. Fan!IsFiniteSet(Tasks) => IsFiniteSet(Tasks)
  BY DEF Fan!IsFiniteSet, IsFiniteSet
<1>2. IsFiniteSet(Tasks) /\ Limit \in Nat /\ Units \in Nat /\ Room \in Nat
  BY <1>1 DEF Fan!FanoutAssumption, Room
<1>3. \A t \in Tasks : Share[t] \in Nat /\ Share[t] \in Int
  BY DEF Share
<1>4. Using({}) = 0
  BY SumEmpty DEF Using
<1>5. ASSUME NEW S \in SUBSET Tasks
      PROVE  /\ IsFiniteSet(S) /\ Using(S) \in Nat
             /\ \A R \in SUBSET S : Using(R) <= Using(S)
             /\ \A t \in Tasks \ S : Using(S \cup {t}) = Using(S) + Share[t]
             /\ \A t \in S : Using(S) = Using(S \ {t}) + Share[t]
             /\ demo = "limit" => Using(S) = Fan!Cardinality(S)
  <2>1. IsFiniteSet(S)
    BY <1>2, FS_Subset
  <2>2. Using(S) \in Nat
    BY <1>3, <2>1, SumNat DEF Using
  <2>3. \A R \in SUBSET S : Using(R) <= Using(S)
    BY <1>3, <2>1, SumSubset DEF Using
  <2>4. ASSUME NEW t \in Tasks \ S
        PROVE  Using(S \cup {t}) = Using(S) + Share[t]
    <3>1. Using(S \cup {t}) = Share[t] + Using(S)
      BY <1>3, <2>1, SumInsert DEF Using
    <3>2. QED
      BY <1>3, <2>2, <3>1
  <2>5. ASSUME NEW t \in S
        PROVE  Using(S) = Using(S \ {t}) + Share[t]
    <3>1. IsFiniteSet(S \ {t}) /\ S \ {t} \subseteq Tasks
      BY <2>1, FS_Subset
    <3>2. Using(S \ {t}) \in Nat
      BY <1>3, <3>1, SumNat DEF Using
    <3>3. Using(S) = Share[t] + Using(S \ {t})
      BY <1>3, <2>1, SumRemove DEF Using
    <3>4. QED
      BY <1>3, <3>2, <3>3
  <2>6. ASSUME demo = "limit"
        PROVE  Using(S) = Fan!Cardinality(S)
    <3>1. \A t \in S : Share[t] = 1
      BY <2>6 DEF Share
    <3>2. Using(S) = Cardinality(S)
      BY <2>1, <3>1, SumOnes DEF Using
    <3>3. QED
      BY <3>2 DEF Fan!Cardinality, Cardinality
  <2>7. QED
    BY <2>1, <2>2, <2>3, <2>4, <2>5, <2>6
<1>6. QED
  BY <1>2, <1>3, <1>4, <1>5

LEMMA FanInit ==
    ASSUME Fan!FanoutAssumption, Fan!Init
    PROVE  FanInv
<1>0. /\ demo \in Fan!Demos /\ step = [t \in Tasks |-> "none"]
      /\ err = {} /\ fate = [t \in Tasks |-> "none"]
      /\ running = 0 /\ held = {}
      /\ cur = [t \in Tasks |-> 0] /\ old = [t \in Tasks |-> 0]
      /\ peak = 0 /\ most = 0
  BY DEF Fan!Init
<1>1. FanTyped /\ Uncounted /\ CauseKept
  BY <1>0 DEF FanTyped, FanStages, Uncounted, Bounded, CauseKept
<1>2. CountedNow = {} /\ {t \in Tasks : step[t] \in {Inwards, "load", "store", "work", "leave"}} = {}
  BY <1>0 DEF CountedNow, Inwards
<1>3. Peaks
  BY <1>0, <1>2, FanFacts DEF Peaks
<1>4. QED
  BY <1>1, <1>3 DEF FanInv

\* One task goes on.
LEMMA TaskGoes ==
    ASSUME FanTyped, NEW t \in Tasks, NEW from, NEW to \in FanStages, Fan!Goes(t, from, to)
    PROVE  /\ step' \in [Tasks -> FanStages] /\ step[t] = from /\ step'[t] = to
           /\ \A u \in Tasks : u # t => step'[u] = step[u]
           /\ CountedNow' = IF to \in {"load", "store", "work"} THEN CountedNow \cup {t}
                            ELSE CountedNow \ {t}
           /\ t \in CountedNow <=> from \in {"load", "store", "work"}
           /\ CountedNow \subseteq Tasks
<1>1. /\ step' \in [Tasks -> FanStages] /\ step[t] = from /\ step'[t] = to
      /\ \A u \in Tasks : u # t => step'[u] = step[u]
  BY DEF FanTyped, Fan!Goes
<1>2. QED
  BY <1>1 DEF CountedNow

\* The first error stays the one that is kept.
LEMMA CauseStays ==
    ASSUME FanInv, NEW t \in Tasks, Fan!Spawn(t) \/ Fan!Run(t) \/ Fan!GiveUp(t)
    PROVE  CauseKept'
<1>0. FanTyped /\ CauseKept /\ demo' = demo
  BY DEF FanInv, Fan!Spawn, Fan!Run, Fan!GiveUp, Fan!Finish, Fan!Acquire, Fan!Enter, Fan!LoadPeak,
        Fan!StorePeak, Fan!Leave, Fan!Release, Fan!Do, Fan!Loaded, Fan!Send
<1>1. CASE Fan!Finish(t)
  <2>1. PICK end \in {"ok", "failed", "cancelled"} :
            /\ end = "cancelled" => err # {}
            /\ fate' = [fate EXCEPT ![t] = end]
            /\ err' = IF end # "ok" /\ err = {} THEN {t} ELSE err
    BY <1>1 DEF Fan!Finish, Fan!Ends
  <2>2. demo = "errgroup" /\ Fan!Goes(t, "start", "done")
    BY <1>1 DEF Fan!Finish
  <2>3. /\ step[t] = "start" /\ step'[t] = "done"
        /\ \A u \in Tasks : u # t => step'[u] = step[u]
    BY <1>0, <2>2, TaskGoes DEF FanStages
  <2>4. t \notin err
    BY <1>0, <2>3 DEF CauseKept
  <2>5. QED
    BY <1>0, <2>1, <2>2, <2>3, <2>4 DEF CauseKept
<1>2. CASE ~Fan!Finish(t)
  <2>1. err' = err
    BY <1>2 DEF Fan!Spawn, Fan!Run, Fan!GiveUp, Fan!Acquire, Fan!Enter, Fan!LoadPeak,
        Fan!StorePeak, Fan!Leave, Fan!Release, Fan!Do, Fan!Loaded, Fan!Send
  <2>2. fate' \in [Tasks -> {"none", "ok", "failed", "cancelled", "left"}]
    BY <1>0, <1>2 DEF CauseKept, Fan!Spawn, Fan!Run, Fan!GiveUp, Fan!Acquire, Fan!Enter, Fan!LoadPeak,
        Fan!StorePeak, Fan!Leave, Fan!Release, Fan!Do, Fan!Loaded, Fan!Send, Fan!Ends
  <2>3. ASSUME NEW u \in err
        PROVE  step'[u] = "done" /\ fate'[u] = "failed"
    <3>1. u \in Tasks /\ step[u] = "done" /\ fate[u] = "failed" /\ demo = "errgroup"
      BY <1>0, <2>3 DEF CauseKept
    <3>2. ~Fan!Loaded(t) /\ ~Fan!Send(t) /\ ~Fan!GiveUp(t)
      BY <3>1 DEF Fan!Loaded, Fan!Send, Fan!GiveUp, Fan!CallDemos
    <3>3. PICK from, to : Fan!Goes(t, from, to) /\ from # "done"
      BY <1>2, <3>2 DEF Fan!Spawn, Fan!Run, Fan!Acquire, Fan!Enter, Fan!LoadPeak,
            Fan!StorePeak, Fan!Leave, Fan!Release, Fan!Do
    <3>4. u # t /\ step'[u] = step[u]
      BY <1>0, <3>1, <3>3 DEF Fan!Goes, FanTyped
    <3>5. fate' = fate \/ fate' = [fate EXCEPT ![t] = "ok"]
      BY <1>2, <3>2 DEF Fan!Spawn, Fan!Run, Fan!Acquire, Fan!Enter, Fan!LoadPeak,
            Fan!StorePeak, Fan!Leave, Fan!Release, Fan!Do, Fan!Ends
    <3>6. QED
      BY <1>0, <3>1, <3>4, <3>5 DEF CauseKept
  <2>4. QED
    BY <1>0, <2>1, <2>2, <2>3 DEF CauseKept
<1>3. QED
  BY <1>1, <1>2

\* The demos that count nothing.
LEMMA UncountedKeeps ==
    ASSUME FanInv, NEW t \in Tasks, demo \notin Fan!Counting,
           Fan!Spawn(t) \/ Fan!Run(t) \/ Fan!GiveUp(t)
    PROVE  FanInv'
<1>0. /\ FanTyped /\ Uncounted /\ step[t] \notin Bounded
      /\ demo # "limit" /\ demo # "semaphore"
  BY DEF FanInv, Uncounted, Fan!Counting
<1>1. \/ Fan!Goes(t, "none", "start") \/ Fan!Goes(t, "start", "done")
      \/ Fan!Goes(t, "start", "loads") \/ Fan!Goes(t, "start", "shares")
      \/ step' = [u \in Tasks |-> IF u \in flight THEN "done" ELSE step[u]]
      \/ step' = step
  BY <1>0 DEF Fan!Spawn, Fan!Run, Fan!GiveUp, Fan!Finish, Fan!Acquire, Fan!Enter, Fan!LoadPeak,
        Fan!StorePeak, Fan!Leave, Fan!Release, Fan!Do, Fan!Loaded, Fan!Send, Fan!Goes, Bounded
<1>2. /\ demo' = demo /\ UNCHANGED <<running, peak, most, cur, old>> /\ held' = held
  BY <1>0 DEF Fan!Spawn, Fan!Run, Fan!GiveUp, Fan!Finish, Fan!Acquire, Fan!Enter, Fan!LoadPeak,
        Fan!StorePeak, Fan!Leave, Fan!Release, Fan!Do, Fan!Loaded, Fan!Send, Fan!Goes, Bounded
<1>3. /\ step' \in [Tasks -> FanStages]
      /\ \A u \in Tasks : step'[u] \notin Bounded
  BY <1>0, <1>1 DEF FanTyped, FanStages, Bounded, Fan!Goes, Uncounted, Fan!Counting
<1>4. FanTyped' /\ Uncounted'
  BY <1>0, <1>2, <1>3 DEF FanTyped, Uncounted
<1>5. CauseKept'
  BY CauseStays
<1>6. QED
  BY <1>0, <1>2, <1>4, <1>5 DEF FanInv, Fan!Counting

\* The instance's maximum of two numbers.
LEMMA MaxOfTwo ==
    ASSUME NEW a \in Nat, NEW b \in Nat
    PROVE  Fan!Max({a, b}) = IF a >= b THEN a ELSE b
<1>1. \A x \in {a, b} : (\A y \in {a, b} : x >= y) => x = IF a >= b THEN a ELSE b
  OBVIOUS
<1>2. (IF a >= b THEN a ELSE b) \in {a, b} /\ \A y \in {a, b} : (IF a >= b THEN a ELSE b) >= y
  OBVIOUS
<1>3. QED
  BY <1>1, <1>2 DEF Fan!Max

\* What a step of a counting demo has to show.
LEMMA PeaksNow ==
    ASSUME FanInv, NEW t \in Tasks, Fan!Spawn(t) \/ Fan!Run(t) \/ Fan!GiveUp(t),
           demo \in {"limit", "semaphore"}, demo' = demo,
           step' \in [Tasks -> FanStages], held' \subseteq Tasks,
           running' \in Nat, peak' \in Nat, most' \in Nat,
           cur' \in [Tasks -> Nat], old' \in [Tasks -> Nat],
           held' = {u \in Tasks : step'[u] \in {Inwards, "load", "store", "work", "leave"}},
           running' = Using(CountedNow'), Using(held') <= Room,
           peak' <= most', most' <= Room, \A u \in Tasks : cur'[u] <= most',
           demo = "limit" =>
              /\ \A u \in Tasks : step'[u] = "store" => old'[u] < cur'[u]
              /\ most' <= peak' \/ \E u \in Tasks : step'[u] \in {"load", "store"} /\ cur'[u] = most'
    PROVE  FanInv'
<1>1. Share' = Share /\ Room' = Room /\ Inwards' = Inwards
  BY DEF Share, Room, Inwards
<1>2. Peaks'
  BY <1>1 DEF Peaks, Using
<1>3. CauseKept'
  BY CauseStays
<1>4. FanTyped'
  BY DEF FanInv, FanTyped
<1>5. Uncounted'
  BY DEF Uncounted, Fan!Counting
<1>6. QED
  BY <1>2, <1>3, <1>4, <1>5 DEF FanInv

\* What the steps below know.
LEMMA PeaksKnown ==
    ASSUME FanInv, demo \in {"limit", "semaphore"}
    PROVE  /\ FanTyped /\ Peaks
           /\ held \subseteq Tasks /\ running \in Nat /\ peak \in Nat /\ most \in Nat
           /\ step \in [Tasks -> FanStages]
           /\ cur \in [Tasks -> Nat] /\ old \in [Tasks -> Nat]
           /\ Inwards \in {"start", "in"}
           /\ CountedNow \subseteq held /\ CountedNow \subseteq Tasks
           /\ \A s \in {"none", "start", "waits", "in", "load", "store", "work", "leave", "done"} :
                s \in FanStages
<1>1. FanTyped /\ Peaks
  BY DEF FanInv, Fan!Counting
<1>2. QED
  BY <1>1 DEF FanTyped, Peaks, Inwards, CountedNow, FanStages

LEMMA FanSpawnKeeps ==
    ASSUME Fan!FanoutAssumption, FanInv, NEW t \in Tasks, Fan!Spawn(t),
           demo \in {"limit", "semaphore"}
    PROVE  FanInv'
<1>0. /\ FanTyped /\ Peaks
      /\ Fan!Goes(t, "none", "start") /\ demo' = demo
      /\ UNCHANGED <<running, peak, most, cur, old>>
      /\ CountedNow' = CountedNow
  <2>1. FanTyped /\ Peaks /\ Fan!Goes(t, "none", "start") /\ "start" \in FanStages
    BY PeaksKnown DEF Fan!Spawn
  <2>2. CountedNow' = CountedNow
    BY <2>1, TaskGoes
  <2>3. QED
    BY <2>1, <2>2 DEF Fan!Spawn
<1>1. /\ step' \in [Tasks -> FanStages] /\ step[t] = "none" /\ step'[t] = "start"
      /\ \A u \in Tasks : u # t => step'[u] = step[u]
  BY <1>0, TaskGoes DEF FanStages
<1>2. /\ held' = {u \in Tasks : step'[u] \in {Inwards, "load", "store", "work", "leave"}}
      /\ held' \subseteq Tasks /\ Using(held') <= Room
  <2>1. CASE demo = "limit"
    <3>1. Fan!Cardinality(held) < Limit /\ held' = held \cup {t} /\ Inwards = "start" /\ Room = Limit
      BY <2>1 DEF Fan!Spawn, Inwards, Room
    <3>2. t \notin held /\ held \subseteq Tasks
      BY <1>0, <1>1, <3>1, PeaksKnown DEF Peaks
    <3>3. Using(held') = Using(held) + Share[t] /\ Using(held) = Fan!Cardinality(held)
          /\ Using(held) \in Nat /\ Limit \in Nat
      BY <2>1, <3>1, <3>2, FanFacts
    <3>4. Share[t] = 1
      BY <2>1 DEF Share
    <3>5. Using(held') <= Room
      BY <3>1, <3>3, <3>4
    <3>6. QED
      BY <1>0, <1>1, <3>1, <3>2, <3>5 DEF Peaks
  <2>2. CASE demo = "semaphore"
    <3>1. held' = held /\ Inwards = "in"
      BY <2>2 DEF Fan!Spawn, Inwards
    <3>2. QED
      BY <1>0, <1>1, <3>1, PeaksKnown DEF Peaks
  <2>3. QED
    BY <2>1, <2>2
<1>3. QED
  BY <1>0, <1>1, <1>2, PeaksNow, PeaksKnown DEF Peaks

LEMMA FanAcquireKeeps ==
    ASSUME Fan!FanoutAssumption, FanInv, NEW t \in Tasks, Fan!Acquire(t)
    PROVE  FanInv'
<1>a. demo = "semaphore" /\ Inwards = "in" /\ Room = Units
  BY DEF Fan!Acquire, Inwards, Room
<1>b. Share[t] = [u \in Tasks |-> IF u \in Heavy THEN 2 ELSE 1][t]
  BY <1>a DEF Share
<1>c. Fan!Used(held) = Using(held)
  BY FanSums
<1>0. /\ FanTyped /\ Peaks /\ demo' = demo
      /\ UNCHANGED <<running, peak, most, cur, old>>
  BY <1>a, PeaksKnown DEF Fan!Acquire
<1>1. PICK from \in {"start", "waits"}, to \in {"in", "waits"} :
        /\ Fan!Goes(t, from, to)
        /\ \/ to = "waits" /\ held' = held
           \/ to = "in" /\ held' = held \cup {t} /\ Using(held) + Share[t] <= Units
  BY <1>b, <1>c DEF Fan!Acquire
<1>2. /\ step' \in [Tasks -> FanStages] /\ step[t] = from /\ step'[t] = to
      /\ \A u \in Tasks : u # t => step'[u] = step[u]
      /\ CountedNow' = CountedNow
  <2>1. to \in FanStages
    BY DEF FanStages
  <2>2. /\ step' \in [Tasks -> FanStages] /\ step[t] = from /\ step'[t] = to
        /\ \A u \in Tasks : u # t => step'[u] = step[u]
        /\ CountedNow' = CountedNow \ {t} /\ t \notin CountedNow
    BY <1>0, <1>1, <2>1, TaskGoes
  <2>3. QED
    BY <2>2
<1>3. t \notin held /\ held \subseteq Tasks
  BY <1>a, <1>0, <1>2, PeaksKnown DEF Peaks
<1>4. Using(held') <= Room
  <2>1. Using(held \cup {t}) = Using(held) + Share[t]
    BY <1>3, FanFacts
  <2>2. QED
    BY <1>a, <1>0, <1>1, <2>1 DEF Peaks
<1>5. held' = {u \in Tasks : step'[u] \in {Inwards, "load", "store", "work", "leave"}}
  BY <1>a, <1>0, <1>1, <1>2, <1>3 DEF Peaks
<1>6. Fan!Run(t) /\ held' \subseteq Tasks
  BY <1>1, <1>3 DEF Fan!Run
<1>7. QED
  BY <1>a, <1>0, <1>2, <1>4, <1>5, <1>6, PeaksNow, PeaksKnown DEF Peaks

LEMMA FanEnterKeeps ==
    ASSUME Fan!FanoutAssumption, FanInv, NEW t \in Tasks, Fan!Enter(t)
    PROVE  FanInv'
<1>a. demo \in {"limit", "semaphore"}
  BY DEF Fan!Enter, Fan!Counting
<1>b. Fan!Weight[t] = Share[t] /\ Share[t] \in Nat
  BY FanSums, FanFacts
<1>0. /\ FanTyped /\ Peaks /\ demo' = demo /\ held' = held
      /\ UNCHANGED <<peak, old>>
      /\ Fan!Goes(t, Inwards, "load") /\ "load" \in FanStages
  BY <1>a, PeaksKnown DEF Fan!Enter, Inwards
<1>1. /\ step' \in [Tasks -> FanStages] /\ step[t] = Inwards /\ step'[t] = "load"
      /\ \A u \in Tasks : u # t => step'[u] = step[u]
      /\ CountedNow' = CountedNow \cup {t} /\ t \notin CountedNow
  <2>1. Inwards \notin {"load", "store", "work"}
    BY DEF Inwards
  <2>2. QED
    BY <1>0, <2>1, TaskGoes
<1>2. /\ running' = running + Share[t] /\ cur' = [cur EXCEPT ![t] = running']
      /\ most' = Fan!Max({most, running'})
  BY <1>b DEF Fan!Enter
<1>3. /\ running' = Using(CountedNow') /\ running' \in Nat
      /\ running' <= Room
  <2>1. CountedNow \subseteq Tasks /\ CountedNow' \subseteq held /\ held \subseteq Tasks
    BY <1>a, <1>0, <1>1, PeaksKnown DEF Peaks
  <2>2. Using(CountedNow') = Using(CountedNow) + Share[t]
    BY <1>1, <2>1, FanFacts
  <2>3. Using(CountedNow') <= Using(held) /\ Using(held) <= Room
    BY <1>0, <2>1, FanFacts DEF Peaks
  <2>4. Using(CountedNow') \in Nat /\ Using(held) \in Nat /\ Room \in Nat
    BY <2>1, FanFacts
  <2>5. running' = Using(CountedNow')
    BY <1>0, <1>2, <2>2 DEF Peaks
  <2>6. QED
    BY <2>3, <2>4, <2>5
<1>4. most \in Nat /\ most' = IF most >= running' THEN most ELSE running'
  BY <1>a, <1>2, <1>3, MaxOfTwo, PeaksKnown
<1>5. /\ most' \in Nat /\ most' >= most /\ most' >= running' /\ most' <= Room
      /\ most' = most \/ most' = running'
  BY <1>0, <1>3, <1>4 DEF Peaks
<1>6. /\ cur' \in [Tasks -> Nat] /\ cur'[t] = running'
      /\ \A u \in Tasks : u # t => cur'[u] = cur[u]
  BY <1>a, <1>2, <1>3, PeaksKnown
<1>7. \A u \in Tasks : cur'[u] <= most'
  <2>1. ASSUME NEW u \in Tasks
        PROVE  cur'[u] <= most'
    <3>1. cur[u] <= most /\ cur[u] \in Nat
      BY <1>a, <1>0, PeaksKnown DEF Peaks
    <3>2. QED
      BY <1>3, <1>4, <1>5, <1>6, <3>1
  <2>2. QED
    BY <2>1
<1>8. held' = {u \in Tasks : step'[u] \in {Inwards, "load", "store", "work", "leave"}}
  BY <1>0, <1>1 DEF Peaks
<1>9. ASSUME demo = "limit"
      PROVE  /\ \A u \in Tasks : step'[u] = "store" => old'[u] < cur'[u]
             /\ most' <= peak' \/ \E u \in Tasks : step'[u] \in {"load", "store"} /\ cur'[u] = most'
  <2>1. \A u \in Tasks : step'[u] = "store" => u # t /\ step[u] = "store"
    BY <1>1
  <2>2. \A u \in Tasks : step'[u] = "store" => old'[u] < cur'[u]
    BY <1>0, <1>6, <1>9, <2>1 DEF Peaks
  <2>3. CASE most' = running'
    BY <1>1, <1>6, <2>2, <2>3
  <2>4. CASE most' = most /\ most <= peak
    BY <1>0, <2>2, <2>4
  <2>5. CASE most' = most /\ \E u \in Tasks : step[u] \in {"load", "store"} /\ cur[u] = most
    <3>1. PICK u \in Tasks : step[u] \in {"load", "store"} /\ cur[u] = most
      BY <2>5
    <3>2. u # t
      BY <1>1, <3>1 DEF Inwards
    <3>3. QED
      BY <1>1, <1>6, <2>2, <2>5, <3>1, <3>2
  <2>6. QED
    BY <1>0, <1>5, <1>9, <2>3, <2>4, <2>5 DEF Peaks
<1>10. Fan!Run(t)
  BY DEF Fan!Run
<1>11. Using(held') <= Room /\ peak' <= most'
  <2>1. peak \in Nat /\ peak <= most
    BY <1>a, <1>0, PeaksKnown DEF Peaks
  <2>2. QED
    BY <1>0, <1>4, <1>5, <2>1 DEF Peaks
<1>12. held' \subseteq Tasks /\ peak' \in Nat /\ old' \in [Tasks -> Nat]
  BY <1>a, <1>0, PeaksKnown
<1>13. QED
  BY <1>a, <1>0, <1>1, <1>3, <1>5, <1>6, <1>7, <1>8, <1>9, <1>10, <1>11, <1>12, PeaksNow

LEMMA FanLoadKeeps ==
    ASSUME Fan!FanoutAssumption, FanInv, NEW t \in Tasks, Fan!LoadPeak(t),
           demo \in {"limit", "semaphore"}
    PROVE  FanInv'
<1> DEFINE to == IF cur[t] <= peak THEN "work" ELSE "store"
<1>0. /\ FanTyped /\ Peaks /\ demo' = demo /\ held' = held
      /\ UNCHANGED <<peak, most, running, cur>>
      /\ Fan!Goes(t, "load", to) /\ to \in FanStages
      /\ old' = [old EXCEPT ![t] = peak]
  BY PeaksKnown DEF Fan!LoadPeak
<1>1. /\ step' \in [Tasks -> FanStages] /\ step[t] = "load" /\ step'[t] = to
      /\ \A u \in Tasks : u # t => step'[u] = step[u]
      /\ CountedNow' = CountedNow
  <2>1. /\ step' \in [Tasks -> FanStages] /\ step[t] = "load" /\ step'[t] = to
        /\ \A u \in Tasks : u # t => step'[u] = step[u]
        /\ CountedNow' = CountedNow \cup {t} /\ t \in CountedNow
    BY <1>0, TaskGoes
  <2>2. QED
    BY <2>1
<1>2. /\ old' \in [Tasks -> Nat] /\ old'[t] = peak
      /\ \A u \in Tasks : u # t => old'[u] = old[u]
  BY <1>0, PeaksKnown
<1>3. held' = {u \in Tasks : step'[u] \in {Inwards, "load", "store", "work", "leave"}}
  BY <1>0, <1>1 DEF Peaks
<1>4. ASSUME demo = "limit"
      PROVE  /\ \A u \in Tasks : step'[u] = "store" => old'[u] < cur'[u]
             /\ most' <= peak' \/ \E u \in Tasks : step'[u] \in {"load", "store"} /\ cur'[u] = most'
  <2>0. cur[t] \in Nat /\ peak \in Nat /\ most \in Nat
    BY PeaksKnown
  <2>1. ASSUME NEW u \in Tasks, step'[u] = "store"
        PROVE  old'[u] < cur'[u]
    <3>1. CASE u = t
      BY <1>0, <1>1, <1>2, <2>0, <2>1, <3>1
    <3>2. CASE u # t
      BY <1>0, <1>1, <1>2, <1>4, <2>1, <3>2 DEF Peaks
    <3>3. QED
      BY <3>1, <3>2
  <2>2. CASE most <= peak
    BY <1>0, <2>1, <2>2
  <2>3. CASE \E u \in Tasks : step[u] \in {"load", "store"} /\ cur[u] = most
    <3>1. PICK u \in Tasks : step[u] \in {"load", "store"} /\ cur[u] = most
      BY <2>3
    <3>2. CASE u = t
      <4>1. CASE cur[t] <= peak
        BY <1>0, <2>1, <3>1, <3>2, <4>1
      <4>2. CASE ~(cur[t] <= peak)
        BY <1>0, <1>1, <2>1, <3>1, <3>2, <4>2
      <4>3. QED
        BY <4>1, <4>2
    <3>3. CASE u # t
      BY <1>0, <1>1, <2>1, <3>1, <3>3
    <3>4. QED
      BY <3>2, <3>3
  <2>4. QED
    BY <1>0, <1>4, <2>2, <2>3 DEF Peaks
<1>5. Fan!Run(t)
  BY DEF Fan!Run
<1>6. QED
  BY <1>0, <1>1, <1>2, <1>3, <1>4, <1>5, PeaksNow, PeaksKnown DEF Peaks

LEMMA FanStoreKeeps ==
    ASSUME Fan!FanoutAssumption, FanInv, NEW t \in Tasks, Fan!StorePeak(t),
           demo \in {"limit", "semaphore"}
    PROVE  FanInv'
<1>0. /\ FanTyped /\ Peaks /\ demo' = demo /\ held' = held
      /\ UNCHANGED <<most, running, cur>> /\ old' = old
  BY PeaksKnown DEF Fan!StorePeak
<1>1. PICK to \in {"load", "work"} :
        /\ Fan!Goes(t, "store", to)
        /\ to = "load" => demo = "limit" /\ peak' = peak
        /\ to = "work" => peak' = cur[t] /\ (demo = "limit" => peak = old[t])
  BY DEF Fan!StorePeak
<1>2. /\ step' \in [Tasks -> FanStages] /\ step[t] = "store" /\ step'[t] = to
      /\ \A u \in Tasks : u # t => step'[u] = step[u]
      /\ CountedNow' = CountedNow
  <2>1. to \in FanStages
    BY DEF FanStages
  <2>2. /\ step' \in [Tasks -> FanStages] /\ step[t] = "store" /\ step'[t] = to
        /\ \A u \in Tasks : u # t => step'[u] = step[u]
        /\ CountedNow' = CountedNow \cup {t} /\ t \in CountedNow
    BY <1>0, <1>1, <2>1, TaskGoes
  <2>3. QED
    BY <2>2
<1>3. cur[t] \in Nat /\ old[t] \in Nat /\ peak \in Nat /\ most \in Nat /\ cur[t] <= most
  BY <1>0, PeaksKnown DEF Peaks
<1>4. peak' \in Nat /\ peak' <= most'
  BY <1>0, <1>1, <1>3 DEF Peaks
<1>5. held' = {u \in Tasks : step'[u] \in {Inwards, "load", "store", "work", "leave"}}
  BY <1>0, <1>1, <1>2 DEF Peaks
<1>6. ASSUME demo = "limit"
      PROVE  /\ \A u \in Tasks : step'[u] = "store" => old'[u] < cur'[u]
             /\ most' <= peak' \/ \E u \in Tasks : step'[u] \in {"load", "store"} /\ cur'[u] = most'
  <2>1. \A u \in Tasks : step'[u] = "store" => old'[u] < cur'[u]
    BY <1>0, <1>1, <1>2, <1>6 DEF Peaks
  <2>2. peak <= peak'
    <3>1. old[t] < cur[t]
      BY <1>0, <1>2, <1>6 DEF Peaks
    <3>2. QED
      BY <1>1, <1>3, <1>6, <3>1
  <2>3. CASE most <= peak
    BY <1>0, <1>3, <1>4, <2>1, <2>2, <2>3
  <2>4. CASE \E u \in Tasks : step[u] \in {"load", "store"} /\ cur[u] = most
    <3>1. PICK u \in Tasks : step[u] \in {"load", "store"} /\ cur[u] = most
      BY <2>4
    <3>2. CASE u = t /\ to = "load"
      BY <1>0, <1>2, <2>1, <3>1, <3>2
    <3>3. CASE u = t /\ to = "work"
      BY <1>0, <1>1, <1>3, <2>1, <3>1, <3>3
    <3>4. CASE u # t
      BY <1>0, <1>2, <2>1, <3>1, <3>4
    <3>5. QED
      BY <3>2, <3>3, <3>4
  <2>5. QED
    BY <1>0, <1>6, <2>3, <2>4 DEF Peaks
<1>7. Fan!Run(t)
  BY DEF Fan!Run
<1>8. QED
  BY <1>0, <1>2, <1>4, <1>5, <1>6, <1>7, PeaksNow, PeaksKnown DEF Peaks

LEMMA FanLeaveKeeps ==
    ASSUME Fan!FanoutAssumption, FanInv, NEW t \in Tasks, Fan!Leave(t) \/ Fan!Release(t),
           demo \in {"limit", "semaphore"}
    PROVE  FanInv'
<1>0. /\ FanTyped /\ Peaks /\ demo' = demo /\ UNCHANGED <<peak, most, cur, old>>
  BY PeaksKnown DEF Fan!Leave, Fan!Release
<1>1. Fan!Run(t)
  BY DEF Fan!Run
<1>2. CASE Fan!Leave(t)
  <2>1. Fan!Goes(t, "work", "leave") /\ "leave" \in FanStages /\ held' = held
    BY <1>2 DEF Fan!Leave, FanStages
  <2>2. /\ step' \in [Tasks -> FanStages] /\ step[t] = "work" /\ step'[t] = "leave"
        /\ \A u \in Tasks : u # t => step'[u] = step[u]
        /\ CountedNow' = CountedNow \ {t} /\ t \in CountedNow /\ CountedNow \subseteq Tasks
    BY <1>0, <2>1, TaskGoes
  <2>3. running' = Using(CountedNow') /\ running' \in Nat
    <3>1. running' = running - Share[t] /\ Share[t] \in Nat
      BY <1>2, FanSums, FanFacts DEF Fan!Leave
    <3>2. running = Using(CountedNow') + Share[t] /\ Using(CountedNow') \in Nat
      BY <1>0, <2>2, FanFacts DEF Peaks
    <3>3. QED
      BY <3>1, <3>2
  <2>4. held' = {u \in Tasks : step'[u] \in {Inwards, "load", "store", "work", "leave"}}
    BY <1>0, <2>1, <2>2 DEF Peaks
  <2>5. demo = "limit" =>
          /\ \A u \in Tasks : step'[u] = "store" => old'[u] < cur'[u]
          /\ most' <= peak' \/ \E u \in Tasks : step'[u] \in {"load", "store"} /\ cur'[u] = most'
    BY <1>0, <2>2 DEF Peaks
  <2>6. QED
    BY <1>0, <1>1, <2>1, <2>2, <2>3, <2>4, <2>5, PeaksNow, PeaksKnown DEF Peaks
<1>3. CASE Fan!Release(t)
  <2>1. /\ Fan!Goes(t, "leave", "done") /\ "done" \in FanStages /\ held' = held \ {t}
        /\ running' = running
    BY <1>3 DEF Fan!Release, FanStages
  <2>2. /\ step' \in [Tasks -> FanStages] /\ step[t] = "leave" /\ step'[t] = "done"
        /\ \A u \in Tasks : u # t => step'[u] = step[u]
        /\ CountedNow' = CountedNow
    <3>1. /\ step' \in [Tasks -> FanStages] /\ step[t] = "leave" /\ step'[t] = "done"
          /\ \A u \in Tasks : u # t => step'[u] = step[u]
          /\ CountedNow' = CountedNow \ {t} /\ t \notin CountedNow
      BY <1>0, <2>1, TaskGoes
    <3>2. QED
      BY <3>1
  <2>3. held' \subseteq Tasks /\ Using(held') <= Room
    <3>1. held \subseteq Tasks /\ held' \subseteq held
      BY <2>1, PeaksKnown
    <3>2. Using(held') <= Using(held) /\ Using(held) <= Room
      BY <1>0, <3>1, FanFacts DEF Peaks
    <3>3. Using(held') \in Nat /\ Using(held) \in Nat /\ Room \in Nat
      BY <3>1, FanFacts
    <3>4. QED
      BY <3>1, <3>2, <3>3
  <2>4. held' = {u \in Tasks : step'[u] \in {Inwards, "load", "store", "work", "leave"}}
    <3>1. "done" \notin {Inwards, "load", "store", "work", "leave"}
      BY DEF Inwards
    <3>2. QED
      BY <1>0, <2>1, <2>2, <3>1 DEF Peaks
  <2>5. demo = "limit" =>
          /\ \A u \in Tasks : step'[u] = "store" => old'[u] < cur'[u]
          /\ most' <= peak' \/ \E u \in Tasks : step'[u] \in {"load", "store"} /\ cur'[u] = most'
    BY <1>0, <2>2 DEF Peaks
  <2>6. QED
    BY <1>0, <1>1, <2>1, <2>2, <2>3, <2>4, <2>5, PeaksNow, PeaksKnown DEF Peaks
<1>4. QED
  BY <1>2, <1>3

LEMMA FanStep ==
    ASSUME Fan!FanoutAssumption, FanInv, [Fan!Next]_(Fan!vars)
    PROVE  FanInv'
<1>1. ASSUME NEW t \in Tasks, Fan!Spawn(t) \/ Fan!Run(t) \/ Fan!GiveUp(t)
      PROVE  FanInv'
  <2>1. CASE demo \notin Fan!Counting
    BY <1>1, <2>1, UncountedKeeps
  <2>2. CASE demo \in {"limit", "semaphore"}
    <3>1. ~Fan!Finish(t) /\ ~Fan!Do(t) /\ ~Fan!Loaded(t) /\ ~Fan!Send(t) /\ ~Fan!GiveUp(t)
      BY <2>2 DEF Fan!Finish, Fan!Do, Fan!Loaded, Fan!Send, Fan!GiveUp, Fan!CallDemos
    <3>2. \/ Fan!Spawn(t) \/ Fan!Acquire(t) \/ Fan!Enter(t) \/ Fan!LoadPeak(t)
          \/ Fan!StorePeak(t) \/ Fan!Leave(t) \/ Fan!Release(t)
      BY <1>1, <3>1 DEF Fan!Run
    <3>3. QED
      BY <2>2, <3>2, FanSpawnKeeps, FanAcquireKeeps, FanEnterKeeps, FanLoadKeeps, FanStoreKeeps,
         FanLeaveKeeps
  <2>3. QED
    BY <2>1, <2>2 DEF Fan!Counting
<1>2. CASE UNCHANGED Fan!vars
  <2>1. /\ UNCHANGED <<demo, step, err, fate>> /\ UNCHANGED <<running, held, cur, old>>
        /\ UNCHANGED <<peak, most>>
    BY <1>2 DEF Fan!vars
  <2>2. Share' = Share /\ CountedNow' = CountedNow /\ Room' = Room /\ Inwards' = Inwards
    BY <2>1 DEF Share, CountedNow, Room, Inwards
  <2>3. Peaks => Peaks'
    BY <2>1, <2>2 DEF Peaks, Using
  <2>4. FanTyped' /\ Uncounted' /\ CauseKept'
    BY <2>1 DEF FanInv, FanTyped, Uncounted, CauseKept
  <2>5. QED
    BY <2>1, <2>3, <2>4 DEF FanInv
<1>3. QED
  BY <1>1, <1>2 DEF Fan!Next

(***************************************************************************)
(* For any number of tasks, any limit, any units and any heavy tasks: no    *)
(* more run than the limit or the units allow, the peak that is printed is  *)
(* the real one with compare-and-swap and never above it without, and Wait  *)
(* returns an error of a task's own, not a cancellation (lesson 64).        *)
(***************************************************************************)
THEOREM FansTellTheTruth ==
    ProgramsSpec => [](program = "fan" => Fan!PeakIsTrue /\ Fan!FirstErrorIsTheCause)
<1>1. Fan!FanoutAssumption
  BY ProgramsAssumption
<1>2. ProgramsInit => (program = "fan" => FanInv)
  BY <1>1, ProgramsBegin, FanInit
<1>3. (program = "fan" => FanInv) /\ [ProgramsNext]_everything => (program = "fan" => FanInv)'
  BY <1>1, ProgramsMove, FanStep
<1>4. FanInv => Fan!PeakIsTrue /\ Fan!FirstErrorIsTheCause
  <2>1. SUFFICES ASSUME FanInv
                 PROVE  Fan!PeakIsTrue /\ Fan!FirstErrorIsTheCause
    OBVIOUS
  <2>2. Fan!FirstErrorIsTheCause
    BY <2>1 DEF FanInv, CauseKept, Fan!FirstErrorIsTheCause
  <2>3. ASSUME demo = "limit"
        PROVE  most <= Limit /\ (Fan!AllDone => peak = most)
    <3>1. Peaks /\ peak \in Nat /\ most \in Nat /\ Room = Limit
      BY <2>1, <2>3, PeaksKnown DEF Room
    <3>2. ASSUME Fan!AllDone
          PROVE  most <= peak
      BY <2>3, <3>1, <3>2 DEF Peaks, Fan!AllDone
    <3>3. QED
      BY <3>1, <3>2 DEF Peaks
  <2>4. ASSUME demo = "semaphore"
        PROVE  most <= Units /\ peak <= most
    BY <2>1, <2>4, PeaksKnown DEF Peaks, Room
  <2>5. QED
    BY <2>2, <2>3, <2>4 DEF Fan!PeakIsTrue
<1>5. QED
  BY <1>2, <1>3, <1>4, PTL DEF ProgramsSpec
-----------------------------------------------------------------------------
(* Channels: ReceivedInOrder                                                 *)

Ints == Seq(Int)

\* A sequence of what stands in f after its first a places, up to place b.
Stretch(s, a, b, f) ==
    /\ s \in Ints /\ a \in Nat /\ b \in Nat /\ a <= b
    /\ Len(s) = b - a /\ \A i \in 1 .. b - a : s[i] = f[a + i]

LEMMA StretchOfNothing ==
    ASSUME NEW f, NEW a \in Nat
    PROVE  Stretch(<<>>, a, a, f)
  BY DEF Stretch, Ints

LEMMA StretchGrows ==
    ASSUME NEW s, NEW a, NEW b, NEW f, NEW v \in Int, NEW n,
           Stretch(s, a, b, f), n = b + 1, f[n] = v
    PROVE  Stretch(Append(s, v), a, n, f)
<1>1. s \in Ints /\ a \in Nat /\ b \in Nat /\ a <= b /\ Len(s) = b - a
  BY DEF Stretch
<1>2. /\ Append(s, v) \in Ints /\ Len(Append(s, v)) = Len(s) + 1
      /\ Append(s, v)[Len(s) + 1] = v
      /\ \A i \in 1 .. Len(s) : Append(s, v)[i] = s[i]
  BY <1>1 DEF Ints
<1>3. ASSUME NEW i \in 1 .. n - a
      PROVE  Append(s, v)[i] = f[a + i]
  <2>1. CASE i = Len(s) + 1
    <3>1. a + i = n
      BY <1>1, <2>1
    <3>2. QED
      BY <1>2, <2>1, <3>1
  <2>2. CASE i \in 1 .. Len(s)
    BY <1>1, <1>2, <2>2 DEF Stretch
  <2>3. QED
    BY <1>1, <2>1, <2>2
<1>4. n \in Nat /\ a <= n /\ Len(Append(s, v)) = n - a
  BY <1>1, <1>2
<1>5. QED
  BY <1>1, <1>2, <1>3, <1>4 DEF Stretch

LEMMA StretchShrinks ==
    ASSUME NEW s, NEW a, NEW b, NEW f, Stretch(s, a, b, f), s # <<>>
    PROVE  Stretch(Tail(s), a + 1, b, f) /\ Head(s) = f[a + 1] /\ Head(s) \in Int /\ a < b
<1>1. s \in Ints /\ a \in Nat /\ b \in Nat /\ a <= b /\ Len(s) = b - a
  BY DEF Stretch
<1>2. /\ Tail(s) \in Ints /\ Len(Tail(s)) = Len(s) - 1 /\ Head(s) = s[1] /\ Len(s) >= 1
      /\ \A i \in 1 .. Len(s) - 1 : Tail(s)[i] = s[i + 1]
      /\ Head(s) \in Int
  BY <1>1 DEF Ints
<1>3. s[1] = f[a + 1] /\ a < b
  BY <1>1, <1>2 DEF Stretch
<1>4. ASSUME NEW i \in 1 .. b - (a + 1)
      PROVE  Tail(s)[i] = f[(a + 1) + i]
  <2>1. i \in 1 .. Len(s) - 1 /\ i + 1 \in 1 .. b - a /\ a + (i + 1) = (a + 1) + i
    BY <1>1
  <2>2. QED
    BY <1>2, <2>1 DEF Stretch
<1>5. (a + 1) \in Nat /\ a + 1 <= b /\ Len(Tail(s)) = b - (a + 1)
  BY <1>1, <1>2
<1>6. QED
  BY <1>1, <1>2, <1>3, <1>4, <1>5 DEF Stretch

LEMMA StretchEmpty ==
    ASSUME NEW s, NEW a, NEW b, NEW f, Stretch(s, a, b, f)
    PROVE  s = <<>> <=> a = b
  BY DEF Stretch, Ints

\* All of f, from the start to its end.
LEMMA StretchWhole ==
    ASSUME NEW f \in Ints, NEW s, Stretch(s, 0, Len(f), f)
    PROVE  s = f
<1>1. s \in Ints /\ Len(s) = Len(f)
  BY DEF Stretch, Ints
<1>2. ASSUME NEW i \in 1 .. Len(s)
      PROVE  s[i] = f[i]
  BY <1>1 DEF Stretch, Ints
<1>3. QED
  BY <1>1, <1>2, SeqEqual DEF Ints

\* The last that was to come.
LEMMA StretchLast ==
    ASSUME NEW s, NEW a, NEW b, NEW f, Stretch(s, a, b, f), b = a + 1
    PROVE  s # <<>> /\ Stretch(Tail(s), b, b, f) /\ Head(s) = f[b]
<1>1. a \in Nat
  BY DEF Stretch
<1>2. s # <<>>
  BY <1>1, StretchEmpty
<1>3. QED
  BY <1>2, StretchShrinks

-----------------------------------------------------------------------------
(* What the runtime does for one operation                                   *)

\* The kind of an operation decides which steps it can take.
LEMMA StepsByKind ==
    ASSUME NEW g, Chan!Step(g)
    PROVE  /\ ~crashed /\ ~Chan!Over(1) /\ lesson' = lesson
           /\ line[g] \in DOMAIN Chan!Code[g]
           /\ Chan!Now(g).op = "go" => Chan!Start(g)
           /\ Chan!Now(g).op = "send" =>
                Chan!SendBuffered(g) \/ Chan!SendOnClosed(g) \/ \E h \in Chan!Goroutines : Chan!Meet(g, h)
           /\ Chan!Now(g).op \in {"receive", "range"} =>
                Chan!ReceiveBuffered(g) \/ Chan!ReceiveClosed(g) \/ Chan!Otherwise(g)
           /\ Chan!Now(g).op \in {"close", "cancel"} => Chan!CloseChannel(g)
<1>1. /\ ~crashed /\ ~Chan!Over(1) /\ lesson' = lesson
      /\ \/ Chan!Start(g) \/ Chan!SendBuffered(g) \/ Chan!ReceiveBuffered(g) \/ Chan!ReceiveClosed(g)
         \/ Chan!Otherwise(g) \/ Chan!CloseChannel(g) \/ Chan!SendOnClosed(g)
         \/ \E h \in Chan!Goroutines : Chan!Meet(g, h)
  BY DEF Chan!Step
<1>2. Chan!Start(g) => Chan!At(g, {"go"})
  BY DEF Chan!Start
<1>3. /\ Chan!SendBuffered(g) => Chan!At(g, {"send"})
      /\ Chan!SendOnClosed(g) => Chan!At(g, {"send"})
      /\ (\E h \in Chan!Goroutines : Chan!Meet(g, h)) => Chan!At(g, {"send"})
  BY DEF Chan!SendBuffered, Chan!SendOnClosed, Chan!Meet
<1>4. /\ Chan!ReceiveBuffered(g) => Chan!At(g, {"receive", "range"})
      /\ Chan!ReceiveClosed(g) => Chan!At(g, {"receive", "range"})
      /\ Chan!Otherwise(g) => Chan!At(g, {"receive"})
  BY DEF Chan!ReceiveBuffered, Chan!ReceiveClosed, Chan!Otherwise, Chan!Receives
<1>5. Chan!CloseChannel(g) => Chan!At(g, {"close", "cancel"})
  BY DEF Chan!CloseChannel
<1>6. /\ Chan!Now(g) = Chan!Code[g][line[g]]
      /\ \A ops : Chan!At(g, ops) <=> line[g] \in DOMAIN Chan!Code[g] /\ Chan!Now(g).op \in ops
  BY DEF Chan!At, Chan!Now
<1>7. QED
  BY <1>1, <1>2, <1>3, <1>4, <1>5, <1>6

LEMMA GoDoes ==
    ASSUME NEW g, NEW h, Chan!Step(g), Chan!Now(g) = Chan!Go(h)
    PROVE  /\ line' = [line EXCEPT ![g] = @ + 1, ![h] = 1]
           /\ UNCHANGED <<buffer, closed, got, crashed>>
<1>1. Chan!Now(g).op = "go" /\ Chan!Now(g).with = h
  BY DEF Chan!Go, Chan!Op
<1>2. QED
  BY <1>1, StepsByKind DEF Chan!Start, Chan!Steps

LEMMA CloseDoes ==
    ASSUME NEW g, NEW c, Chan!Step(g), Chan!Now(g) = Chan!Close(c), c \notin closed
    PROVE  /\ line' = [line EXCEPT ![g] = @ + 1] /\ closed' = closed \cup {c}
           /\ crashed' = FALSE /\ UNCHANGED <<buffer, got>>
<1>1. Chan!Now(g).op = "close" /\ Chan!Now(g).on = {c}
  BY DEF Chan!Close, Chan!Op
<1>2. Chan!CloseChannel(g) /\ ~crashed
  BY <1>1, StepsByKind
<1>3. QED
  BY <1>1, <1>2 DEF Chan!CloseChannel, Chan!Steps

LEMMA CancelDoes ==
    ASSUME NEW g, NEW c, Chan!Step(g), Chan!Now(g) = Chan!Cancel(c)
    PROVE  /\ line' = [line EXCEPT ![g] = @ + 1] /\ closed' = closed \cup {c}
           /\ crashed' = FALSE /\ UNCHANGED <<buffer, got>>
<1>1. Chan!Now(g).op = "cancel" /\ Chan!Now(g).on = {c}
  BY DEF Chan!Cancel, Chan!Op
<1>2. Chan!CloseChannel(g) /\ ~crashed /\ ~Chan!At(g, {"close"})
  BY <1>1, StepsByKind DEF Chan!At, Chan!Now
<1>3. QED
  BY <1>1, <1>2 DEF Chan!CloseChannel, Chan!Steps

\* A send finds room, or somebody who receives from the channel, or a panic.
LEMMA SendDoes ==
    ASSUME NEW g, NEW c, NEW v, Chan!Step(g), Chan!Now(g) = Chan!Send(c, v), c \notin closed
    PROVE  /\ UNCHANGED <<closed, crashed>>
           /\ \/ /\ Len(buffer[c]) < Chan!Capacity(c)
                 /\ buffer' = [buffer EXCEPT ![c] = Append(@, v)]
                 /\ line' = [line EXCEPT ![g] = @ + 1] /\ UNCHANGED got
              \/ /\ Chan!Capacity(c) = 0 /\ UNCHANGED buffer
                 /\ \E h \in Chan!Goroutines :
                      /\ line[h] \in DOMAIN Chan!Code[h] /\ c \in Chan!Now(h).on
                      /\ Chan!Now(h).op \in {"receive", "range"}
                      /\ got' = [got EXCEPT ![h] = Append(@, v)]
                      /\ line' = [Chan!Steps(g) EXCEPT ![h] =
                                    IF Chan!Now(h).op = "range" THEN @ ELSE @ + 1]
<1>1. Chan!Now(g).op = "send" /\ Chan!Now(g).on = {c} /\ Chan!Now(g).with = v
  BY DEF Chan!Send, Chan!Op
<1>2. Chan!SendBuffered(g) \/ \E h \in Chan!Goroutines : Chan!Meet(g, h)
  BY <1>1, StepsByKind DEF Chan!SendOnClosed
<1>3. CASE Chan!SendBuffered(g)
  BY <1>1, <1>3 DEF Chan!SendBuffered, Chan!Steps
<1>4. ASSUME NEW h \in Chan!Goroutines, Chan!Meet(g, h)
      PROVE  /\ Chan!Capacity(c) = 0 /\ UNCHANGED <<buffer, closed, crashed>>
             /\ line[h] \in DOMAIN Chan!Code[h] /\ c \in Chan!Now(h).on
             /\ Chan!Now(h).op \in {"receive", "range"}
             /\ got' = [got EXCEPT ![h] = Append(@, v)]
             /\ line' = [Chan!Steps(g) EXCEPT ![h] =
                            IF Chan!Now(h).op = "range" THEN @ ELSE @ + 1]
  <2>1. /\ Chan!Receives(h) /\ Chan!Gets(h, v, Chan!Steps(g))
        /\ Chan!Capacity(c) = 0 /\ c \in Chan!Now(h).on /\ UNCHANGED <<buffer, closed, crashed>>
    BY <1>1, <1>4 DEF Chan!Meet
  <2>2. /\ line[h] \in DOMAIN Chan!Code[h] /\ Chan!Now(h).op \in {"receive", "range"}
        /\ Chan!At(h, {"range"}) <=> Chan!Now(h).op = "range"
    BY <2>1 DEF Chan!Receives, Chan!At, Chan!Now
  <2>3. QED
    BY <2>1, <2>2 DEF Chan!Gets
<1>5. QED
  BY <1>2, <1>3, <1>4

\* A receive takes what is buffered, zero from a closed channel, or gives up.
LEMMA ReceiveDoes ==
    ASSUME NEW g, NEW cs, NEW other, Chan!Step(g), Chan!Now(g) = Chan!Select(cs, other)
    PROVE  /\ line' = [line EXCEPT ![g] = @ + 1] /\ UNCHANGED <<closed, crashed>>
           /\ \/ \E c \in cs :
                    /\ buffer[c] # <<>>
                    /\ got' = [got EXCEPT ![g] = Append(@, Head(buffer[c]))]
                    /\ buffer' = [buffer EXCEPT ![c] = Tail(@)]
              \/ /\ UNCHANGED buffer /\ got' = [got EXCEPT ![g] = Append(@, 0)]
                 /\ \E c \in cs \cap closed : buffer[c] = <<>>
              \/ /\ UNCHANGED buffer /\ got' = [got EXCEPT ![g] = Append(@, -1)]
                 /\ other \in {"timeout", "default"}
<1>1. Chan!Now(g).op = "receive" /\ Chan!Now(g).on = cs /\ Chan!Now(g).other = other
  BY DEF Chan!Select, Chan!Op
<1>2. Chan!ReceiveBuffered(g) \/ Chan!ReceiveClosed(g) \/ Chan!Otherwise(g)
  BY <1>1, StepsByKind
<1>3. ~Chan!At(g, {"range"})
  BY <1>1 DEF Chan!At, Chan!Now
<1>4. CASE Chan!ReceiveBuffered(g)
  BY <1>1, <1>3, <1>4 DEF Chan!ReceiveBuffered, Chan!Gets
<1>5. CASE Chan!ReceiveClosed(g)
  BY <1>1, <1>3, <1>5 DEF Chan!ReceiveClosed, Chan!Gets
<1>6. CASE Chan!Otherwise(g)
  BY <1>1, <1>3, <1>6 DEF Chan!Otherwise, Chan!Gets
<1>7. QED
  BY <1>2, <1>4, <1>5, <1>6

LEMMA RangeDoes ==
    ASSUME NEW g, NEW c, Chan!Step(g), Chan!Now(g) = Chan!RangeOver(c)
    PROVE  /\ UNCHANGED <<closed, crashed>>
           /\ \/ /\ buffer[c] # <<>> /\ line' = [line EXCEPT ![g] = @]
                 /\ got' = [got EXCEPT ![g] = Append(@, Head(buffer[c]))]
                 /\ buffer' = [buffer EXCEPT ![c] = Tail(@)]
              \/ /\ c \in closed /\ buffer[c] = <<>>
                 /\ line' = [line EXCEPT ![g] = @ + 1] /\ UNCHANGED <<buffer, got>>
<1>1. Chan!Now(g).op = "range" /\ Chan!Now(g).on = {c}
  BY DEF Chan!RangeOver, Chan!Op
<1>2. line[g] \in DOMAIN Chan!Code[g]
  BY StepsByKind
<1>3. Chan!At(g, {"range"}) /\ ~Chan!At(g, {"receive"})
  BY <1>1, <1>2 DEF Chan!At, Chan!Now
<1>4. Chan!ReceiveBuffered(g) \/ Chan!ReceiveClosed(g)
  BY <1>1, <1>3, StepsByKind DEF Chan!Otherwise
<1>5. CASE Chan!ReceiveBuffered(g)
  BY <1>1, <1>3, <1>5 DEF Chan!ReceiveBuffered, Chan!Gets
<1>6. CASE Chan!ReceiveClosed(g)
  BY <1>1, <1>3, <1>6 DEF Chan!ReceiveClosed, Chan!Steps
<1>7. QED
  BY <1>4, <1>5, <1>6

-----------------------------------------------------------------------------
(* The scripts                                                               *)

LEMMA Joined ==
    ASSUME NEW S, NEW a \in Seq(S), NEW b \in Seq(S), NEW c \in Seq(S)
    PROVE  /\ DOMAIN (a \o b \o c) = 1 .. Len(a) + Len(b) + Len(c)
           /\ Len(a \o b \o c) = Len(a) + Len(b) + Len(c)
           /\ \A n \in 1 .. Len(a) : (a \o b \o c)[n] = a[n]
           /\ \A n \in 1 .. Len(b) : (a \o b \o c)[Len(a) + n] = b[n]
           /\ \A n \in 1 .. Len(c) : (a \o b \o c)[Len(a) + Len(b) + n] = c[n]
  OBVIOUS

LEMMA Script23 ==
    /\ DOMAIN Chan!Lesson23 = 1 .. 4
    /\ DOMAIN Chan!Lesson23[1] = 1 .. 21 /\ Len(Chan!Lesson23[1]) = 21
    /\ Chan!Lesson23[1][1] = Chan!Go(2) /\ Chan!Lesson23[1][2] = Chan!Receive("messages")
    /\ Chan!Lesson23[1][3] = Chan!Go(3) /\ Chan!Lesson23[1][4] = Chan!Receive("results")
    /\ \A n \in 5 .. 7 : Chan!Lesson23[1][n] = Chan!Send("buffered", n - 4)
    /\ Chan!Lesson23[1][8] = Chan!Close("buffered")
    /\ Chan!Lesson23[1][9] = Chan!RangeOver("buffered")
    /\ Chan!Lesson23[1][10] = Chan!Go(4)
    /\ \A n \in 11 .. 15 : Chan!Lesson23[1][n] = Chan!Send("jobs", n - 10)
    /\ Chan!Lesson23[1][16] = Chan!Close("jobs") /\ Chan!Lesson23[1][17] = Chan!Receive("done")
    /\ Chan!Lesson23[1][18] = Chan!Send("ch", 42) /\ Chan!Lesson23[1][19] = Chan!Close("ch")
    /\ Chan!Lesson23[1][20] = Chan!Receive("ch") /\ Chan!Lesson23[1][21] = Chan!Receive("ch")
    /\ \A g \in 2 .. 3 : DOMAIN Chan!Lesson23[g] = 1 .. 1 /\ Len(Chan!Lesson23[g]) = 1
    /\ DOMAIN Chan!Lesson23[4] = 1 .. 2 /\ Len(Chan!Lesson23[4]) = 2
    /\ Chan!Lesson23[2][1] = Chan!Send("messages", 1) /\ Chan!Lesson23[3][1] = Chan!Send("results", 5050)
    /\ Chan!Lesson23[4][1] = Chan!RangeOver("jobs") /\ Chan!Lesson23[4][2] = Chan!Send("done", 1)
<1> DEFINE a == <<Chan!Go(2), Chan!Receive("messages"), Chan!Go(3), Chan!Receive("results"),
                  Chan!Send("buffered", 1), Chan!Send("buffered", 2), Chan!Send("buffered", 3),
                  Chan!Close("buffered"), Chan!RangeOver("buffered"), Chan!Go(4)>>
           b == [i \in 1..5 |-> Chan!Send("jobs", i)]
           c == <<Chan!Close("jobs"), Chan!Receive("done"), Chan!Send("ch", 42), Chan!Close("ch"),
                  Chan!Receive("ch"), Chan!Receive("ch")>>
           S == {a[n] : n \in 1 .. 10} \cup {b[n] : n \in 1 .. 5} \cup {c[n] : n \in 1 .. 6}
<1>0. /\ DOMAIN Chan!Lesson23 = 1 .. 4
      /\ \A g \in 2 .. 3 : DOMAIN Chan!Lesson23[g] = 1 .. 1 /\ Len(Chan!Lesson23[g]) = 1
      /\ DOMAIN Chan!Lesson23[4] = 1 .. 2 /\ Len(Chan!Lesson23[4]) = 2
      /\ Chan!Lesson23[2][1] = Chan!Send("messages", 1) /\ Chan!Lesson23[3][1] = Chan!Send("results", 5050)
      /\ Chan!Lesson23[4][1] = Chan!RangeOver("jobs") /\ Chan!Lesson23[4][2] = Chan!Send("done", 1)
  BY DEF Chan!Lesson23
<1>1. Chan!Lesson23[1] = a \o b \o c
  BY DEF Chan!Lesson23
<1>2. a \in Seq(S) /\ Len(a) = 10
  OBVIOUS
<1>3. b \in Seq(S) /\ Len(b) = 5
  OBVIOUS
<1>4. c \in Seq(S) /\ Len(c) = 6
  OBVIOUS
<1>5. QED
  BY <1>0, <1>1, <1>2, <1>3, <1>4, Joined

LEMMA Script24 ==
    /\ DOMAIN Chan!Lesson24 = 1 .. 4
    /\ DOMAIN Chan!Lesson24[1] = 1 .. 7 /\ Len(Chan!Lesson24[1]) = 7
    /\ \A g \in 2 .. 4 : DOMAIN Chan!Lesson24[g] = 1 .. 1 /\ Len(Chan!Lesson24[g]) = 1
    /\ Chan!Lesson24[1][1] = Chan!Go(2) /\ Chan!Lesson24[1][2] = Chan!Go(3)
    /\ \A n \in 3 .. 4 : Chan!Lesson24[1][n] = Chan!Select({"ch1", "ch2"}, "wait")
    /\ Chan!Lesson24[1][5] = Chan!Go(4) /\ Chan!Lesson24[1][6] = Chan!Select({"slowChannel"}, "timeout")
    /\ Chan!Lesson24[1][7] = Chan!Select({"nonBlocking"}, "default")
    /\ Chan!Lesson24[2][1] = Chan!Send("ch1", 1) /\ Chan!Lesson24[3][1] = Chan!Send("ch2", 2)
    /\ Chan!Lesson24[4][1] = Chan!Send("slowChannel", 3)
  BY DEF Chan!Lesson24

LEMMA Script25 ==
    /\ DOMAIN Chan!Lesson25 = 1 .. 4
    /\ DOMAIN Chan!Lesson25[1] = 1 .. 8 /\ Len(Chan!Lesson25[1]) = 8
    /\ \A g \in 2 .. 4 : DOMAIN Chan!Lesson25[g] = 1 .. 1 /\ Len(Chan!Lesson25[g]) = 1
    /\ Chan!Lesson25[1][1] = Chan!Go(2) /\ Chan!Lesson25[1][2] = Chan!Select({"ctx1"}, "timeout")
    /\ Chan!Lesson25[1][3] = Chan!Go(3) /\ Chan!Lesson25[1][4] = Chan!Select({"ctx2"}, "timeout")
    /\ Chan!Lesson25[1][5] = Chan!Go(4) /\ Chan!Lesson25[1][6] = Chan!Select({"ctx3"}, "timeout")
    /\ Chan!Lesson25[1][7] = Chan!Cancel("ctx2") /\ Chan!Lesson25[1][8] = Chan!Cancel("ctx1")
    /\ Chan!Lesson25[2][1] = Chan!Cancel("ctx1") /\ Chan!Lesson25[3][1] = Chan!Cancel("ctx2")
    /\ Chan!Lesson25[4][1] = Chan!Cancel("ctx3")
  BY DEF Chan!Lesson25, Chan!doWork

LEMMA Script49 ==
    /\ DOMAIN Chan!Lesson49 = 1 .. 2
    /\ DOMAIN Chan!Lesson49[1] = 1 .. 2 /\ Len(Chan!Lesson49[1]) = 2
    /\ DOMAIN Chan!Lesson49[2] = 1 .. 1 /\ Len(Chan!Lesson49[2]) = 1
    /\ Chan!Lesson49[1][1] = Chan!Go(2) /\ Chan!Lesson49[1][2] = Chan!Receive("done")
    /\ Chan!Lesson49[2][1] = Chan!Close("done")
  BY DEF Chan!Lesson49

LEMMA Script55 ==
    /\ DOMAIN Chan!Lesson55 = 1 .. 2
    /\ DOMAIN Chan!Lesson55[1] = 1 .. 4 /\ Len(Chan!Lesson55[1]) = 4
    /\ DOMAIN Chan!Lesson55[2] = 1 .. 1 /\ Len(Chan!Lesson55[2]) = 1
    /\ Chan!Lesson55[1][1] = Chan!Send("ch", 1) /\ Chan!Lesson55[1][2] = Chan!Receive("ch")
    /\ Chan!Lesson55[1][3] = Chan!Go(2) /\ Chan!Lesson55[1][4] = Chan!Send("ch2", 2)
    /\ Chan!Lesson55[2][1] = Chan!Receive("ch2")
  BY DEF Chan!Lesson55

LEMMA Script66 ==
    /\ DOMAIN Chan!Lesson66 = 1 .. 1
    /\ DOMAIN Chan!Lesson66[1] = 1 .. 5 /\ Len(Chan!Lesson66[1]) = 5
    /\ Chan!Lesson66[1][1] = Chan!Send("ch", 1) /\ Chan!Lesson66[1][2] = Chan!Close("ch")
    /\ \A n \in 3 .. 4 : Chan!Lesson66[1][n] = Chan!Receive("ch")
    /\ Chan!Lesson66[1][5] = Chan!Select({"nilCh"}, "default")
  BY DEF Chan!Lesson66

Lessons == {23, 24, 25, 49, 55, 66}

LEMMA CodeOf ==
    /\ lesson = 23 => Chan!Code = Chan!Lesson23 /\ Chan!Goroutines = 1 .. 4
    /\ lesson = 24 => Chan!Code = Chan!Lesson24 /\ Chan!Goroutines = 1 .. 4
    /\ lesson = 25 => Chan!Code = Chan!Lesson25 /\ Chan!Goroutines = 1 .. 4
    /\ lesson = 49 => Chan!Code = Chan!Lesson49 /\ Chan!Goroutines = 1 .. 2
    /\ lesson = 55 => Chan!Code = Chan!Lesson55 /\ Chan!Goroutines = 1 .. 2
    /\ lesson = 66 => Chan!Code = Chan!Lesson66 /\ Chan!Goroutines = 1 .. 1
  BY Script23, Script24, Script25, Script49, Script55, Script66 DEF Chan!Code, Chan!Goroutines

LEMMA ValuesSent ==
    /\ \A v \in Int : Chan!Go(v).with \in Int
    /\ \A c : \A v \in Int : Chan!Send(c, v).with \in Int
    /\ \A c : Chan!Receive(c).with \in Int /\ Chan!RangeOver(c).with \in Int
    /\ \A c : Chan!Close(c).with \in Int /\ Chan!Cancel(c).with \in Int
    /\ \A cs, other : Chan!Select(cs, other).with \in Int
  BY DEF Chan!Send, Chan!Receive, Chan!RangeOver, Chan!Select, Chan!Close, Chan!Cancel,
        Chan!Go, Chan!Op

\* A goroutine is a sequence of operations on channels that are there.
LEMMA Scripts ==
    ASSUME lesson \in Lessons, NEW g \in Chan!Goroutines
    PROVE  /\ Len(Chan!Code[g]) \in Nat /\ DOMAIN Chan!Code[g] = 1 .. Len(Chan!Code[g])
           /\ 1 \in Chan!Goroutines
           /\ \A n \in 1 .. Len(Chan!Code[g]) :
                Chan!Code[g][n].with \in Int /\ Chan!Code[g][n].on \subseteq Chan!ChannelsUsed
<1> DEFINE Fits == /\ Len(Chan!Code[g]) \in Nat /\ DOMAIN Chan!Code[g] = 1 .. Len(Chan!Code[g])
                   /\ 1 \in Chan!Goroutines
                   /\ \A n \in 1 .. Len(Chan!Code[g]) : Chan!Code[g][n].with \in Int
<1> SUFFICES Fits
  BY DEF Chan!ChannelsUsed, Chan!ToSet
<1>1. CASE lesson = 23
  <2>1. \A n \in 1 .. 10 : Chan!Lesson23[1][n].with \in Int
    BY Script23, ValuesSent
  <2>2. \A n \in 11 .. 21 : Chan!Lesson23[1][n].with \in Int
    BY Script23, ValuesSent
  <2>3. /\ Chan!Lesson23[2][1].with \in Int /\ Chan!Lesson23[3][1].with \in Int
        /\ Chan!Lesson23[4][1].with \in Int /\ Chan!Lesson23[4][2].with \in Int
        /\ \A h \in 2 .. 3 : DOMAIN Chan!Lesson23[h] = 1 .. 1 /\ Len(Chan!Lesson23[h]) = 1
        /\ DOMAIN Chan!Lesson23[4] = 1 .. 2 /\ Len(Chan!Lesson23[4]) = 2
    BY Script23, ValuesSent
  <2>4. Chan!Code = Chan!Lesson23 /\ g \in 1 .. 4 /\ 1 \in Chan!Goroutines
    BY <1>1, CodeOf
  <2>5. CASE g = 1
    BY <2>1, <2>2, <2>4, <2>5, Script23
  <2>6. CASE g = 2
    BY <2>3, <2>4, <2>6
  <2>7. CASE g = 3
    BY <2>3, <2>4, <2>7
  <2>8. CASE g = 4
    BY <2>3, <2>4, <2>8
  <2>9. QED
    BY <2>4, <2>5, <2>6, <2>7, <2>8
<1>2. CASE lesson = 24
  <2>1. \A n \in 1 .. 7 : Chan!Lesson24[1][n].with \in Int
    BY Script24, ValuesSent
  <2>2. \A h \in 2 .. 4 : Chan!Lesson24[h][1].with \in Int
    BY Script24, ValuesSent
  <2>3. Chan!Code = Chan!Lesson24 /\ g \in 1 .. 4 /\ 1 \in Chan!Goroutines
    BY <1>2, CodeOf
  <2>4. CASE g = 1
    BY <2>1, <2>3, <2>4, Script24
  <2>5. CASE g \in 2 .. 4
    BY <2>2, <2>3, <2>5, Script24
  <2>6. QED
    BY <2>3, <2>4, <2>5
<1>3. CASE lesson = 25
  <2>1. \A n \in 1 .. 8 : Chan!Lesson25[1][n].with \in Int
    BY Script25, ValuesSent
  <2>2. \A h \in 2 .. 4 : Chan!Lesson25[h][1].with \in Int
    BY Script25, ValuesSent
  <2>3. Chan!Code = Chan!Lesson25 /\ g \in 1 .. 4 /\ 1 \in Chan!Goroutines
    BY <1>3, CodeOf
  <2>4. CASE g = 1
    BY <2>1, <2>3, <2>4, Script25
  <2>5. CASE g \in 2 .. 4
    BY <2>2, <2>3, <2>5, Script25
  <2>6. QED
    BY <2>3, <2>4, <2>5
<1>4. CASE lesson = 49
  <2>1. \A n \in 1 .. 2 : Chan!Lesson49[1][n].with \in Int
    BY Script49, ValuesSent
  <2>2. \A h \in 2 .. 2 : Chan!Lesson49[h][1].with \in Int
    BY Script49, ValuesSent
  <2>3. Chan!Code = Chan!Lesson49 /\ g \in 1 .. 2 /\ 1 \in Chan!Goroutines
    BY <1>4, CodeOf
  <2>4. QED
    BY <2>1, <2>2, <2>3, Script49
<1>5. CASE lesson = 55
  <2>1. \A n \in 1 .. 4 : Chan!Lesson55[1][n].with \in Int
    BY Script55, ValuesSent
  <2>2. \A h \in 2 .. 2 : Chan!Lesson55[h][1].with \in Int
    BY Script55, ValuesSent
  <2>3. Chan!Code = Chan!Lesson55 /\ g \in 1 .. 2 /\ 1 \in Chan!Goroutines
    BY <1>5, CodeOf
  <2>4. QED
    BY <2>1, <2>2, <2>3, Script55, SMTT(30)
<1>6. CASE lesson = 66
  <2>1. \A n \in 1 .. 5 : Chan!Lesson66[1][n].with \in Int
    BY Script66, ValuesSent
  <2>2. QED
    BY <1>6, <2>1, CodeOf, Script66, SMTT(30)
<1>7. QED
  BY <1>1, <1>2, <1>3, <1>4, <1>5, <1>6 DEF Lessons

-----------------------------------------------------------------------------
(* Types, whatever the script                                                *)

ChanTyped ==
    /\ lesson \in Lessons /\ closed \subseteq Chan!ChannelsUsed /\ crashed \in BOOLEAN
    /\ line \in [Chan!Goroutines -> Nat] /\ got \in [Chan!Goroutines -> Ints]
    /\ buffer \in [Chan!ChannelsUsed -> Ints]
    /\ \A g \in Chan!Goroutines : line[g] <= Len(Chan!Code[g]) + 1
    /\ \A c \in Chan!ChannelsUsed : Len(buffer[c]) <= Chan!Capacity(c)

\* An operation is about channels that are there, and what a step leaves
\* alone of the script it leaves alone altogether.
LEMMA AtScript ==
    ASSUME ChanTyped, NEW g \in Chan!Goroutines, line[g] \in DOMAIN Chan!Code[g]
    PROVE  /\ line[g] \in 1 .. Len(Chan!Code[g]) /\ Len(Chan!Code[g]) \in Nat
           /\ Chan!Now(g).with \in Int /\ Chan!Now(g).on \subseteq Chan!ChannelsUsed
<1>1. lesson \in Lessons
  BY DEF ChanTyped
<1>2. QED
  BY <1>1, Scripts DEF Chan!Now

LEMMA ScriptStays ==
    ASSUME lesson' = lesson
    PROVE  /\ Chan!Code' = Chan!Code /\ Chan!Goroutines' = Chan!Goroutines
           /\ Chan!ChannelsUsed' = Chan!ChannelsUsed
           /\ \A c : Chan!Capacity(c)' = Chan!Capacity(c)
  BY DEF Chan!Code, Chan!Goroutines, Chan!ChannelsUsed, Chan!Capacity

LEMMA CapacityTyped == \A c : Chan!Capacity(c) \in Nat
  BY DEF Chan!Capacity

LEMMA ChanBegins ==
    ASSUME Chan!Init
    PROVE  ChanTyped
<1>1. lesson \in Lessons
  BY DEF Chan!Init, Lessons
<1>2. \A g \in Chan!Goroutines : Len(Chan!Code[g]) \in Nat
  BY <1>1, Scripts
<1>3. \A c \in Chan!ChannelsUsed : buffer[c] = <<>> /\ Len(buffer[c]) <= Chan!Capacity(c)
  BY CapacityTyped DEF Chan!Init
<1>4. \A g \in Chan!Goroutines : line[g] \in 0 .. 1 /\ line[g] <= Len(Chan!Code[g]) + 1
  BY <1>2 DEF Chan!Init
<1>5. /\ line \in [Chan!Goroutines -> Nat] /\ got \in [Chan!Goroutines -> Ints]
      /\ buffer \in [Chan!ChannelsUsed -> Ints]
  BY DEF Chan!Init, Ints
<1>6. QED
  BY <1>1, <1>3, <1>4, <1>5 DEF Chan!Init, ChanTyped

\* One further, or at the first operation.
LEMMA LinesTyped ==
    ASSUME ChanTyped, NEW g \in Chan!Goroutines, line[g] \in DOMAIN Chan!Code[g]
    PROVE  LET onward == [line EXCEPT ![g] = @ + 1]
           IN  /\ onward \in [Chan!Goroutines -> Nat]
               /\ \A h \in Chan!Goroutines : onward[h] <= Len(Chan!Code[h]) + 1
  BY AtScript DEF ChanTyped

LEMMA ChanSteps ==
    ASSUME ChanTyped, NEW g \in Chan!Goroutines, Chan!Step(g)
    PROVE  ChanTyped'
<1> DEFINE Lines(l) == /\ l \in [Chan!Goroutines -> Nat]
                       /\ \A h \in Chan!Goroutines : l[h] <= Len(Chan!Code[h]) + 1
           Buffers(b) == /\ b \in [Chan!ChannelsUsed -> Ints]
                         /\ \A c \in Chan!ChannelsUsed : Len(b[c]) <= Chan!Capacity(c)
<1>0. /\ lesson' = lesson /\ line[g] \in DOMAIN Chan!Code[g]
      /\ Lines(line) /\ Buffers(buffer) /\ got \in [Chan!Goroutines -> Ints]
      /\ lesson \in Lessons /\ closed \subseteq Chan!ChannelsUsed /\ crashed \in BOOLEAN
  BY StepsByKind DEF ChanTyped
<1>1. /\ Lines(Chan!Steps(g)) /\ Chan!Now(g).with \in Int /\ line[g] <= Len(Chan!Code[g])
      /\ Chan!Now(g).on \subseteq Chan!ChannelsUsed
  BY <1>0, LinesTyped, AtScript DEF Chan!Steps
<1>2. SUFFICES /\ Lines(line') /\ Buffers(buffer') /\ got' \in [Chan!Goroutines -> Ints]
               /\ closed' \subseteq Chan!ChannelsUsed /\ crashed' \in BOOLEAN
  BY <1>0, ScriptStays DEF ChanTyped
<1>3. ASSUME NEW l, Lines(l), NEW h \in Chan!Goroutines
      PROVE  Lines([l EXCEPT ![h] = 1])
  BY <1>0, <1>3, Scripts
<1>4. ASSUME NEW l, Lines(l), NEW h \in Chan!Goroutines, NEW v \in Int, Chan!Gets(h, v, l),
             l[h] <= Len(Chan!Code[h])
      PROVE  Lines(line') /\ got' \in [Chan!Goroutines -> Ints]
  <2>1. Len(Chan!Code[h]) \in Nat /\ got[h] \in Ints /\ l[h] \in Nat
    BY <1>0, <1>4, Scripts
  <2>2. Append(got[h], v) \in Ints
    BY <2>1 DEF Ints
  <2>3. QED
    BY <1>0, <1>4, <2>1, <2>2, SMTT(30) DEF Chan!Gets
<1>5. CASE Chan!Start(g)
  <2>1. Lines(line')
    <3>1. CASE Chan!Now(g).with \in Chan!Goroutines
      BY <1>1, <1>3, <1>5, <3>1 DEF Chan!Start
    <3>2. CASE Chan!Now(g).with \notin Chan!Goroutines
      <4>1. line' = Chan!Steps(g)
        BY <1>1, <1>5, <3>2 DEF Chan!Start
      <4>2. QED
        BY <1>1, <4>1
    <3>3. QED
      BY <3>1, <3>2
  <2>2. QED
    BY <1>0, <1>5, <2>1 DEF Chan!Start
<1>6. CASE Chan!SendBuffered(g)
  <2>1. PICK c \in Chan!ChannelsUsed :
          /\ Len(buffer[c]) < Chan!Capacity(c)
          /\ buffer' = [buffer EXCEPT ![c] = Append(@, Chan!Now(g).with)]
    BY <1>1, <1>6 DEF Chan!SendBuffered
  <2>2. Buffers(buffer')
    <3>1. buffer[c] \in Ints /\ Chan!Capacity(c) \in Nat
      BY <1>0, CapacityTyped
    <3>2. /\ Append(buffer[c], Chan!Now(g).with) \in Ints
          /\ Len(Append(buffer[c], Chan!Now(g).with)) <= Chan!Capacity(c)
      BY <1>1, <2>1, <3>1 DEF Ints
    <3>3. QED
      BY <1>0, <2>1, <3>2
  <2>3. QED
    BY <1>0, <1>1, <1>6, <2>2 DEF Chan!SendBuffered
<1>7. CASE Chan!ReceiveBuffered(g)
  <2>1. PICK c \in Chan!ChannelsUsed :
          /\ buffer[c] # <<>> /\ Chan!Gets(g, Head(buffer[c]), line)
          /\ buffer' = [buffer EXCEPT ![c] = Tail(@)]
    BY <1>1, <1>7 DEF Chan!ReceiveBuffered
  <2>2. /\ Head(buffer[c]) \in Int /\ Tail(buffer[c]) \in Ints
        /\ Len(Tail(buffer[c])) <= Chan!Capacity(c)
    <3>1. buffer[c] \in Ints /\ Chan!Capacity(c) \in Nat /\ Len(buffer[c]) <= Chan!Capacity(c)
      BY <1>0, CapacityTyped
    <3>2. QED
      BY <2>1, <3>1 DEF Ints
  <2>3. Lines(line') /\ got' \in [Chan!Goroutines -> Ints]
    BY <1>0, <1>1, <1>4, <2>1, <2>2
  <2>4. Buffers(buffer')
    BY <1>0, <2>1, <2>2
  <2>5. QED
    BY <1>0, <1>7, <2>3, <2>4 DEF Chan!ReceiveBuffered
<1>8. CASE Chan!ReceiveClosed(g)
  <2>1. Lines(line') /\ got' \in [Chan!Goroutines -> Ints]
    <3>1. (line' = Chan!Steps(g) /\ got' = got) \/ Chan!Gets(g, 0, line)
      BY <1>8 DEF Chan!ReceiveClosed
    <3>2. 0 \in Int /\ Lines(line)
      BY <1>0
    <3>3. CASE Chan!Gets(g, 0, line)
      BY <1>1, <1>4, <3>2, <3>3
    <3>4. QED
      BY <1>0, <1>1, <3>1, <3>3
  <2>2. QED
    BY <1>0, <1>8, <2>1 DEF Chan!ReceiveClosed
<1>9. CASE Chan!Otherwise(g)
  <2>1. Lines(line') /\ got' \in [Chan!Goroutines -> Ints]
    <3>1. Chan!Gets(g, -1, line) /\ -1 \in Int /\ Lines(line)
      BY <1>0, <1>9 DEF Chan!Otherwise
    <3>2. QED
      BY <1>1, <1>4, <3>1
  <2>2. QED
    BY <1>0, <1>9, <2>1 DEF Chan!Otherwise
<1>10. CASE Chan!CloseChannel(g)
  BY <1>0, <1>1, <1>10 DEF Chan!CloseChannel
<1>11. CASE Chan!SendOnClosed(g)
  BY <1>0, <1>11 DEF Chan!SendOnClosed
<1>12. ASSUME NEW h \in Chan!Goroutines, Chan!Meet(g, h)
       PROVE  /\ Lines(line') /\ Buffers(buffer') /\ got' \in [Chan!Goroutines -> Ints]
              /\ closed' \subseteq Chan!ChannelsUsed /\ crashed' \in BOOLEAN
  <2>1. /\ Chan!Gets(h, Chan!Now(g).with, Chan!Steps(g)) /\ UNCHANGED <<buffer, closed, crashed>>
        /\ line[h] \in DOMAIN Chan!Code[h] /\ g # h
    BY <1>12 DEF Chan!Meet, Chan!Receives, Chan!At
  <2>2. Chan!Steps(g)[h] <= Len(Chan!Code[h])
    BY <1>0, <2>1, AtScript DEF Chan!Steps
  <2>3. QED
    BY <1>0, <1>1, <1>4, <2>1, <2>2
<1>13. QED
  BY <1>5, <1>6, <1>7, <1>8, <1>9, <1>10, <1>11, <1>12 DEF Chan!Step

LEMMA ChanKept ==
    ASSUME ChanTyped, [Chan!Next]_(Chan!vars)
    PROVE  ChanTyped'
<1>1. CASE UNCHANGED Chan!vars
  <2>1. lesson' = lesson /\ UNCHANGED <<line, buffer, closed, got, crashed>>
    BY <1>1 DEF Chan!vars
  <2>2. QED
    BY <2>1, ScriptStays DEF ChanTyped
<1>2. QED
  BY <1>1, ChanSteps DEF Chan!Next

-----------------------------------------------------------------------------
(* What main has heard at each of its lines, script by script                *)

LEMMA Channels66 == lesson = 66 => {"ch", "nilCh"} \subseteq Chan!ChannelsUsed
<1>1. Chan!Receive("ch").on = {"ch"} /\ Chan!Select({"nilCh"}, "default").on = {"nilCh"}
  BY DEF Chan!Receive, Chan!Select, Chan!Op
<1>2. SUFFICES ASSUME lesson = 66
               PROVE  {"ch", "nilCh"} \subseteq Chan!ChannelsUsed
  OBVIOUS
<1>3. /\ 1 \in Chan!Goroutines /\ Len(Chan!Code[1]) = 5
      /\ Chan!Code[1][3].on = {"ch"} /\ Chan!Code[1][5].on = {"nilCh"}
  BY <1>1, <1>2, Script66, CodeOf
<1>4. \A n \in 1 .. 5 : Chan!Code[1][n].on \subseteq Chan!ChannelsUsed
  BY <1>2, <1>3, Scripts DEF Lessons
<1>5. QED
  BY <1>3, <1>4

\* One goroutine, a buffer of two and nil.
Heard66 == <<1, 0, -1>>
Sent66 == << 1 >>
LEMMA Values66 == Heard66[1] = 1 /\ Heard66[2] = 0 /\ Heard66[3] = -1 /\ Sent66[1] = 1
  BY DEF Heard66, Sent66

Told66 ==
    /\ lesson = 66 /\ line[1] \in 1 .. 6 /\ crashed = FALSE
    /\ closed = IF line[1] <= 2 THEN {} ELSE {"ch"}
    /\ Stretch(got[1], 0, IF line[1] <= 3 THEN 0 ELSE line[1] - 3, Heard66)
    /\ Stretch(buffer["ch"], IF line[1] <= 3 THEN 0 ELSE 1, IF line[1] = 1 THEN 0 ELSE 1, Sent66)
    /\ buffer["nilCh"] = <<>>

LEMMA Tells66 ==
    ASSUME ChanTyped, Told66, NEW g \in Chan!Goroutines, Chan!Step(g)
    PROVE  Told66'
<1>0. /\ g = 1 /\ Chan!Now(1) = Chan!Lesson66[1][line[1]] /\ line[1] \in 1 .. 5
      /\ lesson' = lesson /\ ~crashed
  BY StepsByKind, CodeOf, Script66 DEF Told66, Chan!Now
<1>1. /\ {"ch", "nilCh"} \subseteq Chan!ChannelsUsed /\ Chan!Capacity("ch") = 2
      /\ 1 \in Chan!Goroutines /\ Chan!Step(1)
  BY <1>0, Channels66 DEF Told66, Chan!Capacity
<1>2. /\ line \in [Chan!Goroutines -> Nat] /\ got \in [Chan!Goroutines -> Ints]
      /\ buffer \in [Chan!ChannelsUsed -> Ints]
  BY DEF ChanTyped
<1>3. CASE line[1] = 1
  <2>1. Chan!Now(1) = Chan!Send("ch", 1) /\ "ch" \notin closed /\ Stretch(buffer["ch"], 0, 0, Sent66)
    BY <1>0, <1>3, Script66 DEF Told66
  <2>2. /\ UNCHANGED <<closed, crashed, got>> /\ line'[1] = 2
        /\ buffer'["ch"] = Append(buffer["ch"], 1) /\ buffer'["nilCh"] = buffer["nilCh"]
    BY <1>1, <1>2, <1>3, <2>1, SendDoes
  <2>3. Stretch(buffer'["ch"], 0, 1, Sent66)
    <3>1. /\ Stretch(buffer["ch"], 0, 0, Sent66) /\ buffer'["ch"] = Append(buffer["ch"], 1)
          /\ Sent66[1] = 1
      BY <2>1, <2>2, Values66
    <3>2. QED
      BY <3>1, StretchGrows
  <2>4. QED
    BY <1>0, <1>3, <2>2, <2>3 DEF Told66
<1>4. CASE line[1] = 2
  <2>1. Chan!Now(1) = Chan!Close("ch") /\ "ch" \notin closed
    BY <1>0, <1>4, Script66 DEF Told66
  <2>a. closed = {}
    BY <1>4 DEF Told66
  <2>b. /\ line' = [line EXCEPT ![1] = @ + 1] /\ closed' = closed \cup {"ch"}
        /\ crashed' = FALSE /\ UNCHANGED <<buffer, got>>
    BY <1>1, <2>1, CloseDoes
  <2>2. UNCHANGED <<buffer, got>> /\ line'[1] = 3 /\ crashed' = FALSE /\ closed' = {"ch"}
    BY <1>1, <1>2, <1>4, <2>a, <2>b
  <2>3. QED
    BY <1>0, <1>4, <2>2 DEF Told66
<1>5. CASE line[1] \in 3 .. 5
  <2>1. Chan!Now(1) = IF line[1] = 5 THEN Chan!Select({"nilCh"}, "default") ELSE Chan!Select({"ch"}, "wait")
    BY <1>0, <1>5, Script66 DEF Chan!Receive, Chan!Select
  <2>2. UNCHANGED <<closed, crashed>> /\ line'[1] = line[1] + 1 /\ closed = {"ch"}
    BY <1>1, <1>2, <1>5, <2>1, ReceiveDoes DEF Told66
  <2>3. CASE line[1] = 3
    <3>1. Stretch(buffer["ch"], 0, 1, Sent66) /\ Stretch(got[1], 0, 0, Heard66)
      BY <2>3 DEF Told66
    <3>b. buffer["ch"] # <<>>
      BY <3>1, StretchEmpty
    <3>2. buffer["ch"] # <<>> /\ Head(buffer["ch"]) = 1 /\ Stretch(Tail(buffer["ch"]), 1, 1, Sent66)
      <4>1. /\ Stretch(buffer["ch"], 0, 1, Sent66) /\ buffer["ch"] # <<>>
            /\ Sent66[1] = 1
        BY <3>1, <3>b, Values66
      <4>2. QED
        BY <4>1, StretchShrinks
    <3>3. /\ got' = [got EXCEPT ![1] = Append(@, Head(buffer["ch"]))]
          /\ buffer' = [buffer EXCEPT !["ch"] = Tail(@)]
      BY <1>1, <2>1, <2>3, <3>2, ReceiveDoes
    <3>a. /\ got'[1] = Append(got[1], 1) /\ buffer'["ch"] = Tail(buffer["ch"])
          /\ buffer'["nilCh"] = buffer["nilCh"]
      BY <1>1, <1>2, <3>2, <3>3
    <3>4. Stretch(got'[1], 0, 1, Heard66)
      <4>1. /\ Stretch(got[1], 0, 0, Heard66) /\ got'[1] = Append(got[1], 1)
            /\ Heard66[1] = 1
        BY <3>1, <3>a, Values66
      <4>2. QED
        BY <4>1, StretchGrows
    <3>5. QED
      BY <1>0, <2>2, <2>3, <3>2, <3>a, <3>4 DEF Told66
  <2>4. CASE line[1] = 4
    <3>1. Stretch(buffer["ch"], 1, 1, Sent66) /\ Stretch(got[1], 0, 1, Heard66)
      BY <2>4 DEF Told66
    <3>2. buffer["ch"] = <<>>
      BY <3>1, StretchEmpty
    <3>3. got'[1] = Append(got[1], 0) /\ buffer' = buffer
      BY <1>1, <1>2, <2>1, <2>4, <3>2, ReceiveDoes
    <3>4. Stretch(got'[1], 0, 2, Heard66)
      <4>1. /\ Stretch(got[1], 0, 1, Heard66) /\ got'[1] = Append(got[1], 0)
            /\ Heard66[2] = 0
        BY <3>1, <3>3, Values66
      <4>2. QED
        BY <4>1, StretchGrows
    <3>5. QED
      BY <1>0, <2>2, <2>4, <3>1, <3>3, <3>4 DEF Told66
  <2>5. CASE line[1] = 5
    <3>1. /\ Stretch(buffer["ch"], 1, 1, Sent66) /\ Stretch(got[1], 0, 2, Heard66)
          /\ buffer["nilCh"] = <<>> /\ "nilCh" \notin closed
      BY <2>2, <2>5 DEF Told66
    <3>2. got'[1] = Append(got[1], -1) /\ buffer' = buffer
      BY <1>1, <1>2, <2>1, <2>5, <3>1, ReceiveDoes
    <3>a. -1 \in Int /\ 3 = 2 + 1
      OBVIOUS
    <3>3. Stretch(got'[1], 0, 3, Heard66)
      <4>1. /\ Stretch(got[1], 0, 2, Heard66) /\ got'[1] = Append(got[1], -1)
            /\ Heard66[3] = -1
        BY <3>1, <3>2, <3>a, Values66
      <4>2. QED
        BY <4>1, StretchGrows, <3>a
    <3>4. QED
      BY <1>0, <2>2, <2>5, <3>1, <3>2, <3>3 DEF Told66
  <2>6. QED
    BY <1>5, <2>3, <2>4, <2>5
<1>6. QED
  BY <1>0, <1>3, <1>4, <1>5

\* main waits for the channel that the other goroutine closes.
Heard49 == << 0 >>
LEMMA Values49 == Heard49[1] = 0
  BY DEF Heard49

Told49 ==
    /\ lesson = 49 /\ line[1] \in 1 .. 3 /\ line[2] \in 0 .. 2 /\ crashed = FALSE
    /\ line[1] = 1 <=> line[2] = 0
    /\ line[1] = 3 => line[2] = 2
    /\ closed = IF line[2] = 2 THEN {"done"} ELSE {}
    /\ Stretch(got[1], 0, IF line[1] = 3 THEN 1 ELSE 0, Heard49)
    /\ buffer["done"] = <<>>

LEMMA Channels49 == lesson = 49 => "done" \in Chan!ChannelsUsed
<1>1. Chan!Receive("done").on = {"done"}
  BY DEF Chan!Receive, Chan!Op
<1>2. SUFFICES ASSUME lesson = 49
               PROVE  "done" \in Chan!ChannelsUsed
  OBVIOUS
<1>3. 1 \in Chan!Goroutines /\ Len(Chan!Code[1]) = 2 /\ Chan!Code[1][2].on = {"done"}
  BY <1>1, <1>2, Script49, CodeOf
<1>4. \A n \in 1 .. 2 : Chan!Code[1][n].on \subseteq Chan!ChannelsUsed
  BY <1>2, <1>3, Scripts DEF Lessons
<1>5. QED
  BY <1>3, <1>4

LEMMA Tells49 ==
    ASSUME ChanTyped, Told49, NEW g \in Chan!Goroutines, Chan!Step(g)
    PROVE  Told49'
<1>0. /\ g \in 1 .. 2 /\ Chan!Goroutines = 1 .. 2 /\ Chan!Now(g) = Chan!Lesson49[g][line[g]]
      /\ line[1] \in 1 .. 2 /\ line[g] \in DOMAIN Chan!Lesson49[g]
      /\ lesson' = lesson /\ "done" \in Chan!ChannelsUsed
  BY StepsByKind, CodeOf, Script49, Channels49 DEF Told49, Chan!Now, Chan!Over
<1>1. /\ line \in [1 .. 2 -> Nat] /\ got \in [1 .. 2 -> Ints]
      /\ buffer \in [Chan!ChannelsUsed -> Ints]
  BY <1>0 DEF ChanTyped
<1>2. CASE g = 1 /\ line[1] = 1
  <2>1. Chan!Now(g) = Chan!Go(2)
    BY <1>0, <1>2, Script49
  <2>2. line' = [line EXCEPT ![g] = @ + 1, ![2] = 1] /\ UNCHANGED <<buffer, closed, got, crashed>>
    BY <2>1, GoDoes
  <2>3. /\ line'[1] = 2 /\ line'[2] = 1 /\ closed = {} /\ crashed = FALSE /\ buffer["done"] = <<>>
        /\ Stretch(got[1], 0, 0, Heard49)
    BY <1>1, <1>2, <2>2 DEF Told49
  <2>4. QED
    BY <1>0, <1>2, <2>2, <2>3 DEF Told49
<1>3. CASE g = 1 /\ line[1] = 2
  <2>1. /\ Chan!Now(g) = Chan!Select({"done"}, "wait") /\ buffer["done"] = <<>>
        /\ Stretch(got[1], 0, 0, Heard49)
    BY <1>0, <1>3, Script49 DEF Told49, Chan!Receive, Chan!Select
  <2>2. /\ line' = [line EXCEPT ![g] = @ + 1] /\ UNCHANGED <<closed, crashed, buffer>>
        /\ got' = [got EXCEPT ![g] = Append(@, 0)] /\ "done" \in closed
    BY <2>1, ReceiveDoes
  <2>3. line'[1] = 3 /\ line'[2] = line[2] /\ got'[1] = Append(got[1], 0) /\ line[2] = 2
    BY <1>1, <1>3, <2>2 DEF Told49
  <2>4. Stretch(got'[1], 0, 1, Heard49)
    <3>1. /\ Stretch(got[1], 0, 0, Heard49) /\ got'[1] = Append(got[1], 0)
          /\ Heard49[1] = 0
      BY <2>1, <2>3, Values49
    <3>2. QED
      BY <3>1, StretchGrows
  <2>5. QED
    BY <1>0, <1>3, <2>2, <2>3, <2>4 DEF Told49
<1>4. CASE g = 2
  <2>1. line[2] = 1 /\ line[1] = 2 /\ closed = {} /\ Chan!Now(g) = Chan!Close("done")
    BY <1>0, <1>4, Script49 DEF Told49
  <2>2. /\ line' = [line EXCEPT ![g] = @ + 1] /\ closed' = closed \cup {"done"}
        /\ crashed' = FALSE /\ UNCHANGED <<buffer, got>>
    BY <2>1, CloseDoes
  <2>3. line'[1] = 2 /\ line'[2] = 2 /\ closed' = {"done"}
    BY <1>1, <1>4, <2>1, <2>2
  <2>4. QED
    BY <1>0, <2>1, <2>2, <2>3 DEF Told49
<1>5. QED
  BY <1>0, <1>2, <1>3, <1>4

\* A send into a buffer, and one to a receiver that was started before.
Heard55 == << 1 >>
Given55 == << 2 >>
LEMMA Values55 == Heard55[1] = 1 /\ Given55[1] = 2
  BY DEF Heard55, Given55

Told55 ==
    /\ lesson = 55 /\ line[1] \in 1 .. 5 /\ crashed = FALSE /\ closed = {}
    /\ line[2] = IF line[1] <= 3 THEN 0 ELSE line[1] - 3
    /\ Stretch(got[1], 0, IF line[1] <= 2 THEN 0 ELSE 1, Heard55)
    /\ Stretch(got[2], 0, IF line[1] = 5 THEN 1 ELSE 0, Given55)
    /\ Stretch(buffer["ch"], IF line[1] <= 2 THEN 0 ELSE 1, IF line[1] = 1 THEN 0 ELSE 1, Heard55)
    /\ buffer["ch2"] = <<>>

LEMMA Channels55 == lesson = 55 => {"ch", "ch2"} \subseteq Chan!ChannelsUsed
<1>1. Chan!Receive("ch").on = {"ch"} /\ Chan!Send("ch2", 2).on = {"ch2"}
  BY DEF Chan!Receive, Chan!Send, Chan!Op
<1>2. SUFFICES ASSUME lesson = 55
               PROVE  {"ch", "ch2"} \subseteq Chan!ChannelsUsed
  OBVIOUS
<1>3. /\ 1 \in Chan!Goroutines /\ Len(Chan!Code[1]) = 4
      /\ Chan!Code[1][2].on = {"ch"} /\ Chan!Code[1][4].on = {"ch2"}
  BY <1>1, <1>2, Script55, CodeOf
<1>4. \A n \in 1 .. 4 : Chan!Code[1][n].on \subseteq Chan!ChannelsUsed
  BY <1>2, <1>3, Scripts DEF Lessons
<1>5. QED
  BY <1>3, <1>4

LEMMA Tells55 ==
    ASSUME ChanTyped, Told55, NEW g \in Chan!Goroutines, Chan!Step(g)
    PROVE  Told55'
<1>0. /\ g \in 1 .. 2 /\ Chan!Goroutines = 1 .. 2 /\ Chan!Code = Chan!Lesson55
      /\ \A h \in 1 .. 2 : Chan!Now(h) = Chan!Lesson55[h][line[h]]
      /\ line[1] \in 1 .. 4 /\ line[g] \in DOMAIN Chan!Lesson55[g]
      /\ lesson' = lesson /\ {"ch", "ch2"} \subseteq Chan!ChannelsUsed
      /\ Chan!Capacity("ch") = 1 /\ Chan!Capacity("ch2") = 0
  BY StepsByKind, CodeOf, Script55, Channels55 DEF Told55, Chan!Now, Chan!Over, Chan!Capacity
<1>1. /\ line \in [1 .. 2 -> Nat] /\ got \in [1 .. 2 -> Ints]
      /\ buffer \in [Chan!ChannelsUsed -> Ints]
  BY <1>0 DEF ChanTyped
<1>2. CASE g = 1 /\ line[1] = 1
  <2>0. Stretch(buffer["ch"], 0, 0, Heard55)
    BY <1>2 DEF Told55
  <2>1. Chan!Now(g) = Chan!Send("ch", 1) /\ "ch" \notin closed
    BY <1>0, <1>2, Script55 DEF Told55
  <2>2. /\ buffer' = [buffer EXCEPT !["ch"] = Append(@, 1)]
        /\ line' = [line EXCEPT ![g] = @ + 1] /\ UNCHANGED <<got, closed, crashed>>
    BY <1>0, <2>1, SendDoes
  <2>3. /\ line'[1] = 2 /\ line'[2] = line[2] /\ buffer'["ch"] = Append(buffer["ch"], 1)
        /\ buffer'["ch2"] = buffer["ch2"]
    BY <1>0, <1>1, <1>2, <2>2
  <2>4. Stretch(buffer'["ch"], 0, 1, Heard55)
    <3>1. /\ Stretch(buffer["ch"], 0, 0, Heard55) /\ buffer'["ch"] = Append(buffer["ch"], 1)
          /\ Heard55[1] = 1
      BY <2>0, <2>3, Values55
    <3>2. QED
      BY <3>1, StretchGrows
  <2>5. QED
    BY <1>0, <1>2, <2>2, <2>3, <2>4 DEF Told55
<1>3. CASE g = 1 /\ line[1] = 2
  <2>0. Stretch(buffer["ch"], 0, 1, Heard55) /\ Stretch(got[1], 0, 0, Heard55)
    BY <1>3 DEF Told55
  <2>1. Chan!Now(g) = Chan!Select({"ch"}, "wait") /\ "ch" \notin closed
    BY <1>0, <1>3, Script55 DEF Told55, Chan!Receive, Chan!Select
  <2>2. buffer["ch"] # <<>>
    BY <2>0, StretchEmpty
  <2>3. Head(buffer["ch"]) = 1 /\ Stretch(Tail(buffer["ch"]), 1, 1, Heard55)
    <3>1. /\ Stretch(buffer["ch"], 0, 1, Heard55) /\ buffer["ch"] # <<>>
          /\ Heard55[1] = 1
      BY <2>0, <2>2, Values55
    <3>2. QED
      BY <3>1, StretchShrinks
  <2>4. /\ line' = [line EXCEPT ![g] = @ + 1] /\ UNCHANGED <<closed, crashed>>
        /\ got' = [got EXCEPT ![g] = Append(@, Head(buffer["ch"]))]
        /\ buffer' = [buffer EXCEPT !["ch"] = Tail(@)]
    BY <2>1, ReceiveDoes
  <2>5. /\ line'[1] = 3 /\ line'[2] = line[2] /\ got'[1] = Append(got[1], 1) /\ got'[2] = got[2]
        /\ buffer'["ch"] = Tail(buffer["ch"]) /\ buffer'["ch2"] = buffer["ch2"]
    BY <1>0, <1>1, <1>3, <2>3, <2>4
  <2>6. Stretch(got'[1], 0, 1, Heard55)
    <3>1. Stretch(got[1], 0, 0, Heard55) /\ got'[1] = Append(got[1], 1) /\ Heard55[1] = 1
      BY <2>0, <2>5, Values55
    <3>2. QED
      BY <3>1, StretchGrows
  <2>7. QED
    BY <1>0, <1>3, <2>3, <2>4, <2>5, <2>6 DEF Told55
<1>4. CASE g = 1 /\ line[1] = 3
  <2>1. Chan!Now(g) = Chan!Go(2)
    BY <1>0, <1>4, Script55
  <2>2. line' = [line EXCEPT ![g] = @ + 1, ![2] = 1] /\ UNCHANGED <<buffer, closed, got, crashed>>
    BY <2>1, GoDoes
  <2>3. line'[1] = 4 /\ line'[2] = 1
    BY <1>1, <1>4, <2>2
  <2>4. QED
    BY <1>0, <1>4, <2>2, <2>3 DEF Told55
<1>5. CASE g = 1 /\ line[1] = 4
  <2>1. /\ Chan!Now(g) = Chan!Send("ch2", 2) /\ "ch2" \notin closed /\ buffer["ch2"] = <<>>
        /\ line[2] = 1 /\ Chan!Now(2) = Chan!Receive("ch2") /\ Stretch(got[2], 0, 0, Given55)
    BY <1>0, <1>5, Script55 DEF Told55
  <2>2. Chan!Now(g).op = "send" /\ Chan!Now(2).op = "receive"
    BY <2>1 DEF Chan!Send, Chan!Receive, Chan!Op
  <2>3. /\ UNCHANGED <<closed, crashed, buffer>> /\ got' = [got EXCEPT ![2] = Append(@, 2)]
        /\ line' = [Chan!Steps(g) EXCEPT ![2] = @ + 1]
    BY <1>0, <1>5, <2>1, <2>2, SendDoes
  <2>4. line'[1] = 5 /\ line'[2] = 2 /\ got'[2] = Append(got[2], 2) /\ got'[1] = got[1]
    BY <1>1, <1>5, <2>1, <2>3 DEF Chan!Steps
  <2>5. Stretch(got'[2], 0, 1, Given55)
    <3>1. /\ Stretch(got[2], 0, 0, Given55) /\ got'[2] = Append(got[2], 2)
          /\ Given55[1] = 2
      BY <2>1, <2>4, Values55
    <3>2. QED
      BY <3>1, StretchGrows
  <2>6. QED
    BY <1>0, <1>5, <2>3, <2>4, <2>5 DEF Told55
<1>6. CASE g = 2
  <2>1. Chan!Now(g) = Chan!Select({"ch2"}, "wait") /\ buffer["ch2"] = <<>> /\ closed = {}
    BY <1>0, <1>6, Script55 DEF Told55, Chan!Receive, Chan!Select
  <2>2. QED
    BY <2>1, ReceiveDoes
<1>7. QED
  BY <1>0, <1>2, <1>3, <1>4, <1>5, <1>6

\* Contexts only ever close, and main cancels two of them at its end.
Told25 ==
    /\ lesson = 25 /\ line[1] \in 1 .. 9 /\ crashed = FALSE
    /\ line[1] >= 8 => "ctx2" \in closed
    /\ line[1] = 9 => "ctx1" \in closed

LEMMA Tells25 ==
    ASSUME ChanTyped, Told25, NEW g \in Chan!Goroutines, Chan!Step(g)
    PROVE  Told25'
<1>0. /\ g \in 1 .. 4 /\ Chan!Goroutines = 1 .. 4
      /\ Chan!Now(g) = Chan!Lesson25[g][line[g]]
      /\ line[1] \in 1 .. 8 /\ line[g] \in DOMAIN Chan!Lesson25[g]
      /\ lesson' = lesson
  <2>1. Chan!Goroutines = 1 .. 4 /\ Chan!Code = Chan!Lesson25 /\ line[1] \in 1 .. 9
    BY CodeOf DEF Told25
  <2>2. lesson' = lesson /\ line[g] \in DOMAIN Chan!Code[g] /\ ~(line[1] > Len(Chan!Code[1]))
    BY StepsByKind DEF Chan!Over
  <2>3. Len(Chan!Lesson25[1]) = 8
    BY Script25
  <2>4. QED
    BY <2>1, <2>2, <2>3 DEF Chan!Now
<1>1. line \in [1 .. 4 -> Nat]
  BY <1>0 DEF ChanTyped
<1>2. CASE g = 1 /\ line[1] \in {1, 3, 5}
  <2>1. PICK h \in 2 .. 4 : Chan!Now(g) = Chan!Go(h)
    BY <1>0, <1>2, Script25
  <2>2. line' = [line EXCEPT ![g] = @ + 1, ![h] = 1] /\ UNCHANGED <<closed, crashed>>
    BY <2>1, GoDoes
  <2>3. line'[1] = line[1] + 1
    BY <1>1, <1>2, <2>2
  <2>4. QED
    BY <1>0, <1>2, <2>2, <2>3 DEF Told25
<1>3. CASE g = 1 /\ line[1] \in {2, 4, 6}
  <2>1. PICK c \in {"ctx1", "ctx2", "ctx3"} : Chan!Now(g) = Chan!Select({c}, "timeout")
    BY <1>0, <1>3, Script25
  <2>2. line' = [line EXCEPT ![g] = @ + 1] /\ UNCHANGED <<closed, crashed>>
    BY <2>1, ReceiveDoes
  <2>3. line'[1] = line[1] + 1
    BY <1>1, <1>3, <2>2
  <2>4. QED
    BY <1>0, <1>3, <2>2, <2>3 DEF Told25
<1>4. CASE g # 1 \/ line[1] \in {7, 8}
  <2>1. PICK c \in {"ctx1", "ctx2", "ctx3"} :
          /\ Chan!Now(g) = Chan!Cancel(c)
          /\ g = 1 => c = IF line[1] = 7 THEN "ctx2" ELSE "ctx1"
    BY <1>0, <1>4, Script25
  <2>2. /\ line' = [line EXCEPT ![g] = @ + 1] /\ closed' = closed \cup {c} /\ crashed' = FALSE
    BY <2>1, CancelDoes
  <2>3. line'[1] = IF g = 1 THEN line[1] + 1 ELSE line[1]
    BY <1>0, <1>1, <2>2
  <2>4. QED
    BY <1>0, <1>4, <2>1, <2>2, <2>3 DEF Told25
<1>5. QED
  BY <1>0, <1>2, <1>3, <1>4

\* Two results in the order in which they come, then one or a timeout.
Told24 ==
    /\ lesson = 24 /\ line[1] \in 1 .. 8 /\ crashed = FALSE /\ closed = {}
    /\ \A c \in Chan!ChannelsUsed : buffer[c] = <<>>
    /\ line[2] \in 0 .. 2 /\ line[3] \in 0 .. 2
    /\ line[1] = 1 => line[2] = 0
    /\ line[1] = 2 => line[2] = 1
    /\ line[1] <= 2 => line[3] = 0
    /\ line[1] = 3 => line[2] = 1 /\ line[3] = 1
    /\ line[1] <= 5 => line[4] = 0
    /\ line[1] = 6 => line[4] = 1
    /\ Len(got[1]) = IF line[1] <= 3 THEN 0 ELSE IF line[1] <= 5 THEN line[1] - 3 ELSE line[1] - 4
    /\ line[1] >= 4 => got[1][1] \in 1 .. 2
    /\ line[1] = 4 => \A h \in 2 .. 3 : line[h] = IF got[1][1] = h - 1 THEN 2 ELSE 1
    /\ line[1] >= 5 => got[1][2] = 3 - got[1][1] /\ line[2] = 2 /\ line[3] = 2
    /\ line[1] >= 7 => got[1][3] \in {3, -1}
    /\ line[1] = 8 => got[1][4] = -1

LEMMA Appended ==
    ASSUME NEW s \in Ints, NEW v \in Int
    PROVE  /\ Len(Append(s, v)) = Len(s) + 1 /\ Append(s, v)[Len(s) + 1] = v
           /\ \A i \in 1 .. Len(s) : Append(s, v)[i] = s[i]
  BY DEF Ints

\* While main is at one of its selects nobody else receives.
LEMMA Meets24 ==
    ASSUME ChanTyped, Told24, NEW g \in 2 .. 4, Chan!Step(g),
           NEW c, NEW v, Chan!Now(g) = Chan!Send(c, v)
    PROVE  /\ line[1] \in {3, 4, 6, 7} /\ c \in Chan!Now(1).on
           /\ UNCHANGED <<closed, crashed, buffer>>
           /\ got' = [got EXCEPT ![1] = Append(@, v)]
           /\ line' = [Chan!Steps(g) EXCEPT ![1] = @ + 1]
<1>0. /\ Chan!Goroutines = 1 .. 4 /\ Chan!Code = Chan!Lesson24 /\ c \notin closed
      /\ \A h \in 1 .. 4 : Chan!Now(h) = Chan!Lesson24[h][line[h]]
      /\ line[1] \in 1 .. 7
  <2>1. Chan!Goroutines = 1 .. 4 /\ Chan!Code = Chan!Lesson24 /\ line[1] \in 1 .. 8 /\ closed = {}
    BY CodeOf DEF Told24
  <2>2. lesson' = lesson /\ line[g] \in DOMAIN Chan!Code[g] /\ ~(line[1] > Len(Chan!Code[1]))
    BY StepsByKind DEF Chan!Over
  <2>3. Len(Chan!Lesson24[1]) = 7
    BY Script24
  <2>4. QED
    BY <2>1, <2>2, <2>3 DEF Chan!Now
<1>1. c \in Chan!ChannelsUsed
  <2>1. line[g] \in DOMAIN Chan!Code[g] /\ g \in Chan!Goroutines /\ Chan!Now(g).on = {c}
    BY <1>0, StepsByKind DEF Chan!Send, Chan!Op
  <2>2. QED
    BY <2>1, AtScript
<1>3. ASSUME NEW h \in 1 .. 4, line[h] \in DOMAIN Chan!Code[h], Chan!Now(h).op \in {"receive", "range"}
      PROVE  h = 1 /\ line[1] \in {3, 4, 6, 7} /\ Chan!Now(h).op = "receive"
  BY <1>0, <1>3, Script24 DEF Chan!Go, Chan!Send, Chan!Select, Chan!Op
<1>4. c \in {"ch1", "ch2", "slowChannel"}
  BY <1>0, StepsByKind, Script24 DEF Chan!Send, Chan!Op
<1>5. Chan!Capacity(c) = 0
  BY <1>4 DEF Chan!Capacity
<1>6. ~(Len(buffer[c]) < Chan!Capacity(c))
  BY <1>1, <1>5 DEF Told24
<1>7. QED
  BY <1>0, <1>3, <1>6, SendDoes

LEMMA Tells24 ==
    ASSUME ChanTyped, Told24, NEW g \in Chan!Goroutines, Chan!Step(g)
    PROVE  Told24'
<1>0. /\ g \in 1 .. 4 /\ Chan!Goroutines = 1 .. 4 /\ Chan!Code = Chan!Lesson24
      /\ \A h \in 1 .. 4 : Chan!Now(h) = Chan!Lesson24[h][line[h]]
      /\ line[1] \in 1 .. 7 /\ line[g] \in DOMAIN Chan!Lesson24[g]
      /\ lesson' = lesson
  <2>1. Chan!Goroutines = 1 .. 4 /\ Chan!Code = Chan!Lesson24 /\ line[1] \in 1 .. 8 /\ closed = {}
    BY CodeOf DEF Told24
  <2>2. lesson' = lesson /\ line[g] \in DOMAIN Chan!Code[g] /\ ~(line[1] > Len(Chan!Code[1]))
    BY StepsByKind DEF Chan!Over
  <2>3. Len(Chan!Lesson24[1]) = 7
    BY Script24
  <2>4. QED
    BY <2>1, <2>2, <2>3 DEF Chan!Now
<1>1. /\ line \in [1 .. 4 -> Nat] /\ got \in [1 .. 4 -> Ints]
      /\ Chan!ChannelsUsed' = Chan!ChannelsUsed
  BY <1>0, ScriptStays DEF ChanTyped
<1>2. CASE g = 1 /\ line[1] \in {1, 2, 5}
  <2>1. Chan!Now(g) = Chan!Go(IF line[1] = 5 THEN 4 ELSE line[1] + 1)
    BY <1>0, <1>2, Script24
  <2>2. /\ line' = [line EXCEPT ![1] = @ + 1, ![IF line[1] = 5 THEN 4 ELSE line[1] + 1] = 1]
        /\ UNCHANGED <<buffer, closed, got, crashed>>
    BY <1>2, <2>1, GoDoes
  <2>3. /\ line'[1] = line[1] + 1
        /\ line'[2] = IF line[1] = 1 THEN 1 ELSE line[2]
        /\ line'[3] = IF line[1] = 2 THEN 1 ELSE line[3]
        /\ line'[4] = IF line[1] = 5 THEN 1 ELSE line[4]
    BY <1>1, <1>2, <2>2
  <2>4. QED
    BY <1>0, <1>1, <1>2, <2>2, <2>3 DEF Told24
<1>3. CASE g = 1 /\ line[1] \in {3, 4, 6, 7}
  <2>1. PICK cs, other : /\ Chan!Now(g) = Chan!Select(cs, other)
                         /\ other \in {"timeout", "default"} => line[1] \in {6, 7}
    BY <1>0, <1>3, Script24
  <2>2. cs \subseteq Chan!ChannelsUsed
    <3>1. Chan!Now(g).on = cs
      BY <2>1 DEF Chan!Select, Chan!Op
    <3>2. QED
      BY <1>0, <3>1, AtScript
  <2>3. /\ line' = [line EXCEPT ![g] = @ + 1] /\ UNCHANGED <<closed, crashed, buffer>>
        /\ got' = [got EXCEPT ![g] = Append(@, -1)] /\ line[1] \in {6, 7}
    BY <2>1, <2>2, ReceiveDoes DEF Told24
  <2>4. /\ line'[1] = line[1] + 1 /\ \A h \in 2 .. 4 : line'[h] = line[h]
        /\ got'[1] = Append(got[1], -1) /\ -1 \in Int /\ got[1] \in Ints
    BY <1>1, <1>3, <2>3
  <2>5. /\ Len(got'[1]) = Len(got[1]) + 1 /\ got'[1][Len(got[1]) + 1] = -1
        /\ \A i \in 1 .. Len(got[1]) : got'[1][i] = got[1][i]
    BY <2>4, Appended
  <2>6. QED
    BY <1>0, <1>1, <2>3, <2>4, <2>5, SMTT(30) DEF Told24
<1>4. CASE g \in 2 .. 4
  <2>1. /\ line[g] = 1
        /\ Chan!Now(g) = IF g = 2 THEN Chan!Send("ch1", 1)
                         ELSE IF g = 3 THEN Chan!Send("ch2", 2) ELSE Chan!Send("slowChannel", 3)
    BY <1>0, <1>4, Script24
  <2>2. PICK c, v : /\ Chan!Now(g) = Chan!Send(c, v) /\ v = g - 1
                    /\ c = IF g = 2 THEN "ch1" ELSE IF g = 3 THEN "ch2" ELSE "slowChannel"
    BY <1>4, <2>1
  <2>3. /\ line[1] \in {3, 4, 6, 7} /\ c \in Chan!Now(1).on
        /\ UNCHANGED <<closed, crashed, buffer>>
        /\ got' = [got EXCEPT ![1] = Append(@, v)]
        /\ line' = [Chan!Steps(g) EXCEPT ![1] = @ + 1]
    BY <1>4, <2>2, Meets24
  <2>4. IF g = 4 THEN line[1] = 6 ELSE line[1] \in {3, 4}
    <3>1. line[1] \in {3, 4} => Chan!Now(1).on = {"ch1", "ch2"}
      BY <1>0, Script24 DEF Chan!Select, Chan!Op
    <3>2. line[1] = 6 => Chan!Now(1).on = {"slowChannel"}
      BY <1>0, Script24 DEF Chan!Select, Chan!Op
    <3>3. line[1] = 7 => Chan!Now(1).on = {"nonBlocking"}
      BY <1>0, Script24 DEF Chan!Select, Chan!Op
    <3>4. QED
      BY <1>4, <2>2, <2>3, <3>1, <3>2, <3>3
  <2>5. /\ line'[1] = line[1] + 1 /\ line'[g] = 2
        /\ \A h \in (2 .. 4) \ {g} : line'[h] = line[h]
        /\ got'[1] = Append(got[1], v) /\ v \in Int /\ got[1] \in Ints
    BY <1>1, <1>4, <2>1, <2>2, <2>3 DEF Chan!Steps
  <2>6. /\ Len(got'[1]) = Len(got[1]) + 1 /\ got'[1][Len(got[1]) + 1] = v
        /\ \A i \in 1 .. Len(got[1]) : got'[1][i] = got[1][i]
    BY <2>5, Appended
  <2>7. CASE g = 4
    BY <1>0, <1>1, <2>2, <2>3, <2>4, <2>5, <2>6, <2>7, SMTT(30) DEF Told24
  <2>8. CASE g # 4 /\ line[1] = 3
    BY <1>0, <1>1, <1>4, <2>2, <2>3, <2>5, <2>6, <2>8 DEF Told24
  <2>9. CASE g # 4 /\ line[1] = 4
    BY <1>0, <1>1, <1>4, <2>1, <2>2, <2>3, <2>5, <2>6, <2>9, SMTT(30) DEF Told24
  <2>10. QED
    BY <2>4, <2>7, <2>8, <2>9
<1>5. QED
  BY <1>0, <1>2, <1>3, <1>4

\* Two results, a buffer drained, a worker with its jobs, a closed channel.
Heard23 == <<1, 5050, 1, 2, 3, 1, 42, 0>>
Jobs23 == <<1, 2, 3, 4, 5>>
LEMMA Values23 ==
    /\ Heard23[1] = 1 /\ Heard23[2] = 5050 /\ Heard23[6] = 1 /\ Heard23[7] = 42 /\ Heard23[8] = 0
    /\ \A n \in 5 .. 7 : Heard23[n - 2] = n - 4
    /\ \A n \in 11 .. 15 : Jobs23[n - 10] = n - 10
  BY DEF Heard23, Jobs23

\* How many of the lines from first to last are behind line n.
Behind(n, first, last) ==
    IF n <= first THEN 0 ELSE IF n > last THEN last + 1 - first ELSE n - first

LEMMA Behind23 ==
    ASSUME NEW n \in 11 .. 16
    PROVE  /\ Behind(n, 1, 2) = 2 /\ Behind(n, 3, 4) = 2 /\ Behind(n, 5, 7) = 3
           /\ Behind(n, 17, 17) = 0 /\ Behind(n, 18, 18) = 0
           /\ Behind(n, 20, 20) = 0 /\ Behind(n, 20, 21) = 0
  BY DEF Behind

Lines23 ==
    /\ lesson = 23 /\ line[1] \in 1 .. 22 /\ crashed = FALSE
    /\ line[2] = Behind(line[1], 1, 2) /\ line[3] = Behind(line[1], 3, 4)
    /\ line[4] \in 0 .. 3 /\ (line[4] = 0 <=> line[1] <= 10) /\ (line[4] = 3 <=> line[1] >= 18)
    /\ line[4] >= 2 => line[1] >= 17
    /\ "buffered" \in closed <=> line[1] > 8
    /\ "jobs" \in closed <=> line[1] > 16
    /\ "ch" \in closed <=> line[1] > 19

Unbuffered23 ==
    \A c \in {"messages", "results", "done"} : c \notin closed /\ buffer[c] = <<>>

\* main has heard k values: those it was sent, those it drained from its own
\* buffer, the worker's, and what it sent to itself.
Main23(k) ==
    /\ k \in Nat /\ Stretch(got[1], 0, k, Heard23)
    /\ line[1] < 9 => k = Behind(line[1], 2, 2) + Behind(line[1], 4, 4)
    /\ line[1] > 9 => k = 5 + Behind(line[1], 17, 17) + Behind(line[1], 20, 21)
    /\ Stretch(buffer["buffered"], IF line[1] < 9 THEN 2 ELSE IF line[1] = 9 THEN k ELSE 5,
               2 + Behind(line[1], 5, 7), Heard23)
    /\ Stretch(buffer["ch"], 6 + Behind(line[1], 20, 20), 6 + Behind(line[1], 18, 18), Heard23)

\* The worker has had j jobs, and all of them when it stops.
Worker23(j) ==
    /\ j \in Nat /\ Stretch(got[4], 0, j, Jobs23)
    /\ Stretch(buffer["jobs"], j, Behind(line[1], 11, 15), Jobs23)
    /\ line[4] >= 2 => j = 5

Told23(k, j) == Lines23 /\ Unbuffered23 /\ Main23(k) /\ Worker23(j)

Used23 == {"messages", "results", "buffered", "jobs", "done", "ch"}

LEMMA Channels23 == lesson = 23 => Used23 \subseteq Chan!ChannelsUsed
<1>1. \A c : Chan!Receive(c).on = {c} /\ Chan!RangeOver(c).on = {c} /\ Chan!Close(c).on = {c}
  BY DEF Chan!Receive, Chan!RangeOver, Chan!Close, Chan!Op
<1>2. SUFFICES ASSUME lesson = 23
               PROVE  Used23 \subseteq Chan!ChannelsUsed
  OBVIOUS
<1>3. Chan!Code = Chan!Lesson23 /\ 1 \in Chan!Goroutines /\ Len(Chan!Code[1]) = 21
  BY <1>2, Script23, CodeOf
<1>4. \A n \in 1 .. 21 : Chan!Lesson23[1][n].on \subseteq Chan!ChannelsUsed
  BY <1>2, <1>3, Scripts DEF Lessons
<1>5. /\ Chan!Lesson23[1][2].on = {"messages"} /\ Chan!Lesson23[1][4].on = {"results"}
      /\ Chan!Lesson23[1][9].on = {"buffered"} /\ Chan!Lesson23[1][16].on = {"jobs"}
      /\ Chan!Lesson23[1][17].on = {"done"} /\ Chan!Lesson23[1][20].on = {"ch"}
  BY <1>1, Script23
<1>6. QED
  BY <1>4, <1>5 DEF Used23

\* Who acts, where, and what is there to act on.
LEMMA Acts23 ==
    ASSUME ChanTyped, NEW k, NEW j, Told23(k, j), NEW g \in Chan!Goroutines, Chan!Step(g)
    PROVE  /\ g \in 1 .. 4 /\ Chan!Goroutines = 1 .. 4 /\ Chan!Code = Chan!Lesson23
           /\ \A h \in 1 .. 4 : Chan!Now(h) = Chan!Lesson23[h][line[h]]
           /\ line[1] \in 1 .. 21 /\ line[g] \in DOMAIN Chan!Lesson23[g]
           /\ lesson' = lesson /\ Used23 \subseteq Chan!ChannelsUsed
           /\ line \in [1 .. 4 -> Nat] /\ got \in [1 .. 4 -> Ints]
           /\ buffer \in [Chan!ChannelsUsed -> Ints]
           /\ Chan!Capacity("buffered") = 3 /\ Chan!Capacity("jobs") = 5 /\ Chan!Capacity("ch") = 1
           /\ \A c \in {"messages", "results", "done"} : Chan!Capacity(c) = 0
<1>1. /\ Chan!Goroutines = 1 .. 4 /\ Chan!Code = Chan!Lesson23 /\ line[1] \in 1 .. 22
      /\ lesson = 23 /\ Used23 \subseteq Chan!ChannelsUsed
  BY CodeOf, Channels23 DEF Told23, Lines23, Unbuffered23
<1>2. lesson' = lesson /\ line[g] \in DOMAIN Chan!Code[g] /\ ~(line[1] > Len(Chan!Code[1]))
  BY StepsByKind DEF Chan!Over
<1>3. Len(Chan!Lesson23[1]) = 21
  BY Script23
<1>4. /\ Chan!Capacity("buffered") = 3 /\ Chan!Capacity("jobs") = 5 /\ Chan!Capacity("ch") = 1
      /\ \A c \in {"messages", "results", "done"} : Chan!Capacity(c) = 0
  BY <1>1 DEF Chan!Capacity
<1>5. QED
  BY <1>1, <1>2, <1>3, <1>4, SMTT(30) DEF Chan!Now, ChanTyped

\* On the unbuffered channels main is the one who receives.
LEMMA Meets23 ==
    ASSUME ChanTyped, NEW k, NEW j, Told23(k, j), NEW g \in 2 .. 4, Chan!Step(g),
           NEW c \in {"messages", "results", "done"}, NEW v, Chan!Now(g) = Chan!Send(c, v)
    PROVE  /\ line[1] = IF c = "messages" THEN 2 ELSE IF c = "results" THEN 4 ELSE 17
           /\ UNCHANGED <<closed, crashed, buffer>>
           /\ got' = [got EXCEPT ![1] = Append(@, v)]
           /\ line' = [Chan!Steps(g) EXCEPT ![1] = @ + 1]
<1>0. /\ Chan!Goroutines = 1 .. 4 /\ Chan!Code = Chan!Lesson23 /\ c \notin closed
      /\ \A h \in 1 .. 4 : Chan!Now(h) = Chan!Lesson23[h][line[h]]
      /\ line[1] \in 1 .. 21 /\ Chan!Capacity(c) = 0 /\ buffer[c] = <<>>
  <2>1. g \in Chan!Goroutines
    BY CodeOf DEF Told23, Lines23, Unbuffered23
  <2>2. QED
    BY <2>1, Acts23 DEF Told23, Lines23, Unbuffered23
<1>1. ASSUME NEW h \in 1 .. 4, line[h] \in DOMAIN Chan!Code[h], c \in Chan!Now(h).on,
             Chan!Now(h).op \in {"receive", "range"}
      PROVE  /\ h = 1 /\ Chan!Now(h).op = "receive"
             /\ line[1] = IF c = "messages" THEN 2 ELSE IF c = "results" THEN 4 ELSE 17
  <2>1. \A d, w : /\ Chan!Send(d, w).op = "send" /\ Chan!Go(w).op = "go" /\ Chan!Close(d).op = "close"
                  /\ Chan!Receive(d).op = "receive" /\ Chan!Receive(d).on = {d}
                  /\ Chan!RangeOver(d).op = "range" /\ Chan!RangeOver(d).on = {d}
    BY DEF Chan!Send, Chan!Go, Chan!Close, Chan!Receive, Chan!RangeOver, Chan!Op
  <2>2. CASE h = 1
    <3>a. Chan!Lesson23[1][line[1]].op \in {"receive", "range"}
      BY <1>0, <1>1, <2>2
    <3>b. /\ line[1] \notin {1, 3, 10} /\ line[1] \notin {8, 16, 19}
      BY <2>1, <3>a, Script23
    <3>c. line[1] \notin 5 .. 7 /\ line[1] \notin 11 .. 15 /\ line[1] # 18
      BY <2>1, <3>a, Script23
    <3>1. line[1] \in {2, 4, 9, 17, 20, 21}
      BY <1>0, <3>b, <3>c
    <3>2. QED
      BY <1>0, <1>1, <2>1, <2>2, <3>1, Script23, SMTT(30)
  <2>3. CASE h \in 2 .. 3
    <3>1. Chan!Lesson23[h][line[h]].op = "send"
      BY <1>0, <1>1, <2>1, <2>3, Script23, SMTT(30)
    <3>2. QED
      BY <1>0, <1>1, <3>1
  <2>4. CASE h = 4
    <3>1. Chan!Lesson23[4][line[4]] \in {Chan!RangeOver("jobs"), Chan!Send("done", 1)}
      BY <1>0, <1>1, <2>4, Script23, SMTT(30)
    <3>2. QED
      BY <1>0, <1>1, <2>1, <2>4, <3>1
  <2>5. QED
    BY <2>2, <2>3, <2>4
<1>2. QED
  BY <1>0, <1>1, SendDoes

\* main's own lines but the range: one further, and nobody else moves.
LEMMA MainTells23 ==
    ASSUME ChanTyped, NEW k, NEW j, Told23(k, j), Chan!Step(1), line[1] # 9
    PROVE  \E i \in Nat : Told23(i, j)'
<1>0. /\ Chan!Goroutines = 1 .. 4 /\ Chan!Now(1) = Chan!Lesson23[1][line[1]]
      /\ line[1] \in 1 .. 21 /\ lesson' = lesson /\ Used23 \subseteq Chan!ChannelsUsed
      /\ line \in [1 .. 4 -> Nat] /\ got \in [1 .. 4 -> Ints]
      /\ buffer \in [Chan!ChannelsUsed -> Ints]
      /\ Chan!Capacity("buffered") = 3 /\ Chan!Capacity("jobs") = 5 /\ Chan!Capacity("ch") = 1
  <2>1. 1 \in Chan!Goroutines
    BY CodeOf DEF Told23, Lines23
  <2>2. QED
    BY <2>1, Acts23
<1>1. CASE line[1] \in {1, 3, 10}
  <2>1. PICK h \in 2 .. 4 : /\ Chan!Now(1) = Chan!Go(h)
                            /\ h = IF line[1] = 1 THEN 2 ELSE IF line[1] = 3 THEN 3 ELSE 4
    BY <1>0, <1>1, Script23
  <2>2. /\ line' = [line EXCEPT ![1] = @ + 1, ![h] = 1]
        /\ UNCHANGED <<buffer, closed, got, crashed>>
    BY <2>1, GoDoes
  <2>3. line'[1] = line[1] + 1 /\ \A g \in 2 .. 4 : line'[g] = IF g = h THEN 1 ELSE line[g]
    BY <1>0, <2>2
  <2>4. Told23(k, j)'
    <3>1. Lines23'
      BY <1>0, <1>1, <2>1, <2>2, <2>3 DEF Told23, Lines23, Behind
    <3>2. Unbuffered23'
      BY <1>0, <1>1, <2>1, <2>2, <2>3 DEF Told23, Unbuffered23, Used23
    <3>3. Main23(k)'
      BY <1>0, <1>1, <2>1, <2>2, <2>3 DEF Told23, Lines23, Main23, Behind, Used23
    <3>4. Worker23(j)'
      BY <1>0, <1>1, <2>1, <2>2, <2>3 DEF Told23, Lines23, Worker23, Behind, Used23
    <3>5. QED
      BY <3>1, <3>2, <3>3, <3>4 DEF Told23
  <2>5. QED
    BY <2>4 DEF Told23, Main23
<1>2. CASE line[1] \in {2, 4, 17}
  <2>1. PICK c \in {"messages", "results", "done"} : Chan!Now(1) = Chan!Select({c}, "wait")
    BY <1>0, <1>2, Script23 DEF Chan!Receive, Chan!Select
  <2>2. buffer[c] = <<>> /\ c \notin closed
    BY DEF Told23, Unbuffered23
  <2>3. QED
    BY <2>1, <2>2, ReceiveDoes
<1>3. CASE line[1] \in 5 .. 7
  <2>0. "buffered" \notin closed
    BY <1>3 DEF Told23, Lines23
  <2>1. Chan!Now(1) = Chan!Send("buffered", line[1] - 4) /\ "buffered" \notin closed
    BY <1>0, <1>3, <2>0, Script23
  <2>2. Stretch(buffer["buffered"], 2, line[1] - 3, Heard23)
    BY <1>3 DEF Told23, Main23, Behind
  <2>3. /\ buffer' = [buffer EXCEPT !["buffered"] = Append(@, line[1] - 4)]
        /\ line' = [line EXCEPT ![1] = @ + 1] /\ UNCHANGED <<got, closed, crashed>>
    BY <1>0, <2>1, SendDoes, SMTT(30)
  <2>4. /\ line'[1] = line[1] + 1 /\ line'[2] = line[2] /\ line'[3] = line[3] /\ line'[4] = line[4]
        /\ buffer'["buffered"] = Append(buffer["buffered"], line[1] - 4)
        /\ \A c \in Used23 \ {"buffered"} : buffer'[c] = buffer[c]
        /\ lesson' = lesson /\ crashed' = crashed /\ closed' = closed /\ got' = got
    BY <1>0, <2>3 DEF Used23
  <2>5. Stretch(buffer'["buffered"], 2, line[1] - 2, Heard23)
    <3>1. line[1] - 2 = (line[1] - 3) + 1 /\ Heard23[line[1] - 2] = line[1] - 4 /\ line[1] - 4 \in Int
      BY <1>3, Values23
    <3>2. QED
      BY <2>2, <2>4, <3>1, StretchGrows
  <2>6. Told23(k, j)'
    <3>1. Lines23'
      BY <1>3, <2>4, SMTT(30) DEF Told23, Lines23, Behind
    <3>2. Unbuffered23'
      BY <1>3, <2>4, <2>5 DEF Told23, Unbuffered23, Used23
    <3>3. Main23(k)'
      BY <1>3, <2>4, <2>5, SMTT(30) DEF Told23, Lines23, Main23, Behind, Used23
    <3>4. Worker23(j)'
      BY <1>3, <2>4, <2>5, SMTT(30) DEF Told23, Lines23, Worker23, Behind, Used23
    <3>5. QED
      BY <3>1, <3>2, <3>3, <3>4 DEF Told23
  <2>7. QED
    BY <2>6 DEF Told23, Main23
<1>4. CASE line[1] \in 11 .. 15
  <2>0. "jobs" \notin closed
    BY <1>4 DEF Told23, Lines23
  <2>1. Chan!Now(1) = Chan!Send("jobs", line[1] - 10) /\ "jobs" \notin closed
    BY <1>0, <1>4, <2>0, Script23
  <2>2. Stretch(buffer["jobs"], j, line[1] - 11, Jobs23)
    BY <1>4 DEF Told23, Worker23, Behind
  <2>3. /\ buffer' = [buffer EXCEPT !["jobs"] = Append(@, line[1] - 10)]
        /\ line' = [line EXCEPT ![1] = @ + 1] /\ UNCHANGED <<got, closed, crashed>>
    BY <1>0, <2>1, SendDoes, SMTT(30)
  <2>4. /\ line'[1] = line[1] + 1 /\ line'[2] = line[2] /\ line'[3] = line[3] /\ line'[4] = line[4]
        /\ buffer'["jobs"] = Append(buffer["jobs"], line[1] - 10)
        /\ \A c \in Used23 \ {"jobs"} : buffer'[c] = buffer[c]
        /\ lesson' = lesson /\ crashed' = crashed /\ closed' = closed /\ got' = got
    BY <1>0, <2>3 DEF Used23
  <2>5. Stretch(buffer'["jobs"], j, line[1] - 10, Jobs23)
    <3>1. line[1] - 10 = (line[1] - 11) + 1 /\ Jobs23[line[1] - 10] = line[1] - 10 /\ line[1] - 10 \in Int
      BY <1>4, Values23
    <3>2. QED
      BY <2>2, <2>4, <3>1, StretchGrows
  <2>6. Told23(k, j)'
    <3>0. /\ line[1] \in 11 .. 16 /\ line'[1] \in 11 .. 16
          /\ \A n \in 11 .. 16 :
                /\ Behind(n, 1, 2) = 2 /\ Behind(n, 3, 4) = 2 /\ Behind(n, 5, 7) = 3
                /\ Behind(n, 17, 17) = 0 /\ Behind(n, 18, 18) = 0
                /\ Behind(n, 20, 20) = 0 /\ Behind(n, 20, 21) = 0
      BY <1>4, <2>4, Behind23, SMTT(30)
    <3>1. Lines23'
      <4>1. /\ lesson = 23 /\ crashed = FALSE /\ line[2] = 2 /\ line[3] = 2 /\ line[4] = 1
            /\ "buffered" \in closed /\ "jobs" \notin closed /\ "ch" \notin closed
        BY <1>4, <3>0 DEF Told23, Lines23
      <4>2. /\ line'[1] \in 12 .. 16 /\ line'[2] = Behind(line'[1], 1, 2)
            /\ line'[3] = Behind(line'[1], 3, 4) /\ line'[4] = 1
        BY <1>4, <2>4, <3>0, <4>1, SMTT(30)
      <4>3. QED
        BY <2>4, <4>1, <4>2 DEF Lines23
    <3>2. Unbuffered23'
      BY <1>4, <2>4, <2>5 DEF Told23, Unbuffered23, Used23
    <3>3. Main23(k)'
      <4>1. /\ k = 5 /\ Stretch(got[1], 0, k, Heard23)
            /\ Stretch(buffer["buffered"], 5, 5, Heard23) /\ Stretch(buffer["ch"], 6, 6, Heard23)
        BY <1>4, <3>0 DEF Told23, Main23
      <4>2. line'[1] \in 12 .. 16 /\ buffer'["buffered"] = buffer["buffered"] /\ buffer'["ch"] = buffer["ch"]
        BY <1>4, <2>4 DEF Used23
      <4>3. /\ Behind(line'[1], 5, 7) = 3 /\ Behind(line'[1], 17, 17) = 0
            /\ Behind(line'[1], 18, 18) = 0 /\ Behind(line'[1], 20, 20) = 0
            /\ Behind(line'[1], 20, 21) = 0
        BY <3>0
      <4>4. got'[1] = got[1]
        BY <2>4
      <4>5. QED
        BY <4>1, <4>2, <4>3, <4>4 DEF Main23
    <3>4. Worker23(j)'
      BY <1>4, <2>4, <2>5, SMTT(30) DEF Told23, Lines23, Worker23, Behind, Used23
    <3>5. QED
      BY <3>1, <3>2, <3>3, <3>4 DEF Told23
  <2>7. QED
    BY <2>6 DEF Told23, Main23
<1>5. CASE line[1] = 18
  <2>1. Chan!Now(1) = Chan!Send("ch", 42) /\ "ch" \notin closed
    BY <1>0, <1>5, Script23 DEF Told23, Lines23
  <2>2. Stretch(buffer["ch"], 6, 6, Heard23)
    BY <1>5 DEF Told23, Main23, Behind
  <2>3. /\ buffer' = [buffer EXCEPT !["ch"] = Append(@, 42)]
        /\ line' = [line EXCEPT ![1] = @ + 1] /\ UNCHANGED <<got, closed, crashed>>
    BY <1>0, <2>1, SendDoes
  <2>4. /\ line'[1] = 19 /\ \A g \in 2 .. 4 : line'[g] = line[g]
        /\ buffer'["ch"] = Append(buffer["ch"], 42)
        /\ \A c \in Used23 \ {"ch"} : buffer'[c] = buffer[c]
    BY <1>0, <1>5, <2>3 DEF Used23
  <2>5. Stretch(buffer'["ch"], 6, 7, Heard23)
    <3>1. Heard23[7] = 42 /\ buffer'["ch"] = Append(buffer["ch"], 42)
      BY <2>4, Values23
    <3>2. QED
      BY <2>2, <3>1, StretchGrows
  <2>6. Told23(k, j)'
    <3>1. Lines23'
      BY <1>0, <1>5, <2>3, <2>4, <2>5 DEF Told23, Lines23, Behind
    <3>2. Unbuffered23'
      BY <1>0, <1>5, <2>3, <2>4, <2>5 DEF Told23, Unbuffered23, Used23
    <3>3. Main23(k)'
      BY <1>0, <1>5, <2>3, <2>4, <2>5 DEF Told23, Lines23, Main23, Behind, Used23
    <3>4. Worker23(j)'
      BY <1>0, <1>5, <2>3, <2>4, <2>5 DEF Told23, Lines23, Worker23, Behind, Used23
    <3>5. QED
      BY <3>1, <3>2, <3>3, <3>4 DEF Told23
  <2>7. QED
    BY <2>6 DEF Told23, Main23
<1>6. CASE line[1] \in {8, 16, 19}
  <2>1. PICK c \in {"buffered", "jobs", "ch"} :
          /\ Chan!Now(1) = Chan!Close(c)
          /\ c = IF line[1] = 8 THEN "buffered" ELSE IF line[1] = 16 THEN "jobs" ELSE "ch"
    BY <1>0, <1>6, Script23
  <2>2. c \notin closed
    BY <1>6, <2>1 DEF Told23, Lines23
  <2>3. /\ line' = [line EXCEPT ![1] = @ + 1] /\ closed' = closed \cup {c}
        /\ crashed' = FALSE /\ UNCHANGED <<buffer, got>>
    BY <2>1, <2>2, CloseDoes
  <2>4. line'[1] = line[1] + 1 /\ \A g \in 2 .. 4 : line'[g] = line[g]
    BY <1>0, <2>3
  <2>5. Told23(k, j)'
    <3>1. Lines23'
      BY <1>0, <1>6, <2>1, <2>3, <2>4 DEF Told23, Lines23, Behind
    <3>2. Unbuffered23'
      BY <1>0, <1>6, <2>1, <2>3, <2>4 DEF Told23, Unbuffered23, Used23
    <3>3. Main23(k)'
      BY <1>0, <1>6, <2>1, <2>3, <2>4 DEF Told23, Lines23, Main23, Behind, Used23
    <3>4. Worker23(j)'
      BY <1>0, <1>6, <2>1, <2>3, <2>4 DEF Told23, Lines23, Worker23, Behind, Used23
    <3>5. QED
      BY <3>1, <3>2, <3>3, <3>4 DEF Told23
  <2>6. QED
    BY <2>5 DEF Told23, Main23
<1>7. CASE line[1] \in 20 .. 21
  <2>0. Chan!Now(1) = Chan!Select({"ch"}, "wait")
    BY <1>0, <1>7, Script23 DEF Chan!Receive, Chan!Select
  <2>1. Stretch(got[1], 0, line[1] - 14, Heard23)
    BY <1>7 DEF Told23, Main23, Behind
  <2>2. Stretch(buffer["ch"], 6 + (line[1] - 20), 7, Heard23)
    BY <1>7 DEF Told23, Main23, Behind
  <2>3. CASE line[1] = 20
    <3>1. Stretch(buffer["ch"], 6, 7, Heard23)
      BY <2>2, <2>3
    <3>2. buffer["ch"] # <<>> /\ Stretch(Tail(buffer["ch"]), 7, 7, Heard23) /\ Head(buffer["ch"]) = 42
      <4>1. PICK s : s = buffer["ch"]
        OBVIOUS
      <4>2. s # <<>> /\ Stretch(Tail(s), 7, 7, Heard23) /\ Head(s) = Heard23[7]
        BY <3>1, <4>1, StretchLast
      <4>3. Heard23[7] = 42
        BY Values23
      <4>4. QED
        BY <4>1, <4>2, <4>3
    <3>3. /\ line' = [line EXCEPT ![1] = @ + 1] /\ UNCHANGED <<closed, crashed>>
          /\ got' = [got EXCEPT ![1] = Append(@, Head(buffer["ch"]))]
          /\ buffer' = [buffer EXCEPT !["ch"] = Tail(@)]
      BY <2>0, <3>2, ReceiveDoes
    <3>4. /\ line'[1] = 21 /\ \A g \in 2 .. 4 : line'[g] = line[g]
          /\ got'[1] = Append(got[1], 42) /\ got'[4] = got[4]
          /\ buffer'["ch"] = Tail(buffer["ch"])
          /\ \A c \in Used23 \ {"ch"} : buffer'[c] = buffer[c]
      BY <1>0, <2>3, <3>2, <3>3 DEF Used23
    <3>5. Stretch(got'[1], 0, 7, Heard23)
      <4>1. Stretch(got[1], 0, 6, Heard23) /\ Heard23[7] = 42 /\ got'[1] = Append(got[1], 42)
        BY <2>1, <2>3, <3>4, Values23
      <4>2. QED
        BY <4>1, StretchGrows
    <3>6. Told23(7, j)'
      <4>1. Lines23'
        BY <1>0, <2>3, <3>2, <3>3, <3>4, <3>5 DEF Told23, Lines23, Behind
      <4>2. Unbuffered23'
        BY <1>0, <2>3, <3>2, <3>3, <3>4, <3>5 DEF Told23, Unbuffered23, Used23
      <4>3. Main23(7)'
        BY <1>0, <2>3, <3>2, <3>3, <3>4, <3>5 DEF Told23, Lines23, Main23, Behind, Used23
      <4>4. Worker23(j)'
        BY <1>0, <2>3, <3>2, <3>3, <3>4, <3>5 DEF Told23, Lines23, Worker23, Behind, Used23
      <4>5. QED
        BY <4>1, <4>2, <4>3, <4>4 DEF Told23
    <3>7. QED
      BY <3>6
  <2>4. CASE line[1] = 21
    <3>1. buffer["ch"] = <<>>
      BY <2>2, <2>4, StretchEmpty
    <3>2. /\ line' = [line EXCEPT ![1] = @ + 1] /\ UNCHANGED <<closed, crashed, buffer>>
          /\ got' = [got EXCEPT ![1] = Append(@, 0)]
      BY <2>0, <3>1, ReceiveDoes
    <3>3. /\ line'[1] = 22 /\ \A g \in 2 .. 4 : line'[g] = line[g]
          /\ got'[1] = Append(got[1], 0) /\ got'[4] = got[4]
      BY <1>0, <2>4, <3>2
    <3>4. Stretch(got'[1], 0, 8, Heard23)
      <4>1. Stretch(got[1], 0, 7, Heard23) /\ Heard23[8] = 0 /\ got'[1] = Append(got[1], 0)
        BY <2>1, <2>4, <3>3, Values23
      <4>2. QED
        BY <4>1, StretchGrows
    <3>5. Told23(8, j)'
      <4>1. Lines23'
        BY <1>0, <2>4, <3>2, <3>3, <3>4 DEF Told23, Lines23, Behind
      <4>2. Unbuffered23'
        BY <1>0, <2>4, <3>2, <3>3, <3>4 DEF Told23, Unbuffered23, Used23
      <4>3. Main23(8)'
        BY <1>0, <2>4, <3>2, <3>3, <3>4 DEF Told23, Lines23, Main23, Behind, Used23
      <4>4. Worker23(j)'
        BY <1>0, <2>4, <3>2, <3>3, <3>4 DEF Told23, Lines23, Worker23, Behind, Used23
      <4>5. QED
        BY <4>1, <4>2, <4>3, <4>4 DEF Told23
    <3>6. QED
      BY <3>5
  <2>5. QED
    BY <1>7, <2>3, <2>4
<1>8. QED
  BY <1>0, <1>1, <1>2, <1>3, <1>4, <1>5, <1>6, <1>7

\* main drains its buffer, and goes on when that is closed and empty.
LEMMA RangeTells23 ==
    ASSUME ChanTyped, NEW k, NEW j, Told23(k, j), Chan!Step(1), line[1] = 9
    PROVE  \E i \in Nat : Told23(i, j)'
<1>0. /\ Chan!Goroutines = 1 .. 4 /\ Chan!Now(1) = Chan!Lesson23[1][line[1]]
      /\ lesson' = lesson /\ Used23 \subseteq Chan!ChannelsUsed
      /\ line \in [1 .. 4 -> Nat] /\ got \in [1 .. 4 -> Ints]
      /\ buffer \in [Chan!ChannelsUsed -> Ints]
  <2>1. 1 \in Chan!Goroutines
    BY CodeOf DEF Told23, Lines23
  <2>2. QED
    BY <2>1, Acts23
<1>1. Chan!Now(1) = Chan!RangeOver("buffered")
  BY <1>0, Script23
<1>2. /\ Stretch(got[1], 0, k, Heard23) /\ Stretch(buffer["buffered"], k, 5, Heard23)
      /\ Stretch(buffer["ch"], 6, 6, Heard23) /\ k \in Nat
  BY DEF Told23, Main23, Behind
<1>3. CASE /\ buffer["buffered"] # <<>> /\ line' = [line EXCEPT ![1] = @]
           /\ got' = [got EXCEPT ![1] = Append(@, Head(buffer["buffered"]))]
           /\ buffer' = [buffer EXCEPT !["buffered"] = Tail(@)]
           /\ UNCHANGED <<closed, crashed>>
  <2>1. /\ Stretch(Tail(buffer["buffered"]), k + 1, 5, Heard23)
        /\ Head(buffer["buffered"]) = Heard23[k + 1] /\ Head(buffer["buffered"]) \in Int
    BY <1>2, <1>3, StretchShrinks
  <2>2. /\ line' = line /\ lesson' = lesson /\ closed' = closed /\ crashed' = crashed
        /\ got'[1] = Append(got[1], Head(buffer["buffered"])) /\ got'[4] = got[4]
        /\ buffer'["buffered"] = Tail(buffer["buffered"])
        /\ \A c \in Used23 \ {"buffered"} : buffer'[c] = buffer[c]
    BY <1>0, <1>3 DEF Used23
  <2>3. Stretch(got'[1], 0, k + 1, Heard23)
    BY <1>2, <2>1, <2>2, StretchGrows
  <2>4. Lines23' /\ Unbuffered23' /\ Worker23(j)'
    BY <2>2 DEF Told23, Lines23, Unbuffered23, Worker23, Used23
  <2>5. Main23(k + 1)'
    BY <1>2, <2>1, <2>2, <2>3 DEF Main23, Behind, Used23
  <2>6. k + 1 \in Nat
    BY <1>2
  <2>7. QED
    BY <2>4, <2>5, <2>6 DEF Told23
<1>4. CASE /\ "buffered" \in closed /\ buffer["buffered"] = <<>>
           /\ line' = [line EXCEPT ![1] = @ + 1] /\ UNCHANGED <<buffer, got, closed, crashed>>
  <2>1. k = 5
    BY <1>2, <1>4, StretchEmpty
  <2>2. /\ line'[1] = 10 /\ line'[2] = line[2] /\ line'[3] = line[3] /\ line'[4] = line[4]
        /\ lesson' = lesson /\ closed' = closed /\ crashed' = crashed /\ got' = got
        /\ buffer' = buffer
    BY <1>0, <1>4
  <2>3. Lines23'
    BY <2>2 DEF Told23, Lines23, Behind
  <2>4. Unbuffered23'
    BY <2>2 DEF Told23, Unbuffered23
  <2>5. Worker23(j)'
    BY <2>2 DEF Told23, Worker23, Behind
  <2>6. Main23(k)'
    BY <1>2, <2>1, <2>2 DEF Main23, Behind
  <2>7. QED
    BY <1>2, <2>3, <2>4, <2>5, <2>6 DEF Told23
<1>5. QED
  BY <1>1, <1>3, <1>4, RangeDoes

\* A value for main, on a channel without a buffer.
LEMMA SenderTells23 ==
    ASSUME ChanTyped, NEW k, NEW j, Told23(k, j), NEW g \in 2 .. 4, Chan!Step(g),
           g = 4 => line[4] = 2
    PROVE  \E i \in Nat : Told23(i, j)'
<1>0. /\ Chan!Goroutines = 1 .. 4 /\ Chan!Now(g) = Chan!Lesson23[g][line[g]]
      /\ lesson' = lesson /\ line[g] \in DOMAIN Chan!Lesson23[g]
      /\ line \in [1 .. 4 -> Nat] /\ got \in [1 .. 4 -> Ints]
  <2>1. g \in Chan!Goroutines
    BY CodeOf DEF Told23, Lines23
  <2>2. QED
    BY <2>1, Acts23
<1>1. PICK c, v : /\ Chan!Now(g) = Chan!Send(c, v)
                  /\ c = IF g = 2 THEN "messages" ELSE IF g = 3 THEN "results" ELSE "done"
                  /\ v = IF g = 3 THEN 5050 ELSE 1
  BY <1>0, Script23
<1>2. c \in {"messages", "results", "done"} /\ v \in Int
  BY <1>1
<1>3. /\ line[1] = IF g = 2 THEN 2 ELSE IF g = 3 THEN 4 ELSE 17
      /\ UNCHANGED <<closed, crashed, buffer>>
      /\ got' = [got EXCEPT ![1] = Append(@, v)]
      /\ line' = [Chan!Steps(g) EXCEPT ![1] = @ + 1]
  BY <1>1, <1>2, Meets23
<1>4. /\ line'[1] = line[1] + 1 /\ line'[g] = line[g] + 1
      /\ \A h \in (2 .. 4) \ {g} : line'[h] = line[h]
      /\ got'[1] = Append(got[1], v) /\ got'[4] = got[4]
      /\ lesson' = lesson /\ closed' = closed /\ crashed' = crashed /\ buffer' = buffer
  BY <1>0, <1>3 DEF Chan!Steps
<1>5. k = (IF g = 2 THEN 0 ELSE IF g = 3 THEN 1 ELSE 5) /\ Stretch(got[1], 0, k, Heard23)
  BY <1>3 DEF Told23, Main23, Behind
<1>6. Heard23[k + 1] = v
  BY <1>1, <1>5, Values23
<1>7. Stretch(got'[1], 0, k + 1, Heard23)
  <2>1. /\ Stretch(got[1], 0, k, Heard23) /\ v \in Int /\ Heard23[k + 1] = v
        /\ got'[1] = Append(got[1], v)
    BY <1>2, <1>4, <1>5, <1>6
  <2>2. QED
    BY <2>1, StretchGrows
<1>8. CASE g = 2
  <2>0. line'[1] = 3 /\ line'[2] = line[2] + 1 /\ line'[3] = line[3] /\ line'[4] = line[4] /\ k = 0
    BY <1>3, <1>4, <1>5, <1>8
  <2>1. Lines23'
    BY <1>3, <1>4, <1>8, <2>0 DEF Told23, Lines23, Behind
  <2>2. Unbuffered23'
    BY <1>4 DEF Told23, Unbuffered23
  <2>3. Worker23(j)'
    BY <1>3, <1>4, <1>8, <2>0 DEF Told23, Worker23, Behind
  <2>4. Main23(1)'
    BY <1>3, <1>4, <1>7, <1>8, <2>0 DEF Told23, Main23, Behind
  <2>5. QED
    BY <2>1, <2>2, <2>3, <2>4 DEF Told23
<1>9. CASE g = 3
  <2>0. line'[1] = 5 /\ line'[2] = line[2] /\ line'[3] = line[3] + 1 /\ line'[4] = line[4] /\ k = 1
    BY <1>3, <1>4, <1>5, <1>9
  <2>1. Lines23'
    BY <1>3, <1>4, <1>9, <2>0 DEF Told23, Lines23, Behind
  <2>2. Unbuffered23'
    BY <1>4 DEF Told23, Unbuffered23
  <2>3. Worker23(j)'
    BY <1>3, <1>4, <1>9, <2>0 DEF Told23, Worker23, Behind
  <2>4. Main23(2)'
    BY <1>3, <1>4, <1>7, <1>9, <2>0 DEF Told23, Main23, Behind
  <2>5. QED
    BY <2>1, <2>2, <2>3, <2>4 DEF Told23
<1>10. CASE g = 4
  <2>0. line'[1] = 18 /\ line'[2] = line[2] /\ line'[3] = line[3] /\ line'[4] = 3 /\ k = 5
    BY <1>3, <1>4, <1>5, <1>10
  <2>1. Lines23'
    BY <1>3, <1>4, <1>10, <2>0 DEF Told23, Lines23, Behind
  <2>2. Unbuffered23'
    BY <1>4 DEF Told23, Unbuffered23
  <2>3. Worker23(j)'
    BY <1>3, <1>4, <1>10, <2>0 DEF Told23, Worker23, Behind
  <2>4. Main23(6)'
    BY <1>3, <1>4, <1>7, <1>10, <2>0 DEF Told23, Main23, Behind
  <2>5. QED
    BY <2>1, <2>2, <2>3, <2>4 DEF Told23
<1>11. QED
  BY <1>8, <1>9, <1>10

\* The worker takes a job, and stops when main has closed them and none is left.
LEMMA WorkerTells23 ==
    ASSUME ChanTyped, NEW k, NEW j, Told23(k, j), Chan!Step(4), line[4] # 2
    PROVE  \E i \in Nat : Told23(k, i)'
<1>0. /\ Chan!Goroutines = 1 .. 4 /\ Chan!Now(4) = Chan!Lesson23[4][line[4]]
      /\ lesson' = lesson /\ Used23 \subseteq Chan!ChannelsUsed
      /\ line[4] \in DOMAIN Chan!Lesson23[4]
      /\ line \in [1 .. 4 -> Nat] /\ got \in [1 .. 4 -> Ints]
      /\ buffer \in [Chan!ChannelsUsed -> Ints]
  <2>1. 4 \in Chan!Goroutines
    BY CodeOf DEF Told23, Lines23
  <2>2. QED
    BY <2>1, Acts23
<1>1. Chan!Now(4) = Chan!RangeOver("jobs") /\ line[4] = 1
  BY <1>0, Script23
<1>2. /\ Stretch(got[4], 0, j, Jobs23) /\ j \in Nat
      /\ Stretch(buffer["jobs"], j, Behind(line[1], 11, 15), Jobs23)
  BY DEF Told23, Worker23
<1>3. CASE /\ buffer["jobs"] # <<>> /\ line' = [line EXCEPT ![4] = @]
           /\ got' = [got EXCEPT ![4] = Append(@, Head(buffer["jobs"]))]
           /\ buffer' = [buffer EXCEPT !["jobs"] = Tail(@)]
           /\ UNCHANGED <<closed, crashed>>
  <2>1. /\ Stretch(Tail(buffer["jobs"]), j + 1, Behind(line[1], 11, 15), Jobs23)
        /\ Head(buffer["jobs"]) = Jobs23[j + 1] /\ Head(buffer["jobs"]) \in Int
    BY <1>2, <1>3, StretchShrinks
  <2>2. /\ line' = line /\ lesson' = lesson /\ closed' = closed /\ crashed' = crashed
        /\ got'[4] = Append(got[4], Head(buffer["jobs"])) /\ got'[1] = got[1]
        /\ buffer'["jobs"] = Tail(buffer["jobs"])
        /\ \A c \in Used23 \ {"jobs"} : buffer'[c] = buffer[c]
    BY <1>0, <1>3 DEF Used23
  <2>3. Stretch(got'[4], 0, j + 1, Jobs23)
    <3>1. /\ Stretch(got[4], 0, j, Jobs23) /\ Head(buffer["jobs"]) \in Int
          /\ Head(buffer["jobs"]) = Jobs23[j + 1] /\ got'[4] = Append(got[4], Head(buffer["jobs"]))
      BY <1>2, <2>1, <2>2
    <3>2. QED
      BY <3>1, StretchGrows
  <2>4. Lines23' /\ Unbuffered23' /\ Main23(k)'
    <3>1. Lines23'
      BY <2>2 DEF Told23, Lines23
    <3>2. Unbuffered23'
      BY <2>2 DEF Told23, Unbuffered23, Used23
    <3>3. Main23(k)'
      BY <2>2 DEF Told23, Main23, Used23
    <3>4. QED
      BY <3>1, <3>2, <3>3
  <2>5. Worker23(j + 1)'
    BY <1>1, <1>2, <2>1, <2>2, <2>3 DEF Worker23
  <2>6. j + 1 \in Nat
    BY <1>2
  <2>7. QED
    BY <2>4, <2>5, <2>6 DEF Told23
<1>4. CASE /\ "jobs" \in closed /\ buffer["jobs"] = <<>>
           /\ line' = [line EXCEPT ![4] = @ + 1] /\ UNCHANGED <<buffer, got, closed, crashed>>
  <2>1. line[1] = 17
    BY <1>1, <1>4 DEF Told23, Lines23
  <2>2. j = 5
    BY <1>2, <1>4, <2>1, StretchEmpty DEF Behind
  <2>3. /\ line'[1] = 17 /\ line'[2] = line[2] /\ line'[3] = line[3] /\ line'[4] = 2
        /\ lesson' = lesson /\ closed' = closed /\ crashed' = crashed /\ got' = got
        /\ buffer' = buffer
    BY <1>0, <1>1, <1>4, <2>1
  <2>4. Lines23'
    BY <2>1, <2>3 DEF Told23, Lines23
  <2>5. Unbuffered23'
    BY <2>3 DEF Told23, Unbuffered23
  <2>6. Main23(k)'
    BY <2>1, <2>3 DEF Told23, Main23
  <2>7. Worker23(j)'
    BY <1>2, <2>1, <2>2, <2>3 DEF Worker23
  <2>8. QED
    BY <1>2, <2>4, <2>5, <2>6, <2>7 DEF Told23
<1>5. QED
  BY <1>1, <1>3, <1>4, RangeDoes


LEMMA Tells23 ==
    ASSUME ChanTyped, NEW k, NEW j, Told23(k, j), NEW g \in Chan!Goroutines, Chan!Step(g)
    PROVE  \E i, n : Told23(i, n)'
<1>1. g \in 1 .. 4
  BY Acts23
<1>2. CASE g = 1 /\ line[1] # 9
  BY <1>2, MainTells23
<1>3. CASE g = 1 /\ line[1] = 9
  BY <1>3, RangeTells23
<1>4. CASE g \in 2 .. 4 /\ (g = 4 => line[4] = 2)
  BY <1>4, SenderTells23
<1>5. CASE g = 4 /\ line[4] # 2
  BY <1>5, WorkerTells23
<1>6. QED
  BY <1>1, <1>2, <1>3, <1>4, <1>5

-----------------------------------------------------------------------------
(* The six lessons together                                                  *)

ChanInv ==
    /\ ChanTyped
    /\ lesson = 23 => \E k, j : Told23(k, j)
    /\ lesson = 24 => Told24
    /\ lesson = 25 => Told25
    /\ lesson = 49 => Told49
    /\ lesson = 55 => Told55
    /\ lesson = 66 => Told66

LEMMA ChanInit ==
    ASSUME Chan!Init
    PROVE  ChanInv
<1>1. /\ ChanTyped /\ crashed = FALSE /\ closed = {}
      /\ \A g \in Chan!Goroutines : line[g] = IF g = 1 THEN 1 ELSE 0
      /\ \A g \in Chan!Goroutines : got[g] = <<>>
      /\ \A c \in Chan!ChannelsUsed : buffer[c] = <<>>
  BY ChanBegins DEF Chan!Init
<1>2. \A f : Stretch(<<>>, 0, 0, f) /\ Stretch(<<>>, 2, 2, f) /\ Stretch(<<>>, 6, 6, f)
  BY StretchOfNothing
<1>3. ASSUME lesson = 23
      PROVE  Told23(0, 0)
  <2>1. /\ line[1] = 1 /\ line[2] = 0 /\ line[3] = 0 /\ line[4] = 0
        /\ got[1] = <<>> /\ got[4] = <<>>
    BY <1>1, <1>3, CodeOf
  <2>2. \A c \in Used23 : buffer[c] = <<>>
    BY <1>1, <1>3, Channels23
  <2>3. Behind(1, 1, 2) = 0 /\ Behind(1, 3, 4) = 0 /\ Behind(1, 2, 2) = 0 /\ Behind(1, 4, 4) = 0
    BY DEF Behind
  <2>4. Behind(1, 5, 7) = 0 /\ Behind(1, 20, 20) = 0 /\ Behind(1, 18, 18) = 0 /\ Behind(1, 11, 15) = 0
    BY DEF Behind
  <2>5. Lines23
    BY <1>1, <1>3, <2>1, <2>3 DEF Lines23
  <2>6. Unbuffered23
    BY <1>1, <2>2 DEF Unbuffered23, Used23
  <2>7. buffer["buffered"] = <<>> /\ buffer["ch"] = <<>> /\ buffer["jobs"] = <<>>
    BY <2>2 DEF Used23
  <2>8. Main23(0)
    BY <1>2, <2>1, <2>3, <2>4, <2>7 DEF Main23
  <2>9. Worker23(0)
    BY <1>2, <2>1, <2>4, <2>7 DEF Worker23
  <2>10. QED
    BY <2>5, <2>6, <2>8, <2>9 DEF Told23
<1>4. ASSUME lesson = 24
      PROVE  Told24
  <2>1. /\ line[1] = 1 /\ line[2] = 0 /\ line[3] = 0 /\ line[4] = 0 /\ Len(got[1]) = 0
    BY <1>1, <1>4, CodeOf
  <2>2. QED
    BY <1>1, <1>4, <2>1 DEF Told24
<1>5. ASSUME lesson = 25
      PROVE  Told25
  BY <1>1, <1>5, CodeOf DEF Told25
<1>6. ASSUME lesson = 49
      PROVE  Told49
  BY <1>1, <1>2, <1>6, CodeOf, Channels49 DEF Told49
<1>7. ASSUME lesson = 55
      PROVE  Told55
  BY <1>1, <1>2, <1>7, CodeOf, Channels55 DEF Told55
<1>8. ASSUME lesson = 66
      PROVE  Told66
  BY <1>1, <1>2, <1>8, CodeOf, Channels66 DEF Told66
<1>9. QED
  BY <1>1, <1>3, <1>4, <1>5, <1>6, <1>7, <1>8 DEF ChanInv

LEMMA ChanStep ==
    ASSUME ChanInv, [Chan!Next]_(Chan!vars)
    PROVE  ChanInv'
<1>1. CASE UNCHANGED Chan!vars
  <2>1. lesson' = lesson /\ UNCHANGED <<line, buffer, closed>> /\ UNCHANGED <<got, crashed>>
    BY <1>1 DEF Chan!vars
  <2>2. \A k, j : Told23(k, j)' = Told23(k, j)
    BY <2>1 DEF Told23, Lines23, Unbuffered23, Main23, Worker23
  <2>3. Told24' = Told24
    BY <2>1, ScriptStays DEF Told24
  <2>4. Told25' = Told25 /\ Told49' = Told49 /\ Told55' = Told55 /\ Told66' = Told66
    BY <2>1 DEF Told25, Told49, Told55, Told66
  <2>5. ChanTyped'
    BY <1>1, ChanKept DEF ChanInv
  <2>6. QED
    BY <2>1, <2>2, <2>3, <2>4, <2>5 DEF ChanInv
<1>2. ASSUME NEW g \in Chan!Goroutines, Chan!Step(g)
      PROVE  ChanInv'
  <2>1. ChanTyped /\ ChanTyped' /\ lesson' = lesson
    BY <1>2, ChanSteps, StepsByKind DEF ChanInv
  <2>2. lesson' = 23 => \E k, j : Told23(k, j)'
    BY <1>2, <2>1, Tells23 DEF ChanInv
  <2>3. lesson' = 24 => Told24'
    BY <1>2, <2>1, Tells24 DEF ChanInv
  <2>4. lesson' = 25 => Told25'
    BY <1>2, <2>1, Tells25 DEF ChanInv
  <2>5. (lesson' = 49 => Told49') /\ (lesson' = 55 => Told55') /\ (lesson' = 66 => Told66')
    BY <1>2, <2>1, Tells49, Tells55, Tells66 DEF ChanInv
  <2>6. QED
    BY <2>1, <2>2, <2>3, <2>4, <2>5 DEF ChanInv
<1>3. QED
  BY <1>1, <1>2 DEF Chan!Next

LEMMA Pairs ==
    ASSUME NEW S, NEW a \in Seq(S), NEW b \in Seq(S), Len(a) = 2, Len(b) = 2
    PROVE  /\ a \o b \in Seq(S) /\ Len(a \o b) = 4
           /\ (a \o b)[1] = a[1] /\ (a \o b)[2] = a[2] /\ (a \o b)[3] = b[1] /\ (a \o b)[4] = b[2]
<1>1. /\ a \o b \in Seq(S) /\ Len(a \o b) = Len(a) + Len(b)
      /\ \A n \in 1 .. Len(a) + Len(b) :
            (a \o b)[n] = IF n <= Len(a) THEN a[n] ELSE b[n - Len(a)]
  BY ConcatProperties
<1>2. PICK e : e = a \o b
  OBVIOUS
<1>3. \A n \in 1 .. 4 : e[n] = IF n <= 2 THEN a[n] ELSE b[n - 2]
  BY <1>1, <1>2
<1>4. e[1] = a[1] /\ e[2] = a[2] /\ e[3] = b[1] /\ e[4] = b[2]
  BY <1>3
<1>5. e \in Seq(S) /\ Len(e) = 4
  BY <1>1, <1>2
<1>6. QED
  BY <1>2, <1>4, <1>5

\* At the end main has heard all of it.
LEMMA ChanTells ==
    ASSUME ChanInv
    PROVE  Chan!ReceivedInOrder
<1>1. lesson \in Lessons
  BY DEF ChanInv, ChanTyped
<1>2. ~crashed
  BY <1>1 DEF ChanInv, Lessons, Told23, Lines23, Told24, Told25, Told49, Told55, Told66
<1>3. ASSUME lesson = 23, Chan!Over(1)
      PROVE  got[1] = <<1, 5050, 1, 2, 3, 1, 42, 0>> /\ got[4] = <<1, 2, 3, 4, 5>>
  <2>1. PICK k, j : Told23(k, j)
    BY <1>3 DEF ChanInv
  <2>2. line[1] = 22
    <3>a. Chan!Code = Chan!Lesson23 /\ Len(Chan!Lesson23[1]) = 21
      BY <1>3, CodeOf, Script23
    <3>1. line[1] > 21 /\ line[1] \in 1 .. 22
      BY <1>3, <2>1, <3>a DEF Chan!Over, Told23, Lines23
    <3>2. QED
      BY <3>1
  <2>3. Behind(22, 17, 17) = 1 /\ Behind(22, 20, 21) = 2
    BY DEF Behind
  <2>4. k = 8 /\ Stretch(got[1], 0, k, Heard23)
    BY <2>1, <2>2, <2>3 DEF Told23, Main23
  <2>5. j = 5 /\ Stretch(got[4], 0, j, Jobs23)
    <3>1. line[4] >= 2
      BY <2>1, <2>2 DEF Told23, Lines23
    <3>2. QED
      BY <2>1, <3>1 DEF Told23, Worker23
  <2>6. Heard23 \in Ints /\ Len(Heard23) = 8
    BY DEF Heard23, Ints
  <2>7. Jobs23 \in Ints /\ Len(Jobs23) = 5
    BY DEF Jobs23, Ints
  <2>8. got[1] = Heard23
    BY <2>4, <2>6, StretchWhole
  <2>9. got[4] = Jobs23
    BY <2>5, <2>7, StretchWhole
  <2>10. QED
    BY <2>8, <2>9 DEF Heard23, Jobs23
<1>4. ASSUME lesson = 24, Chan!Over(1)
      PROVE  got[1] \in Chan!BothThenMaybe
  <2>1. Told24 /\ got[1] \in Ints
    BY <1>4, CodeOf DEF ChanInv, ChanTyped
  <2>2. line[1] = 8
    <3>1. line[1] > 7 /\ line[1] \in 1 .. 8
      BY <1>4, <2>1, CodeOf, Script24 DEF Chan!Over, Told24
    <3>2. QED
      BY <3>1
  <2>3. /\ Len(got[1]) = 4 /\ got[1][1] \in 1 .. 2 /\ got[1][2] = 3 - got[1][1]
        /\ got[1][3] \in {3, -1} /\ got[1][4] = -1
    BY <2>1, <2>2 DEF Told24
  <2>4. PICK r \in {<<1, 2>>, <<2, 1>>} : r[1] = got[1][1] /\ r[2] = got[1][2]
    BY <2>3
  <2>5. r \in Ints /\ Len(r) = 2
    <3>1. <<1, 2>> \in Seq(Int) /\ Len(<<1, 2>>) = 2
      OBVIOUS
    <3>2. <<2, 1>> \in Seq(Int) /\ Len(<<2, 1>>) = 2
      OBVIOUS
    <3>3. QED
      BY <2>4, <3>1, <3>2 DEF Ints
  <2>6. PICK s \in {3, -1} : s = got[1][3]
    BY <2>3
  <2>7. <<s, -1>> \in Ints /\ Len(<<s, -1>>) = 2 /\ <<s, -1>>[1] = s /\ <<s, -1>>[2] = -1
    BY <2>6 DEF Ints
  <2>8. PICK e : e = <<s, -1>>
    OBVIOUS
  <2>9. /\ r \o e \in Ints /\ Len(r \o e) = 4
        /\ (r \o e)[1] = r[1] /\ (r \o e)[2] = r[2] /\ (r \o e)[3] = e[1] /\ (r \o e)[4] = e[2]
    <3>1. e \in Seq(Int) /\ Len(e) = 2 /\ r \in Seq(Int)
      BY <2>5, <2>7, <2>8 DEF Ints
    <3>2. QED
      BY <2>5, <3>1, Pairs DEF Ints
  <2>10. \A i \in 1 .. 4 : got[1][i] = (r \o e)[i]
    BY <2>3, <2>4, <2>6, <2>7, <2>8, <2>9
  <2>11. got[1] = r \o e
    BY <2>1, <2>3, <2>9, <2>10, SeqEqual DEF Ints
  <2>12. QED
    BY <2>4, <2>6, <2>8, <2>11, SMTT(30) DEF Chan!BothThenMaybe
<1>5. ASSUME lesson = 25, Chan!Over(1)
      PROVE  {"ctx1", "ctx2"} \subseteq closed
  <2>1. Told25 /\ line[1] > 8
    BY <1>5, CodeOf, Script25 DEF ChanInv, Chan!Over
  <2>2. line[1] = 9
    BY <2>1 DEF Told25
  <2>3. QED
    BY <2>1, <2>2 DEF Told25
<1>6. ASSUME lesson = 49, Chan!Over(1)
      PROVE  got[1] = << 0 >>
  <2>1. Told49 /\ line[1] > 2
    BY <1>6, CodeOf, Script49 DEF ChanInv, Chan!Over
  <2>2. Stretch(got[1], 0, 1, Heard49)
    BY <2>1 DEF Told49
  <2>3. Heard49 \in Ints /\ Len(Heard49) = 1
    BY DEF Heard49, Ints
  <2>4. got[1] = Heard49
    BY <2>2, <2>3, StretchWhole
  <2>5. QED
    BY <2>4 DEF Heard49
<1>7. ASSUME lesson = 55, Chan!Over(1)
      PROVE  got[1] = << 1 >> /\ got[2] = << 2 >>
  <2>1. Told55 /\ line[1] > 4
    BY <1>7, CodeOf, Script55 DEF ChanInv, Chan!Over
  <2>2. Stretch(got[1], 0, 1, Heard55) /\ Stretch(got[2], 0, 1, Given55)
    BY <2>1 DEF Told55
  <2>3. Heard55 \in Ints /\ Len(Heard55) = 1 /\ Given55 \in Ints /\ Len(Given55) = 1
    BY DEF Heard55, Given55, Ints
  <2>4. got[1] = Heard55 /\ got[2] = Given55
    BY <2>2, <2>3, StretchWhole
  <2>5. QED
    BY <2>4 DEF Heard55, Given55
<1>8. ASSUME lesson = 66, Chan!Over(1)
      PROVE  got[1] = <<1, 0, -1>>
  <2>1. Told66 /\ line[1] > 5
    BY <1>8, CodeOf, Script66 DEF ChanInv, Chan!Over
  <2>2. Stretch(got[1], 0, 3, Heard66)
    <3>1. line[1] = 6
      BY <2>1 DEF Told66
    <3>2. Stretch(got[1], 0, line[1] - 3, Heard66)
      BY <2>1, <3>1 DEF Told66
    <3>3. QED
      BY <3>1, <3>2
  <2>3. Heard66 \in Ints /\ Len(Heard66) = 3
    BY DEF Heard66, Ints
  <2>4. got[1] = Heard66
    BY <2>2, <2>3, StretchWhole
  <2>5. QED
    BY <2>4 DEF Heard66
<1>9. CASE ~Chan!Over(1)
  BY <1>2, <1>9, Zenon DEF Chan!ReceivedInOrder
<1>10. CASE Chan!Over(1) /\ lesson = 23
  <2>1. lesson # 24 /\ lesson # 25 /\ lesson # 49 /\ lesson # 55 /\ lesson # 66
    BY <1>10
  <2>2. QED
    BY <1>2, <1>3, <1>10, <2>1 DEF Chan!ReceivedInOrder
<1>11. CASE Chan!Over(1) /\ lesson = 24
  <2>1. lesson # 23 /\ lesson # 25 /\ lesson # 49 /\ lesson # 55 /\ lesson # 66
    BY <1>11
  <2>2. QED
    BY <1>2, <1>4, <1>11, <2>1 DEF Chan!ReceivedInOrder
<1>12. CASE Chan!Over(1) /\ lesson = 25
  <2>1. lesson # 23 /\ lesson # 24 /\ lesson # 49 /\ lesson # 55 /\ lesson # 66
    BY <1>12
  <2>2. QED
    BY <1>2, <1>5, <1>12, <2>1 DEF Chan!ReceivedInOrder
<1>13. CASE Chan!Over(1) /\ lesson = 49
  <2>1. lesson # 23 /\ lesson # 24 /\ lesson # 25 /\ lesson # 55 /\ lesson # 66
    BY <1>13
  <2>2. QED
    BY <1>2, <1>6, <1>13, <2>1 DEF Chan!ReceivedInOrder
<1>14. CASE Chan!Over(1) /\ lesson = 55
  <2>1. lesson # 23 /\ lesson # 24 /\ lesson # 25 /\ lesson # 49 /\ lesson # 66
    BY <1>14
  <2>2. QED
    BY <1>2, <1>7, <1>14, <2>1 DEF Chan!ReceivedInOrder
<1>15. CASE Chan!Over(1) /\ lesson = 66
  <2>1. lesson # 23 /\ lesson # 24 /\ lesson # 25 /\ lesson # 49 /\ lesson # 55
    BY <1>15
  <2>2. QED
    BY <1>2, <1>8, <1>15, <2>1 DEF Chan!ReceivedInOrder
<1>16. QED
  BY <1>1, <1>9, <1>10, <1>11, <1>12, <1>13, <1>14, <1>15 DEF Lessons

(***************************************************************************)
(* Whatever the scheduler, the clock and the runtime choose, no lesson      *)
(* about channels panics, and when main returns it has heard every value    *)
(* once and in order: lessons 23, 24, 25, 49, 55 and 66.                    *)
(***************************************************************************)
THEOREM ChannelsDeliver ==
    ProgramsSpec => [](program = "chan" => Chan!ReceivedInOrder)
<1>1. ProgramsInit => (program = "chan" => ChanInv)
  BY ProgramsBegin, ChanInit
<1>2. (program = "chan" => ChanInv) /\ [ProgramsNext]_everything => (program = "chan" => ChanInv)'
  BY ProgramsMove, ChanStep
<1>3. ChanInv => Chan!ReceivedInOrder
  BY ChanTells
<1>4. QED
  BY <1>1, <1>2, <1>3, PTL DEF ProgramsSpec

(***************************************************************************)
(* What the lessons print is what happened, whatever the sizes: counters    *)
(* after a join, the order of the queue, peaks and errors of the fan-out    *)
(* tools, what is received from channels (lessons 23 to 66).                *)
(***************************************************************************)
THEOREM LessonsAlwaysTell == ProgramsSpec => []LessonsTellTheTruth
<1>1. /\ program = "join" => Join!JoinedIsCounted
      /\ program = "fan" => Fan!PeakIsTrue /\ Fan!FirstErrorIsTheCause
      /\ program = "cond" => Cond!FirstInFirstOut
      /\ program = "chan" => Chan!ReceivedInOrder
      => LessonsTellTheTruth
  BY DEF LessonsTellTheTruth
<1>2. QED
  BY <1>1, JoinsCount, QueueKeepsOrder, FansTellTheTruth, ChannelsDeliver, PTL

-----------------------------------------------------------------------------
(* Types: what the invariants leave open, program by program                 *)

\* A lock has one holder at most, and a polite worker that goes on trying has
\* tries left.
LockStages == {"try", "one", "in", "out", "waiting", "done", "gaveUp"}
Elsewhere == {"one", "in", "out", "waiting", "done"}
LockTypes ==
    /\ policy \in Lock!Policies /\ stop \in BOOLEAN /\ wins \subseteq Workers
    /\ holder \in [{1, 2} -> SUBSET Workers]
    /\ \A l \in {1, 2} : \A v, w \in holder[l] : v = w
    /\ pc \in [Workers -> LockStages] /\ attempts \in [Workers -> 0 .. MaxAttempts]
    /\ policy = "polite" =>
        \A w \in Workers : pc[w] = "try" => attempts[w] < MaxAttempts

LEMMA LockInit ==
    ASSUME Lock!ContentionAssumption, Lock!Init
    PROVE  LockTypes
<1>1. MaxAttempts \in Nat \ {0}
  BY DEF Lock!ContentionAssumption
<1>2. \A w \in Workers : pc[w] = "try" /\ attempts[w] = 0
  BY DEF Lock!Init
<1>3. pc \in [Workers -> LockStages] /\ attempts \in [Workers -> 0 .. MaxAttempts]
  BY <1>1 DEF Lock!Init, LockStages
<1>4. holder \in [{1, 2} -> SUBSET Workers] /\ \A l \in {1, 2} : holder[l] = {}
  BY DEF Lock!Init
<1>5. policy \in Lock!Policies /\ stop \in BOOLEAN /\ wins \subseteq Workers
  BY DEF Lock!Init
<1>6. \A w \in Workers : attempts[w] < MaxAttempts
  BY <1>1, <1>2
<1>7. QED
  BY <1>3, <1>4, <1>5, <1>6 DEF LockTypes

LEMMA LockStep ==
    ASSUME Lock!ContentionAssumption, LockTypes, [Lock!Next]_(Lock!vars)
    PROVE  LockTypes'
<1>0. MaxAttempts \in Nat \ {0}
  BY DEF Lock!ContentionAssumption
<1>1. CASE UNCHANGED Lock!vars
  BY <1>1 DEF Lock!vars, LockTypes
<1>2. CASE Lock!Stop
  BY <1>2 DEF Lock!Stop, LockTypes
<1>3. ASSUME NEW w \in Workers, Lock!SeeStop(w)
      PROVE  LockTypes'
  BY <1>3 DEF Lock!SeeStop, Lock!Goes, LockTypes, LockStages
<1>4. ASSUME NEW w \in Workers, NEW l \in {1, 2}, Lock!Takes(w, l) \/ Lock!Leaves(w, l)
      PROVE  /\ holder' \in [{1, 2} -> SUBSET Workers]
             /\ \A m \in {1, 2} : \A u, v \in holder'[m] : u = v
  BY <1>4 DEF Lock!Takes, Lock!Leaves, LockTypes
<1>5. ASSUME NEW w \in Workers, NEW to \in Elsewhere,
             pc' = [pc EXCEPT ![w] = to]
      PROVE  /\ pc' \in [Workers -> LockStages]
             /\ \A v \in Workers : pc'[v] = "try" => pc[v] = "try"
  <2>1. to \in LockStages /\ to # "try"
    BY <1>5 DEF LockStages, Elsewhere
  <2>2. QED
    BY <1>5, <2>1 DEF LockTypes
<1>6. ASSUME NEW w \in Workers, Lock!Ordered(w)
      PROVE  LockTypes'
  <2>1. PICK to \in Elsewhere : pc' = [pc EXCEPT ![w] = to]
    BY <1>6 DEF Lock!Ordered, Lock!Goes, Elsewhere
  <2>2. \E l \in {1, 2} : Lock!Takes(w, l) \/ Lock!Leaves(w, l)
    BY <1>6 DEF Lock!Ordered
  <2>3. wins' \subseteq Workers /\ UNCHANGED <<policy, attempts, stop>>
    BY <1>6 DEF Lock!Ordered, LockTypes
  <2>4. QED
    BY <1>4, <1>5, <2>1, <2>2, <2>3 DEF LockTypes
<1>7. ASSUME NEW w \in Workers, Lock!TryLock(w)
      PROVE  LockTypes'
  <2>1. CASE holder[1] = {}
    <3>1. /\ Lock!Takes(w, 1) /\ pc' = [pc EXCEPT ![w] = "in"] /\ wins' = wins \cup {w}
          /\ UNCHANGED <<policy, attempts, stop>>
      BY <1>7, <2>1 DEF Lock!TryLock, Lock!Goes
    <3>2. "in" \in Elsewhere
      BY DEF Elsewhere
    <3>3. QED
      BY <1>4, <1>5, <3>1, <3>2 DEF LockTypes
  <2>2. CASE holder[1] # {}
    <3>1. /\ policy = "polite" /\ attempts[w] < MaxAttempts /\ attempts[w] \in Nat
          /\ attempts' = [attempts EXCEPT ![w] = @ + 1]
          /\ pc' = [pc EXCEPT ![w] = IF attempts'[w] < MaxAttempts THEN "try" ELSE "gaveUp"]
          /\ UNCHANGED <<policy, holder, wins, stop>>
      BY <1>7, <2>2 DEF Lock!TryLock, LockTypes
    <3>2. attempts'[w] = attempts[w] + 1 /\ attempts' \in [Workers -> 0 .. MaxAttempts]
      BY <1>0, <3>1 DEF LockTypes
    <3>3. pc' \in [Workers -> LockStages]
      BY <3>1 DEF LockTypes, LockStages
    <3>4. \A v \in Workers : pc'[v] = "try" => attempts'[v] < MaxAttempts
      BY <3>1, <3>2 DEF LockTypes
    <3>5. QED
      BY <3>1, <3>2, <3>3, <3>4 DEF LockTypes
  <2>3. QED
    BY <2>1, <2>2
<1>8. ASSUME NEW w \in Workers, Lock!Unlock(w) \/ Lock!TakeTicket(w)
      PROVE  LockTypes'
  <2>1. PICK to \in Elsewhere : pc' = [pc EXCEPT ![w] = to]
    BY <1>8 DEF Lock!Unlock, Lock!TakeTicket, Lock!Goes, Elsewhere
  <2>2. Lock!Takes(w, 1) \/ Lock!Leaves(w, 1)
    BY <1>8 DEF Lock!Unlock, Lock!TakeTicket
  <2>3. wins' \subseteq Workers /\ UNCHANGED <<policy, attempts, stop>>
    BY <1>8 DEF Lock!Unlock, Lock!TakeTicket, LockTypes
  <2>4. QED
    BY <1>4, <1>5, <2>1, <2>2, <2>3 DEF LockTypes
<1>9. ASSUME NEW w \in Workers, Lock!LockGreedily(w)
      PROVE  LockTypes'
  <2>1. PICK to \in Elsewhere : pc' = [pc EXCEPT ![w] = to]
    BY <1>9 DEF Lock!LockGreedily, Lock!Goes, Elsewhere
  <2>2. UNCHANGED holder \/ Lock!Takes(w, 1)
    BY <1>9 DEF Lock!LockGreedily
  <2>3. wins' \subseteq Workers /\ UNCHANGED <<policy, attempts, stop>>
    BY <1>9 DEF Lock!LockGreedily, LockTypes
  <2>4. QED
    BY <1>4, <1>5, <2>1, <2>2, <2>3 DEF LockTypes
<1>10. ASSUME NEW w \in Workers, Lock!ReturnTicket(w)
       PROVE  LockTypes'
  <2>1. Lock!Goes(w, "in", "try") /\ policy # "polite" /\ UNCHANGED <<policy, attempts, wins, stop>>
    BY <1>10 DEF Lock!ReturnTicket
  <2>2. pc' \in [Workers -> LockStages]
    BY <2>1 DEF Lock!Goes, LockTypes, LockStages
  <2>3. Lock!Leaves(w, 1)
    BY <1>10 DEF Lock!ReturnTicket
  <2>4. QED
    BY <1>4, <2>1, <2>2, <2>3 DEF LockTypes
<1>11. QED
  BY <1>1, <1>2, <1>3, <1>6, <1>7, <1>8, <1>9, <1>10 DEF Lock!Next, Lock!Work

LEMMA LockTyped ==
    ASSUME LockTypes
    PROVE  Lock!ContentionTypeOK
<1>1. ASSUME NEW l \in {1, 2}
      PROVE  Lock!Cardinality(holder[l]) <= 1
  <2>1. PICK S : S = holder[l]
    OBVIOUS
  <2>2. \A v, w \in S : v = w
    BY <2>1 DEF LockTypes
  <2>3. S = {} \/ \E w : S = {w}
    BY <2>2
  <2>4. Cardinality(S) <= 1
    <3>1. CASE S = {}
      BY <3>1, FS_EmptySet
    <3>2. ASSUME NEW w, S = {w}
          PROVE  Cardinality(S) <= 1
      <4>1. Cardinality({w}) = 1
        BY FS_Singleton
      <4>2. QED
        BY <3>2, <4>1
    <3>3. QED
      BY <2>3, <3>1, <3>2
  <2>5. Lock!Cardinality(S) = Cardinality(S)
    BY DEF Lock!Cardinality, Cardinality
  <2>6. QED
    BY <2>1, <2>4, <2>5
<1>2. QED
  BY <1>1 DEF LockTypes, Lock!ContentionTypeOK

\* The queue is never longer than its slots, and nobody goes round too often.
CondTypes ==
    /\ Len(items) <= Slots /\ asleep \subseteq Producers \cup Consumers
    /\ \A g \in Producers \cup Consumers : rounds[g] <= Rounds

LEMMA CondTypesBegin ==
    ASSUME Cond!CondQueueAssumption, Cond!Init
    PROVE  CondTypes
  BY DEF Cond!CondQueueAssumption, Cond!Init, Cond!Everyone, CondTypes

LEMMA CondTypesStay ==
    ASSUME Cond!CondQueueAssumption, CondInv, CondTypes, [Cond!Next]_(Cond!vars)
    PROVE  CondTypes'
<1>0. /\ items \in Seq(Producers \X Nat) /\ rounds \in [Producers \cup Consumers -> Nat]
      /\ Slots \in Nat /\ Rounds \in Nat
  BY DEF CondInv, Cond!CondQueueAssumption
<1>1. CASE UNCHANGED Cond!vars
  BY <1>1 DEF Cond!vars, CondTypes
<1>2. ASSUME NEW g \in Producers \cup Consumers, Cond!Sleep(g)
      PROVE  CondTypes'
  BY <1>2 DEF Cond!Sleep, CondTypes
<1>3. ASSUME NEW g \in Producers \cup Consumers, Cond!Runs(g), Cond!Broadcast(g), Len(items') <= Slots
      PROVE  CondTypes'
  <2>1. rounds[g] < Rounds /\ asleep' = {} /\ rounds' = [rounds EXCEPT ![g] = @ + 1]
    BY <1>3 DEF Cond!Runs, Cond!Broadcast
  <2>2. \A h \in Producers \cup Consumers : rounds'[h] <= Rounds
    BY <1>0, <2>1 DEF CondTypes
  <2>3. QED
    BY <1>3, <2>1, <2>2 DEF CondTypes
<1>4. ASSUME NEW g \in Producers \cup Consumers, Cond!Push(g)
      PROVE  CondTypes'
  <2>1. CASE Len(items) = Slots
    BY <1>2, <1>4, <2>1 DEF Cond!Push
  <2>2. CASE Len(items) # Slots
    <3>1. Cond!Runs(g) /\ Cond!Broadcast(g) /\ items' = Append(items, <<g, rounds[g] + 1>>)
      BY <1>4, <2>2 DEF Cond!Push
    <3>2. Len(items) \in Nat /\ Len(items) < Slots
      BY <1>0, <2>2 DEF CondTypes
    <3>3. Len(items') = Len(items) + 1
      BY <1>0, <3>1
    <3>4. QED
      BY <1>0, <1>3, <3>1, <3>2, <3>3
  <2>3. QED
    BY <2>1, <2>2
<1>5. ASSUME NEW g \in Producers \cup Consumers, Cond!Pop(g)
      PROVE  CondTypes'
  <2>1. CASE items = <<>>
    BY <1>2, <1>5, <2>1 DEF Cond!Pop
  <2>2. CASE items # <<>>
    <3>1. Cond!Runs(g) /\ Cond!Broadcast(g) /\ items' = Tail(items)
      BY <1>5, <2>2 DEF Cond!Pop
    <3>2. Len(Tail(items)) = Len(items) - 1 /\ Len(items) \in Nat
      BY <1>0, <2>2
    <3>3. QED
      BY <1>0, <1>3, <3>1, <3>2 DEF CondTypes
  <2>3. QED
    BY <2>1, <2>2
<1>6. QED
  BY <1>1, <1>4, <1>5 DEF Cond!Next, Cond!Everyone

LEMMA CondTyped ==
    ASSUME CondInv, CondTypes, Cond!CondQueueAssumption
    PROVE  Cond!CondQueueTypeOK
<1>1. /\ items \in Seq(Producers \X Nat) /\ rounds \in [Producers \cup Consumers -> Nat]
      /\ Slots \in Nat /\ Rounds \in Nat
  BY DEF CondInv, Cond!CondQueueAssumption
<1>2. Len(items) \in Nat
  BY <1>1
<1>3. Len(items) \in 0 .. Slots
  BY <1>1, <1>2 DEF CondTypes
<1>4. rounds \in [Producers \cup Consumers -> 0 .. Rounds]
  BY <1>1 DEF CondTypes
<1>5. QED
  BY <1>3, <1>4 DEF CondTypes, Cond!CondQueueTypeOK, Cond!Everyone

\* What a goroutine has read of the counter was the counter.
JoinTypes == \A g \in Gor : local[g] <= Join!N

\* JoinInv bounds the counter and the channel.
LEMMA JoinBounds ==
    ASSUME Join!ForkJoinAssumption, JoinInv
    PROVE  /\ Join!N \in Nat /\ count \in Nat /\ ch.n \in Nat
           /\ count <= Join!N /\ ch.n <= Join!N
<1>1. /\ IsFiniteSet(Writers) /\ Writers # {} /\ Join!N = Cardinality(Writers)
      /\ Cardinality(Added) \in Nat /\ count \in Nat /\ ch.n \in Nat /\ how \in Join!Hows
  BY JoinSizes DEF JoinInv, JoinTyped
<1>2. Cardinality(Added) <= Cardinality(Writers) /\ Cardinality(Writers) \in Nat
  <2>1. Added \subseteq Writers
    BY DEF Added
  <2>2. QED
    BY <1>1, <2>1, FS_Subset, FS_CardinalityType
<1>3. Cardinality(Writers) # 0
  BY <1>1, FS_EmptySet
<1>4. CASE how \in Join!Locks \cup {"atomic", "channel"}
  BY <1>1, <1>2, <1>4 DEF JoinInv, Guarded
<1>5. ASSUME how # "channel"
      PROVE  ch.n = 0
  BY <1>5 DEF JoinInv, Waited
<1>6. CASE how = "racy"
  BY <1>1, <1>2, <1>5, <1>6 DEF JoinInv, Unguarded
<1>7. CASE how = "once"
  BY <1>1, <1>2, <1>3, <1>5, <1>7 DEF JoinInv, RunsOnce
<1>8. QED
  BY <1>1, <1>4, <1>6, <1>7 DEF Join!Hows

LEMMA JoinTypesBegin ==
    ASSUME Join!ForkJoinAssumption, Join!Init
    PROVE  JoinTypes
<1>1. JoinInv
  BY JoinInit
<1>2. \A g \in Gor : local[g] = 0
  BY DEF Join!Init, Join!Goroutines, Gor
<1>3. Join!N \in Nat
  BY <1>1, JoinBounds
<1>4. QED
  BY <1>2, <1>3 DEF JoinTypes

LEMMA JoinTypesStay ==
    ASSUME Join!ForkJoinAssumption, JoinInv, JoinTypes, [Join!Next]_(Join!vars)
    PROVE  JoinTypes'
<1>1. Join!N' = Join!N /\ Join!N \in Nat /\ count <= Join!N /\ local \in [Gor -> Nat]
  BY JoinBounds DEF Join!N, JoinInv, JoinTyped
<1>2. CASE UNCHANGED local
  BY <1>1, <1>2 DEF JoinTypes, Gor
<1>3. ASSUME NEW g \in Gor, Join!Read(g)
      PROVE  JoinTypes'
  <2>1. local' = [local EXCEPT ![g] = count]
    BY <1>3 DEF Join!Read
  <2>2. \A h \in Gor : local'[h] <= Join!N
    BY <1>1, <2>1 DEF JoinTypes
  <2>3. QED
    BY <1>1, <2>2 DEF JoinTypes, Gor
<1>4. UNCHANGED local \/ \E g \in Gor : Join!Read(g)
  BY DEF Join!Next, Join!Go, Join!Wait, Join!Closer, Join!Collect, Join!Spawn, Join!Acquire, Join!Write,
        Join!Unlock, Join!Atomic, Join!Send, Join!Once, Join!Done, Join!Goroutines, Gor, Join!vars
<1>5. QED
  BY <1>2, <1>3, <1>4

LEMMA JoinAllTyped ==
    ASSUME Join!ForkJoinAssumption, JoinInv, JoinTypes
    PROVE  Join!ForkJoinTypeOK
<1>1. /\ how \in Join!Hows /\ main \in {"spawn", "range", "done"}
      /\ local \in [Gor -> Nat] /\ lock \in [w : SUBSET Gor, r : SUBSET Gor]
      /\ Join!Goroutines = Gor /\ Join!N \in Nat /\ count \in Nat /\ ch.n \in Nat
  BY JoinSizes, JoinBounds DEF JoinInv, JoinTyped
<1>2. wg = Join!Cardinality({g \in Gor : at[g] \notin {"none", "done"}})
  BY DEF JoinInv, Waited, Alive, Join!Cardinality, Cardinality
<1>3. local \in [Gor -> 0 .. Join!N] /\ count \in 0 .. Join!N /\ ch.n \in 0 .. Join!N
  BY <1>1, JoinBounds DEF JoinTypes
<1>4. QED
  BY <1>1, <1>2, <1>3 DEF Join!ForkJoinTypeOK

\* Who waits for the semaphore waits once, and is where it waits.
FanTypes ==
    /\ flight \subseteq Tasks
    /\ queue \in Seq(Tasks) /\ Distinct(queue)
    /\ \A t \in Members(queue) : step[t] = "waits"
    /\ demo # "semaphore" => queue = <<>>

LEMMA FanTypesBegin ==
    ASSUME Fan!Init
    PROVE  FanTypes
<1>1. queue = <<>> /\ flight = {}
  BY DEF Fan!Init
<1>2. Members(<<>>) = {} /\ Distinct(<<>>) /\ <<>> \in Seq(Tasks)
  BY DEF Members, Distinct
<1>3. QED
  BY <1>1, <1>2 DEF FanTypes

LEMMA FanTypesStay ==
    ASSUME FanInv, FanTypes, [Fan!Next]_(Fan!vars)
    PROVE  FanTypes'
<1>0. /\ step \in [Tasks -> FanStages] /\ queue \in Seq(Tasks) /\ flight \subseteq Tasks
      /\ Distinct(queue) /\ Members(queue) \subseteq Tasks
      /\ \A u \in Members(queue) : step[u] = "waits"
  <2>1. queue \in Seq(Tasks) /\ Distinct(queue)
    BY DEF FanTypes
  <2>2. Members(queue) \subseteq Tasks
    BY <2>1 DEF Members
  <2>3. QED
    BY <2>1, <2>2 DEF FanInv, FanTyped, FanTypes
<1>1. CASE UNCHANGED Fan!vars
  BY <1>1 DEF Fan!vars, FanTypes
<1>2. ASSUME NEW t \in Tasks, NEW from, NEW to, Fan!Goes(t, from, to), from # "waits",
             UNCHANGED <<demo, queue>>, flight' \subseteq Tasks
      PROVE  FanTypes'
  <2>1. step[t] = from /\ \A u \in Tasks : u # t => step'[u] = step[u]
    BY <1>0, <1>2 DEF Fan!Goes
  <2>2. \A u \in Members(queue) : step'[u] = "waits"
    BY <1>0, <1>2, <2>1
  <2>3. QED
    BY <1>0, <1>2, <2>2 DEF FanTypes
<1>3. ASSUME NEW t \in Tasks, Fan!Acquire(t)
      PROVE  FanTypes'
  <2>0. demo = "semaphore" /\ demo' = demo /\ flight' = flight
    BY <1>3 DEF Fan!Acquire
  <2>1. CASE Fan!Goes(t, "start", "in") /\ queue' = queue
    BY <1>0, <1>2, <2>0, <2>1
  <2>2. CASE Fan!Goes(t, "start", "waits") /\ queue' = Append(queue, t)
    <3>1. step[t] = "start" /\ step'[t] = "waits" /\ \A u \in Tasks : u # t => step'[u] = step[u]
      BY <1>0, <2>2 DEF Fan!Goes
    <3>2. t \notin Members(queue)
      BY <1>0, <3>1
    <3>3. Distinct(queue') /\ Members(queue') = Members(queue) \cup {t}
      BY <1>0, <2>2, <3>2, AppendFacts
    <3>4. queue' \in Seq(Tasks)
      BY <1>0, <2>2
    <3>5. \A u \in Members(queue') : step'[u] = "waits"
      BY <1>0, <3>1, <3>3
    <3>6. QED
      BY <1>0, <2>0, <3>3, <3>4, <3>5 DEF FanTypes, Members
  <2>3. CASE queue # <<>> /\ Head(queue) = t /\ Fan!Goes(t, "waits", "in") /\ queue' = Tail(queue)
    <3>1. \A u \in Tasks : u # t => step'[u] = step[u]
      BY <1>0, <2>3 DEF Fan!Goes
    <3>2. /\ queue' \in Seq(Tasks) /\ Distinct(queue') /\ t \notin Members(queue')
          /\ Members(queue) = Members(queue') \cup {t}
      BY <1>0, <2>3, TailFacts
    <3>3. \A u \in Members(queue') : step'[u] = "waits"
      BY <1>0, <3>1, <3>2
    <3>4. QED
      BY <1>0, <2>0, <3>2, <3>3 DEF FanTypes, Members
  <2>4. QED
    BY <1>3, <2>1, <2>2, <2>3 DEF Fan!Acquire
<1>4. ASSUME NEW t \in Tasks, Fan!Loaded(t)
      PROVE  FanTypes'
  <2>1. demo = "flight" /\ demo' = demo /\ queue' = queue /\ flight' = {}
    BY <1>4 DEF Fan!Loaded
  <2>2. queue = <<>> /\ Members(<<>>) = {}
    BY <2>1 DEF FanTypes, Members
  <2>3. QED
    BY <1>0, <2>1, <2>2 DEF FanTypes, Members
<1>5. ASSUME NEW t \in Tasks, Fan!GiveUp(t)
      PROVE  FanTypes'
  BY <1>5 DEF Fan!GiveUp, FanTypes
<1>6. ASSUME NEW t \in Tasks, Fan!Spawn(t) \/ Fan!Finish(t) \/ Fan!Leave(t) \/ Fan!Release(t) \/ Fan!Send(t)
      PROVE  FanTypes'
  <2>1. \E from, to : Fan!Goes(t, from, to) /\ from # "waits"
    BY <1>6 DEF Fan!Spawn, Fan!Finish, Fan!Leave, Fan!Release, Fan!Send
  <2>2. UNCHANGED <<demo, queue>> /\ flight' = flight
    BY <1>6 DEF Fan!Spawn, Fan!Finish, Fan!Leave, Fan!Release, Fan!Send
  <2>3. QED
    BY <1>0, <1>2, <2>1, <2>2
<1>7. ASSUME NEW t \in Tasks, Fan!Enter(t) \/ Fan!LoadPeak(t) \/ Fan!StorePeak(t)
      PROVE  FanTypes'
  <2>1. \E from, to : Fan!Goes(t, from, to) /\ from # "waits"
    BY <1>7 DEF Fan!Enter, Fan!LoadPeak, Fan!StorePeak
  <2>2. UNCHANGED <<demo, queue>> /\ flight' = flight
    BY <1>7 DEF Fan!Enter, Fan!LoadPeak, Fan!StorePeak
  <2>3. QED
    BY <1>0, <1>2, <2>1, <2>2
<1>8. ASSUME NEW t \in Tasks, Fan!Do(t)
      PROVE  FanTypes'
  <2>1. \E from, to : Fan!Goes(t, from, to) /\ from # "waits"
    BY <1>8 DEF Fan!Do
  <2>2. UNCHANGED <<demo, queue>> /\ flight' \subseteq Tasks
    BY <1>0, <1>8 DEF Fan!Do
  <2>3. QED
    BY <1>2, <2>1, <2>2
<1>9. QED
  BY <1>1, <1>3, <1>4, <1>5, <1>6, <1>7, <1>8 DEF Fan!Next, Fan!Run

\* A sequence without repetition is no longer than the set it is of.
LEMMA DistinctFits ==
    ASSUME NEW S, IsFiniteSet(S), NEW s \in Seq(S), Distinct(s)
    PROVE  Len(s) <= Cardinality(S)
<1>1. s \in Injection(1 .. Len(s), S)
  <2>1. s \in [1 .. Len(s) -> S]
    OBVIOUS
  <2>2. \A i, j \in 1 .. Len(s) : s[i] = s[j] => i = j
    BY DEF Distinct
  <2>3. QED
    BY <2>1, <2>2 DEF Injection, IsInjective
<1>2. Len(s) \in Nat /\ Cardinality(1 .. Len(s)) = Len(s) /\ IsFiniteSet(1 .. Len(s))
  <2>1. Len(s) \in Nat
    OBVIOUS
  <2>2. /\ IsFiniteSet(1 .. Len(s))
        /\ Cardinality(1 .. Len(s)) = IF 1 > Len(s) THEN 0 ELSE Len(s) - 1 + 1
    BY <2>1, FS_Interval
  <2>3. QED
    BY <2>1, <2>2
<1>3. QED
  BY <1>1, <1>2, FS_Injection

LEMMA FanAllTyped ==
    ASSUME Fan!FanoutAssumption, FanInv, FanTypes
    PROVE  Fan!FanoutTypeOK
<1>1. Len(queue) <= Cardinality(Tasks)
  BY FanFacts, DistinctFits DEF FanTypes
<1>2. Fan!Cardinality(Tasks) = Cardinality(Tasks)
  BY DEF Fan!Cardinality, Cardinality
<1>3. QED
  BY <1>1, <1>2 DEF FanInv, FanTyped, FanTypes, Fan!FanoutTypeOK

\* The programs whose invariants say it already.
LEMMA OthersTyped ==
    /\ TokenInv => TokenTypeOK
    /\ QueueInv => Queue!QueueTypeOK
    /\ PoolInv /\ PoolFlags => Pool!PoolTypeOK
    /\ ChanInv => Chan!ChannelsTypeOK
<1>1. PoolInv /\ PoolFlags => Pool!PoolTypeOK
  BY DEF PoolInv, PoolTyped, PoolFlags, Pool!PoolTypeOK
<1>2. ASSUME ChanTyped
      PROVE  Chan!ChannelsTypeOK
  <2>1. ASSUME NEW g \in Chan!Goroutines
        PROVE  line[g] \in 0 .. Len(Chan!Code[g]) + 1 /\ got[g] \in Seq(Int)
    <3>1. line[g] \in Nat /\ line[g] <= Len(Chan!Code[g]) + 1 /\ got[g] \in Ints
      BY <1>2 DEF ChanTyped
    <3>2. Len(Chan!Code[g]) \in Nat
      BY <1>2, Scripts DEF ChanTyped
    <3>3. QED
      BY <3>1, <3>2 DEF Ints
  <2>2. QED
    BY <1>2, <2>1 DEF ChanTyped, Chan!ChannelsTypeOK
<1>3. QED
  BY <1>1, <1>2 DEF TokenInv, QueueInv, ChanInv

\* All of them together.
AllTyped ==
    /\ program \in {"tokens", "stock", "queue", "pool", "join", "cond", "lock", "fan",
                    "chan", "client"}
    /\ program = "tokens" => TokenInv
    /\ program = "stock" => StockInv /\ StockTypes
    /\ program = "queue" => QueueInv
    /\ program = "pool" => PoolInv /\ PoolFlags
    /\ program = "join" => JoinInv /\ JoinTypes
    /\ program = "cond" => CondInv /\ CondTypes
    /\ program = "lock" => LockTypes
    /\ program = "fan" => FanInv /\ FanTypes
    /\ program = "chan" => ChanInv
    /\ program = "client" => CliInv /\ CliTypes

\* What the constants have to be, program by program.
LEMMA Assumed ==
    /\ Stock!InventoryAssumption /\ Queue!QueueAssumption /\ Pool!PoolAssumption
    /\ Join!ForkJoinAssumption /\ Cond!CondQueueAssumption
    /\ Lock!ContentionAssumption /\ Fan!FanoutAssumption
    /\ Cli!ClientAssumption
  BY ProgramsAssumption

LEMMA AllTypedBegin == ProgramsInit => AllTyped
<1> SUFFICES ASSUME ProgramsInit
             PROVE  AllTyped
  OBVIOUS
<1>1. program = "pool" => PoolFlags
  <2>1. Pool!Init => PoolFlags
    BY DEF Pool!Init, PoolFlags
  <2>2. QED
    BY <2>1, ProgramsBegin
<1>2. program = "stock" => StockInv /\ StockTypes
  BY Assumed, ProgramsBegin, StockInit, StockTypesBegin
<1>3. program = "join" => JoinInv /\ JoinTypes
  BY Assumed, ProgramsBegin, JoinInit, JoinTypesBegin
<1>4. program = "cond" => CondInv /\ CondTypes
  BY Assumed, ProgramsBegin, CondInit, CondTypesBegin
<1>5. program = "fan" => FanInv /\ FanTypes
  BY Assumed, ProgramsBegin, FanInit, FanTypesBegin
<1>6. program = "client" => CliInv /\ CliTypes
  BY Assumed, ProgramsBegin, CliInit, CliTypesBegin
<1>7. /\ program = "tokens" => TokenInv
      /\ program = "queue" => QueueInv
      /\ program = "pool" => PoolInv
  BY Assumed, ProgramsBegin, TokenInit, QueueInit, PoolInit
<1>8. /\ program = "lock" => LockTypes
      /\ program = "chan" => ChanInv
  BY Assumed, ProgramsBegin, LockInit, ChanInit
<1>9. program \in {"tokens", "stock", "queue", "pool", "join", "cond", "lock", "fan",
                   "chan", "client"}
  BY DEF ProgramsInit
<1>10. QED
  BY <1>1, <1>2, <1>3, <1>4, <1>5, <1>6, <1>7, <1>8, <1>9 DEF AllTyped

LEMMA AllTypedStay == AllTyped /\ [ProgramsNext]_everything => AllTyped'
<1> SUFFICES ASSUME AllTyped, [ProgramsNext]_everything
             PROVE  AllTyped'
  OBVIOUS
<1>1. /\ program' = program
      /\ program \in {"tokens", "stock", "queue", "pool", "join", "cond", "lock", "fan",
                      "chan", "client"}
  BY ProgramsMove DEF AllTyped
<1>2. program = "stock" => StockInv' /\ StockTypes'
  BY Assumed, ProgramsMove, StockStep, StockTypesStay DEF AllTyped
<1>3. program = "join" => JoinInv' /\ JoinTypes'
  BY Assumed, ProgramsMove, JoinStep, JoinTypesStay DEF AllTyped
<1>4. program = "cond" => CondInv' /\ CondTypes'
  BY Assumed, ProgramsMove, CondStep, CondTypesStay DEF AllTyped
<1>5. program = "fan" => FanInv' /\ FanTypes'
  BY Assumed, ProgramsMove, FanStep, FanTypesStay DEF AllTyped
<1>6. program = "client" => CliInv' /\ CliTypes'
  BY Assumed, ProgramsMove, CliStep, CliTypesStay DEF AllTyped
<1>7. program = "pool" => PoolInv' /\ PoolFlags'
  BY Assumed, ProgramsMove, PoolStep, PoolFlagsStay DEF AllTyped
<1>8. /\ program = "tokens" => TokenInv'
      /\ program = "queue" => QueueInv'
  BY Assumed, ProgramsMove, TokenStep, QueueStep DEF AllTyped
<1>9. /\ program = "lock" => LockTypes'
      /\ program = "chan" => ChanInv'
  BY Assumed, ProgramsMove, LockStep, ChanStep DEF AllTyped
<1>10. QED
  BY <1>1, <1>2, <1>3, <1>4, <1>5, <1>6, <1>7, <1>8, <1>9 DEF AllTyped

(***************************************************************************)
(* Whatever the sizes, every variable of a program keeps its type: counters *)
(* and queues stay within their bounds, a lock has at most one holder, who  *)
(* waits for the semaphore waits once, and a watcher looks at a record that *)
(* is there (lessons 23 to 66).                                             *)
(***************************************************************************)
THEOREM TypesHold == ProgramsSpec => []TypeOK
<1>1. AllTyped => TypeOK
  <2> SUFFICES ASSUME AllTyped
               PROVE  TypeOK
    OBVIOUS
  <2>1. /\ program = "tokens" => TokenTypeOK
        /\ program = "queue" => Queue!QueueTypeOK
        /\ program = "pool" => Pool!PoolTypeOK
        /\ program = "chan" => Chan!ChannelsTypeOK
    BY OthersTyped DEF AllTyped
  <2>2. /\ program = "stock" => Stock!InventoryTypeOK
        /\ program = "client" => Cli!ClientTypeOK
    BY Assumed, StockTyped, CliAllTyped DEF AllTyped
  <2>3. /\ program = "join" => Join!ForkJoinTypeOK
        /\ program = "cond" => Cond!CondQueueTypeOK
    BY Assumed, JoinAllTyped, CondTyped DEF AllTyped
  <2>4. /\ program = "lock" => Lock!ContentionTypeOK
        /\ program = "fan" => Fan!FanoutTypeOK
    BY Assumed, LockTyped, FanAllTyped DEF AllTyped
  <2>5. program \in {"tokens", "stock", "queue", "pool", "join", "cond", "lock", "fan",
                     "chan", "client"}
    BY DEF AllTyped
  <2>6. QED
    BY <2>1, <2>2, <2>3, <2>4, <2>5 DEF TypeOK
<1>2. QED
  BY <1>1, AllTypedBegin, AllTypedStay, PTL DEF ProgramsSpec
=============================================================================
