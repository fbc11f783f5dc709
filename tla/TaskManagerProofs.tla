------------------------- MODULE TaskManagerProofs --------------------------
(* The task manager keeps its promise, for every set of tasks and offsets, *)
(* with a true clock and with the clock of module Scheduler.               *)
EXTENDS Scheduler, TLAPS, SequenceTheorems

-----------------------------------------------------------------------------
(* The vector of tasks *)

NoRepeat(q) == \A i, j \in 1..Len(q) : q[i] = q[j] => i = j

LEMMA ElemsConcat ==
    ASSUME NEW S, NEW q \in Seq(S), NEW r \in Seq(S)
    PROVE  /\ q \o r \in Seq(S)
           /\ Elems(q \o r) = Elems(q) \cup Elems(r)
           /\ NoRepeat(q) /\ NoRepeat(r) /\ Elems(q) \cap Elems(r) = {} => NoRepeat(q \o r)
<1>1. /\ q \o r \in Seq(S) /\ Len(q \o r) = Len(q) + Len(r)
      /\ Len(q) \in Nat /\ Len(r) \in Nat
      /\ \A i \in 1..Len(q) + Len(r) :
            (q \o r)[i] = IF i <= Len(q) THEN q[i] ELSE r[i - Len(q)]
  BY ConcatProperties, LenProperties
<1>2. ASSUME NEW x \in Elems(q) \cup Elems(r) PROVE x \in Elems(q \o r)
  <2>1. CASE x \in Elems(q)
    <3>1. PICK i \in 1..Len(q) : x = q[i]
      BY <2>1 DEF Elems
    <3>2. i \in 1..Len(q \o r) /\ (q \o r)[i] = x
      BY <1>1, <3>1
    <3> QED
      BY <3>2 DEF Elems
  <2>2. CASE x \in Elems(r)
    <3>1. PICK i \in 1..Len(r) : x = r[i]
      BY <2>2 DEF Elems
    <3>2. i + Len(q) \in 1..Len(q \o r) /\ (q \o r)[i + Len(q)] = x
      BY <1>1, <3>1
    <3> QED
      BY <3>2 DEF Elems
  <2> QED
    BY <1>2, <2>1, <2>2
<1>3. ASSUME NEW x \in Elems(q \o r) PROVE x \in Elems(q) \cup Elems(r)
  <2>1. PICK i \in 1..Len(q) + Len(r) : x = (q \o r)[i]
    BY <1>1, <1>3 DEF Elems
  <2>2. CASE i <= Len(q)
    BY <1>1, <2>1, <2>2 DEF Elems
  <2>3. CASE i > Len(q)
    <3>1. i - Len(q) \in 1..Len(r) /\ x = r[i - Len(q)]
      BY <1>1, <2>1, <2>3
    <3> QED
      BY <3>1 DEF Elems
  <2> QED
    BY <1>1, <2>1, <2>2, <2>3
<1>4. ASSUME NoRepeat(q), NoRepeat(r), Elems(q) \cap Elems(r) = {}
      PROVE  NoRepeat(q \o r)
  <2>1. \A i \in 1..Len(q), j \in 1..Len(r) : q[i] # r[j]
    BY <1>4 DEF Elems
  <2> SUFFICES ASSUME NEW i \in 1..Len(q) + Len(r), NEW j \in 1..Len(q) + Len(r),
                      (q \o r)[i] = (q \o r)[j]
               PROVE  i = j
    BY <1>1 DEF NoRepeat
  <2>2. CASE i <= Len(q) /\ j <= Len(q)
    BY <1>1, <1>4, <2>2 DEF NoRepeat
  <2>3. CASE i > Len(q) /\ j > Len(q)
    <3>1. i - Len(q) \in 1..Len(r) /\ j - Len(q) \in 1..Len(r) /\ r[i - Len(q)] = r[j - Len(q)]
      BY <1>1, <2>3
    <3>2. i - Len(q) = j - Len(q)
      BY <1>4, <3>1 DEF NoRepeat
    <3> QED
      BY <1>1, <3>2
  <2>4. CASE i <= Len(q) /\ j > Len(q)
    <3>1. i \in 1..Len(q) /\ j - Len(q) \in 1..Len(r) /\ q[i] = r[j - Len(q)]
      BY <1>1, <2>4
    <3> QED
      BY <2>1, <3>1
  <2>5. CASE i > Len(q) /\ j <= Len(q)
    <3>1. j \in 1..Len(q) /\ i - Len(q) \in 1..Len(r) /\ q[j] = r[i - Len(q)]
      BY <1>1, <2>5
    <3> QED
      BY <2>1, <3>1
  <2> QED
    BY <1>1, <2>2, <2>3, <2>4, <2>5
<1> QED
  BY <1>1, <1>2, <1>3, <1>4

\* Vector::remov takes one element out and keeps the others.
LEMMA RemovProperties ==
    ASSUME NEW S, NEW q \in Seq(S), NEW i \in 1..Len(q), NoRepeat(q)
    PROVE  /\ Remov(q, i) \in Seq(S) /\ Len(Remov(q, i)) = Len(q) - 1
           /\ NoRepeat(Remov(q, i))
           /\ Elems(Remov(q, i)) = Elems(q) \ {q[i]}
<1> DEFINE r == Remov(q, i)
<1>1. Len(q) \in Nat /\ Len(q) >= 1 /\ \A j \in 1..Len(q) : q[j] \in S
  BY LenProperties, ElementOfSeq
<1>2. /\ r = [j \in 1..(Len(q) - 1) |-> IF j < i THEN q[j] ELSE q[j + 1]]
      /\ r \in [1..(Len(q) - 1) -> S]
  <2>1. \A j \in 1..(Len(q) - 1) : j \in 1..Len(q) /\ j + 1 \in 1..Len(q)
    BY <1>1
  <2> QED
    BY <1>1, <2>1 DEF Remov
<1>3. Len(q) - 1 \in Nat
  BY <1>1
<1>4. r \in Seq(S) /\ Len(r) = Len(q) - 1
  BY <1>2, <1>3
<1>5. \A j \in 1..(Len(q) - 1) : r[j] = IF j < i THEN q[j] ELSE q[j + 1]
  BY <1>2
<1> HIDE DEF r
<1>6. NoRepeat(r)
  <2> SUFFICES ASSUME NEW j \in 1..(Len(q) - 1), NEW k \in 1..(Len(q) - 1), r[j] = r[k]
               PROVE  j = k
    BY <1>4 DEF NoRepeat
  <2>1. /\ j \in 1..Len(q) /\ j + 1 \in 1..Len(q)
        /\ k \in 1..Len(q) /\ k + 1 \in 1..Len(q)
    BY <1>1
  <2> QED
    BY <1>1, <1>5, <2>1 DEF NoRepeat
<1>7. ASSUME NEW x \in Elems(r) PROVE x \in Elems(q) \ {q[i]}
  <2>1. PICK j \in 1..(Len(q) - 1) : x = r[j]
    BY <1>4, <1>7 DEF Elems
  <2>2. j \in 1..Len(q) /\ j + 1 \in 1..Len(q) /\ (j + 1 # i \/ j < i)
    BY <1>1
  <2>3. PICK k \in 1..Len(q) : x = q[k] /\ k # i
    BY <1>1, <1>5, <2>1
  <2> QED
    BY <2>3 DEF Elems, NoRepeat
<1>8. ASSUME NEW x \in Elems(q) \ {q[i]} PROVE x \in Elems(r)
  <2>1. PICK k \in 1..Len(q) : x = q[k] /\ k # i
    BY <1>8 DEF Elems
  <2>2. CASE k < i
    <3>1. k \in 1..(Len(q) - 1) /\ r[k] = x
      BY <1>1, <1>5, <2>1, <2>2
    <3> QED
      BY <1>4, <3>1 DEF Elems
  <2>3. CASE k > i
    <3>1. k - 1 \in 1..(Len(q) - 1) /\ r[k - 1] = x
      BY <1>1, <1>5, <2>1, <2>3
    <3> QED
      BY <1>4, <3>1 DEF Elems
  <2> QED
    BY <1>1, <2>1, <2>2, <2>3
<1> QED
  BY <1>4, <1>6, <1>7, <1>8 DEF r

-----------------------------------------------------------------------------
(* The invariant *)

\* What is in the vector was scheduled, and what is not is cancelled.
InVector ==
    /\ Elems(tasks) \subseteq Elems(born)
    /\ \A t \in Tasks \ Elems(tasks) : Cancelled(t)

\* While nothing finished in a pass, as when no pass is under way, the vector
\* holds live tasks only.
LiveUnlessDirty ==
    pass.at = "idle" \/ (pass.at = "run" /\ ~dirty) =>
        \A t \in Elems(tasks) : ~Cancelled(t)

Inv == TypeOK /\ InVector /\ LiveUnlessDirty

\* A handler's new tasks are distinct, and were not scheduled before.
LEMMA SpawnsType ==
    ASSUME NEW new \in Spawns
    PROVE  new \in Seq(Tasks) /\ NoRepeat(new) /\ Elems(new) \subseteq Unborn
<1>1. CASE new = <<>>
  BY <1>1 DEF NoRepeat, Elems
<1>2. ASSUME NEW t \in Unborn, new = <<t>>
      PROVE  new \in Seq(Tasks) /\ NoRepeat(new) /\ Elems(new) \subseteq Unborn
  <2>1. new \in Seq(Tasks) /\ Len(new) = 1 /\ new[1] = t
    BY <1>2 DEF Unborn
  <2> QED
    BY <2>1 DEF NoRepeat, Elems
<1>3. ASSUME NEW p \in Unborn \X Unborn, p[1] # p[2], new = <<p[1], p[2]>>
      PROVE  new \in Seq(Tasks) /\ NoRepeat(new) /\ Elems(new) \subseteq Unborn
  <2>1. /\ new \in Seq(Tasks) /\ Len(new) = 2 /\ new[1] = p[1] /\ new[2] = p[2]
        /\ p[1] \in Unborn /\ p[2] \in Unborn
    BY <1>3 DEF Unborn
  <2> QED
    BY <1>3, <2>1 DEF NoRepeat, Elems
<1> QED
  BY <1>1, <1>2, <1>3 DEF Spawns

\* In a step the clock stays or advances.
Advances == clock' \in 1..MaxClock /\ clock' >= clock

\* tb and off could be the tables of a state with clock'.
TablesOK(tb, off) == tb \in [Tasks -> 0..clock'] /\ off \in [Tasks -> Nat]

\* What schedule() leaves behind; tb and off are the tables without new tasks.
LEMMA ScheduleAllStep ==
    ASSUME Inv, Advances,
           NEW new \in Seq(Tasks), NoRepeat(new), Elems(new) \subseteq Unborn,
           NEW tb, NEW off, TablesOK(tb, off),
           ScheduleAll(new, tb, off)
    PROVE  /\ tasks' \in Seq(Tasks) /\ born' \in Seq(Tasks) /\ NoRepeat(tasks')
           /\ Elems(tasks') = Elems(tasks) \cup Elems(new)
           /\ Elems(born') = Elems(born) \cup Elems(new)
           /\ timebase' \in [Tasks -> 0..clock'] /\ offset' \in [Tasks -> Nat]
           /\ \A t \in Elems(new) : timebase'[t] = clock
           /\ \A t \in Tasks \ Elems(new) : timebase'[t] = tb[t] /\ offset'[t] = off[t]
<1>1. tasks \in Seq(Tasks) /\ born \in Seq(Tasks) /\ NoRepeat(tasks) /\ clock \in 1..MaxClock
  BY DEF Inv, TypeOK, NoRepeat
<1>2. Elems(tasks) \cap Elems(new) = {}
  BY DEF Inv, InVector, Unborn
<1>3. tasks' = tasks \o new /\ born' = born \o new
  BY DEF ScheduleAll
<1>4. PICK o \in [Elems(new) -> Offsets] :
        offset' = [t \in Tasks |-> IF t \in Elems(new) THEN o[t] ELSE off[t]]
  BY DEF ScheduleAll
<1>5. timebase' = [t \in Tasks |-> IF t \in Elems(new) THEN clock ELSE tb[t]]
  BY DEF ScheduleAll
<1>6. clock \in 0..clock' /\ tb \in [Tasks -> 0..clock'] /\ off \in [Tasks -> Nat]
  BY <1>1, ClockAssumption DEF Advances, TablesOK
<1>7. offset' \in [Tasks -> Nat]
  BY <1>4, <1>6, OffsetsAssumption
<1>8. Elems(new) \subseteq Tasks
  BY DEF Unborn
<1>9. /\ tasks' \in Seq(Tasks) /\ born' \in Seq(Tasks) /\ NoRepeat(tasks')
      /\ Elems(tasks') = Elems(tasks) \cup Elems(new)
      /\ Elems(born') = Elems(born) \cup Elems(new)
  BY <1>1, <1>2, <1>3, ElemsConcat
<1> QED
  BY <1>4, <1>5, <1>6, <1>7, <1>8, <1>9

LEMMA ScheduleInv ==
    ASSUME Inv, Schedule
    PROVE  Inv'
<1>1. PICK t \in Unborn : ScheduleAll(<<t>>, timebase, offset)
  BY DEF Schedule
<1>2. <<t>> \in Spawns
  BY <1>1 DEF Spawns
<1>3. <<t>> \in Seq(Tasks) /\ NoRepeat(<<t>>) /\ Elems(<<t>>) \subseteq Unborn
  BY <1>2, SpawnsType
<1>4. /\ clock' = clock /\ clock' \in 1..MaxClock /\ clock' >= clock
      /\ pass' = pass /\ dirty' = dirty
      /\ timebase \in [Tasks -> 0..clock'] /\ offset \in [Tasks -> Nat]
      /\ pass \in [at : {"idle", "run", "prune"}, now : 0..clock', i : Nat \ {0}]
      /\ dirty \in BOOLEAN
  BY ClockAssumption DEF Schedule, Inv, TypeOK
<1> DEFINE new == <<t>>
<1> HIDE DEF new
<1>5. new \in Seq(Tasks) /\ NoRepeat(new) /\ Elems(new) \subseteq Unborn
      /\ ScheduleAll(new, timebase, offset)
  BY <1>1, <1>3 DEF new
<1>6. /\ tasks' \in Seq(Tasks) /\ born' \in Seq(Tasks) /\ NoRepeat(tasks')
      /\ Elems(tasks') = Elems(tasks) \cup Elems(new)
      /\ Elems(born') = Elems(born) \cup Elems(new)
      /\ timebase' \in [Tasks -> 0..clock'] /\ offset' \in [Tasks -> Nat]
      /\ \A u \in Elems(new) : timebase'[u] = clock
      /\ \A u \in Tasks \ Elems(new) : timebase'[u] = timebase[u] /\ offset'[u] = offset[u]
  <2>1. Advances /\ TablesOK(timebase, offset)
    BY <1>4 DEF Advances, TablesOK
  <2> QED
    BY <1>5, <2>1, ScheduleAllStep
<1>7. TypeOK'
  BY <1>4, <1>6 DEF TypeOK, NoRepeat
<1>8. InVector'
  BY <1>6 DEF Inv, InVector, Cancelled
<1>9. LiveUnlessDirty'
  <2>1. Elems(tasks) \subseteq Tasks
    BY DEF Inv, TypeOK, Elems
  <2>2. clock # 0
    BY <1>4
  <2> QED
    BY <1>4, <1>5, <1>6, <2>1, <2>2 DEF Inv, LiveUnlessDirty, Cancelled, Unborn
<1> QED
  BY <1>7, <1>8, <1>9 DEF Inv

LEMMA RunTaskStep ==
    ASSUME Inv, RunTask
    PROVE  \E t \in Tasks, new \in Spawns, o \in Offsets :
             /\ t \in Elems(tasks) /\ ShouldRun(t, pass.now)
             /\ clock' \in 1..MaxClock /\ clock' >= clock
             /\ ScheduleAll(new, [timebase EXCEPT ![t] = Rebase(o)], [offset EXCEPT ![t] = o])
             /\ dirty' = (dirty \/ o = 0)
             /\ pass' = [pass EXCEPT !.i = @ + 1]
             /\ [timebase EXCEPT ![t] = Rebase(o)] \in [Tasks -> 0..clock']
             /\ [offset EXCEPT ![t] = o] \in [Tasks -> Nat]
<1> DEFINE t == tasks[pass.i]
<1>1. PICK new \in Spawns, o \in Offsets :
        /\ ScheduleAll(new, [timebase EXCEPT ![t] = Rebase(o)], [offset EXCEPT ![t] = o])
        /\ dirty' = (dirty \/ o = 0)
  BY DEF RunTask
<1>2. ShouldRun(t, pass.now) /\ pass' = [pass EXCEPT !.i = @ + 1]
  BY DEF RunTask
<1>3. pass.i \in 1..Len(tasks)
  BY LenProperties DEF RunTask, Inv, TypeOK
<1>4. t \in Elems(tasks) /\ t \in Tasks
  BY <1>3, ElementOfSeq DEF Elems, Inv, TypeOK
<1>5. clock' \in 1..MaxClock /\ clock' >= clock /\ clock \in 1..MaxClock
  BY ClockAssumption DEF RunTask, Spend, Inv, TypeOK
<1>6. Rebase(o) \in 0..clock' /\ o \in Nat
  BY <1>5, OffsetsAssumption DEF Rebase
<1>7. timebase \in [Tasks -> 0..clock'] /\ offset \in [Tasks -> Nat]
  BY <1>5 DEF Inv, TypeOK
<1> QED
  BY <1>1, <1>2, <1>4, <1>5, <1>6, <1>7

LEMMA RunTaskInv ==
    ASSUME Inv, RunTask
    PROVE  Inv'
<1>1. PICK t \in Tasks, new \in Spawns, o \in Offsets :
        /\ t \in Elems(tasks) /\ ShouldRun(t, pass.now)
        /\ clock' \in 1..MaxClock /\ clock' >= clock
        /\ ScheduleAll(new, [timebase EXCEPT ![t] = Rebase(o)], [offset EXCEPT ![t] = o])
        /\ dirty' = (dirty \/ o = 0)
        /\ pass' = [pass EXCEPT !.i = @ + 1]
        /\ [timebase EXCEPT ![t] = Rebase(o)] \in [Tasks -> 0..clock']
        /\ [offset EXCEPT ![t] = o] \in [Tasks -> Nat]
  BY RunTaskStep
<1>2. new \in Seq(Tasks) /\ NoRepeat(new) /\ Elems(new) \subseteq Unborn
  BY SpawnsType
<1> DEFINE tb == [timebase EXCEPT ![t] = Rebase(o)]
           off == [offset EXCEPT ![t] = o]
<1>3. /\ tb \in [Tasks -> 0..clock'] /\ off \in [Tasks -> Nat]
      /\ ScheduleAll(new, tb, off)
      /\ t \in Tasks
      /\ tb[t] = Rebase(o) /\ \A u \in Tasks \ {t} : tb[u] = timebase[u]
  <2>1. t \in Tasks /\ timebase \in [Tasks -> 0..clock]
    BY <1>1 DEF Inv, TypeOK
  <2> QED
    BY <1>1, <2>1
<1> HIDE DEF tb, off
<1>4. /\ tasks' \in Seq(Tasks) /\ born' \in Seq(Tasks) /\ NoRepeat(tasks')
      /\ Elems(tasks') = Elems(tasks) \cup Elems(new)
      /\ Elems(born') = Elems(born) \cup Elems(new)
      /\ timebase' \in [Tasks -> 0..clock'] /\ offset' \in [Tasks -> Nat]
      /\ \A u \in Elems(new) : timebase'[u] = clock
      /\ \A u \in Tasks \ Elems(new) : timebase'[u] = tb[u] /\ offset'[u] = off[u]
  <2>1. Advances /\ TablesOK(tb, off)
    BY <1>1, <1>3 DEF Advances, TablesOK
  <2> QED
    BY <1>2, <1>3, <2>1, ScheduleAllStep
<1>5. TypeOK'
  <2>1. /\ clock \in 1..MaxClock
        /\ pass \in [at : {"idle", "run", "prune"}, now : 0..clock, i : Nat \ {0}]
        /\ dirty \in BOOLEAN
    BY DEF Inv, TypeOK
  <2>2. pass' \in [at : {"idle", "run", "prune"}, now : 0..clock', i : Nat \ {0}]
    BY <1>1, <2>1
  <2>3. dirty' \in BOOLEAN
    BY <1>1
  <2> QED
    BY <1>1, <1>4, <2>2, <2>3 DEF TypeOK, NoRepeat
<1>6. Elems(tasks) \subseteq Tasks /\ Elems(tasks) \subseteq Elems(born)
      /\ \A u \in Tasks \ Elems(tasks) : timebase[u] = 0
  <2>1. tasks \in Seq(Tasks)
    BY DEF Inv, TypeOK
  <2>2. Elems(tasks) \subseteq Tasks
    BY <2>1, ElementOfSeq DEF Elems
  <2> QED
    BY <2>2 DEF Inv, InVector, Cancelled
<1>7. t \in Elems(tasks) /\ t \notin Elems(new)
  BY <1>1, <1>2, <1>6 DEF Unborn
<1>8. InVector'
  <2>1. ASSUME NEW u \in Tasks \ Elems(tasks)' PROVE timebase'[u] = 0
    BY <1>3, <1>4, <1>6, <1>7, <2>1
  <2> QED
    BY <1>4, <1>6, <2>1 DEF InVector, Cancelled
<1>9. LiveUnlessDirty'
  <2> SUFFICES ASSUME ~dirty', NEW u \in Elems(tasks') PROVE timebase'[u] # 0
    <3>1. pass'.at = "run"
      BY <1>1 DEF RunTask, Inv, TypeOK
    <3> QED
      BY <3>1 DEF LiveUnlessDirty, Cancelled
  <2>1. ~dirty /\ o # 0
    BY <1>1
  <2>2. o > 0
    BY <2>1, OffsetsAssumption
  <2>3. clock # 0 /\ clock' # 0
    BY <1>1 DEF Inv, TypeOK
  <2>4. CASE u \in Elems(new)
    BY <1>4, <2>3, <2>4
  <2>5. CASE u = t
    BY <1>3, <1>4, <1>7, <2>2, <2>3, <2>5 DEF Rebase
  <2>6. CASE u \in Elems(tasks) /\ u # t /\ u \notin Elems(new)
    <3>1. timebase[u] # 0
      BY <2>1, <2>6 DEF Inv, LiveUnlessDirty, Cancelled, RunTask
    <3> QED
      BY <1>3, <1>4, <1>6, <2>6, <3>1
  <2> QED
    BY <1>4, <2>4, <2>5, <2>6
<1> QED
  BY <1>5, <1>8, <1>9 DEF Inv

LEMMA PruneStep ==
    ASSUME Inv, Prune
    PROVE  \E i \in 1..Len(tasks) :
             /\ Cancelled(tasks[i]) /\ tasks[i] \in Tasks
             /\ tasks' \in Seq(Tasks) /\ NoRepeat(tasks')
             /\ Elems(tasks') = Elems(tasks) \ {tasks[i]}
<1>1. PICK i \in 1..Len(tasks) : IsFirstCancelled(i) /\ tasks' = Remov(tasks, i)
  BY DEF Prune
<1>2. tasks \in Seq(Tasks) /\ NoRepeat(tasks)
  BY DEF Inv, TypeOK, NoRepeat
<1>3. tasks[i] \in Tasks /\ Cancelled(tasks[i])
  BY <1>1, <1>2, ElementOfSeq DEF IsFirstCancelled
<1> QED
  BY <1>1, <1>2, <1>3, RemovProperties

LEMMA PruneInv ==
    ASSUME Inv, Prune
    PROVE  Inv'
<1>1. PICK i \in 1..Len(tasks) :
        /\ Cancelled(tasks[i]) /\ tasks[i] \in Tasks
        /\ tasks' \in Seq(Tasks) /\ NoRepeat(tasks')
        /\ Elems(tasks') = Elems(tasks) \ {tasks[i]}
  BY PruneStep
<1>2. UNCHANGED <<clock, timebase, offset, pass, born>> /\ dirty' = TRUE /\ pass.at = "prune"
  BY DEF Prune
<1>3. TypeOK'
  BY <1>1, <1>2 DEF Inv, TypeOK, NoRepeat
<1>4. InVector'
  BY <1>1, <1>2 DEF Inv, InVector, Cancelled
<1>5. LiveUnlessDirty'
  BY <1>2 DEF LiveUnlessDirty
<1> QED
  BY <1>3, <1>4, <1>5 DEF Inv

AllLive == \A t \in Elems(tasks) : ~Cancelled(t)

LEMMA SameTasks ==
    ASSUME Inv, UNCHANGED <<tasks, timebase, born>>
    PROVE  InVector' /\ (AllLive' <=> AllLive)
<1>1. /\ Elems(tasks)' = Elems(tasks) /\ Elems(born)' = Elems(born)
      /\ \A t : Cancelled(t)' <=> Cancelled(t)
  BY DEF Elems, Cancelled
<1> QED
  BY <1>1 DEF Inv, InVector, AllLive

LEMMA LoopTypes ==
    ASSUME Inv, UNCHANGED <<clock, tasks, timebase, offset, born>>,
           pass' \in [at : {"idle", "run", "prune"}, now : 0..clock, i : Nat \ {0}],
           dirty' \in BOOLEAN
    PROVE  TypeOK'
BY DEF Inv, TypeOK

LEMMA PassTypes ==
    ASSUME Inv
    PROVE  /\ pass \in [at : {"idle", "run", "prune"}, now : 0..clock, i : Nat \ {0}]
           /\ Idle \in [at : {"idle", "run", "prune"}, now : 0..clock, i : Nat \ {0}]
           /\ dirty \in BOOLEAN /\ clock \in 0..clock
<1>1. clock \in 1..MaxClock
  BY DEF Inv, TypeOK
<1>2. 0 \in 0..clock /\ clock \in 0..clock /\ 1 \in Nat \ {0}
  BY <1>1
<1>3. Idle \in [at : {"idle", "run", "prune"}, now : 0..clock, i : Nat \ {0}]
  BY <1>2 DEF Idle
<1> QED
  BY <1>2, <1>3 DEF Inv, TypeOK

\* The steps that move the loop only, and the clock.
LEMMA OtherInv ==
    ASSUME Inv, StartPass \/ SkipTask \/ EndRun \/ EndPrune \/ Tick \/ UNCHANGED vars
    PROVE  Inv'
<1>1. InVector' /\ (AllLive' <=> AllLive)
  BY SameTasks DEF StartPass, SkipTask, EndRun, EndPrune, Tick, vars
<1>2. /\ LiveUnlessDirty <=> (pass.at = "idle" \/ (pass.at = "run" /\ ~dirty) => AllLive)
      /\ LiveUnlessDirty' <=> (pass'.at = "idle" \/ (pass'.at = "run" /\ ~dirty') => AllLive')
      /\ LiveUnlessDirty
  BY DEF LiveUnlessDirty, AllLive, Inv
<1>3. CASE StartPass
  <2>1. /\ pass.at = "idle" /\ dirty' = FALSE
        /\ UNCHANGED <<clock, tasks, timebase, offset, born>>
        /\ pass' = [at |-> "run", now |-> clock, i |-> 1]
    BY <1>3 DEF StartPass
  <2>2. pass' \in [at : {"idle", "run", "prune"}, now : 0..clock, i : Nat \ {0}]
    BY <2>1, PassTypes
  <2> QED
    BY <1>1, <1>2, <2>1, <2>2, LoopTypes DEF Inv
<1>4. CASE SkipTask
  <2>1. /\ pass' = [pass EXCEPT !.i = @ + 1] /\ UNCHANGED dirty
        /\ UNCHANGED <<clock, tasks, timebase, offset, born>>
    BY <1>4 DEF SkipTask
  <2>2. /\ pass' \in [at : {"idle", "run", "prune"}, now : 0..clock, i : Nat \ {0}]
        /\ pass'.at = pass.at
    BY <2>1, PassTypes
  <2>3. TypeOK'
    BY <2>1, <2>2, PassTypes, LoopTypes
  <2> QED
    BY <1>1, <1>2, <2>1, <2>2, <2>3 DEF Inv
<1>5. CASE EndRun
  <2>1. /\ pass.at = "run" /\ UNCHANGED dirty
        /\ UNCHANGED <<clock, tasks, timebase, offset, born>>
        /\ pass' = IF dirty THEN [pass EXCEPT !.at = "prune"] ELSE Idle
    BY <1>5 DEF EndRun
  <2>2. CASE dirty
    <3>1. /\ pass' \in [at : {"idle", "run", "prune"}, now : 0..clock, i : Nat \ {0}]
          /\ pass'.at = "prune"
      BY <2>1, <2>2, PassTypes
    <3> QED
      BY <1>1, <1>2, <2>1, <3>1, PassTypes, LoopTypes DEF Inv
  <2>3. CASE ~dirty
    BY <1>1, <1>2, <2>1, <2>3, PassTypes, LoopTypes DEF Inv
  <2> QED
    BY <2>2, <2>3
<1>6. CASE EndPrune
  <2>1. TypeOK'
    BY <1>6, PassTypes, LoopTypes DEF EndPrune
  <2>2. AllLive
    BY <1>6 DEF EndPrune, Elems, AllLive
  <2> QED
    BY <1>1, <1>2, <2>1, <2>2 DEF Inv
<1>7. CASE Tick
  <2>1. clock \in 1..MaxClock /\ clock' \in 1..MaxClock /\ 0..clock \subseteq 0..clock'
    BY <1>7, ClockAssumption DEF Tick, Inv, TypeOK
  <2>2. timebase' \in [Tasks -> 0..clock']
        /\ pass' \in [at : {"idle", "run", "prune"}, now : 0..clock', i : Nat \ {0}]
    BY <1>7, <2>1 DEF Tick, Inv, TypeOK
  <2>3. TypeOK' /\ pass' = pass /\ dirty' = dirty
    BY <1>7, <2>1, <2>2 DEF Tick, Inv, TypeOK
  <2> QED
    BY <1>1, <1>2, <2>3 DEF Inv
<1>8. CASE UNCHANGED vars
  <2>1. TypeOK' /\ pass' = pass /\ dirty' = dirty
    BY <1>8 DEF vars, Inv, TypeOK
  <2> QED
    BY <1>1, <1>2, <2>1 DEF Inv
<1> QED
  BY <1>3, <1>4, <1>5, <1>6, <1>7, <1>8

LEMMA InitInv == Init => Inv
<1> SUFFICES ASSUME Init PROVE Inv
  OBVIOUS
<1>1. tasks = <<>> /\ born = <<>> /\ Elems(tasks) = {} /\ Elems(born) = {}
  BY DEF Init, Elems
<1>2. TypeOK
  <2>1. 1 \in 1..MaxClock /\ 0 \in 0..1 /\ 1 \in Nat \ {0}
    BY ClockAssumption
  <2>2. pass \in [at : {"idle", "run", "prune"}, now : 0..clock, i : Nat \ {0}]
    BY <2>1 DEF Init, Idle
  <2>3. dirty \in BOOLEAN
    BY DEF Init
  <2>4. timebase \in [Tasks -> 0..clock] /\ offset \in [Tasks -> Nat]
    BY <2>1 DEF Init
  <2> QED
    BY <1>1, <2>1, <2>2, <2>3, <2>4 DEF Init, TypeOK
<1> QED
  BY <1>1, <1>2 DEF Init, Inv, InVector, LiveUnlessDirty, Cancelled

LEMMA NextInv == Inv /\ [Next]_vars => Inv'
BY ScheduleInv, RunTaskInv, PruneInv, OtherInv DEF Next, Loop

LEMMA AlwaysInv == Spec => []Inv
BY InitInv, NextInv, PTL DEF Spec

\* The type invariant; a task is never in the vector twice.
THEOREM TypeCorrect == Spec => []TypeOK
<1>1. Inv => TypeOK
  BY DEF Inv
<1> QED
  BY <1>1, AlwaysInv, PTL

\* Between two passes the vector holds no finished task, whatever tasks schedule
\* and however many finish in one pass (TaskManager::run, Task.cpp:140-150).
THEOREM LiveAtRest == Spec => []OnlyLiveAtRest
<1>1. Inv => OnlyLiveAtRest
  <2>1. \A i \in 1..Len(tasks) : tasks[i] \in Elems(tasks)
    BY DEF Elems
  <2> QED
    BY <2>1 DEF Inv, LiveUnlessDirty, OnlyLiveAtRest
<1> QED
  BY <1>1, AlwaysInv, PTL

-----------------------------------------------------------------------------
(* The task manager is a set of timers *)

\* What Timers calls due, for one task.
DueOf(t) == IF t \notin Elems(born) THEN -1 ELSE IF Waiting(t) THEN NextRun(t) ELSE -2
dues == [t \in Tasks |-> DueOf(t)]

\* DueOf from the tables of the task alone.
LEMMA DueOfTask ==
    ASSUME Inv, NEW t \in Tasks
    PROVE  DueOf(t) = IF t \notin Elems(born) THEN -1
                      ELSE IF timebase[t] # 0 THEN timebase[t] + offset[t] ELSE -2
BY DEF DueOf, Waiting, Inv, InVector, Cancelled, NextRun

\* The same after a step.
LEMMA DueOfTaskNext ==
    ASSUME Inv', NEW t \in Tasks
    PROVE  DueOf(t)' = IF t \notin Elems(born)' THEN -1
                       ELSE IF timebase'[t] # 0 THEN timebase'[t] + offset'[t] ELSE -2
BY DEF DueOf, Waiting, Inv, InVector, Cancelled, NextRun

\* Steps after which the same tasks are born, with the same tables.
LEMMA SameDues ==
    ASSUME Inv, Inv', UNCHANGED <<timebase, offset, born>>
    PROVE  dues' = dues
<1>1. ASSUME NEW t \in Tasks PROVE DueOf(t)' = DueOf(t)
  <2>1. Elems(born)' = Elems(born)
    BY DEF Elems
  <2>2. DueOf(t)' = IF t \notin Elems(born)' THEN -1
                    ELSE IF timebase'[t] # 0 THEN timebase'[t] + offset'[t] ELSE -2
    BY DueOfTaskNext
  <2> QED
    BY <2>1, <2>2, DueOfTask
<1> QED
  BY <1>1 DEF dues

\* A new task is due now or later; it was New.
LEMMA NewDues ==
    ASSUME Inv, Inv', NEW new,
           Elems(new) \subseteq Unborn, Elems(born') = Elems(born) \cup Elems(new),
           \A u \in Elems(new) : timebase'[u] = clock
    PROVE  \A u \in Elems(new) :
             dues[u] = -1 /\ dues'[u] \in Nat /\ dues'[u] >= clock
<1>1. TAKE u \in Elems(new)
<1>2. u \in Tasks /\ u \notin Elems(born) /\ u \in Elems(born')
  BY DEF Unborn
<1>3. timebase'[u] = clock /\ clock \in 1..MaxClock /\ offset'[u] \in Nat
  BY <1>2 DEF Inv, TypeOK
<1>4. DueOf(u) = -1
  BY <1>2, DueOfTask
<1>5. DueOf(u)' = clock + offset'[u]
  <2>1. DueOf(u)' = IF u \notin Elems(born)' THEN -1
                    ELSE IF timebase'[u] # 0 THEN timebase'[u] + offset'[u] ELSE -2
    BY <1>2, DueOfTaskNext
  <2> QED
    BY <1>2, <1>3, <2>1
<1> QED
  BY <1>2, <1>3, <1>4, <1>5, ClockAssumption DEF dues

\* A task that neither ran nor was scheduled is due when it was.
LEMMA OldDues ==
    ASSUME Inv, Inv', NEW u \in Tasks, u \in Elems(born)' <=> u \in Elems(born),
           timebase'[u] = timebase[u], offset'[u] = offset[u]
    PROVE  dues'[u] = dues[u]
<1>1. DueOf(u)' = IF u \notin Elems(born)' THEN -1
                  ELSE IF timebase'[u] # 0 THEN timebase'[u] + offset'[u] ELSE -2
  BY DueOfTaskNext
<1>2. DueOf(u)' = DueOf(u)
  BY <1>1, DueOfTask
<1> QED
  BY <1>2 DEF dues

LEMMA ScheduleIsStart ==
    ASSUME Inv, Inv', Schedule
    PROVE  \E t \in Tasks : Service!Start(t)
<1>1. PICK t \in Unborn : ScheduleAll(<<t>>, timebase, offset)
  BY DEF Schedule
<1>2. <<t>> \in Spawns /\ t \in Tasks
  BY <1>1 DEF Spawns, Unborn
<1> DEFINE new == <<t>>
<1>3. new \in Seq(Tasks) /\ NoRepeat(new) /\ Elems(new) \subseteq Unborn /\ Elems(new) = {t}
  <2>1. Elems(new) = {t}
    BY DEF Elems
  <2> QED
    BY <1>2, <2>1, SpawnsType
<1>4. ScheduleAll(new, timebase, offset)
  BY <1>1
<1> HIDE DEF new
<1>5. clock' = clock /\ Advances /\ TablesOK(timebase, offset)
  BY DEF Schedule, Advances, TablesOK, Inv, TypeOK
<1>6. /\ Elems(born') = Elems(born) \cup Elems(new)
      /\ \A u \in Elems(new) : timebase'[u] = clock
      /\ \A u \in Tasks \ Elems(new) : timebase'[u] = timebase[u] /\ offset'[u] = offset[u]
  BY <1>3, <1>4, <1>5, ScheduleAllStep
<1>7. dues[t] = -1 /\ dues'[t] \in Nat /\ dues'[t] >= clock
  BY <1>3, <1>6, NewDues
<1>8. \A u \in Tasks \ {t} : dues'[u] = dues[u]
  BY <1>3, <1>6, OldDues
<1> QED
  BY <1>2, <1>5, <1>7, <1>8
  DEF Service!Start, Service!Others, Service!New, dues, DueOf

LEMMA Later ==
    ASSUME NEW a \in Nat, NEW b \in Nat, b >= a, NEW o \in Nat, o > 0
    PROVE  b + o \in Nat /\ b + o > a
  OBVIOUS

LEMMA RunTaskIsFire ==
    ASSUME Inv, Inv', RunTask
    PROVE  \E t \in Tasks : Service!Fire(t)
<1>1. PICK t \in Tasks, new \in Spawns, o \in Offsets :
        /\ t \in Elems(tasks) /\ ShouldRun(t, pass.now)
        /\ clock' \in 1..MaxClock /\ clock' >= clock
        /\ ScheduleAll(new, [timebase EXCEPT ![t] = Rebase(o)], [offset EXCEPT ![t] = o])
        /\ dirty' = (dirty \/ o = 0)
        /\ pass' = [pass EXCEPT !.i = @ + 1]
        /\ [timebase EXCEPT ![t] = Rebase(o)] \in [Tasks -> 0..clock']
        /\ [offset EXCEPT ![t] = o] \in [Tasks -> Nat]
  BY RunTaskStep
<1>2. new \in Seq(Tasks) /\ NoRepeat(new) /\ Elems(new) \subseteq Unborn
  BY SpawnsType
<1> DEFINE tb == [timebase EXCEPT ![t] = Rebase(o)]
           off == [offset EXCEPT ![t] = o]
<1>3. /\ Advances /\ TablesOK(tb, off) /\ ScheduleAll(new, tb, off)
      /\ t \in Tasks /\ tb[t] = Rebase(o) /\ off[t] = o
      /\ \A u \in Tasks \ {t} : tb[u] = timebase[u] /\ off[u] = offset[u]
  <2>1. t \in Tasks /\ timebase \in [Tasks -> 0..clock] /\ offset \in [Tasks -> Nat]
    BY <1>1 DEF Inv, TypeOK
  <2> QED
    BY <1>1, <2>1 DEF Advances, TablesOK
<1> HIDE DEF tb, off
<1>4. /\ Elems(born') = Elems(born) \cup Elems(new)
      /\ \A u \in Elems(new) : timebase'[u] = clock
      /\ \A u \in Tasks \ Elems(new) : timebase'[u] = tb[u] /\ offset'[u] = off[u]
  BY <1>2, <1>3, ScheduleAllStep
<1>5. t \in Elems(born) /\ t \notin Elems(new) /\ t \in Elems(born)'
  BY <1>1, <1>2, <1>4 DEF Inv, InVector, Unborn
<1>6. /\ clock \in Nat /\ clock' \in Nat /\ clock' >= clock /\ clock' # 0 /\ o \in Nat
      /\ pass.now \in 0..clock
      /\ timebase[t] \in Nat /\ offset[t] \in Nat
  BY <1>1, <1>3, ClockAssumption, OffsetsAssumption DEF Inv, TypeOK
<1>7. dues[t] \in Nat /\ dues[t] < clock
  <2>1. timebase[t] # 0 /\ timebase[t] + offset[t] < pass.now
    BY <1>1 DEF ShouldRun, Cancelled, NextRun
  <2>2. DueOf(t) = timebase[t] + offset[t]
    BY <1>3, <1>5, <2>1, DueOfTask
  <2> QED
    BY <1>3, <1>6, <2>1, <2>2 DEF dues
<1>8. dues'[t] = -2 \/ (dues'[t] \in Nat /\ dues'[t] > clock)
  <2>1. timebase'[t] = Rebase(o) /\ offset'[t] = o
    BY <1>3, <1>4, <1>5
  <2>2. DueOf(t)' = IF timebase'[t] # 0 THEN timebase'[t] + offset'[t] ELSE -2
    BY <1>3, <1>5, DueOfTaskNext
  <2>3. dues'[t] = DueOf(t)'
    BY <1>3 DEF dues
  <2>4. CASE o > 0
    <3>1. timebase'[t] = clock' /\ clock' # 0
      BY <1>6, <2>1, <2>4 DEF Rebase
    <3>2. dues'[t] = clock' + o
      BY <2>1, <2>2, <2>3, <3>1
    <3>3. clock' + o \in Nat /\ clock' + o > clock
      <4>1. clock \in Nat /\ clock' \in Nat /\ clock' >= clock /\ o \in Nat
        BY <1>6
      <4> QED
        BY <4>1, <2>4, Later
    <3> QED
      BY <3>2, <3>3
  <2>5. CASE o = 0
    BY <1>6, <2>1, <2>2, <2>3, <2>5 DEF Rebase
  <2> QED
    BY <1>6, <2>4, <2>5
<1>9. \A u \in Tasks \ {t} :
        dues'[u] = dues[u] \/ (dues[u] = -1 /\ dues'[u] \in Nat /\ dues'[u] >= clock)
  <2>1. TAKE u \in Tasks \ {t}
  <2>2. CASE u \in Elems(new)
    BY <1>2, <1>4, <2>2, NewDues
  <2>3. CASE u \notin Elems(new)
    <3>1. timebase'[u] = timebase[u] /\ offset'[u] = offset[u]
      BY <1>3, <1>4, <2>3
    <3>2. u \in Elems(born)' <=> u \in Elems(born)
      BY <1>4, <2>3
    <3> QED
      BY <3>1, <3>2, OldDues
  <2> QED
    BY <2>2, <2>3
<1> QED
  BY <1>3, <1>6, <1>7, <1>8, <1>9
  DEF Service!Fire, Service!Others, Service!Pending, Service!New, Service!Done, dues, DueOf

\* Every step of the task manager is a step of the timers, or changes nothing
\* they know of.
LEMMA StepOfTimers ==
    ASSUME Inv, Inv', [Next]_vars
    PROVE  [Service!TimersNext]_<<clock, dues>>
<1>1. CASE Schedule
  BY <1>1, ScheduleIsStart DEF Service!TimersNext
<1>2. CASE RunTask
  BY <1>2, RunTaskIsFire DEF Service!TimersNext
<1>3. ASSUME UNCHANGED <<clock, timebase, offset, born>> PROVE UNCHANGED <<clock, dues>>
  BY <1>3, SameDues
<1>4. CASE StartPass \/ SkipTask \/ EndRun \/ Prune \/ EndPrune \/ UNCHANGED vars
  BY <1>3, <1>4 DEF StartPass, SkipTask, EndRun, Prune, EndPrune, vars
<1>5. CASE Tick
  <2>1. UNCHANGED <<timebase, offset, born>> /\ clock' >= clock
    BY <1>5 DEF Tick, Inv, TypeOK
  <2>2. dues' = dues
    BY <2>1, SameDues
  <2> QED
    BY <2>1, <2>2 DEF Service!TimersNext, Service!Pass, dues, DueOf
<1> QED
  BY <1>1, <1>2, <1>4, <1>5 DEF Next, Loop

\* The task manager implements Timers: no task is lost, runs before its time has
\* passed, or runs again once finished (Task.cpp:122-151).
THEOREM ImplementsTimers == Spec => TimersService
<1>1. Init => Service!TimersInit
  <2> SUFFICES ASSUME Init PROVE Service!TimersInit
    OBVIOUS
  <2>1. \A t : t \notin Elems(born)
    BY DEF Init, Elems
  <2> QED
    BY <2>1 DEF Init, Service!TimersInit, Service!New
<1>2. ASSUME Inv, Inv', [Next]_vars
      PROVE  [Service!TimersNext]_<<clock, [t \in Tasks |->
                IF t \notin Elems(born) THEN -1 ELSE IF Waiting(t) THEN NextRun(t) ELSE -2]>>
  BY <1>2, StepOfTimers DEF dues, DueOf
<1> QED
  BY <1>1, <1>2, AlwaysInv, PTL DEF Spec, TimersService, Service!TimersSpec

-----------------------------------------------------------------------------
(* First due, first run.  A task that comes after another in the vector was *)
(* scheduled after it, and what a pass has looked at is not due in it any   *)
(* more.                                                                    *)

\* The elements of q come in the order they have in b.
InOrder(q, b) == \A k, l \in 1..Len(q), i, j \in 1..Len(b) :
    b[i] = q[k] /\ b[j] = q[l] /\ k < l => i < j

LookedAt == pass.at = "run" =>
    \A k \in 1..Len(tasks) : k < pass.i /\ ~Cancelled(tasks[k]) => pass.now <= NextRun(tasks[k])

OrderInv == Inv /\ NoRepeat(born) /\ InOrder(tasks, born) /\ LookedAt

\* What is appended to both comes after what was in both.
LEMMA OrderConcat ==
    ASSUME NEW S, NEW q \in Seq(S), NEW b \in Seq(S), NEW n \in Seq(S),
           NoRepeat(b), NoRepeat(n), Elems(b) \cap Elems(n) = {}, Elems(q) \subseteq Elems(b),
           InOrder(q, b)
    PROVE  InOrder(q \o n, b \o n)
<1>1. /\ Len(q) \in Nat /\ Len(b) \in Nat /\ Len(n) \in Nat
      /\ Len(q \o n) = Len(q) + Len(n) /\ Len(b \o n) = Len(b) + Len(n)
      /\ \A k \in 1..Len(q) + Len(n) :
            (q \o n)[k] = IF k <= Len(q) THEN q[k] ELSE n[k - Len(q)]
      /\ \A i \in 1..Len(b) + Len(n) :
            (b \o n)[i] = IF i <= Len(b) THEN b[i] ELSE n[i - Len(b)]
  BY ConcatProperties, LenProperties
<1> SUFFICES ASSUME NEW k \in 1..Len(q) + Len(n), NEW l \in 1..Len(q) + Len(n),
                    NEW i \in 1..Len(b) + Len(n), NEW j \in 1..Len(b) + Len(n),
                    (b \o n)[i] = (q \o n)[k], (b \o n)[j] = (q \o n)[l], k < l
             PROVE  i < j
  BY <1>1 DEF InOrder
<1>2. ASSUME NEW m \in 1..Len(q) + Len(n), NEW h \in 1..Len(b) + Len(n),
             (b \o n)[h] = (q \o n)[m]
      PROVE  /\ m <= Len(q) => h <= Len(b) /\ b[h] = q[m]
             /\ m > Len(q) => h - Len(b) = m - Len(q)
  <2>1. CASE m <= Len(q)
    <3>1. m \in 1..Len(q) /\ (q \o n)[m] = q[m]
      BY <1>1, <2>1
    <3>2. q[m] \in Elems(b)
      BY <3>1 DEF Elems
    <3>3. CASE h > Len(b)
      <4>1. h - Len(b) \in 1..Len(n) /\ (b \o n)[h] = n[h - Len(b)]
        BY <1>1, <3>3
      <4>2. (b \o n)[h] \in Elems(n)
        BY <4>1 DEF Elems
      <4> QED
        BY <1>2, <3>1, <3>2, <4>2
    <3>4. CASE h <= Len(b)
      <4>1. (b \o n)[h] = b[h]
        BY <1>1, <3>4
      <4> QED
        BY <1>1, <1>2, <2>1, <3>1, <3>4, <4>1
    <3> QED
      BY <1>1, <3>3, <3>4
  <2>2. CASE m > Len(q)
    <3>1. m - Len(q) \in 1..Len(n) /\ (q \o n)[m] = n[m - Len(q)]
      BY <1>1, <2>2
    <3>2. CASE h <= Len(b)
      <4>1. h \in 1..Len(b) /\ (b \o n)[h] = b[h]
        BY <1>1, <3>2
      <4>2. b[h] \in Elems(b) /\ n[m - Len(q)] \in Elems(n)
        BY <3>1, <4>1 DEF Elems
      <4> QED
        BY <1>2, <3>1, <4>1, <4>2
    <3>3. CASE h > Len(b)
      <4>1. h - Len(b) \in 1..Len(n) /\ (b \o n)[h] = n[h - Len(b)]
        BY <1>1, <3>3
      <4>2. h - Len(b) = m - Len(q)
        BY <1>2, <3>1, <4>1 DEF NoRepeat
      <4> QED
        BY <1>1, <2>2, <4>2
    <3> QED
      BY <1>1, <3>2, <3>3
  <2> QED
    BY <1>1, <2>1, <2>2
<1>3. /\ k <= Len(q) => i <= Len(b) /\ b[i] = q[k]
      /\ k > Len(q) => i - Len(b) = k - Len(q)
      /\ l <= Len(q) => j <= Len(b) /\ b[j] = q[l]
      /\ l > Len(q) => j - Len(b) = l - Len(q)
  BY <1>2
<1>4. CASE l <= Len(q)
  <2>1. k \in 1..Len(q) /\ l \in 1..Len(q) /\ i \in 1..Len(b) /\ j \in 1..Len(b)
    BY <1>1, <1>3, <1>4
  <2> QED
    BY <1>3, <2>1 DEF InOrder
<1>5. CASE l > Len(q)
  BY <1>1, <1>3, <1>5
<1> QED
  BY <1>1, <1>4, <1>5

LEMMA OrderRemov ==
    ASSUME NEW S, NEW q \in Seq(S), NEW b \in Seq(S), NEW h \in 1..Len(q), NoRepeat(q),
           InOrder(q, b)
    PROVE  InOrder(Remov(q, h), b)
<1> DEFINE r == Remov(q, h)
           At(k) == IF k < h THEN k ELSE k + 1
<1>1. Len(q) \in Nat /\ Len(r) = Len(q) - 1
  BY RemovProperties, LenProperties
<1>2. \A k \in 1..(Len(q) - 1) : r[k] = IF k < h THEN q[k] ELSE q[k + 1]
  BY <1>1 DEF Remov
<1> HIDE DEF r
<1>3. ASSUME NEW k \in 1..Len(r), NEW l \in 1..Len(r)
      PROVE  r[k] = q[At(k)] /\ At(k) \in 1..Len(q) /\ (k < l => At(k) < At(l))
  BY <1>1, <1>2
<1> HIDE DEF At
<1>4. InOrder(r, b)
  BY <1>3 DEF InOrder
<1> QED
  BY <1>4 DEF r

\* schedule() keeps the order, and what was in the vector where it was.
LEMMA ScheduleOrder ==
    ASSUME OrderInv, NEW new \in Seq(Tasks), NoRepeat(new), Elems(new) \subseteq Unborn,
           NEW tb, NEW off, ScheduleAll(new, tb, off)
    PROVE  /\ NoRepeat(born') /\ InOrder(tasks', born')
           /\ \A k \in 1..Len(tasks) :
                 k \in 1..Len(tasks') /\ tasks'[k] = tasks[k] /\ tasks[k] \in Tasks \ Elems(new)
<1>1. /\ tasks \in Seq(Tasks) /\ born \in Seq(Tasks) /\ NoRepeat(born) /\ InOrder(tasks, born)
      /\ Elems(tasks) \subseteq Elems(born)
      /\ Elems(born) \cap Elems(new) = {}
  BY DEF OrderInv, Inv, TypeOK, InVector, Unborn
<1>2. tasks' = tasks \o new /\ born' = born \o new
  BY DEF ScheduleAll
<1>3. NoRepeat(born')
  BY <1>1, <1>2, ElemsConcat
<1>4. InOrder(tasks', born')
  BY <1>1, <1>2, OrderConcat
<1>5. ASSUME NEW k \in 1..Len(tasks)
      PROVE  k \in 1..Len(tasks') /\ tasks'[k] = tasks[k] /\ tasks[k] \in Tasks \ Elems(new)
  <2>1. /\ Len(tasks) \in Nat /\ Len(new) \in Nat /\ Len(tasks') = Len(tasks) + Len(new)
        /\ \A m \in 1..Len(tasks) + Len(new) :
              tasks'[m] = IF m <= Len(tasks) THEN tasks[m] ELSE new[m - Len(tasks)]
    BY <1>1, <1>2, ConcatProperties, LenProperties
  <2>2. k \in 1..Len(tasks') /\ tasks'[k] = tasks[k]
    BY <2>1
  <2>3. tasks[k] \in Elems(tasks) /\ tasks[k] \in Tasks
    BY <1>1, ElementOfSeq DEF Elems
  <2> QED
    BY <1>1, <2>2, <2>3
<1> QED
  BY <1>3, <1>4, <1>5

\* What the task at pass.i leaves of the tables.
LEMMA RunTaskTables ==
    ASSUME OrderInv, RunTask
    PROVE  /\ NoRepeat(born') /\ InOrder(tasks', born')
           /\ pass.i \in 1..Len(tasks) /\ ShouldRun(tasks[pass.i], pass.now)
           /\ \E o \in Nat :
                 /\ timebase'[tasks[pass.i]] = Rebase(o) /\ offset'[tasks[pass.i]] = o
           /\ \A k \in 1..Len(tasks) :
                 /\ k \in 1..Len(tasks') /\ tasks'[k] = tasks[k]
                 /\ k # pass.i => /\ timebase'[tasks[k]] = timebase[tasks[k]]
                                  /\ offset'[tasks[k]] = offset[tasks[k]]
<1> DEFINE t == tasks[pass.i]
<1>1. pass.i \in 1..Len(tasks) /\ ShouldRun(t, pass.now)
  BY LenProperties DEF RunTask, OrderInv, Inv, TypeOK
<1>2. PICK new \in Spawns, o \in Offsets :
        ScheduleAll(new, [timebase EXCEPT ![t] = Rebase(o)], [offset EXCEPT ![t] = o])
  BY DEF RunTask
<1>3. new \in Seq(Tasks) /\ NoRepeat(new) /\ Elems(new) \subseteq Unborn
  BY SpawnsType
<1>4. /\ NoRepeat(born') /\ InOrder(tasks', born')
      /\ \A k \in 1..Len(tasks) :
            k \in 1..Len(tasks') /\ tasks'[k] = tasks[k] /\ tasks[k] \in Tasks \ Elems(new)
  BY <1>2, <1>3, ScheduleOrder
<1>5. /\ \A u \in Tasks \ Elems(new) :
            /\ timebase'[u] = IF u = t THEN Rebase(o) ELSE timebase[u]
            /\ offset'[u] = IF u = t THEN o ELSE offset[u]
  <2>1. timebase \in [Tasks -> 0..clock] /\ offset \in [Tasks -> Nat]
    BY DEF OrderInv, Inv, TypeOK
  <2>2. \A u \in Tasks \ Elems(new) : timebase'[u] = [timebase EXCEPT ![t] = Rebase(o)][u]
    BY <1>2 DEF ScheduleAll
  <2>3. \A u \in Tasks \ Elems(new) : offset'[u] = [offset EXCEPT ![t] = o][u]
    BY <1>2 DEF ScheduleAll
  <2> QED
    BY <2>1, <2>2, <2>3
<1>6. \A k \in 1..Len(tasks) : k # pass.i => tasks[k] # t
  BY <1>1 DEF OrderInv, Inv, TypeOK
<1>7. o \in Nat
  BY OffsetsAssumption
<1> QED
  BY <1>1, <1>4, <1>5, <1>6, <1>7

LEMMA RunTaskOrder ==
    ASSUME OrderInv, RunTask
    PROVE  OrderInv'
<1>1. PICK o \in Nat : timebase'[tasks[pass.i]] = Rebase(o) /\ offset'[tasks[pass.i]] = o
  BY RunTaskTables
<1>2. /\ clock' \in Nat /\ clock' >= clock /\ clock \in Nat /\ clock' >= 1
      /\ pass.now \in Nat /\ pass.now <= clock /\ pass.i \in Nat /\ Len(tasks) \in Nat
  <2>1. clock' \in 1..MaxClock /\ clock' >= clock
    BY RunTaskStep DEF OrderInv
  <2> QED
    BY <2>1, LenProperties DEF OrderInv, Inv, TypeOK
<1>3. pass.at = "run" /\ pass'.at = "run" /\ pass'.now = pass.now /\ pass'.i = pass.i + 1
  BY DEF RunTask, OrderInv, Inv, TypeOK
<1>4. /\ pass.i \in 1..Len(tasks)
      /\ \A k \in 1..Len(tasks) :
            /\ k \in 1..Len(tasks') /\ tasks'[k] = tasks[k]
            /\ k # pass.i => /\ timebase'[tasks[k]] = timebase[tasks[k]]
                             /\ offset'[tasks[k]] = offset[tasks[k]]
  BY RunTaskTables
<1>5. ASSUME NEW k \in 1..Len(tasks'), k < pass.i + 1, timebase'[tasks'[k]] # 0
      PROVE  pass.now <= timebase'[tasks'[k]] + offset'[tasks'[k]]
  <2>1. k \in 1..Len(tasks) /\ tasks'[k] = tasks[k]
    BY <1>2, <1>4, <1>5
  <2>2. CASE k = pass.i
    <3>1. timebase'[tasks'[k]] = Rebase(o) /\ offset'[tasks'[k]] = o
      BY <1>1, <2>1, <2>2
    <3>2. Rebase(o) = clock'
      BY <1>5, <3>1 DEF Rebase
    <3> QED
      BY <1>2, <3>1, <3>2
  <2>3. CASE k # pass.i
    <3>1. /\ timebase'[tasks'[k]] = timebase[tasks[k]] /\ offset'[tasks'[k]] = offset[tasks[k]]
      BY <1>4, <2>1, <2>3
    <3>2. k < pass.i
      BY <1>2, <1>5, <2>3
    <3> QED
      BY <1>3, <1>5, <2>1, <3>1, <3>2 DEF OrderInv, LookedAt, Cancelled, NextRun
  <2> QED
    BY <2>2, <2>3
<1>6. LookedAt'
  BY <1>3, <1>5 DEF LookedAt, Cancelled, NextRun
<1>7. Inv'
  BY RunTaskInv DEF OrderInv
<1> QED
  BY <1>6, <1>7, RunTaskTables DEF OrderInv

LEMMA OrderStep == OrderInv /\ [Next]_vars => OrderInv'
<1> SUFFICES ASSUME OrderInv, [Next]_vars PROVE OrderInv'
  OBVIOUS
<1>1. Inv'
  BY NextInv DEF OrderInv
<1>2. CASE Schedule
  <2>1. PICK t \in Unborn : ScheduleAll(<<t>>, timebase, offset)
    BY <1>2 DEF Schedule
  <2>2. <<t>> \in Spawns
    BY <2>1 DEF Spawns
  <2>3. <<t>> \in Seq(Tasks) /\ NoRepeat(<<t>>) /\ Elems(<<t>>) \subseteq Unborn
    BY <2>2, SpawnsType
  <2>4. NoRepeat(born') /\ InOrder(tasks', born')
    BY <2>1, <2>3, ScheduleOrder
  <2>5. pass'.at = "idle"
    BY <1>2 DEF Schedule
  <2> QED
    BY <1>1, <2>4, <2>5 DEF OrderInv, LookedAt
<1>3. CASE StartPass
  <2>1. /\ UNCHANGED <<tasks, born>> /\ pass'.i = 1
    BY <1>3 DEF StartPass
  <2>2. \A k \in 1..Len(tasks') : ~(k < 1)
    OBVIOUS
  <2> QED
    BY <1>1, <2>1, <2>2 DEF OrderInv, LookedAt
<1>4. CASE RunTask
  BY <1>4, RunTaskOrder
<1>5. CASE SkipTask
  <2>1. /\ UNCHANGED <<tasks, timebase, offset, born>> /\ pass.at = "run"
        /\ ~ShouldRun(tasks[pass.i], pass.now)
        /\ pass'.now = pass.now /\ pass'.i = pass.i + 1
    BY <1>5 DEF SkipTask, OrderInv, Inv, TypeOK
  <2>2. pass.i \in Nat /\ pass.now \in Nat /\ timebase \in [Tasks -> Nat] /\ offset \in [Tasks -> Nat]
        /\ tasks \in Seq(Tasks)
    BY DEF OrderInv, Inv, TypeOK
  <2>3. ASSUME NEW k \in 1..Len(tasks), k < pass.i + 1, ~Cancelled(tasks[k])
        PROVE  pass.now <= NextRun(tasks[k])
    <3>1. tasks[k] \in Tasks
      BY <2>2, ElementOfSeq
    <3>2. CASE k < pass.i
      BY <2>1, <2>3, <3>2 DEF OrderInv, LookedAt
    <3>3. CASE k = pass.i
      BY <2>1, <2>2, <2>3, <3>1, <3>3 DEF ShouldRun, NextRun
    <3> QED
      BY <2>2, <2>3, <3>2, <3>3
  <2>4. LookedAt'
    BY <2>1, <2>3 DEF LookedAt, Cancelled, NextRun
  <2> QED
    BY <1>1, <2>1, <2>4 DEF OrderInv
<1>6. CASE EndRun \/ EndPrune
  <2>1. UNCHANGED <<tasks, born>> /\ pass'.at # "run"
    BY <1>6 DEF EndRun, EndPrune, Idle, OrderInv, Inv, TypeOK
  <2> QED
    BY <1>1, <2>1 DEF OrderInv, LookedAt
<1>7. CASE Prune
  <2>1. /\ pass'.at = "prune" /\ born' = born
        /\ \E i \in 1..Len(tasks) : tasks' = Remov(tasks, i)
    BY <1>7 DEF Prune
  <2>2. tasks \in Seq(Tasks) /\ NoRepeat(tasks) /\ born \in Seq(Tasks)
    BY DEF OrderInv, Inv, TypeOK, NoRepeat
  <2>3. InOrder(tasks', born')
    BY <2>1, <2>2, OrderRemov DEF OrderInv
  <2> QED
    BY <1>1, <2>1, <2>3 DEF OrderInv, LookedAt
<1>8. CASE Tick \/ UNCHANGED vars
  <2>1. UNCHANGED <<tasks, timebase, offset, pass, born>>
    BY <1>8 DEF Tick, vars
  <2> QED
    BY <1>1, <2>1 DEF OrderInv, LookedAt, Cancelled, NextRun
<1> QED
  BY <1>2, <1>3, <1>4, <1>5, <1>6, <1>7, <1>8 DEF Next, Loop

LEMMA OrderStart == Init => OrderInv
<1> SUFFICES ASSUME Init PROVE OrderInv
  OBVIOUS
<1>1. Inv /\ tasks = <<>> /\ born = <<>> /\ pass.at = "idle"
  BY InitInv DEF Init, Idle
<1> QED
  BY <1>1 DEF OrderInv, NoRepeat, InOrder, LookedAt

\* Only the task at pass.i runs: one that was scheduled before it and waits has
\* been looked at in this pass.
LEMMA NoOvertaking ==
    ASSUME OrderInv, [Next]_vars,
           NEW i \in 1..Len(born), NEW j \in 1..Len(born), i < j,
           Waiting(born[i]), NextRun(born[i]) <= NextRun(born[j])
    PROVE  ~Ran(born[j])
<1> SUFFICES ASSUME Ran(born[j]) PROVE FALSE
  OBVIOUS
<1>1. /\ tasks \in Seq(Tasks) /\ born \in Seq(Tasks) /\ Len(tasks) \in Nat
      /\ timebase \in [Tasks -> Nat] /\ offset \in [Tasks -> Nat] /\ pass.i \in Nat
      /\ pass.now \in Nat
  BY LenProperties DEF OrderInv, Inv, TypeOK
<1>2. PICK k \in 1..Len(tasks), l \in 1..Len(tasks) : born[i] = tasks[k] /\ born[j] = tasks[l]
  BY DEF Ran, Waiting, Elems
<1>3. tasks[k] \in Tasks /\ tasks[l] \in Tasks
  BY <1>1, <1>2, ElementOfSeq
<1>4. k < l
  <2>1. k # l
    BY <1>2 DEF OrderInv, NoRepeat
  <2>2. ~(l < k)
    BY <1>2 DEF OrderInv, InOrder
  <2> QED
    BY <1>1, <2>1, <2>2
<1>5. timebase'[tasks[l]] # timebase[tasks[l]]
  BY <1>2 DEF Ran
<1>6. CASE RunTask
  <2>1. l = pass.i
    BY <1>5, <1>6, RunTaskTables
  <2>2. ShouldRun(tasks[l], pass.now) /\ pass.at = "run"
    BY <1>6, <2>1, RunTaskTables DEF RunTask
  <2>3. NextRun(tasks[l]) < pass.now
    BY <2>2 DEF ShouldRun
  <2>4. pass.now <= NextRun(tasks[k])
    BY <1>2, <1>4, <2>1, <2>2 DEF OrderInv, LookedAt, Waiting
  <2>5. \A t \in Tasks : timebase[t] \in Nat /\ offset[t] \in Nat
    BY <1>1
  <2>6. \A t \in Tasks : NextRun(t) \in Nat
    BY <2>5 DEF NextRun
  <2>7. PICK a \in Nat, b \in Nat, n \in Nat :
          a = NextRun(tasks[k]) /\ b = NextRun(tasks[l]) /\ n = pass.now
    BY <1>1, <1>3, <2>6
  <2>8. a <= b
    BY <1>2, <2>7
  <2>9. b < n /\ n <= a
    BY <2>3, <2>4, <2>7
  <2> QED
    BY <2>8, <2>9
<1>7. CASE Schedule
  <2>1. PICK t \in Unborn : ScheduleAll(<<t>>, timebase, offset)
    BY <1>7 DEF Schedule
  <2>2. <<t>> \in Spawns
    BY <2>1 DEF Spawns
  <2>3. <<t>> \in Seq(Tasks) /\ NoRepeat(<<t>>) /\ Elems(<<t>>) \subseteq Unborn
    BY <2>2, SpawnsType
  <2> DEFINE new == <<t>>
  <2> HIDE DEF new
  <2>4. /\ ScheduleAll(new, timebase, offset)
        /\ new \in Seq(Tasks) /\ NoRepeat(new) /\ Elems(new) \subseteq Unborn
    BY <2>1, <2>3 DEF new
  <2>5. tasks[l] \in Tasks \ Elems(new)
    BY <2>4, ScheduleOrder
  <2>6. timebase'[tasks[l]] = timebase[tasks[l]]
    BY <2>4, <2>5 DEF ScheduleAll
  <2> QED
    BY <1>5, <2>6
<1>8. CASE timebase' = timebase
  BY <1>5, <1>8
<1> QED
  BY <1>6, <1>7, <1>8 DEF Next, Loop, StartPass, SkipTask, EndRun, Prune, EndPrune, Tick, vars

\* Tasks run in the order they were scheduled, unless the later is due earlier:
\* in spite of the removals from the vector, of the clock that moves while a
\* pass is under way, and of tasks that handlers schedule in it.
THEOREM FirstDueRunsFirst == Spec => FirstDueFirst
<1>1. OrderInv /\ [Next]_vars =>
        [\A i, j \in 1..Len(born) :
           i < j /\ Waiting(born[i]) /\ NextRun(born[i]) <= NextRun(born[j])
           => ~Ran(born[j])]_vars
  BY NoOvertaking
<1> QED
  BY <1>1, OrderStart, OrderStep, PTL DEF Spec, FirstDueFirst

-----------------------------------------------------------------------------
(* The clock (module Scheduler).  sys_timestamp() is true for every width   *)
(* of the counter, every number of wraps and everything the tasks may do,   *)
(* as long as the code looks at the counter once in every Wrap - Threshold; *)
(* and the task manager that reads it is the one of module TaskManager.     *)

\* Since the last call the counter advanced by gap, and wrapped once or not.
Since(h, l, e, last, g) ==
    \/ h = e /\ l = last + g
    \/ h = e + 1 /\ l + Wrap = last + g

\* c is the time of a counter that shows l and wrapped h times.
TimeIs(c, h, l) == c = h * Wrap + l

CInv ==
    /\ clock \in Nat /\ hi \in Nat /\ lo \in 0..(Wrap - 1)
    /\ epoch \in Nat /\ last_millis \in 0..(Wrap - 1) /\ gap \in 0..MaxGap
    /\ TimeIs(clock, hi, lo)
    /\ Since(hi, lo, epoch, last_millis, gap)

\* A call finds the epoch.
LEMMA EpochIsHi ==
    ASSUME NEW h \in Nat, NEW l \in 0..(Wrap - 1), NEW e \in Nat, NEW last \in 0..(Wrap - 1),
           NEW g \in 0..MaxGap, Since(h, l, e, last, g)
    PROVE  EpochAt(e, last, l) = h
BY WrapAssumption DEF Since, EpochAt, Wrapped

LEMMA SinceNow ==
    ASSUME NEW h \in Nat, NEW l \in 0..(Wrap - 1)
    PROVE  Since(h, l, h, l, 0)
BY WrapAssumption DEF Since

LEMMA NextMultiple ==
    ASSUME NEW h \in Nat, NEW w \in Nat
    PROVE  (h + 1) * w = h * w + w
OBVIOUS

\* True time advances by one, and the time since the last call with it.
LEMMA MillisAdvances ==
    ASSUME CInv, Millis, NEW e \in Nat, NEW last \in 0..(Wrap - 1), NEW g \in Nat,
           g < MaxGap, Since(hi, lo, e, last, g)
    PROVE  /\ hi' \in Nat /\ lo' \in 0..(Wrap - 1)
           /\ TimeIs(clock + 1, hi', lo')
           /\ Since(hi', lo', e, last, g + 1)
<1>1. /\ hi \in Nat /\ lo \in 0..(Wrap - 1) /\ Wrap \in Nat /\ clock = hi * Wrap + lo
      /\ hi * Wrap \in Nat
  BY WrapAssumption DEF CInv, TimeIs
<1>2. CASE lo + 1 = Wrap
  <2>1. hi' = hi + 1 /\ lo' = 0
    BY <1>2 DEF Millis
  <2>2. hi' * Wrap = hi * Wrap + Wrap
    BY <1>1, <2>1, NextMultiple
  <2>3. hi' * Wrap + lo' = clock + 1
    BY <1>1, <1>2, <2>1, <2>2
  <2>4. Since(hi', lo', e, last, g + 1)
    BY <1>1, <1>2, <2>1, WrapAssumption DEF Since
  <2> QED
    BY <1>1, <1>2, <2>1, <2>3, <2>4 DEF TimeIs
<1>3. CASE lo + 1 # Wrap
  <2>1. hi' = hi /\ lo' = lo + 1
    BY <1>3 DEF Millis
  <2>2. Since(hi', lo', e, last, g + 1)
    BY <1>1, <2>1, WrapAssumption DEF Since
  <2> QED
    BY <1>1, <1>3, <2>1, <2>2 DEF TimeIs
<1> QED
  BY <1>2, <1>3

LEMMA ClockInitInv == SInit => CInv
BY WrapAssumption DEF SInit, Init, ClockInit, CInv, Since, TimeIs

LEMMA ClockNextInv == CInv /\ [SNext]_svars => CInv'
<1> SUFFICES ASSUME CInv, [SNext]_svars PROVE CInv'
  OBVIOUS
<1>1. ASSUME clock' = clock, Call PROVE CInv'
  <2>1. /\ hi' = hi /\ lo' = lo /\ last_millis' = lo /\ gap' = 0
        /\ epoch' = EpochAt(epoch, last_millis, lo)
    BY <1>1 DEF Call, NextEpoch
  <2>2. epoch' = hi
    BY <2>1, EpochIsHi DEF CInv
  <2>3. Since(hi', lo', epoch', last_millis', gap')
    BY <2>1, <2>2, SinceNow DEF CInv
  <2> QED
    BY <1>1, <2>1, <2>2, <2>3, WrapAssumption DEF CInv
<1>2. ASSUME clock' = clock, UNCHANGED cvars PROVE CInv'
  BY <1>2 DEF CInv, cvars
<1>3. CASE Schedule /\ Call
  BY <1>1, <1>3 DEF Schedule
<1>4. CASE StartPass /\ Call
  BY <1>1, <1>4 DEF StartPass
<1>5. CASE (SkipTask \/ EndRun \/ Prune \/ EndPrune) /\ UNCHANGED cvars
  BY <1>2, <1>5 DEF SkipTask, EndRun, Prune, EndPrune
<1>6. CASE Tick /\ ClockTick
  <2>1. /\ clock' = clock + 1 /\ gap < MaxGap /\ gap' = gap + 1 /\ Millis
        /\ epoch' = epoch /\ last_millis' = last_millis
    BY <1>6 DEF Tick, ClockTick
  <2>2. /\ hi' \in Nat /\ lo' \in 0..(Wrap - 1) /\ TimeIs(clock + 1, hi', lo')
        /\ Since(hi', lo', epoch, last_millis, gap + 1)
    BY <2>1, MillisAdvances DEF CInv
  <2> QED
    BY <2>1, <2>2, WrapAssumption DEF CInv
<1>7. CASE SRunTask
  <2> DEFINE e == IF born' # born THEN NextEpoch(lo) ELSE epoch
             l == IF born' # born THEN lo ELSE last_millis
             g == IF born' # born THEN 0 ELSE gap
  <2>1. /\ IF clock' = clock THEN UNCHANGED <<hi, lo>> ELSE gap < MaxGap /\ Millis
        /\ IF offset'[tasks[pass.i]] > 0
           THEN epoch' = EpochAt(e, l, lo') /\ last_millis' = lo' /\ gap' = 0
           ELSE epoch' = e /\ last_millis' = l /\ gap' = g + (clock' - clock)
    BY <1>7 DEF SRunTask
  <2>2. /\ e \in Nat /\ l \in 0..(Wrap - 1) /\ g \in 0..MaxGap /\ Since(hi, lo, e, l, g)
        /\ g <= gap
    <3>1. CASE born' # born
      <4>1. NextEpoch(lo) = hi
        BY EpochIsHi DEF CInv, NextEpoch
      <4>2. e = hi /\ l = lo /\ g = 0
        BY <3>1, <4>1
      <4>3. /\ hi \in Nat /\ lo \in 0..(Wrap - 1) /\ gap \in Nat /\ 0 \in 0..MaxGap
            /\ 0 <= gap
        BY WrapAssumption DEF CInv
      <4>4. Since(hi, lo, hi, lo, 0)
        BY <4>3, SinceNow
      <4> HIDE DEF e, l, g
      <4> QED
        BY <4>2, <4>3, <4>4
    <3>2. CASE born' = born
      BY <3>2 DEF CInv
    <3> QED
      BY <3>1, <3>2
  <2>3. clock' = clock \/ clock' = clock + 1
    <3>1. clock' \in clock..(IF clock < MaxClock THEN clock + 1 ELSE clock)
      BY <1>7 DEF SRunTask, RunTask, Spend
    <3> QED
      BY <3>1 DEF CInv
  <2> HIDE DEF e, l, g
  <2> DEFINE d == clock' - clock
  <2>4. /\ hi' \in Nat /\ lo' \in 0..(Wrap - 1) /\ clock' \in Nat /\ TimeIs(clock', hi', lo')
        /\ d \in Nat /\ g + d \in 0..MaxGap /\ Since(hi', lo', e, l, g + d)
    <3>1. CASE clock' = clock
      <4>1. d = 0 /\ hi' = hi /\ lo' = lo /\ g + d = g
        BY <2>1, <2>2, <3>1 DEF CInv
      <4> HIDE DEF d
      <4> QED
        BY <2>2, <3>1, <4>1 DEF CInv
    <3>2. CASE clock' # clock
      <4>1. clock' = clock + 1 /\ d = 1 /\ gap < MaxGap /\ Millis
        BY <2>1, <2>3, <3>2 DEF CInv
      <4>2. g \in Nat /\ g < MaxGap
        BY <2>2, <4>1, WrapAssumption DEF CInv
      <4>3. /\ hi' \in Nat /\ lo' \in 0..(Wrap - 1) /\ TimeIs(clock + 1, hi', lo')
            /\ Since(hi', lo', e, l, g + 1)
        BY <2>2, <4>1, <4>2, MillisAdvances
      <4>4. g + 1 \in 0..MaxGap /\ clock + 1 \in Nat
        BY <4>1, <4>2, WrapAssumption DEF CInv
      <4> HIDE DEF d
      <4> QED
        BY <4>1, <4>3, <4>4
    <3> QED
      BY <3>1, <3>2
  <2> HIDE DEF d
  <2>5. CASE offset'[tasks[pass.i]] > 0
    <3>1. epoch' = EpochAt(e, l, lo') /\ last_millis' = lo' /\ gap' = 0
      BY <2>1, <2>5
    <3>2. epoch' = hi'
      BY <2>2, <2>4, <3>1, EpochIsHi
    <3>3. Since(hi', lo', epoch', last_millis', gap')
      BY <2>4, <3>1, <3>2, SinceNow
    <3> QED
      BY <2>4, <3>1, <3>2, <3>3, WrapAssumption DEF CInv
  <2>6. CASE ~(offset'[tasks[pass.i]] > 0)
    <3>1. epoch' = e /\ last_millis' = l /\ gap' = g + d
      BY <2>1, <2>6 DEF d
    <3> QED
      BY <2>2, <2>4, <3>1 DEF CInv
  <2> QED
    BY <2>5, <2>6
<1>8. CASE UNCHANGED svars
  BY <1>8 DEF svars, vars, cvars, CInv
<1> QED
  BY <1>3, <1>4, <1>5, <1>6, <1>7, <1>8 DEF SNext, SLoop

\* However often millis() wraps, and whatever the tasks do, sys_timestamp()
\* returns the true time (Timestamp.cpp:12-21).
THEOREM ClockStaysTrue == SSpec => []ClockIsTrue
<1>1. CInv => ClockIsTrue
  <2> SUFFICES ASSUME CInv PROVE ClockIsTrue
    OBVIOUS
  <2>1. NextEpoch(lo) = hi
    BY EpochIsHi DEF CInv, NextEpoch
  <2> QED
    BY <2>1 DEF CInv, ClockIsTrue, TimeIs
<1> QED
  BY <1>1, ClockInitInv, ClockNextInv, PTL DEF SSpec

\* The station's loop is a task manager: what is proved of TaskManager holds of
\* it with the real clock.
THEOREM SchedulerIsTaskManager == SSpec => Spec
<1>1. SInit => Init
  BY DEF SInit
<1>2. [SNext]_svars => [Next]_vars
  BY DEF SNext, SLoop, SRunTask, svars, Next, Loop
<1> QED
  BY <1>1, <1>2, PTL DEF SSpec, Spec
=============================================================================
