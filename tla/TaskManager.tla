---------------------------- MODULE TaskManager -----------------------------
(***************************************************************************)
(* The task manager (Task.cpp): a vector of tasks, each with a time base   *)
(* and an offset, and the pass that the main loop makes over it.  One      *)
(* action is one turn of a loop of TaskManager::run, so that the clock may *)
(* move while a pass is under way, and tasks may schedule tasks.           *)
(***************************************************************************)
EXTENDS Integers, Sequences, FiniteSets

CONSTANTS
    Tasks,     \* task objects
    Offsets,   \* what a constructor or run2() gives; 0 from run2() is the end
    MaxClock   \* bound: the clock

ASSUME TasksAssumption == IsFiniteSet(Tasks)
ASSUME OffsetsAssumption == Offsets \subseteq Nat
ASSUME ClockAssumption == MaxClock \in Nat \ {0}

VARIABLES
    clock,     \* sys_timestamp(); it is past 0 once setup() is over
    tasks,     \* TaskManager::tasks
    timebase,  \* Task::timebase, 0 when cancelled
    offset,    \* Task::offset
    pass,      \* the loop under way: [at, now, i]
    dirty,     \* the flag of the pass
    born       \* history: the tasks ever scheduled, in that order

vars == <<clock, tasks, timebase, offset, pass, dirty, born>>

Idle == [at |-> "idle", now |-> 0, i |-> 1]
Elems(q) == {q[i] : i \in 1..Len(q)}

Init ==
    /\ clock = 1
    /\ tasks = <<>>
    /\ timebase = [t \in Tasks |-> 0]
    /\ offset = [t \in Tasks |-> 0]
    /\ pass = Idle
    /\ dirty = FALSE
    /\ born = <<>>

-----------------------------------------------------------------------------

Cancelled(t) == timebase[t] = 0
NextRun(t)   == timebase[t] + offset[t]

\* Mutant: due already at its time, as a task scheduled in this pass may be.
ShouldRun_AtOnce(t, now) == ~Cancelled(t) /\ NextRun(t) <= now

ShouldRun(t, now) == ~Cancelled(t) /\ NextRun(t) < now

\* Mutant: the last task moves into the hole.
Remov_SwapsLast(q, i) ==
    [j \in 1..(Len(q) - 1) |-> IF j = i THEN q[Len(q)] ELSE q[j]]

\* The vector without its ith element (Vector::remov).
Remov(q, i) == [j \in 1..(Len(q) - 1) |-> IF j < i THEN q[j] ELSE q[j + 1]]

\* Tasks not scheduled yet, in every order a handler may schedule them.
Unborn == Tasks \ Elems(born)
Spawns == {<<>>} \cup {<<t>> : t \in Unborn}
          \cup {<<p[1], p[2]>> : p \in {q \in Unborn \X Unborn : q[1] # q[2]}}

\* The clock moves during the call of a handler, or not.
Spend == clock' \in clock..(IF clock < MaxClock THEN clock + 1 ELSE clock)

\* schedule() called for each task of new, at the present clock.
\* tb and off are the tables with what else the step does to them.
ScheduleAll(new, tb, off) ==
    /\ tasks' = tasks \o new
    /\ born' = born \o new
    /\ timebase' = [t \in Tasks |-> IF t \in Elems(new) THEN clock ELSE tb[t]]
    /\ \E o \in [Elems(new) -> Offsets] :
          offset' = [t \in Tasks |-> IF t \in Elems(new) THEN o[t] ELSE off[t]]

\* The application, the console or the radio schedules a task between passes.
Schedule ==
    /\ pass.at = "idle"
    /\ \E t \in Unborn : ScheduleAll(<<t>>, timebase, offset)
    /\ UNCHANGED <<clock, pass, dirty>>

\* Mutant: the loop starts at the second task.
StartPass_SkipsFirst ==
    /\ pass.at = "idle"
    /\ pass' = [at |-> "run", now |-> clock, i |-> 2]
    /\ dirty' = FALSE
    /\ UNCHANGED <<clock, tasks, timebase, offset, born>>

\* The main loop calls TaskManager::run(sys_timestamp()).
StartPass ==
    /\ pass.at = "idle"
    /\ pass' = [at |-> "run", now |-> clock, i |-> 1]
    /\ dirty' = FALSE
    /\ UNCHANGED <<clock, tasks, timebase, offset, born>>

\* Mutant: the offset is counted twice.
Rebase_Twice(o) == IF o > 0 THEN clock' + o ELSE 0

\* The time base of a task whose run2() returned o.
Rebase(o) == IF o > 0 THEN clock' ELSE 0

\* The task at i is due: it runs, may schedule others, and is rebased to the
\* clock after it ran, or cancelled.
RunTask ==
    /\ pass.at = "run" /\ pass.i <= Len(tasks)
    /\ LET t == tasks[pass.i] IN
       /\ ShouldRun(t, pass.now)
       /\ Spend
       /\ \E new \in Spawns, o \in Offsets :
            /\ ScheduleAll(new, [timebase EXCEPT ![t] = Rebase(o)],
                                [offset EXCEPT ![t] = o])
            /\ dirty' = (dirty \/ o = 0)
    /\ pass' = [pass EXCEPT !.i = @ + 1]

SkipTask ==
    /\ pass.at = "run" /\ pass.i <= Len(tasks)
    /\ ~ShouldRun(tasks[pass.i], pass.now)
    /\ pass' = [pass EXCEPT !.i = @ + 1]
    /\ UNCHANGED <<clock, tasks, timebase, offset, dirty, born>>

\* All tasks were looked at: prune if one finished.
EndRun ==
    /\ pass.at = "run" /\ pass.i > Len(tasks)
    /\ pass' = IF dirty THEN [pass EXCEPT !.at = "prune"] ELSE Idle
    /\ UNCHANGED <<clock, tasks, timebase, offset, dirty, born>>

\* The first cancelled task of the vector.
IsFirstCancelled(i) ==
    /\ i \in 1..Len(tasks) /\ Cancelled(tasks[i])
    /\ \A j \in 1..(i - 1) : ~Cancelled(tasks[j])

\* Mutant: one removal a pass.
Prune_Once ==
    /\ pass.at = "prune"
    /\ \E i \in 1..Len(tasks) : IsFirstCancelled(i) /\ tasks' = Remov(tasks, i)
    /\ pass' = Idle
    /\ dirty' = FALSE
    /\ UNCHANGED <<clock, timebase, offset, born>>

\* A turn of the pruning loop removes a task and sets dirty for the next turn.
Prune ==
    /\ pass.at = "prune"
    /\ \E i \in 1..Len(tasks) : IsFirstCancelled(i) /\ tasks' = Remov(tasks, i)
    /\ dirty' = TRUE
    /\ UNCHANGED <<clock, timebase, offset, pass, born>>

EndPrune ==
    /\ pass.at = "prune"
    /\ \A i \in 1..Len(tasks) : ~Cancelled(tasks[i])
    /\ pass' = Idle
    /\ dirty' = FALSE
    /\ UNCHANGED <<clock, tasks, timebase, offset, born>>

Tick ==
    /\ clock < MaxClock
    /\ clock' = clock + 1
    /\ UNCHANGED <<tasks, timebase, offset, pass, dirty, born>>

Loop == StartPass \/ RunTask \/ SkipTask \/ EndRun \/ Prune \/ EndPrune
Next == Schedule \/ Loop \/ Tick

Spec == Init /\ [][Next]_vars

\* The processor keeps executing loop().
FairSpec == Spec /\ WF_vars(Loop)

-----------------------------------------------------------------------------
(* Properties *)

\* Type invariant: among others, a task is never in the vector twice.
TypeOK ==
    /\ clock \in 1..MaxClock
    /\ tasks \in Seq(Tasks) /\ born \in Seq(Tasks)
    /\ timebase \in [Tasks -> 0..clock]
    /\ offset \in [Tasks -> Nat]
    /\ pass \in [at : {"idle", "run", "prune"}, now : 0..clock, i : Nat \ {0}]
    /\ dirty \in BOOLEAN
    /\ \A i, j \in 1..Len(tasks) : tasks[i] = tasks[j] => i = j

\* A finished task does not outlive the pass it finished in: at rest the vector
\* holds live tasks only, so it does not grow without end (Task.cpp:140-150).
OnlyLiveAtRest ==
    pass.at = "idle" => \A i \in 1..Len(tasks) : ~Cancelled(tasks[i])

Waiting(t) == t \in Elems(tasks) /\ ~Cancelled(t)
Due(t)     == Waiting(t) /\ NextRun(t) < clock
Ran(t)     == Waiting(t) /\ timebase'[t] # timebase[t]

\* A task does not overtake one scheduled before it and due no later: packets
\* leave the queue of a station in the order they entered it.
FirstDueFirst ==
    [][\A i, j \in 1..Len(born) :
         i < j /\ Waiting(born[i]) /\ NextRun(born[i]) <= NextRun(born[j])
         => ~Ran(born[j])]_vars

\* The task manager is a set of timers.
Service == INSTANCE Timers WITH
    due <- [t \in Tasks |->
              IF t \notin Elems(born) THEN -1 ELSE IF Waiting(t) THEN NextRun(t) ELSE -2]

TimersService == Service!TimersSpec

\* A due task runs, whatever the others do.
DueTasksRun == \A t \in Tasks : Due(t) ~> ~Due(t)
=============================================================================
