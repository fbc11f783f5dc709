------------------------------- MODULE Timers -------------------------------
(* What the task manager promises: a task waits until its time has passed, *)
(* then runs, and waits again or is finished; no task is lost, runs early  *)
(* or comes back once finished.                                            *)
EXTENDS Integers

CONSTANT Tasks

VARIABLES
    clock,  \* the time
    due     \* due[t]: the time t waits for, or New, or Done

New  == -1
Done == -2
Pending(t) == due[t] \in Nat

\* What happens to a task besides the one that runs: nothing, or it is
\* scheduled, for now or later.
Others(t) == \A u \in Tasks \ {t} :
    due'[u] = due[u] \/ (due[u] = New /\ due'[u] \in Nat /\ due'[u] >= clock)

TimersInit == clock \in Nat /\ due = [t \in Tasks |-> New]

Pass == clock' >= clock /\ UNCHANGED due

Start(t) ==
    /\ due[t] = New
    /\ due'[t] \in Nat /\ due'[t] >= clock
    /\ Others(t)
    /\ clock' = clock

Fire(t) ==
    /\ Pending(t) /\ due[t] < clock
    /\ due'[t] = Done \/ (due'[t] \in Nat /\ due'[t] > clock)
    /\ Others(t)
    /\ clock' >= clock

TimersNext == Pass \/ \E t \in Tasks : Start(t) \/ Fire(t)

TimersSpec == TimersInit /\ [][TimersNext]_<<clock, due>>
=============================================================================
