----------------------------- MODULE Scheduler ------------------------------
(***************************************************************************)
(* The task manager and the clock it reads, together.  The clock of        *)
(* TaskManager is true time; the code knows it only through                *)
(* sys_timestamp(), which must be called often enough to notice that       *)
(* millis() wrapped.  The calls are those of the main loop and of          *)
(* TaskManager: at the start of a pass, for each scheduled task, and for   *)
(* each task that runs again.                                              *)
(***************************************************************************)
EXTENDS TaskManager, Timestamp

ASSUME LongEnough == MaxClock < Wrap * (MaxHi + 1)

svars == <<vars, cvars>>

SInit == Init /\ ClockInit

\* The task at i runs: a call for what it schedules, the time it takes, and a
\* call if it is to run again.
SRunTask ==
    /\ RunTask
    /\ IF clock' = clock THEN UNCHANGED <<hi, lo>> ELSE gap < MaxGap /\ Millis
    /\ LET schedules == born' # born
           e == IF schedules THEN NextEpoch(lo) ELSE epoch
           l == IF schedules THEN lo ELSE last_millis
           g == IF schedules THEN 0 ELSE gap
       IN  IF offset'[tasks[pass.i]] > 0
           THEN epoch' = EpochAt(e, l, lo') /\ last_millis' = lo' /\ gap' = 0
           ELSE epoch' = e /\ last_millis' = l /\ gap' = g + (clock' - clock)

SLoop ==
    \/ StartPass /\ Call
    \/ SRunTask
    \/ (SkipTask \/ EndRun \/ Prune \/ EndPrune) /\ UNCHANGED cvars

SNext == (Schedule /\ Call) \/ SLoop \/ (Tick /\ ClockTick)

SSpec == SInit /\ [][SNext]_svars
SFairSpec == SSpec /\ WF_svars(SLoop)

\* What sys_timestamp() would return now is the true time: no task is due weeks
\* late when millis() wraps in the middle of a pass.
ClockIsTrue == NextEpoch(lo) * Wrap + lo = clock
=============================================================================
