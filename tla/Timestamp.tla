----------------------------- MODULE Timestamp ------------------------------
(***************************************************************************)
(* sys_timestamp(): the 64-bit clock made of the 32-bit counter millis(),  *)
(* which wraps every 49.7 days (Timestamp.cpp).                            *)
(*                                                                         *)
(* True time is hi * Wrap + lo: the counter, and how often it wrapped.     *)
(***************************************************************************)
EXTENDS Integers

CONSTANTS
    Wrap,        \* 2^32
    Threshold,   \* 0x10000000, 2^28
    MaxGap,      \* bound: time between two calls, that is, of a main loop
    MaxHi        \* bound: how often the counter wraps

ASSUME WrapAssumption ==
    /\ Wrap \in Nat /\ Threshold \in Nat /\ MaxGap \in Nat \ {0}
    /\ MaxGap < Wrap - Threshold
    /\ MaxHi \in Nat

VARIABLES
    hi, lo,       \* true time; lo is what millis() returns
    epoch,        \* static epoch
    last_millis,  \* static last_millis
    gap           \* time since the last call

cvars == <<hi, lo, epoch, last_millis, gap>>

\* setup() has called it already.
ClockInit == hi = 0 /\ lo = 1 /\ epoch = 0 /\ last_millis = 1 /\ gap = 0

\* The counter advances by one.
Millis ==
    IF lo + 1 = Wrap
    THEN hi < MaxHi /\ hi' = hi + 1 /\ lo' = 0
    ELSE lo' = lo + 1 /\ hi' = hi

\* A millisecond passes; the main loop calls within MaxGap.
ClockTick ==
    /\ gap < MaxGap
    /\ gap' = gap + 1
    /\ Millis
    /\ UNCHANGED <<epoch, last_millis>>

\* Mutant: the difference taken the other way round, as a 32-bit number.
Wrapped_Swapped(last, m) == m < last /\ (m - last) % Wrap > Threshold

\* The counter went back by more than Threshold: it wrapped around.
Wrapped(last, m) == m < last /\ last - m > Threshold

\* The epoch after a call that finds m when the last one found last.
EpochAt(e, last, m) == IF Wrapped(last, m) THEN e + 1 ELSE e
NextEpoch(m) == EpochAt(epoch, last_millis, m)

\* sys_timestamp() returns (NextEpoch(lo) << 32) + lo.
Call ==
    /\ epoch' = NextEpoch(lo)
    /\ last_millis' = lo
    /\ gap' = 0
    /\ UNCHANGED <<hi, lo>>
=============================================================================
