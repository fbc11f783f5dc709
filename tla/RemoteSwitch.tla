---------------------------- MODULE RemoteSwitch ----------------------------
(* What the switch protocol promises: a transaction that was asked for is  *)
(* executed at some time, a command at most once, and ends, if it does,    *)
(* with a value that its execution gave.                                   *)
EXTENDS Integers

CONSTANTS Transactions, Target, Want, SwCount, Query, Invalid

VARIABLES
    sw,      \* positions of the switches
    status,  \* of each transaction: "idle", "asked", "ended"
    given,   \* given[t]: values that executions of t gave
    result   \* result[t] of an ended transaction

svars == <<sw, status, given, result>>

Off == [k \in 1..SwCount |-> 0]

SwitchInit ==
    /\ sw = Off
    /\ status = [t \in Transactions |-> "idle"]
    /\ given = [t \in Transactions |-> {}]
    /\ result = [t \in Transactions |-> Invalid]

Ask(t) ==
    /\ status[t] = "idle"
    /\ status' = [status EXCEPT ![t] = "asked"]
    /\ UNCHANGED <<sw, given, result>>

\* A query reads the switch, as often as it is repeated.
Read(t) ==
    /\ status[t] # "idle" /\ Want[t] = Query /\ Target[t] <= SwCount
    /\ given' = [given EXCEPT ![t] = @ \cup {sw[Target[t]]}]
    /\ UNCHANGED <<sw, status, result>>

\* A command moves the switch once, however often it is repeated.
Move(t) ==
    /\ status[t] # "idle" /\ Want[t] # Query /\ Target[t] <= SwCount
    /\ given[t] = {}
    /\ sw' = [sw EXCEPT ![Target[t]] = Want[t]]
    /\ given' = [given EXCEPT ![t] = {Want[t]}]
    /\ UNCHANGED <<status, result>>

\* There is no such switch.
Refuse(t) ==
    /\ status[t] # "idle" /\ Target[t] > SwCount
    /\ given' = [given EXCEPT ![t] = {Invalid}]
    /\ UNCHANGED <<sw, status, result>>

End(t) ==
    /\ status[t] = "asked"
    /\ status' = [status EXCEPT ![t] = "ended"]
    /\ \E v \in given[t] : result' = [result EXCEPT ![t] = v]
    /\ UNCHANGED <<sw, given>>

\* The server restarts with its switches off.
Restart == sw' = Off /\ UNCHANGED <<status, given, result>>

SwitchNext ==
    Restart \/ \E t \in Transactions : Ask(t) \/ Read(t) \/ Move(t) \/ Refuse(t) \/ End(t)

SwitchSpec == SwitchInit /\ [][SwitchNext]_svars
=============================================================================
