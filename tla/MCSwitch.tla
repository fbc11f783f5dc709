------------------------------ MODULE MCSwitch ------------------------------
(* Instances of Switch for TLC. *)
EXTENDS Switch

\* Two commands and a query for the same switch.
Rivals == {"on", "dim", "ask"}
RivalTarget == [t \in Rivals |-> 1]
RivalWant == [t \in Rivals |-> IF t = "ask" THEN Query ELSE IF t = "dim" THEN 1 ELSE 2]

\* A command for a switch that is not there, and one of a station without a key.
Mixed == {"far", "odd"}
MixedTarget == [t \in Mixed |-> IF t = "far" THEN 2 ELSE 1]
MixedWant == [t \in Mixed |-> 1]

\* Switch off what is on.
OnOff == {"on", "off"}
OnOffTarget == [t \in OnOff |-> 1]
OnOffWant == [t \in OnOff |-> IF t = "on" THEN 1 ELSE 0]
=============================================================================
