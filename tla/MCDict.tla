------------------------------- MODULE MCDict -------------------------------
(* Instance of Dict for TLC: enough keys to halve the range twice. *)
EXTENDS Dict

MCKeys == 1..6
=============================================================================
