--------------------------- MODULE MCTaskManager ----------------------------
(* Instance of the task manager and its clock for TLC. *)
EXTENDS Scheduler
=============================================================================
