------------------------------ MODULE MCSched ------------------------------
(* Sched for TLC: two user task_t's and the about window. *)
EXTENDS Sched

CONSTANTS u1, u2

Users == {u1, u2}
EveryCommand == AllCommands
LiveCommands == {"exec", "schedtest"}
JustFpu      == {"fpu"}
=============================================================================
