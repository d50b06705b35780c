----------------------------- MODULE MCConsole -----------------------------
(* Console for TLC: a ring of four slots and two keys that go up and down; *)
(* for the editor one key (in two cases), lines of up to two characters,   *)
(* and more lines than the two slots of the history.                       *)
EXTENDS Console

CONSTANTS a, b

TwoKeys == {a, b}
OneKey  == {a}
=============================================================================
