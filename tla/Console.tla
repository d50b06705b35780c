------------------------------ MODULE Console ------------------------------
(***************************************************************************)
(* The console's input: the ring of module Keyboard and the line editor of *)
(* module Readline.  The editor sees the ring only through kb_ring_pop,    *)
(* and the ring is a FIFO that may drop codes, so the editor can be given  *)
(* any code at any time; the two are explored side by side, one from each  *)
(* initial state.                                                          *)
(***************************************************************************)
EXTENDS Keyboard, Readline

VARIABLE half  \* which of the two moves

consoleVars == <<vars, lineVars, half>>

ConsoleInit == Init /\ readlineInit /\ half \in {"ring", "editor"}

RingStep   == half = "ring" /\ Next /\ UNCHANGED <<lineVars, half>>
EditorStep == half = "editor" /\ keyboard_readline /\ UNCHANGED <<vars, half>>

ConsoleSpec == ConsoleInit /\ [][RingStep \/ EditorStep]_consoleVars
=============================================================================
