----------------------------- MODULE MCHeapRace -----------------------------
(* HeapRace for TLC, with the memory of MCHeap. *)
EXTENDS HeapRace

UsablePages == {0, 1, 2, 3}
BitmapPage  == {1}
Requests    == {1}
=============================================================================
