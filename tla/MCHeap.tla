------------------------------- MODULE MCHeap -------------------------------
(* Heap for TLC: a page of six units with a header of two, so that a page  *)
(* can be split once; one page below FirstPage, one for the bitmap.        *)
EXTENDS Heap

UsablePages == {0, 1, 2, 3, 4, 6}
BitmapPage  == {1}
Requests    == {1, 5}
=============================================================================
