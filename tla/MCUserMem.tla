----------------------------- MODULE MCUserMem -----------------------------
(* UserMem for TLC: a code page or none, two heap pages, a page for mmap,  *)
(* the stack, a page of the kernel; four frames to give out, so that       *)
(* memory runs out.  A break can be in the kernel's half or in the last    *)
(* page, and a length makes the check of mmap wrap.                        *)
EXTENDS UserMem

Segment(f, l, w, x) == [first |-> f, last |-> l, w |-> w, x |-> x]

AllFrames  == 0..(TotalPages - 1)
BitmapPage == {1}
Bases      == {3}
Kernel     == [v \in {9} |-> 1]
SomeBreaks == {3, 5, 18, 20, 23}
ReadOnly   == {[w |-> FALSE, nx |-> TRUE]}
Program    == {<<>>, <<Segment(0, 0, FALSE, TRUE)>>}
=============================================================================
