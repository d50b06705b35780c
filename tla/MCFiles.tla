------------------------------ MODULE MCFiles ------------------------------
(* Files for TLC. *)
EXTENDS Files

SomePages == {1, 3, 6}
SomeSeeks == {-1, 0, 3}
=============================================================================
