----------------------------- MODULE MCDesktop -----------------------------
(* Desktop for TLC.  The mouse sends packets that move up or down with and *)
(* without the button, and packets whose motion overflows.                 *)
EXTENDS Desktop

Packet(pressed, neg, over, mag) == [left |-> pressed, neg |-> neg, over |-> over, mag |-> mag]

SomePackets == {Packet(TRUE, TRUE, FALSE, 1), Packet(TRUE, FALSE, FALSE, 1),
                Packet(FALSE, TRUE, FALSE, 1), Packet(FALSE, FALSE, TRUE, 0)}
=============================================================================
