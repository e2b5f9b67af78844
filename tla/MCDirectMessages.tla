--------------------------- MODULE MCDirectMessages ---------------------------
(* Instances of DirectMessages for TLC: u1 writes to u2, whose two         *)
(* sessions may overlap; the notification of a message and one other.      *)
EXTENDS DirectMessages

CONSTANTS u1, u2, m1, n1, n2

MCUserOf == [s \in Sessions |-> u2]
MCTarget == [n \in Notes |-> u2]
MCFrom   == [m \in DMs |-> u1]
MCTo     == [m \in DMs |-> u2]
MCNoteOf == [m \in DMs |-> n1]
MCListed == {<<u2, u1>>}
================================================================================
