------------------------------ MODULE MCQueue ------------------------------
(* Queue for TLC: the message of one client has a line break, and blanks at   *)
(* the end of its first line.                                                 *)
EXTENDS Queue, TLC

CONSTANTS broken, rest, bare

OneOrTwoLines == [p \in Puts |-> IF p = broken THEN <<p, rest>> ELSE <<p>>]
BareLines == [l \in Puts \cup {rest} |-> IF l = broken THEN bare ELSE l]
=============================================================================
