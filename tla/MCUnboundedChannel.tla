------------------------- MODULE MCUnboundedChannel -------------------------
(* Three goroutines that may each send, receive and close.  One of them    *)
(* sends twice: with the other two parked, two values arrive under one     *)
(* token, and the first receiver woken has to pass it on to the second.    *)
EXTENDS UnboundedChannel

CONSTANTS g1, g2, g3

MCProc == {g1, g2, g3}
MCSends == [p \in MCProc |-> IF p = g1 THEN 2 ELSE 1]
=============================================================================
