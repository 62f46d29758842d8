---------------------------- MODULE MCMapKeyLock ----------------------------
(* Three pulls of one source: the pull that connects, and two that wait.   *)
EXTENDS MapKeyLock

CONSTANTS c1, c2, c3, k1

MCCalls == {c1, c2, c3}
MCTokens == {k1}
MCToken == [c \in Calls |-> k1]
=============================================================================
