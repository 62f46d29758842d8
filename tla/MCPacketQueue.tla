--------------------------- MODULE MCPacketQueue ----------------------------
(* A queue with small limits; the odd packets may be ignored. *)
EXTENDS PacketQueue

MCIgnorable == {p \in 1 .. Packets : p % 2 = 1}
=============================================================================
