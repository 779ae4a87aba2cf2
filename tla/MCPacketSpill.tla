--------------------------- MODULE MCPacketSpill ---------------------------
(***************************************************************************)
(* Small instances of the spilling of packets.                             *)
(***************************************************************************)
EXTENDS PacketSpill

CONSTANTS s1, s2

OneCell == [k \in Keys |-> 1]
OneEach == [k \in Keys |-> IF k = 1 THEN s1 ELSE s2]
=============================================================================
