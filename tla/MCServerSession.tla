--------------------------- MODULE MCServerSession ---------------------------
(***************************************************************************)
(* Small message mixes for one session.  A message of n chunks whose first *)
(* number is s arrives as n data packets and one confirmation (ack type 0).*)
(***************************************************************************)
EXTENDS ServerSession

DataOf(s, n) == [type: {"data"}, InitSeq: {s}, packagetNum: {n}, PackagetID: s .. s + n - 1]
Confirm(s, n) == {[type |-> "confirm", InitSeq |-> s, packagetNum |-> n, PackagetID |-> s]}
CloseAck == {[type |-> "close", InitSeq |-> 0, packagetNum |-> -1, PackagetID |-> 0]}

\* three one-packet messages; numbers 0 and 2 share a slot of a ring of two
SinglePackets == DataOf(0, 1) \cup DataOf(1, 1) \cup DataOf(2, 1)

\* a message of three packets, two of one packet, one of them confirmed, and
\* the client's close
MixedPackets == DataOf(0, 3) \cup DataOf(3, 1) \cup DataOf(4, 1)
                  \cup Confirm(3, 1) \cup CloseAck

\* this mix keeps its messages apart, as the proofs about them suppose
ASSUME MixedPacketsApart == Packets = MixedPackets => MessagesApart

\* two one-packet messages, the first of them confirmed
ConfirmedPackets == DataOf(0, 1) \cup DataOf(1, 1) \cup Confirm(0, 1)

ClosingPackets == DataOf(0, 1) \cup DataOf(1, 1) \cup Confirm(0, 1) \cup CloseAck
PairPackets == DataOf(0, 2)
TriplePackets == DataOf(0, 3)
LonelyConfirm == DataOf(0, 1) \cup Confirm(0, 1)
=============================================================================
