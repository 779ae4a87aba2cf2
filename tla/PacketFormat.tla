---------------------------- MODULE PacketFormat ----------------------------
(***************************************************************************)
(* How a message becomes packets: NetPackaget.SubPackaget cuts it into     *)
(* pieces of at most streamSize bytes, and CreateNetPackaget puts a header *)
(* before each.  A piece is its place in the message; what the loop of     *)
(* subData computes turn by turn is given in closed form, and              *)
(* ClientSessionProofs shows that the loop computes it.                    *)
(***************************************************************************)
EXTENDS Integers

CONSTANT StreamSize   \* SubPackaget.streamSize: 548, 1472, 65535 or the user's

ASSUME StreamSizeAssumption == StreamSize \in Nat \ {0}

(* Flag "judp", kind, client, session, first number, count, number.        *)
HeaderLength == 4 + 1 + 3 * 8 + 4 + 8

(* A message shorter than streamSize is one piece, the empty one too; a     *)
(* longer one has no empty piece at its end.                                *)
PacketsOf(length) ==
    IF length < StreamSize THEN 1 ELSE (length + StreamSize - 1) \div StreamSize

Offset(i) == (i - 1) * StreamSize

PieceLength(length, i) ==
    IF i < PacketsOf(length) THEN StreamSize ELSE length - Offset(i)

PacketLength(piece) == HeaderLength + piece

(* One turn of the loop: the length of the piece that starts at offset.     *)
NextLength(length, offset) ==
    IF length - offset > StreamSize THEN StreamSize ELSE length - offset
=============================================================================
