--------------------------- MODULE MCReceiveBuffer ---------------------------
(***************************************************************************)
(* A message of MCSize chunks whose numbers start at MCInit, offered by    *)
(* one or two threads, each chunk possibly several times (retransmissions  *)
(* and duplicated datagrams).                                              *)
(***************************************************************************)
EXTENDS ReceiveBuffer

MCData == [InitSequenceNumber: {InitSeq},
           sequenceNumber: InitSeq .. InitSeq + Size - 1]
=============================================================================
