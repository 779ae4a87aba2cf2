--------------------------- MODULE MCListenerData ---------------------------
(***************************************************************************)
(* A few datagrams for one listener with one or two receivers.             *)
(***************************************************************************)
EXTENDS ListenerData, TLC

CONSTANTS r1, r2, w1, w2, k1

\* data and an acknowledgement of session 1, all from one source
OneSource == {[key |-> k1, isAck |-> FALSE, id |-> 1],
              [key |-> k1, isAck |-> TRUE, id |-> 1]}

Symmetry == Permutations({w1, w2})
=============================================================================
