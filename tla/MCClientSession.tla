--------------------------- MODULE MCClientSession ---------------------------
(***************************************************************************)
(* Small instances of the client session.                                  *)
(***************************************************************************)
EXTENDS ClientSession

CONSTANTS s1, s2

\* s1 sends a full packet and a short one, s2 a short one; a full packet that
\* is resent is cut in two, since its header has come to it
TwoAndOne == [s \in {s1, s2} |-> IF s = s1 THEN StreamSize + 1 ELSE 1]
=============================================================================
