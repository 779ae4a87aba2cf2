------------------------- MODULE MCClientLifeCycle -------------------------
(* Small instances of ClientLifeCycle: clients of one address, one of which *)
(* sends twice.                                                             *)
EXTENDS ClientLifeCycle
CONSTANTS Peer, c1
OneAddress == [c \in Clients |-> Peer]
FirstTwice == [c \in Clients |-> IF c = c1 THEN 2 ELSE 1]
=============================================================================
