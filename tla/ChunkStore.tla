----------------------------- MODULE ChunkStore -----------------------------
(***************************************************************************)
(* What a receive buffer promises to the thread that assembles a message:  *)
(* a ring of slots read by a cursor.  A chunk put into a slot stays there  *)
(* until the cursor takes it or a newer copy for that slot replaces it;    *)
(* the chunk under the cursor is always available, and is eventually taken *)
(* unless the reader gives the buffer up.  There is no counter, no lock    *)
(* and no waiting here: ReceiveBuffer is shown to implement this.          *)
(***************************************************************************)
EXTENDS Integers

CONSTANTS Size, Data, Null

VARIABLES slots, cursor, live

vars == <<slots, cursor, live>>

Init ==
    /\ slots = [i \in 0 .. Size - 1 |-> Null]
    /\ cursor = 0
    /\ live = TRUE

Put(d) ==
    /\ slots' = [slots EXCEPT ![d.sequenceNumber % Size] = d]
    /\ UNCHANGED <<cursor, live>>

TakeNext ==
    /\ live
    /\ slots[cursor] # Null
    /\ slots' = [slots EXCEPT ![cursor] = Null]
    /\ cursor' = (cursor + 1) % Size
    /\ UNCHANGED live

GiveUp ==
    /\ live
    /\ live' = FALSE
    /\ slots' = [i \in 0 .. Size - 1 |-> Null]
    /\ UNCHANGED cursor

Next == (\E d \in Data : Put(d)) \/ TakeNext \/ GiveUp

SafeSpec == Init /\ [][Next]_vars

Spec == SafeSpec /\ WF_vars(TakeNext)
=============================================================================
