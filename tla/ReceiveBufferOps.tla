-------------------------- MODULE ReceiveBufferOps --------------------------
(***************************************************************************)
(* The operations of BufferData.ReceiveBuffer as functions of a buffer     *)
(* record, so that the buffer can be checked and proved about on its own   *)
(* (module ReceiveBuffer) and kept many at a time inside a session (module *)
(* ServerSession).  A chunk is an AppData record reduced to its identity:  *)
(* the message it belongs to (InitSequenceNumber) and its own              *)
(* sequenceNumber; its bytes are a function of those two.                  *)
(***************************************************************************)
EXTENDS Integers

CONSTANT Null   \* Java's null: an empty slot, or the "no chunk" result of poll

(* The fields of a buffer that holds chunks of the set data, of any size. *)
BufferRecord(size, data) ==
    [size: {size}, initialSequenceNumber: Nat,
     buffer: [0 .. size - 1 -> data \cup {Null}],
     readPosition: 0 .. size - 1,
     highestReadSequenceNumber: Nat \cup {-1},
     numValidChunks: Nat \cup {-1}]

NewBuffer(size, initSeq) ==
    [size |-> size, initialSequenceNumber |-> initSeq,
     buffer |-> [i \in 0 .. size - 1 |-> Null],
     readPosition |-> 0,
     highestReadSequenceNumber |-> -1,
     numValidChunks |-> -1]

(* Slips of the kind the checks must notice stand before the operation     *)
(* they would spoil; nothing else uses them.                               *)
SlipFullTooLate(b) == b.numValidChunks > b.size

(* offer, first half: the test made before the lock is taken. *)
LooksFull(b) == b.numValidChunks = b.size

SlotOf(b, d) == d.sequenceNumber % b.size

SlipFirstUncounted(b, d) ==
    [b EXCEPT !.buffer[SlotOf(b, d)] = d,
              !.numValidChunks = IF @ < 0 THEN 0 ELSE @ + 1]

SlipCountFreeOnly(b, d) ==
    [b EXCEPT !.buffer[SlotOf(b, d)] = d,
              !.numValidChunks = (IF @ < 0 THEN 0 ELSE @)
                + (IF b.buffer[SlotOf(b, d)] = Null THEN 1 ELSE 0)]

(* offer, second half, under the lock: the slot is overwritten whatever it  *)
(* holds, and the count goes up whether or not the slot was free.           *)
Insert(b, d) ==
    [b EXCEPT !.buffer[SlotOf(b, d)] = d,
              !.numValidChunks = (IF @ < 0 THEN 0 ELSE @) + 1]

(* What poll() returns: null when the count is zero or the slot is empty.   *)
PollResult(b) ==
    IF b.numValidChunks = 0 THEN Null ELSE b.buffer[b.readPosition]

SlipNoWrap(b) == b.readPosition + 1

SlipWrapEarly(b) == IF b.readPosition + 2 >= b.size THEN 0 ELSE b.readPosition + 1

NextPosition(b) == IF b.readPosition + 1 = b.size THEN 0 ELSE b.readPosition + 1

(* What poll() leaves behind when it returns a chunk: increment() included. *)
Take(b) ==
    [b EXCEPT !.highestReadSequenceNumber = b.buffer[b.readPosition].sequenceNumber,
              !.buffer[b.readPosition] = Null,
              !.readPosition = NextPosition(b),
              !.numValidChunks = @ - 1]

AfterPoll(b) == IF PollResult(b) = Null THEN b ELSE Take(b)

SlipWaitsForTwo(b) == b.numValidChunks \in {0, 1}

(* poll(timeout) goes to sleep only on a count of zero: the initial -1, and *)
(* a count that stands for chunks beyond an empty slot, both return at once.*)
PollWaits(b) == b.numValidChunks = 0

IsEmpty(b) ==
    /\ b.numValidChunks = 0
    /\ b.highestReadSequenceNumber # -1
    /\ b.readPosition + 1 = b.size

WaitSequenceNumber(b) ==
    IF b.readPosition = 0 THEN b.initialSequenceNumber
                          ELSE b.highestReadSequenceNumber + 1

SlipClearAllButLast(b) ==
    [b EXCEPT !.buffer = [i \in 0 .. b.size - 1 |-> IF i = b.size - 1 THEN @[i] ELSE Null]]

(* clear() empties the slots and leaves every counter as it is. *)
Clear(b) == [b EXCEPT !.buffer = [i \in 0 .. b.size - 1 |-> Null]]

Occupied(b) == {i \in 0 .. b.size - 1 : b.buffer[i] # Null}
=============================================================================
