---------------------------- MODULE ReceiveBuffer ----------------------------
(***************************************************************************)
(* BufferData.ReceiveBuffer shared by the threads that offer chunks (the   *)
(* udpRecprocess threads of ListenerData) and the one session thread that  *)
(* polls.  offer tests the count before it takes the lock, so its two      *)
(* halves are two steps; poll(timeout) holds the lock except while it      *)
(* waits for notEmpty.                                                     *)
(***************************************************************************)
EXTENDS ReceiveBufferOps, FiniteSets

CONSTANTS Size,       \* number of chunks of the message: the buffer's size
          InitSeq,    \* sequence number of its first chunk
          Data,       \* the chunks that may be offered
          Offerers,   \* the threads that call offer
          MaxOffers   \* bound: offers accepted in one behaviour

ASSUME SizeAssumption == Size \in Nat \ {0}
ASSUME InitSeqAssumption == InitSeq \in Nat
ASSUME DataAssumption == Data \subseteq [InitSequenceNumber: Nat, sequenceNumber: Nat]
ASSUME NullAssumption == Null \notin Data
ASSUME OfferersAssumption == IsFiniteSet(Offerers)
ASSUME MaxOffersAssumption == MaxOffers \in Nat

VARIABLES rb,         \* the buffer record
          offering,   \* offerer -> the chunk it is about to insert, or Null
          reader,     \* the polling thread: "idle", "waiting" or "gone"
          offered,    \* history: chunk -> times an offer of it was accepted
          taken,      \* history: chunk -> times poll returned it
          nOffered, nTaken   \* history: the totals of the two

vars == <<rb, offering, reader, offered, taken, nOffered, nTaken>>

Init ==
    /\ rb = NewBuffer(Size, InitSeq)
    /\ offering = [o \in Offerers |-> Null]
    /\ reader = "idle"
    /\ offered = [d \in Data |-> 0]
    /\ taken = [d \in Data |-> 0]
    /\ nOffered = 0
    /\ nTaken = 0

(* offer finds the buffer full and returns false. *)
OfferRefused(o, d) ==
    /\ offering[o] = Null
    /\ LooksFull(rb)
    /\ UNCHANGED vars

(* offer finds room and goes for the lock. *)
OfferCheck(o, d) ==
    /\ offering[o] = Null
    /\ nOffered < MaxOffers
    /\ ~LooksFull(rb)
    /\ offering' = [offering EXCEPT ![o] = d]
    /\ UNCHANGED <<rb, reader, offered, taken, nOffered, nTaken>>

(* offer holds the lock: it stores, counts, signals and returns true. *)
OfferInsert(o) ==
    /\ offering[o] # Null
    /\ rb' = Insert(rb, offering[o])
    /\ offered' = [offered EXCEPT ![offering[o]] = @ + 1]
    /\ nOffered' = nOffered + 1
    /\ offering' = [offering EXCEPT ![o] = Null]
    /\ UNCHANGED <<reader, taken, nTaken>>

(* The part of poll(timeout) that returns poll()'s result. *)
PollReturn ==
    /\ ~PollWaits(rb)
    /\ rb' = AfterPoll(rb)
    /\ reader' = "idle"
    /\ IF PollResult(rb) = Null
       THEN UNCHANGED <<taken, nTaken>>
       ELSE /\ taken' = [taken EXCEPT ![PollResult(rb)] = @ + 1]
            /\ nTaken' = nTaken + 1
    /\ UNCHANGED <<offering, offered, nOffered>>

(* poll(timeout) is called and has something to look at. *)
Poll == reader = "idle" /\ PollReturn

(* poll(timeout) is called on a count of zero and waits, lock released. *)
PollSleep ==
    /\ reader = "idle"
    /\ PollWaits(rb)
    /\ reader' = "waiting"
    /\ UNCHANGED <<rb, offering, offered, taken, nOffered, nTaken>>

(* awaitNanos returns, signalled or not, and the count is no longer zero. *)
PollWake == reader = "waiting" /\ PollReturn

(* awaitNanos used up the time and the count is still zero: null. *)
PollTimeout ==
    /\ reader = "waiting"
    /\ PollWaits(rb)
    /\ reader' = "idle"
    /\ UNCHANGED <<rb, offering, offered, taken, nOffered, nTaken>>

(* The session is done with the buffer; offers already under way still land.*)
Abandon ==
    /\ reader = "idle"
    /\ rb' = Clear(rb)
    /\ reader' = "gone"
    /\ UNCHANGED <<offering, offered, taken, nOffered, nTaken>>

Read == Poll \/ PollSleep \/ PollWake \/ PollTimeout

Next ==
    \/ \E o \in Offerers, d \in Data : OfferRefused(o, d) \/ OfferCheck(o, d)
    \/ \E o \in Offerers : OfferInsert(o)
    \/ Read
    \/ Abandon

(* The session thread polls in a loop until it abandons the buffer. *)
Spec == Init /\ [][Next]_vars /\ WF_vars(Poll \/ PollWake)

-----------------------------------------------------------------------------
(* Type correctness of the buffer's fields and of the threads' states. *)
TypeOK ==
    /\ rb \in BufferRecord(Size, Data)
    /\ offering \in [Offerers -> Data \cup {Null}]
    /\ reader \in {"idle", "waiting", "gone"}
    /\ offered \in [Data -> Nat]
    /\ taken \in [Data -> Nat]
    /\ nOffered \in Nat
    /\ nTaken \in Nat

(* The full test of offer runs before the lock is taken.  With one         *)
(* offering thread that is harmless: the count never passes the size, since*)
(* the reader can only have lowered it between the test and the insertion. *)
CountBounded ==
    \A o \in Offerers :
        Offerers = {o} =>
            /\ rb.numValidChunks <= Size
            /\ offering[o] # Null => rb.numValidChunks < Size

(* poll trusts the count and does not look at the slots when it is zero:   *)
(* the count must never fall below the number of chunks really stored, or  *)
(* a stored chunk would be invisible to the reader.                        *)
NoHiddenChunk == Cardinality(Occupied(rb)) <= (IF rb.numValidChunks < 0
                                               THEN 0 ELSE rb.numValidChunks)

(* Replacement and removal never duplicate a chunk: every copy handed to   *)
(* the reader, and the one still stored, was accepted by an offer of its   *)
(* own.                                                                    *)
NoInvention ==
    \A d \in Data :
        taken[d] + (IF rb.buffer[SlotOf(rb, d)] = d THEN 1 ELSE 0) <= offered[d]

(* The count is the accepted offers less the chunks read, so every offer   *)
(* that overwrote an occupied slot stays counted for ever.                 *)
CountIsBalance ==
    rb.numValidChunks = IF nOffered = 0 THEN -1 ELSE nOffered - nTaken

(* Chunks sit in their own slots, the cursor stands where the number of    *)
(* chunks read puts it, and no more was read than was accepted: what the   *)
(* counting invariants need to be inductive.                               *)
SlotAligned ==
    \A i \in 0 .. Size - 1 :
        rb.buffer[i] # Null => SlotOf(rb, rb.buffer[i]) = i

CursorIsCount == rb.readPosition = nTaken % Size

IInv == /\ TypeOK
        /\ SlotAligned
        /\ CursorIsCount
        /\ NoHiddenChunk
        /\ nTaken <= nOffered
        /\ CountIsBalance

(* The cursor reads the ring in slot order whatever order chunks arrive    *)
(* in: the n-th chunk read (from 0) is one whose slot is n modulo the size.*)
CyclicOrder ==
    [][\A d \in Data :
         taken'[d] # taken[d] => SlotOf(rb, d) = nTaken % Size]_vars

(* The buffer implements the counterless ring of ChunkStore: the count,    *)
(* the lock and the waiting never keep the chunk under the cursor from     *)
(* being taken.                                                            *)
Store == INSTANCE ChunkStore WITH slots <- rb.buffer, cursor <- rb.readPosition,
                                  live <- (reader # "gone")
ImplementsChunkStore == Store!Spec

(* A chunk stored under the cursor is eventually read, unless the session  *)
(* abandons the buffer: the reader never sleeps through it.                *)
HeadIsRead ==
    \A n \in 0 .. MaxOffers :
        (reader # "gone" /\ rb.buffer[rb.readPosition] # Null /\ nTaken = n)
          ~> (reader = "gone" \/ nTaken > n)

(* isEmpty, which its comment calls "the data has been read completely",   *)
(* answers true exactly one chunk early: when every slot of the lap but    *)
(* the last has been read and nothing is left to read.  Only for a message *)
(* of one chunk is that the end of the message.                            *)
EmptyIsOneShort ==
    IsEmpty(rb) => /\ nTaken = nOffered
                   /\ nTaken > 0
                   /\ nTaken % Size = Size - 1
=============================================================================
