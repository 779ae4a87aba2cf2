------------------------- MODULE ReceiveBufferProofs -------------------------
(***************************************************************************)
(* Proofs about ReceiveBuffer for every size, first sequence number, set   *)
(* of chunks and number of offering threads.                               *)
(***************************************************************************)
EXTENDS ReceiveBuffer, RingArithmetic, FiniteSetTheorems

(* Every slot index offer computes lies inside the ring. *)
LEMMA SlotInRing ==
    ASSUME NEW b \in BufferRecord(Size, Data), NEW d \in Data
    PROVE  SlotOf(b, d) \in 0 .. Size - 1 /\ b.size = Size
<1>1. d.sequenceNumber \in Nat
  BY DataAssumption
<1>2. b.size = Size
  BY DEF BufferRecord
<1> QED
  BY <1>1, <1>2, SizeAssumption, DivMod DEF SlotOf

(* What an insertion leaves in each field of the buffer. *)
LEMMA InsertFields ==
    ASSUME NEW b \in BufferRecord(Size, Data), NEW d \in Data
    PROVE  /\ Insert(b, d) \in BufferRecord(Size, Data)
           /\ Insert(b, d).buffer = [b.buffer EXCEPT ![SlotOf(b, d)] = d]
           /\ Insert(b, d).numValidChunks =
                (IF b.numValidChunks < 0 THEN 0 ELSE b.numValidChunks) + 1
           /\ Insert(b, d).readPosition = b.readPosition
           /\ Insert(b, d).size = Size
<1> DEFINE s == SlotOf(b, d)
           n == (IF b.numValidChunks < 0 THEN 0 ELSE b.numValidChunks) + 1
<1>1. s \in 0 .. Size - 1 /\ b.size = Size
  BY SlotInRing
<1>2. n \in Nat
  BY DEF BufferRecord
<1>3. Insert(b, d) = [b EXCEPT !.buffer[s] = d, !.numValidChunks = n]
  BY DEF Insert
<1> HIDE DEF s, n
<1>4. Insert(b, d) \in BufferRecord(Size, Data)
  <2>1. [b EXCEPT !.buffer[s] = d, !.numValidChunks = n] \in BufferRecord(Size, Data)
    BY <1>1, <1>2 DEF BufferRecord
  <2> QED
    BY <2>1, <1>3
<1>5. /\ Insert(b, d).buffer = [b.buffer EXCEPT ![s] = d]
      /\ Insert(b, d).numValidChunks = n
      /\ Insert(b, d).readPosition = b.readPosition
      /\ Insert(b, d).size = b.size
  BY <1>3 DEF BufferRecord
<1> QED
  BY <1>1, <1>4, <1>5 DEF s, n

(* What taking the chunk under the cursor leaves in each field. *)
LEMMA TakeFields ==
    ASSUME NEW b \in BufferRecord(Size, Data),
           b.buffer[b.readPosition] # Null, b.numValidChunks > 0
    PROVE  /\ Take(b) \in BufferRecord(Size, Data)
           /\ Take(b).buffer = [b.buffer EXCEPT ![b.readPosition] = Null]
           /\ Take(b).numValidChunks = b.numValidChunks - 1
           /\ Take(b).readPosition = NextPosition(b)
           /\ Take(b).size = Size
<1>1. b.readPosition \in 0 .. Size - 1 /\ b.size = Size
  BY DEF BufferRecord
<1>2. b.buffer[b.readPosition] \in Data
  BY <1>1 DEF BufferRecord
<1>3. b.buffer[b.readPosition].sequenceNumber \in Nat
  BY <1>2, DataAssumption
<1>4. NextPosition(b) \in 0 .. Size - 1
  BY <1>1, SizeAssumption DEF NextPosition
<1> DEFINE q == b.buffer[b.readPosition].sequenceNumber
           p == NextPosition(b)
           n == b.numValidChunks - 1
           i == b.readPosition
<1>5. n \in Nat
  BY DEF BufferRecord
<1>6. Take(b) = [b EXCEPT !.highestReadSequenceNumber = q, !.buffer[i] = Null,
                          !.readPosition = p, !.numValidChunks = n]
  BY DEF Take
<1> HIDE DEF q, p, n, i
<1>7. Take(b) \in BufferRecord(Size, Data)
  <2>1. q \in Nat /\ i \in 0 .. Size - 1 /\ p \in 0 .. Size - 1
    BY <1>1, <1>3, <1>4 DEF q, i, p
  <2>2. [b EXCEPT !.highestReadSequenceNumber = q, !.buffer[i] = Null,
                  !.readPosition = p, !.numValidChunks = n] \in BufferRecord(Size, Data)
    BY <2>1, <1>5 DEF BufferRecord
  <2> QED
    BY <2>2, <1>6
<1>8. /\ Take(b).buffer = [b.buffer EXCEPT ![i] = Null]
      /\ Take(b).numValidChunks = n
      /\ Take(b).readPosition = p
      /\ Take(b).size = b.size
  BY <1>6 DEF BufferRecord
<1> QED
  BY <1>1, <1>7, <1>8 DEF p, n, i

(* The occupied slots are finitely many, whatever the buffer holds. *)
LEMMA OccupiedFinite ==
    ASSUME NEW b \in BufferRecord(Size, Data)
    PROVE  /\ IsFiniteSet(Occupied(b))
           /\ Cardinality(Occupied(b)) \in Nat
           /\ Cardinality(Occupied(b)) = 0 <=> Occupied(b) = {}
<1>1. b.size = Size /\ Size - 1 \in Int
  BY SizeAssumption DEF BufferRecord
<1>2. IsFiniteSet(0 .. Size - 1)
  BY <1>1, FS_Interval
<1>3. Occupied(b) \in SUBSET (0 .. Size - 1)
  BY <1>1 DEF Occupied
<1>4. IsFiniteSet(Occupied(b))
  BY <1>2, <1>3, FS_Subset
<1> QED
  BY <1>4, FS_CardinalityType, FS_EmptySet

(* An insertion occupies at most one slot more. *)
LEMMA InsertOccupies ==
    ASSUME NEW b \in BufferRecord(Size, Data), NEW d \in Data
    PROVE  Cardinality(Occupied(Insert(b, d))) <= Cardinality(Occupied(b)) + 1
<1> DEFINE s == SlotOf(b, d)
<1>1. Occupied(Insert(b, d)) = Occupied(b) \cup {s}
  <2>1. b.buffer \in [0 .. Size - 1 -> Data \cup {Null}] /\ b.size = Size
    BY DEF BufferRecord
  <2>2. s \in 0 .. Size - 1 /\ d # Null
    BY SlotInRing, NullAssumption
  <2>3. /\ Insert(b, d).buffer = [b.buffer EXCEPT ![s] = d]
        /\ Insert(b, d).size = Size
    BY InsertFields
  <2> HIDE DEF s
  <2> QED
    BY <2>1, <2>2, <2>3 DEF Occupied
<1> HIDE DEF s
<1>2. IsFiniteSet(Occupied(b)) /\ Cardinality(Occupied(b)) \in Nat
  BY OccupiedFinite
<1>3. Cardinality(Occupied(b) \cup {s}) =
        IF s \in Occupied(b) THEN Cardinality(Occupied(b)) ELSE Cardinality(Occupied(b)) + 1
  BY <1>2, FS_AddElement
<1> QED
  BY <1>1, <1>2, <1>3

(* Taking a chunk frees exactly one slot. *)
LEMMA TakeFrees ==
    ASSUME NEW b \in BufferRecord(Size, Data),
           b.buffer[b.readPosition] # Null, b.numValidChunks > 0
    PROVE  Cardinality(Occupied(Take(b))) = Cardinality(Occupied(b)) - 1
<1>1. /\ b.buffer \in [0 .. Size - 1 -> Data \cup {Null}]
      /\ b.size = Size
      /\ b.readPosition \in 0 .. Size - 1
  BY DEF BufferRecord
<1>2. b.readPosition \in Occupied(b)
  BY <1>1 DEF Occupied
<1>3. Occupied(Take(b)) = Occupied(b) \ {b.readPosition}
  BY <1>1, TakeFields DEF Occupied
<1> QED
  BY <1>2, <1>3, OccupiedFinite, FS_RemoveElement

-----------------------------------------------------------------------------
(* A new buffer satisfies the inductive invariant. *)
LEMMA InitIInv == Init => IInv
<1> SUFFICES ASSUME Init PROVE IInv
  OBVIOUS
<1> USE DEF Init
<1>1. TypeOK
  BY SizeAssumption, InitSeqAssumption DEF TypeOK, NewBuffer, BufferRecord
<1>2. SlotAligned
  BY DEF SlotAligned, NewBuffer
<1>3. CursorIsCount
  <2>1. 0 % Size = 0
    BY SizeAssumption
  <2>2. rb.readPosition = 0 /\ nTaken = 0
    BY DEF NewBuffer
  <2> HIDE DEF Init
  <2> QED
    BY <2>1, <2>2 DEF CursorIsCount
<1>4. NoHiddenChunk
  <2>1. Occupied(rb) = {}
    BY DEF Occupied, NewBuffer
  <2>2. rb.numValidChunks = -1
    BY DEF NewBuffer
  <2> HIDE DEF Init
  <2> QED
    BY <2>1, <2>2, FS_EmptySet DEF NoHiddenChunk
<1>5. nTaken <= nOffered /\ CountIsBalance
  BY DEF CountIsBalance, NewBuffer
<1> QED
  BY <1>1, <1>2, <1>3, <1>4, <1>5 DEF IInv

(* The reader finds a chunk under the cursor only while the count is       *)
(* positive: the count never hides a chunk.                                *)
LEMMA HeadIsCounted ==
    ASSUME IInv, rb.buffer[rb.readPosition] # Null
    PROVE  rb.numValidChunks \in Nat /\ rb.numValidChunks > 0
<1>1. rb \in BufferRecord(Size, Data)
  BY DEF IInv, TypeOK
<1>2. rb.readPosition \in Occupied(rb)
  BY <1>1 DEF BufferRecord, Occupied
<1>3. Cardinality(Occupied(rb)) > 0
  BY <1>1, <1>2, OccupiedFinite
<1>4. rb.numValidChunks \in Nat \cup {-1}
  BY <1>1 DEF BufferRecord
<1> QED
  BY <1>3, <1>4, <1>1, OccupiedFinite DEF IInv, NoHiddenChunk

(* Storing an accepted chunk preserves the inductive invariant. *)
LEMMA InsertPreserves ==
    ASSUME IInv, NEW o \in Offerers, OfferInsert(o)
    PROVE  IInv'
<1> DEFINE d == offering[o]
<1> USE DEF IInv, OfferInsert
<1>0. rb \in BufferRecord(Size, Data) /\ d \in Data /\ rb' = Insert(rb, d)
  BY DEF TypeOK
<1>1. TypeOK'
  <2>1. rb' \in BufferRecord(Size, Data)
    BY <1>0, InsertFields
  <2>2. offering' \in [Offerers -> Data \cup {Null}]
    BY DEF TypeOK
  <2>3. offered' \in [Data -> Nat] /\ nOffered' \in Nat
    BY <1>0 DEF TypeOK
  <2> QED
    BY <2>1, <2>2, <2>3 DEF TypeOK
<1>2. SlotAligned'
  <2>1. /\ rb.buffer \in [0 .. Size - 1 -> Data \cup {Null}]
        /\ rb.size = Size /\ rb'.size = Size
        /\ rb'.buffer = [rb.buffer EXCEPT ![SlotOf(rb, d)] = d]
    BY <1>0, InsertFields DEF BufferRecord
  <2>2. \A e : SlotOf(rb', e) = SlotOf(rb, e)
    BY <2>1 DEF SlotOf
  <2>3. \A i \in 0 .. Size - 1 :
          rb.buffer[i] # Null => SlotOf(rb, rb.buffer[i]) = i
    BY DEF SlotAligned
  <2> HIDE DEF d, OfferInsert, IInv
  <2> QED
    BY <2>1, <2>2, <2>3 DEF SlotAligned
<1>3. CursorIsCount'
  BY <1>0, InsertFields DEF CursorIsCount
<1>4. NoHiddenChunk'
  <2>1. rb.numValidChunks \in Nat \cup {-1}
    BY <1>0 DEF BufferRecord
  <2>2. rb' \in BufferRecord(Size, Data)
    BY <1>0, InsertFields
  <2> HIDE DEF d
  <2>3. Cardinality(Occupied(rb)) \in Nat /\ Cardinality(Occupied(rb')) \in Nat
    BY <1>0, <2>2, OccupiedFinite
  <2>4. Cardinality(Occupied(rb')) <= Cardinality(Occupied(rb)) + 1
    BY <1>0, InsertOccupies
  <2>5. rb'.numValidChunks = (IF rb.numValidChunks < 0 THEN 0 ELSE rb.numValidChunks) + 1
    BY <1>0, InsertFields
  <2> QED
    BY <2>1, <2>3, <2>4, <2>5 DEF NoHiddenChunk
<1>5. (nTaken <= nOffered)' /\ CountIsBalance'
  <2>1. rb'.numValidChunks = (IF rb.numValidChunks < 0 THEN 0 ELSE rb.numValidChunks) + 1
    BY <1>0, InsertFields
  <2>2. nTaken \in Nat /\ nOffered \in Nat /\ nTaken <= nOffered
    BY DEF TypeOK
  <2>3. rb.numValidChunks = IF nOffered = 0 THEN -1 ELSE nOffered - nTaken
    BY DEF CountIsBalance
  <2>4. nOffered' = nOffered + 1 /\ nTaken' = nTaken
    OBVIOUS
  <2> HIDE DEF d, OfferInsert, IInv
  <2> QED
    BY <2>1, <2>2, <2>3, <2>4 DEF CountIsBalance
<1> QED
  BY <1>1, <1>2, <1>3, <1>4, <1>5

(* Whatever poll returns, the inductive invariant is preserved. *)
LEMMA PollPreserves ==
    ASSUME IInv, PollReturn
    PROVE  IInv'
<1> DEFINE r == PollResult(rb)
<1> USE DEF IInv, PollReturn
<1>0. rb \in BufferRecord(Size, Data)
  BY DEF TypeOK
<1>1. CASE r = Null
  BY <1>1 DEF AfterPoll, TypeOK, SlotAligned, CursorIsCount, NoHiddenChunk, CountIsBalance
<1>2. CASE r # Null
  <2>1. r = rb.buffer[rb.readPosition] /\ r # Null
    BY <1>2 DEF PollResult
  <2>2. rb.numValidChunks \in Nat /\ rb.numValidChunks > 0
    BY <2>1, HeadIsCounted
  <2>3. rb' = Take(rb) /\ rb.buffer[rb.readPosition] # Null
    BY <1>2, <2>1 DEF AfterPoll
  <2>4. /\ rb.readPosition \in 0 .. Size - 1
        /\ rb.buffer \in [0 .. Size - 1 -> Data \cup {Null}]
        /\ rb.size = Size
    BY <1>0 DEF BufferRecord
  <2>5. r \in Data
    BY <2>1, <2>4
  <2>6. taken' = [taken EXCEPT ![r] = @ + 1] /\ nTaken' = nTaken + 1
    BY <1>2
  <2> HIDE DEF r
  <2>7. TypeOK'
    <3>1. rb' \in BufferRecord(Size, Data)
      BY <1>0, <2>2, <2>3, TakeFields
    <3>2. taken' \in [Data -> Nat] /\ nTaken' \in Nat
      BY <2>5, <2>6 DEF TypeOK
    <3> QED
      BY <3>1, <3>2 DEF TypeOK
  <2>8. SlotAligned'
    <3>1. /\ rb'.buffer = [rb.buffer EXCEPT ![rb.readPosition] = Null]
          /\ rb'.size = Size
      BY <1>0, <2>2, <2>3, TakeFields
    <3>2. \A e : SlotOf(rb', e) = SlotOf(rb, e)
      BY <2>4, <3>1 DEF SlotOf
    <3>3. SlotAligned
      OBVIOUS
    <3> HIDE DEF IInv, PollReturn
    <3> QED
      BY <2>4, <3>1, <3>2, <3>3 DEF SlotAligned
  <2>9. CursorIsCount'
    <3>1. rb'.readPosition = NextPosition(rb)
      BY <1>0, <2>2, <2>3, TakeFields
    <3>2. nTaken \in Nat
      BY DEF TypeOK
    <3>3. (nTaken + 1) % Size = IF (nTaken % Size) + 1 = Size THEN 0 ELSE (nTaken % Size) + 1
      BY <3>2, SizeAssumption, RemainderOfSuccessor
    <3> QED
      BY <3>1, <3>3, <2>4, <2>6 DEF CursorIsCount, NextPosition
  <2>10. NoHiddenChunk'
    <3>1. rb'.numValidChunks = rb.numValidChunks - 1
      BY <1>0, <2>2, <2>3, TakeFields
    <3>2. Cardinality(Occupied(rb')) = Cardinality(Occupied(rb)) - 1
      BY <1>0, <2>2, <2>3, TakeFrees
    <3>3. Cardinality(Occupied(rb)) \in Nat
      BY <1>0, OccupiedFinite
    <3> QED
      BY <3>1, <3>2, <3>3, <2>2 DEF NoHiddenChunk
  <2>11. (nTaken <= nOffered)' /\ CountIsBalance'
    <3>1. rb'.numValidChunks = rb.numValidChunks - 1
      BY <1>0, <2>2, <2>3, TakeFields
    <3> QED
      BY <3>1, <2>2, <2>6 DEF CountIsBalance, TypeOK
  <2> QED
    BY <2>7, <2>8, <2>9, <2>10, <2>11
<1> QED
  BY <1>1, <1>2

(* Abandoning the buffer empties it and leaves its counters alone. *)
LEMMA AbandonPreserves ==
    ASSUME IInv, Abandon
    PROVE  IInv'
<1> USE DEF IInv, Abandon
<1>0. rb \in BufferRecord(Size, Data) /\ rb' = Clear(rb)
  BY DEF TypeOK
<1>1. /\ rb' \in BufferRecord(Size, Data)
      /\ rb'.buffer = [i \in 0 .. Size - 1 |-> Null]
      /\ rb'.numValidChunks = rb.numValidChunks
      /\ rb'.readPosition = rb.readPosition
      /\ rb'.size = Size
  BY <1>0 DEF Clear, BufferRecord
<1>2. Occupied(rb') = {}
  BY <1>1 DEF Occupied
<1>3. rb.numValidChunks \in Nat \cup {-1}
  BY <1>0 DEF BufferRecord
<1>4. NoHiddenChunk'
  BY <1>1, <1>2, <1>3, FS_EmptySet DEF NoHiddenChunk
<1>5. TypeOK'
  BY <1>1 DEF TypeOK
<1>6. SlotAligned'
  BY <1>1 DEF SlotAligned
<1>7. CursorIsCount' /\ (nTaken <= nOffered)' /\ CountIsBalance'
  BY <1>1 DEF CursorIsCount, CountIsBalance
<1> QED
  BY <1>4, <1>5, <1>6, <1>7

(* Every step preserves the inductive invariant. *)
LEMMA NextIInv == IInv /\ [Next]_vars => IInv'
<1> SUFFICES ASSUME IInv, [Next]_vars PROVE IInv'
  OBVIOUS
<1>1. ASSUME NEW o \in Offerers, NEW d \in Data, OfferRefused(o, d) PROVE IInv'
  BY <1>1 DEF OfferRefused, vars, IInv, TypeOK, SlotAligned, CursorIsCount,
              NoHiddenChunk, CountIsBalance
<1>2. ASSUME NEW o \in Offerers, NEW d \in Data, OfferCheck(o, d) PROVE IInv'
  BY <1>2 DEF OfferCheck, IInv, TypeOK, SlotAligned, CursorIsCount,
              NoHiddenChunk, CountIsBalance
<1>3. ASSUME NEW o \in Offerers, OfferInsert(o) PROVE IInv'
  BY <1>3, InsertPreserves
<1>4. CASE Poll \/ PollWake
  BY <1>4, PollPreserves DEF Poll, PollWake
<1>5. CASE PollSleep \/ PollTimeout
  BY <1>5 DEF PollSleep, PollTimeout, IInv, TypeOK, SlotAligned, CursorIsCount,
              NoHiddenChunk, CountIsBalance
<1>6. CASE Abandon
  BY <1>6, AbandonPreserves
<1>7. CASE UNCHANGED vars
  BY <1>7 DEF vars, IInv, TypeOK, SlotAligned, CursorIsCount, NoHiddenChunk,
              CountIsBalance
<1> QED
  BY <1>1, <1>2, <1>3, <1>4, <1>5, <1>6, <1>7 DEF Next, Read

(* The inductive invariant holds throughout. *)
THEOREM BufferInvariant == Spec => []IInv
BY InitIInv, NextIInv, PTL DEF Spec

(* Type correctness.  It is not inductive alone: the count stays in its    *)
(* range only because no stored chunk goes uncounted.                      *)
THEOREM TypeCorrect == Spec => []TypeOK
<1>1. IInv => TypeOK
  BY DEF IInv
<1> QED
  BY <1>1, BufferInvariant, PTL

(* The count never falls below the number of stored chunks, so poll's      *)
(* early return on a count of zero never passes over one.                  *)
THEOREM NothingHidden == Spec => []NoHiddenChunk
<1>1. IInv => NoHiddenChunk
  BY DEF IInv
<1> QED
  BY <1>1, BufferInvariant, PTL

(* The count is exactly the accepted offers less the chunks read.          *)
THEOREM CountBalances == Spec => []CountIsBalance
<1>1. IInv => CountIsBalance
  BY DEF IInv
<1> QED
  BY <1>1, BufferInvariant, PTL

-----------------------------------------------------------------------------
(* With a single offering thread the count stays within the size although  *)
(* the full test is made before the lock is taken.                         *)
THEOREM SingleOffererBounded == Spec => []CountBounded
<1>1. Init => CountBounded
  BY SizeAssumption DEF Init, CountBounded, NewBuffer
<1>2. IInv /\ CountBounded /\ [Next]_vars => CountBounded'
  <2> SUFFICES ASSUME IInv, CountBounded, [Next]_vars,
                      NEW o \in Offerers, Offerers = {o}
               PROVE  /\ rb'.numValidChunks <= Size
                      /\ offering'[o] # Null => rb'.numValidChunks < Size
    BY DEF CountBounded
  <2>0. /\ rb \in BufferRecord(Size, Data)
        /\ rb.numValidChunks \in Nat \cup {-1}
        /\ rb.size = Size
        /\ rb.numValidChunks <= Size
        /\ offering[o] # Null => rb.numValidChunks < Size
        /\ offering \in [Offerers -> Data \cup {Null}]
    BY DEF IInv, TypeOK, BufferRecord, CountBounded
  <2>1. ASSUME NEW x \in Offerers, NEW d \in Data, OfferRefused(x, d) \/ OfferCheck(x, d)
        PROVE  /\ rb'.numValidChunks <= Size
               /\ offering'[o] # Null => rb'.numValidChunks < Size
    BY <2>0, <2>1, SizeAssumption DEF OfferRefused, OfferCheck, LooksFull, vars
  <2>2. CASE OfferInsert(o)
    <3>1. /\ offering[o] \in Data
          /\ rb' = Insert(rb, offering[o])
          /\ offering'[o] = Null
          /\ rb.numValidChunks < Size
      BY <2>0, <2>2 DEF OfferInsert
    <3>2. rb'.numValidChunks = (IF rb.numValidChunks < 0 THEN 0 ELSE rb.numValidChunks) + 1
      BY <2>0, <3>1, InsertFields
    <3> QED
      BY <2>0, <3>1, <3>2, SizeAssumption
  <2>3. CASE Poll \/ PollWake
    <3>1. PollReturn
      BY <2>3 DEF Poll, PollWake
    <3>2. CASE PollResult(rb) = Null
      BY <2>0, <3>1, <3>2 DEF PollReturn, AfterPoll
    <3>3. CASE PollResult(rb) # Null
      <4>1. rb.buffer[rb.readPosition] # Null /\ rb' = Take(rb) /\ offering' = offering
        BY <3>1, <3>3 DEF PollReturn, AfterPoll, PollResult
      <4>2. rb.numValidChunks \in Nat /\ rb.numValidChunks > 0
        BY <4>1, HeadIsCounted
      <4>3. rb'.numValidChunks = rb.numValidChunks - 1
        BY <2>0, <4>1, <4>2, TakeFields
      <4> QED
        BY <2>0, <4>1, <4>2, <4>3, SizeAssumption
    <3> QED
      BY <3>2, <3>3
  <2>4. CASE PollSleep \/ PollTimeout \/ UNCHANGED vars
    BY <2>0, <2>4 DEF PollSleep, PollTimeout, vars
  <2>5. CASE Abandon
    BY <2>0, <2>5 DEF Abandon, Clear, BufferRecord
  <2> QED
    BY <2>1, <2>2, <2>3, <2>4, <2>5 DEF Next, Read
<1> QED
  BY <1>1, <1>2, BufferInvariant, PTL DEF Spec

(* Every copy of a chunk handed to the session, and the copy still stored, *)
(* was accepted by an offer of its own.                                    *)
THEOREM NothingInvented == Spec => []NoInvention
<1>1. Init => NoInvention
  <2> SUFFICES ASSUME Init, NEW d \in Data
               PROVE  taken[d] + (IF rb.buffer[SlotOf(rb, d)] = d THEN 1 ELSE 0) <= offered[d]
    BY DEF NoInvention
  <2>1. rb \in BufferRecord(Size, Data)
    BY InitIInv DEF IInv, TypeOK
  <2>2. rb.buffer[SlotOf(rb, d)] = Null
    BY <2>1, SlotInRing DEF Init, NewBuffer
  <2>3. taken[d] = 0 /\ offered[d] = 0
    BY DEF Init
  <2> QED
    BY <2>2, <2>3, NullAssumption
<1>2. IInv /\ NoInvention /\ [Next]_vars => NoInvention'
  <2> SUFFICES ASSUME IInv, NoInvention, [Next]_vars, NEW d \in Data
               PROVE  (taken[d] + (IF rb.buffer[SlotOf(rb, d)] = d THEN 1 ELSE 0) <= offered[d])'
    BY DEF NoInvention
  <2> DEFINE s == SlotOf(rb, d)
             Goal == (taken[d] + (IF rb.buffer[SlotOf(rb, d)] = d THEN 1 ELSE 0) <= offered[d])'
  <2>0. /\ rb \in BufferRecord(Size, Data)
        /\ rb.buffer \in [0 .. Size - 1 -> Data \cup {Null}]
        /\ rb.readPosition \in 0 .. Size - 1
        /\ s \in 0 .. Size - 1
        /\ taken[d] + (IF rb.buffer[s] = d THEN 1 ELSE 0) <= offered[d]
        /\ taken \in [Data -> Nat] /\ offered \in [Data -> Nat]
        /\ d # Null
    BY SlotInRing, NullAssumption DEF IInv, TypeOK, BufferRecord, NoInvention
  <2>1. CASE UNCHANGED <<rb, taken, offered>>
    BY <2>0, <2>1
  <2>2. ASSUME NEW o \in Offerers, OfferInsert(o)
        PROVE  Goal
    <3>1. /\ offering[o] \in Data
          /\ rb' = Insert(rb, offering[o])
          /\ taken' = taken
          /\ offered' = [offered EXCEPT ![offering[o]] = @ + 1]
      BY <2>2 DEF OfferInsert, IInv, TypeOK
    <3>2. /\ rb'.buffer = [rb.buffer EXCEPT ![SlotOf(rb, offering[o])] = offering[o]]
          /\ SlotOf(rb', d) = s
      BY <2>0, <3>1, InsertFields, SlotInRing DEF SlotOf
    <3>3. SlotOf(rb, offering[o]) \in 0 .. Size - 1
      BY <2>0, <3>1, SlotInRing
    <3> HIDE DEF s
    <3>4. CASE offering[o] = d
      BY <2>0, <3>1, <3>2, <3>3, <3>4
    <3>5. CASE offering[o] # d
      BY <2>0, <3>1, <3>2, <3>3, <3>5
    <3> QED
      BY <3>4, <3>5
  <2>3. CASE Poll \/ PollWake
    <3>1. PollReturn
      BY <2>3 DEF Poll, PollWake
    <3>2. CASE PollResult(rb) = Null
      BY <2>1, <3>1, <3>2 DEF PollReturn, AfterPoll
    <3>3. CASE PollResult(rb) # Null
      <4> DEFINE r == rb.buffer[rb.readPosition]
      <4>1. /\ r # Null /\ r \in Data
            /\ rb' = Take(rb)
            /\ taken' = [taken EXCEPT ![r] = @ + 1]
            /\ offered' = offered
        BY <2>0, <3>1, <3>3 DEF PollReturn, AfterPoll, PollResult
      <4>2. rb.numValidChunks > 0
        BY <4>1, HeadIsCounted
      <4>3. /\ rb'.buffer = [rb.buffer EXCEPT ![rb.readPosition] = Null]
            /\ SlotOf(rb', d) = s
        BY <2>0, <4>1, <4>2, TakeFields, SlotInRing DEF SlotOf
      <4>4. SlotOf(rb, r) = rb.readPosition
        BY <2>0, <4>1 DEF IInv, SlotAligned
      <4>5. CASE r = d
        <5>1. s = rb.readPosition /\ rb.buffer[s] = d
          BY <4>4, <4>5
        <5>2. rb'.buffer[s] = Null /\ taken'[d] = taken[d] + 1
          BY <2>0, <4>1, <4>3, <4>5, <5>1
        <5> QED
          BY <2>0, <4>1, <4>3, <5>1, <5>2
      <4>6. CASE r # d
        <5>1. taken'[d] = taken[d]
          BY <2>0, <4>1, <4>6
        <5>2. rb'.buffer[s] = d => rb.buffer[s] = d
          BY <2>0, <4>3
        <5> QED
          BY <2>0, <4>1, <4>3, <5>1, <5>2
      <4> QED
        BY <4>5, <4>6
    <3> QED
      BY <3>2, <3>3
  <2>4. CASE Abandon
    <3>1. /\ rb'.buffer = [i \in 0 .. Size - 1 |-> Null]
          /\ rb'.size = Size
          /\ taken' = taken /\ offered' = offered
      BY <2>0, <2>4 DEF Abandon, Clear, BufferRecord
    <3>2. SlotOf(rb', d) = s
      BY <2>0, <3>1, SlotInRing DEF SlotOf
    <3> QED
      BY <2>0, <3>1, <3>2
  <2> QED
    BY <2>1, <2>2, <2>3, <2>4
    DEF Next, Read, OfferRefused, OfferCheck, PollSleep, PollTimeout, vars
<1> QED
  BY <1>1, <1>2, BufferInvariant, PTL DEF Spec

(* The n-th chunk read comes from slot n modulo the size, in whatever      *)
(* order the chunks were offered.                                          *)
THEOREM ReadsInSlotOrder == Spec => CyclicOrder
<1> DEFINE A == \A d \in Data : taken'[d] # taken[d] => SlotOf(rb, d) = nTaken % Size
<1>1. IInv /\ [Next]_vars => [A]_vars
  <2> SUFFICES ASSUME IInv, Next, NEW d \in Data, taken'[d] # taken[d]
               PROVE  SlotOf(rb, d) = nTaken % Size
    BY DEF vars
  <2>1. PollReturn
    BY DEF Next, Read, OfferRefused, OfferCheck, OfferInsert, Poll, PollWake,
           PollSleep, PollTimeout, Abandon, vars
  <2>2. rb.buffer[rb.readPosition] # Null /\ d = rb.buffer[rb.readPosition]
    BY <2>1 DEF PollReturn, PollResult, IInv, TypeOK
  <2>3. rb.readPosition \in 0 .. Size - 1
    BY DEF IInv, TypeOK, BufferRecord
  <2> QED
    BY <2>2, <2>3 DEF IInv, SlotAligned, CursorIsCount
<1> QED
  BY <1>1, BufferInvariant, PTL DEF Spec, CyclicOrder

(* Every behaviour of the buffer is, step for step, a behaviour of the     *)
(* counterless ring of slots (safety part of the refinement).              *)
THEOREM RefinesChunkStore == Spec => Store!SafeSpec
<1>1. Init => Store!Init
  BY DEF Init, Store!Init, NewBuffer
<1>2. IInv /\ [Next]_vars => [Store!Next]_(Store!vars)
  <2> SUFFICES ASSUME IInv, [Next]_vars
               PROVE  Store!Next \/ UNCHANGED Store!vars
    OBVIOUS
  <2>0. /\ rb \in BufferRecord(Size, Data)
        /\ rb.size = Size
        /\ rb.readPosition \in 0 .. Size - 1
        /\ rb.buffer \in [0 .. Size - 1 -> Data \cup {Null}]
    BY DEF IInv, TypeOK, BufferRecord
  <2>1. CASE UNCHANGED <<rb, reader>>
    BY <2>1 DEF Store!vars
  <2>2. ASSUME NEW o \in Offerers, OfferInsert(o)
        PROVE  Store!Next
    <3>1. /\ offering[o] \in Data
          /\ rb' = Insert(rb, offering[o])
          /\ reader' = reader
      BY <2>2 DEF OfferInsert, IInv, TypeOK
    <3>2. /\ rb'.buffer = [rb.buffer EXCEPT ![SlotOf(rb, offering[o])] = offering[o]]
          /\ rb'.readPosition = rb.readPosition
      BY <2>0, <3>1, InsertFields
    <3>3. Store!Put(offering[o])
      BY <2>0, <3>1, <3>2 DEF Store!Put, SlotOf
    <3> QED
      BY <3>1, <3>3 DEF Store!Next
  <2>3. CASE Poll \/ PollWake
    <3>1. PollReturn /\ reader # "gone" /\ reader' # "gone"
      BY <2>3 DEF Poll, PollWake, PollReturn
    <3>2. CASE PollResult(rb) = Null
      BY <3>1, <3>2 DEF PollReturn, AfterPoll, Store!vars
    <3>3. CASE PollResult(rb) # Null
      <4>1. rb.buffer[rb.readPosition] # Null /\ rb' = Take(rb)
        BY <3>1, <3>3 DEF PollReturn, AfterPoll, PollResult
      <4>2. rb.numValidChunks > 0
        BY <4>1, HeadIsCounted
      <4>3. /\ rb'.buffer = [rb.buffer EXCEPT ![rb.readPosition] = Null]
            /\ rb'.readPosition = NextPosition(rb)
        BY <2>0, <4>1, <4>2, TakeFields
      <4>4. rb'.readPosition = (rb.readPosition + 1) % Size
        <5>0. rb.readPosition \in Nat
          BY <2>0, SizeAssumption
        <5>1. rb.readPosition % Size = rb.readPosition
          BY <2>0, SizeAssumption
        <5>2. (rb.readPosition + 1) % Size =
                IF (rb.readPosition % Size) + 1 = Size THEN 0
                                                       ELSE (rb.readPosition % Size) + 1
          BY <5>0, SizeAssumption, RemainderOfSuccessor, Zenon
        <5> QED
          BY <2>0, <4>3, <5>1, <5>2 DEF NextPosition
      <4> QED
        BY <3>1, <4>1, <4>3, <4>4 DEF Store!Next, Store!TakeNext
    <3> QED
      BY <3>2, <3>3
  <2>4. CASE Abandon
    BY <2>0, <2>4 DEF Abandon, Clear, BufferRecord, Store!Next, Store!GiveUp
  <2>5. CASE PollSleep \/ PollTimeout
    BY <2>5 DEF PollSleep, PollTimeout, Store!vars
  <2> QED
    BY <2>1, <2>2, <2>3, <2>4, <2>5 DEF Next, Read, OfferRefused, OfferCheck, vars
<1> QED
  BY <1>1, <1>2, BufferInvariant, PTL DEF Spec, Store!SafeSpec

(* isEmpty is true one chunk early, whatever the size: all but the last    *)
(* slot of a lap have been read.                                           *)
THEOREM EmptyOneShort == Spec => []EmptyIsOneShort
<1>1. IInv => EmptyIsOneShort
  <2> SUFFICES ASSUME IInv, IsEmpty(rb)
               PROVE  nTaken = nOffered /\ nTaken > 0 /\ nTaken % Size = Size - 1
    BY DEF EmptyIsOneShort
  <2>1. /\ rb.size = Size
        /\ rb.readPosition \in 0 .. Size - 1
        /\ nTaken \in Nat /\ nOffered \in Nat
    BY DEF IInv, TypeOK, BufferRecord
  <2>2. rb.numValidChunks = 0 /\ rb.readPosition + 1 = Size
    BY <2>1 DEF IsEmpty
  <2>3. nOffered # 0 /\ nOffered - nTaken = 0
    BY <2>1, <2>2 DEF IInv, CountIsBalance
  <2>4. nTaken % Size = rb.readPosition
    BY DEF IInv, CursorIsCount
  <2> QED
    BY <2>1, <2>2, <2>3, <2>4, SizeAssumption
<1> QED
  BY <1>1, BufferInvariant, PTL
=============================================================================
