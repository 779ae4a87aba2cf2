------------------------- MODULE ServerSessionProofs -------------------------
(***************************************************************************)
(* Proofs about ServerSession for every size of the ring, every limit of   *)
(* retries and every set of packets: there is one reader at a time;        *)
(* through all races of the two threads no chunk is handed over more often *)
(* than it arrived; the count of unread buffers follows the ring, but for  *)
(* an empty pass's release and a closing reader's reset; and the fields    *)
(* keep their types.  When messages keep apart (MessagesApart), a result   *)
(* is of one message and has its chunks in the order of their places, a    *)
(* message's end is acknowledged once and, if it has one packet, not       *)
(* before it was handed over; and a session that gets one-packet messages  *)
(* and their confirmations never throws and loses none, unless the reader  *)
(* makes an empty pass.  The lemmas on a step have one part per action of  *)
(* the listener and of the reader.                                         *)
(***************************************************************************)
EXTENDS ServerSession, RingArithmetic, SequenceTheorems, FiniteSetTheorems

LEMMA OneReaderStep ==
    ASSUME OneReader, [Next]_vars
    PROVE  OneReader'
<1> USE DEF OneReader
<1>1. ASSUME NEW p \in Packets, Arrive(p) PROVE OneReader'
  BY <1>1 DEF Arrive, shared
<1>2. ASSUME Listener PROVE OneReader'
  BY <1>2 DEF Listener, IntBufferSkip, IntBufferFound, IntBufferNew, IntBufferCount,
     ReaderRuns, StartReader, StartRejected, DropClosed, TakeAck, TakeData,
     SetDataNull, SetDataFull, SetDataRoom, Offer, shared
<1>3. ASSUME Reader PROVE OneReader'
  <2>1. reader # "none"
    BY <1>3 DEF Reader, PickFound, PickSeesNull, PickSkips, PickNone, TakeChunk, FirstNull,
       BlockNull, ChunkTaken, GiveUp, Finish, GoRound, Post, SendEndAck, Release, AskUnread,
       AskClient, ResetCount, MarkClosed, ShutPool, Loop, Recheck, Exit, RStep
  <2>2. isStartData' = isStartData \/ reader' = "none"
    BY <1>3 DEF Reader, PickFound, PickSeesNull, PickSkips, PickNone, TakeChunk, FirstNull,
       BlockNull, ChunkTaken, GiveUp, Finish, GoRound, Post, SendEndAck, Release, AskUnread,
       AskClient, ResetCount, MarkClosed, ShutPool, Loop, Recheck, Exit, RStep, shared
  <2> QED
    BY <2>1, <2>2
<1>4. ASSUME UNCHANGED vars PROVE OneReader'
  BY <1>4 DEF vars, shared
<1> QED
  BY <1>1, <1>2, <1>3, <1>4 DEF Next

(* A reader's life starts and ends together with the flag, so the flag      *)
(* guards it alone: startThread never sets a second reader on the ring.     *)
THEOREM SingleReader == Spec => []OneReader
<1>1. Init => OneReader
  BY DEF Init, OneReader
<1> QED
  BY <1>1, OneReaderStep, PTL DEF Spec

-----------------------------------------------------------------------------
(* The ring and what the threads have in hand.                             *)

Ring == 0 .. BufSize - 1
IsBuffer(b) == \E n \in Lengths : b \in Buffers(n)

(* A chunk lies in the buffer of its message's slot, at its own place.      *)
AtPlace(b, s) == \A i \in DOMAIN b.buffer : b.buffer[i] # Null =>
                    /\ b.buffer[i].InitSequenceNumber % BufSize = s
                    /\ i = b.buffer[i].sequenceNumber % b.size
Ok(b, s) == IsBuffer(b) /\ AtPlace(b, s)

(* Where the reader has a buffer in hand, and where chunks not yet posted.  *)
Reading    == {"poll", "block", "taken", "after"}
Collecting == Reading \cup {"post"}
(* Where the listener has a packet in hand.                                 *)
Handling   == {"init", "count", "start", "route", "set", "offer"}

RingTypes ==
    /\ DOMAIN buf = Ring /\ buf = [s \in Ring |-> buf[s]]
    /\ \A s \in Ring : buf[s] = Null \/ Ok(buf[s], s)
    /\ readbufIndex \in Ring
    /\ reader \in Reading => Ok(current, readbufIndex)
HandTypes ==
    /\ list \in Seq(Chunks)
    /\ listener \in Handling => packet \in Packets
    /\ listener \in {"set", "offer"} => packet.type = "data"
CountTypes ==
    /\ delivered \in [Chunks -> Nat] /\ arrived \in [Packets -> Nat]
TypeInv == RingTypes /\ HandTypes /\ CountTypes

Places(l, c) == {i \in DOMAIN l : l[i] = c}
Occurrences(l, c) == Cardinality(Places(l, c))

(* The places a chunk that arrived may be at, each counted once per copy:   *)
(* with the application, in the reader's list, in the ring, and with the    *)
(* listener.                                                                *)
Holds(b, c) == b # Null /\ \E i \in DOMAIN b.buffer : b.buffer[i] = c
InRing(c) == IF Holds(buf[c.InitSequenceNumber % BufSize], c) THEN 1 ELSE 0
InList(c) == IF reader \in Collecting THEN Occurrences(list, c) ELSE 0
InHand(p) == IF listener \in Handling /\ packet = p THEN 1 ELSE 0
Conserved == \A p \in DataPackets :
    delivered[AppData(p)] + InList(AppData(p)) + InRing(AppData(p)) + InHand(p) <= arrived[p]

Inv == TypeInv /\ Conserved

LEMMA LengthsAreSizes == Lengths \subseteq Nat \ {0}
  BY PacketsAssumption DEF Lengths

LEMMA NullIsNoBuffer == \A b : IsBuffer(b) => b # Null
  BY NullAssumption DEF IsBuffer

LEMMA ChunkTypes ==
    /\ \A c \in Chunks : c.InitSequenceNumber \in Nat /\ c.sequenceNumber \in Nat /\ c # Null
    /\ \A p \in DataPackets : /\ AppData(p) \in Chunks /\ p \in Packets
                              /\ AppData(p).InitSequenceNumber = p.InitSeq
    /\ \A p \in Packets : Slot(p) \in Ring
    /\ \A c \in Chunks : c.InitSequenceNumber % BufSize \in Ring
<1>1. \A p \in DataPackets : p \in Packets /\ p.InitSeq \in Nat /\ p.PackagetID \in Nat
  BY PacketsAssumption DEF DataPackets
<1>2. \A c \in Chunks : \E p \in DataPackets : c = AppData(p)
  BY DEF Chunks
<1>3. \A c \in Chunks : c.InitSequenceNumber \in Nat /\ c.sequenceNumber \in Nat
  BY <1>1, <1>2 DEF AppData
<1>4. \A c \in Chunks : c # Null
  BY NullAssumption
<1>5. \A p \in DataPackets : AppData(p) \in Chunks /\ AppData(p).InitSequenceNumber = p.InitSeq
  BY DEF Chunks, AppData
<1>6. \A p \in Packets : Slot(p) \in Ring
  <2> TAKE p \in Packets
  <2>1. p.InitSeq \in Nat
    BY PacketsAssumption
  <2> QED
    BY <2>1, BufSizeAssumption, DivMod DEF Slot, Ring
<1>7. \A c \in Chunks : c.InitSequenceNumber % BufSize \in Ring
  BY <1>3, BufSizeAssumption, DivMod DEF Ring
<1> QED
  BY <1>1, <1>3, <1>4, <1>5, <1>6, <1>7

LEMMA EmptyList == \A c : Occurrences(<<>>, c) = 0
<1> TAKE c
<1>1. Places(<<>>, c) = {}
  BY DEF Places
<1> QED
  BY <1>1, FS_EmptySet DEF Occurrences

LEMMA OccurrencesFinite ==
    ASSUME NEW l \in Seq(Chunks), NEW c
    PROVE  IsFiniteSet(Places(l, c)) /\ Occurrences(l, c) \in Nat
<1>1. DOMAIN l = 1 .. Len(l) /\ Len(l) \in Nat
  BY LenProperties
<1>2. IsFiniteSet(1 .. Len(l))
  BY <1>1, FS_Interval
<1>3. Places(l, c) \in SUBSET (1 .. Len(l))
  BY <1>1 DEF Places
<1>4. IsFiniteSet(Places(l, c))
  BY <1>2, <1>3, FS_Subset
<1> QED
  BY <1>4, FS_CardinalityType DEF Occurrences

LEMMA AppendCounts ==
    ASSUME NEW l \in Seq(Chunks), NEW d \in Chunks, NEW c
    PROVE  Occurrences(Append(l, d), c) = Occurrences(l, c) + (IF d = c THEN 1 ELSE 0)
<1> DEFINE n == Len(l) + 1
<1>1. DOMAIN l = 1 .. Len(l) /\ Len(l) \in Nat
  BY LenProperties
<1>2. DOMAIN Append(l, d) = 1 .. n
  <2>1. Append(l, d) \in Seq(Chunks) /\ Len(Append(l, d)) = n
    BY AppendProperties
  <2> QED
    BY <2>1, LenProperties
<1>3. Append(l, d)[n] = d /\ \A i \in 1 .. Len(l) : Append(l, d)[i] = l[i]
  BY AppendProperties
<1>4. n \notin Places(l, c) /\ IsFiniteSet(Places(l, c)) /\ Occurrences(l, c) \in Nat
  <2>1. n \notin Places(l, c)
    BY <1>1 DEF Places
  <2> QED
    BY <2>1, OccurrencesFinite
<1>5. CASE d = c
  <2>1. Places(Append(l, d), c) = Places(l, c) \cup {n}
    BY <1>1, <1>2, <1>3, <1>5 DEF Places
  <2>2. Cardinality(Places(l, c) \cup {n}) = Cardinality(Places(l, c)) + 1
    <3> HIDE DEF n
    <3> QED
      BY <1>4, FS_AddElement
  <2> QED
    BY <1>5, <2>1, <2>2 DEF Occurrences
<1>6. CASE d # c
  <2>1. Places(Append(l, d), c) = Places(l, c)
    BY <1>1, <1>2, <1>3, <1>6 DEF Places
  <2> QED
    BY <1>4, <1>6, <2>1 DEF Occurrences
<1> QED
  BY <1>5, <1>6

-----------------------------------------------------------------------------
(* What the operations of a buffer do to its chunks.                       *)

LEMMA NewIsOk ==
    ASSUME NEW p \in Packets, p.packagetNum # -1, NEW s
    PROVE  LET b == NewBuffer(p.packagetNum, p.InitSeq)
           IN  Ok(b, s) /\ \A i \in DOMAIN b.buffer : b.buffer[i] = Null
<1> DEFINE n == p.packagetNum
           b == NewBuffer(n, p.InitSeq)
<1>1. n \in Nat \ {0} /\ p.InitSeq \in Nat /\ n \in Lengths
  BY PacketsAssumption DEF Lengths
<1>2. b \in Buffers(n) /\ \A i \in DOMAIN b.buffer : b.buffer[i] = Null
  BY <1>1 DEF NewBuffer, Buffers
<1> QED
  BY <1>1, <1>2 DEF IsBuffer, Ok, AtPlace

LEMMA InsertIsOk ==
    ASSUME NEW b, NEW s, NEW d \in Chunks, d.InitSequenceNumber % BufSize = s,
           Ok(b, s)
    PROVE  /\ Ok(Insert(b, d), s)
           /\ DOMAIN Insert(b, d).buffer = DOMAIN b.buffer
           /\ \A i \in DOMAIN b.buffer : \/ Insert(b, d).buffer[i] = d
                                         \/ Insert(b, d).buffer[i] = b.buffer[i]
<1>1. PICK n \in Nat \ {0} : b \in Buffers(n) /\ n \in Lengths
  BY LengthsAreSizes DEF Ok, IsBuffer
<1> DEFINE j == SlotOf(b, d)
<1>2. j \in 0 .. n - 1 /\ j = d.sequenceNumber % n
  BY <1>1, ChunkTypes, DivMod DEF SlotOf, Buffers
<1>3. Insert(b, d).buffer = [b.buffer EXCEPT ![j] = d] /\ Insert(b, d).size = n
  BY <1>1 DEF Insert, Buffers
<1>4. Insert(b, d) \in Buffers(n)
  <2> DEFINE m == (IF b.numValidChunks < 0 THEN 0 ELSE b.numValidChunks) + 1
  <2>1. m \in Int
    BY <1>1 DEF Buffers
  <2>2. Insert(b, d) = [b EXCEPT !.buffer[j] = d, !.numValidChunks = m]
    BY DEF Insert
  <2> HIDE DEF m, j
  <2>3. [b EXCEPT !.buffer[j] = d, !.numValidChunks = m] \in Buffers(n)
    BY <1>1, <1>2, <2>1 DEF Buffers
  <2> QED
    BY <2>2, <2>3
<1> HIDE DEF j
<1>5. b.buffer \in [0 .. n - 1 -> Chunks \cup {Null}] /\ b.size = n
  BY <1>1 DEF Buffers
<1>6. \A i \in 0 .. n - 1 : Insert(b, d).buffer[i] = IF i = j THEN d ELSE b.buffer[i]
  BY <1>2, <1>3, <1>5
<1>7. AtPlace(Insert(b, d), s)
  <2>1. DOMAIN Insert(b, d).buffer = 0 .. n - 1 /\ DOMAIN b.buffer = 0 .. n - 1
    BY <1>3, <1>5
  <2>2. \A i \in 0 .. n - 1 : b.buffer[i] # Null =>
          b.buffer[i].InitSequenceNumber % BufSize = s /\ i = b.buffer[i].sequenceNumber % n
    BY <1>5, <2>1 DEF Ok, AtPlace
  <2>3. \A i \in 0 .. n - 1 : Insert(b, d).buffer[i] # Null =>
          /\ Insert(b, d).buffer[i].InitSequenceNumber % BufSize = s
          /\ i = Insert(b, d).buffer[i].sequenceNumber % n
    BY <1>2, <1>6, <2>2
  <2> QED
    BY <1>3, <2>1, <2>3 DEF AtPlace
<1> QED
  BY <1>1, <1>3, <1>4, <1>5, <1>6, <1>7 DEF IsBuffer, Ok

LEMMA TakeIsOk ==
    ASSUME NEW b, NEW s, Ok(b, s), PollResult(b) # Null
    PROVE  /\ Ok(Take(b), s)
           /\ PollResult(b) \in Chunks /\ PollResult(b).InitSequenceNumber % BufSize = s
           /\ \E i \in DOMAIN b.buffer : b.buffer[i] = PollResult(b)
           /\ DOMAIN Take(b).buffer = DOMAIN b.buffer
           /\ \A i \in DOMAIN b.buffer : /\ Take(b).buffer[i] \in {Null, b.buffer[i]}
                                         /\ Take(b).buffer[i] # PollResult(b)
<1>1. PICK n \in Nat \ {0} : b \in Buffers(n) /\ n \in Lengths
  BY LengthsAreSizes DEF Ok, IsBuffer
<1> DEFINE j == b.readPosition
           c == b.buffer[j]
           q == c.sequenceNumber
           p == NextPosition(b)
           m == b.numValidChunks - 1
<1>2. j \in 0 .. n - 1 /\ b.size = n /\ b.buffer \in [0 .. n - 1 -> Chunks \cup {Null}]
  BY <1>1 DEF Buffers
<1>3. PollResult(b) = c /\ c \in Chunks
  BY <1>2 DEF PollResult
<1>4. q \in Int /\ p \in 0 .. n - 1 /\ m \in Int
  <2>1. q \in Int
    BY <1>3, ChunkTypes
  <2>2. p \in 0 .. n - 1
    BY <1>2 DEF NextPosition
  <2>3. m \in Int
    BY <1>1 DEF Buffers
  <2> QED
    BY <2>1, <2>2, <2>3
<1>5. Take(b) = [b EXCEPT !.highestReadSequenceNumber = q, !.buffer[j] = Null,
                          !.readPosition = p, !.numValidChunks = m]
  BY DEF Take
<1> HIDE DEF q, p, m, j
<1>6. Take(b) \in Buffers(n) /\ Take(b).buffer = [b.buffer EXCEPT ![j] = Null]
  <2>1. [b EXCEPT !.highestReadSequenceNumber = q, !.buffer[j] = Null,
                  !.readPosition = p, !.numValidChunks = m] \in Buffers(n)
    BY <1>1, <1>2, <1>4 DEF Buffers
  <2> QED
    BY <1>1, <1>5, <2>1 DEF Buffers
<1>7. Take(b).size = n
  BY <1>6 DEF Buffers
<1>8. \A i \in 0 .. n - 1 : Take(b).buffer[i] = IF i = j THEN Null ELSE b.buffer[i]
  BY <1>2, <1>6
<1>9. DOMAIN Take(b).buffer = 0 .. n - 1 /\ DOMAIN b.buffer = 0 .. n - 1
  BY <1>2, <1>6
<1>10. \A i \in 0 .. n - 1 : b.buffer[i] # Null =>
         b.buffer[i].InitSequenceNumber % BufSize = s /\ i = b.buffer[i].sequenceNumber % n
  BY <1>2, <1>9 DEF Ok, AtPlace
<1>11. AtPlace(Take(b), s)
  BY <1>7, <1>8, <1>9, <1>10 DEF AtPlace
<1>12. c # Null
  BY <1>3, ChunkTypes
<1>13. c.InitSequenceNumber % BufSize = s
  BY <1>2, <1>10, <1>12
<1>14. \A i \in 0 .. n - 1 : b.buffer[i] = c => i = j
  BY <1>2, <1>10, <1>12
<1>15. b.buffer[j] = c
  OBVIOUS
<1> HIDE DEF c
<1>16. \A i \in 0 .. n - 1 : Take(b).buffer[i] \in {Null, b.buffer[i]} /\ Take(b).buffer[i] # c
  BY <1>8, <1>12, <1>14
<1> QED
  BY <1>1, <1>2, <1>3, <1>6, <1>9, <1>11, <1>13, <1>15, <1>16 DEF IsBuffer, Ok

LEMMA ClearIsOk ==
    ASSUME NEW b, NEW s, IsBuffer(b)
    PROVE  /\ Ok(Clear(b), s)
           /\ \A i \in DOMAIN Clear(b).buffer : Clear(b).buffer[i] = Null
<1>1. PICK n \in Nat \ {0} : b \in Buffers(n) /\ n \in Lengths
  BY LengthsAreSizes DEF IsBuffer
<1>2. Clear(b) \in Buffers(n)
  BY <1>1 DEF Clear, Buffers
<1>3. Clear(b).buffer = [i \in 0 .. n - 1 |-> Null]
  BY <1>1 DEF Clear, Buffers
<1> QED
  BY <1>1, <1>2, <1>3 DEF IsBuffer, Ok, AtPlace

-----------------------------------------------------------------------------
LEMMA RingStep ==
    ASSUME TypeInv, [Next]_vars
    PROVE  RingTypes'
<1> USE DEF TypeInv
(* One slot changes, to something that may be there.                        *)
<1>a. ASSUME NEW s \in Ring, NEW b, buf' = [buf EXCEPT ![s] = b], b = Null \/ Ok(b, s)
      PROVE  /\ DOMAIN buf' = Ring /\ buf' = [v \in Ring |-> buf'[v]] /\ buf'[s] = b
             /\ \A v \in Ring : (buf'[v] = Null \/ Ok(buf'[v], v)) /\ (v # s => buf'[v] = buf[v])
  <2>1. DOMAIN buf' = Ring /\ buf' = [v \in Ring |-> buf'[v]] /\ buf'[s] = b
    BY <1>a DEF RingTypes
  <2>2. \A v \in Ring : v # s => buf'[v] = buf[v]
    BY <1>a DEF RingTypes
  <2> QED
    BY <1>a, <2>1, <2>2 DEF RingTypes
<1>b. (readbufIndex + 1) % BufSize \in Ring
  <2>1. readbufIndex + 1 \in Nat
    BY BufSizeAssumption DEF RingTypes, Ring
  <2> QED
    BY <2>1, BufSizeAssumption, DivMod DEF Ring
<1>c. ASSUME buf' = buf, readbufIndex' = readbufIndex, reader' \in Reading => reader \in Reading
      PROVE  RingTypes'
  BY <1>c DEF RingTypes, current
<1>1. ASSUME NEW p \in Packets, Arrive(p) PROVE RingTypes'
  BY <1>1, <1>c DEF Arrive, LStep, RStep, shared, local, Reading
<1>2. ASSUME IntBufferSkip PROVE RingTypes'
  BY <1>2, <1>c DEF IntBufferSkip, LStep, RStep, shared, local, Reading
<1>3. ASSUME IntBufferFound PROVE RingTypes'
  BY <1>3, <1>c DEF IntBufferFound, LStep, RStep, shared, local, Reading
<1>4. ASSUME IntBufferNew PROVE RingTypes'
  <2> DEFINE s == Slot(packet)
             b == NewBuffer(packet.packagetNum, packet.InitSeq)
  <2>1. packet \in Packets /\ s \in Ring /\ packet.packagetNum # -1
    BY <1>4, ChunkTypes DEF IntBufferNew, LStep, HandTypes, Handling
  <2>2. Ok(b, s)
    BY <2>1, NewIsOk
  <2>3. buf' = [buf EXCEPT ![s] = b] /\ reader' = reader /\ readbufIndex' = readbufIndex
    BY <1>4 DEF IntBufferNew, LStep, local
  <2> HIDE DEF b, s
  <2> QED
    BY <2>1, <2>2, <2>3, <1>a DEF RingTypes, current
<1>5. ASSUME IntBufferCount PROVE RingTypes'
  BY <1>5, <1>c DEF IntBufferCount, LStep, RStep, shared, local, Reading
<1>6. ASSUME ReaderRuns PROVE RingTypes'
  BY <1>6, <1>c DEF ReaderRuns, LStep, RStep, shared, local, Reading
<1>7. ASSUME StartReader PROVE RingTypes'
  BY <1>7, <1>c DEF StartReader, LStep, RStep, shared, local, Reading
<1>8. ASSUME StartRejected PROVE RingTypes'
  BY <1>8, <1>c DEF StartRejected, LStep, RStep, shared, local, Reading
<1>9. ASSUME DropClosed PROVE RingTypes'
  BY <1>9, <1>c DEF DropClosed, LStep, RStep, shared, local, Reading
<1>10. ASSUME TakeAck PROVE RingTypes'
  BY <1>10, <1>c DEF TakeAck, LStep, RStep, shared, local, Reading
<1>11. ASSUME TakeData PROVE RingTypes'
  BY <1>11, <1>c DEF TakeData, LStep, RStep, shared, local, Reading
<1>12. ASSUME SetDataNull PROVE RingTypes'
  BY <1>12, <1>c DEF SetDataNull, LStep, RStep, shared, local, Reading
<1>13. ASSUME SetDataFull PROVE RingTypes'
  BY <1>13, <1>c DEF SetDataFull, LStep, RStep, shared, local, Reading
<1>14. ASSUME SetDataRoom PROVE RingTypes'
  BY <1>14, <1>c DEF SetDataRoom, LStep, RStep, shared, local, Reading
<1>15. ASSUME Offer PROVE RingTypes'
  <2> DEFINE s == Slot(packet)
             b == Insert(buf[s], AppData(packet))
  <2>1. packet \in DataPackets /\ s \in Ring /\ reader' = reader /\ readbufIndex' = readbufIndex
    BY <1>15, ChunkTypes DEF Offer, LStep, HandTypes, Handling, local, DataPackets
  <2>2. CASE buf[s] = Null
    BY <1>15, <2>1, <2>2, <1>c DEF Offer
  <2>3. CASE buf[s] # Null
    <3>1. Ok(buf[s], s)
      BY <2>1, <2>3 DEF RingTypes
    <3>2. AppData(packet) \in Chunks /\ AppData(packet).InitSequenceNumber % BufSize = s
      BY <2>1, ChunkTypes DEF Slot
    <3>3. Ok(b, s)
      BY <3>1, <3>2, InsertIsOk
    <3>4. buf' = [buf EXCEPT ![s] = b]
      BY <1>15, <2>3 DEF Offer
    <3> HIDE DEF b, s
    <3> QED
      BY <2>1, <3>3, <3>4, <1>a DEF RingTypes, current
  <2> QED
    BY <2>2, <2>3
<1>16. ASSUME PickFound PROVE RingTypes'
  <2>1. Ok(current, readbufIndex)
    BY <1>16 DEF PickFound, RingTypes, current
  <2>2. buf' = buf /\ readbufIndex' = readbufIndex
    BY <1>16 DEF PickFound
  <2> QED
    BY <2>1, <2>2 DEF RingTypes, current
<1>17. ASSUME PickSeesNull PROVE RingTypes'
  BY <1>17, <1>c DEF PickSeesNull, LStep, RStep, shared, local, Reading
<1>18. ASSUME PickSkips PROVE RingTypes'
  <2>1. buf' = buf /\ readbufIndex' \in Ring /\ reader' = "pick"
    BY <1>18, <1>b DEF PickSkips, RStep, Advance, shared
  <2> QED
    BY <2>1 DEF RingTypes, Reading
<1>19. ASSUME PickNone PROVE RingTypes'
  BY <1>19, <1>c DEF PickNone, LStep, RStep, shared, local, Reading
<1>20. ASSUME NEW at \in {"poll", "block"}, TakeChunk(at) PROVE RingTypes'
  <2>1. readbufIndex \in Ring /\ Ok(current, readbufIndex)
    BY <1>20 DEF TakeChunk, RStep, RingTypes, Reading
  <2>2. buf' = [buf EXCEPT ![readbufIndex] = Take(current)] /\ readbufIndex' = readbufIndex
    BY <1>20 DEF TakeChunk, current
  <2>3. Ok(Take(current), readbufIndex)
    BY <1>20, <2>1, TakeIsOk DEF TakeChunk, Ok
  <2> QED
    BY <2>1, <2>2, <2>3, <1>a DEF RingTypes, current
<1>21. ASSUME FirstNull PROVE RingTypes'
  BY <1>21, <1>c DEF FirstNull, LStep, RStep, shared, local, Reading
<1>22. ASSUME BlockNull PROVE RingTypes'
  BY <1>22, <1>c DEF BlockNull, LStep, RStep, shared, local, Reading
<1>23. ASSUME ChunkTaken PROVE RingTypes'
  BY <1>23, <1>c DEF ChunkTaken, LStep, RStep, shared, local, Reading
<1>24. ASSUME GiveUp PROVE RingTypes'
  <2>1. readbufIndex \in Ring /\ Ok(current, readbufIndex)
    BY <1>24 DEF GiveUp, RStep, RingTypes, Reading
  <2>2. buf' = [buf EXCEPT ![readbufIndex] = Clear(current)] /\ readbufIndex' = readbufIndex
    BY <1>24 DEF GiveUp, current
  <2>3. Ok(Clear(current), readbufIndex)
    BY <1>24, <2>1, ClearIsOk DEF GiveUp, Ok
  <2> QED
    BY <2>1, <2>2, <2>3, <1>a DEF RingTypes, current
<1>25. ASSUME Finish PROVE RingTypes'
  BY <1>25, <1>c DEF Finish, LStep, RStep, shared, local, Reading
<1>26. ASSUME GoRound PROVE RingTypes'
  BY <1>26, <1>c DEF GoRound, LStep, RStep, shared, local, Reading
<1>27. ASSUME Post PROVE RingTypes'
  BY <1>27, <1>c DEF Post, LStep, RStep, shared, local, Reading
<1>28. ASSUME SendEndAck PROVE RingTypes'
  BY <1>28, <1>c DEF SendEndAck, LStep, RStep, shared, local, Reading
<1>29. ASSUME Release PROVE RingTypes'
  <2>1. buf' = [buf EXCEPT ![readbufIndex] = Null] /\ readbufIndex' \in Ring /\ reader' = "finish"
    BY <1>29, <1>b DEF Release, RStep, Advance
  <2> QED
    BY <2>1, <1>a DEF RingTypes, Reading
<1>30. ASSUME AskUnread PROVE RingTypes'
  BY <1>30, <1>c DEF AskUnread, LStep, RStep, shared, local, Reading
<1>30a. ASSUME AskClient PROVE RingTypes'
  BY <1>30a, <1>c DEF AskClient, LStep, RStep, shared, local, Reading
<1>31. ASSUME ResetCount PROVE RingTypes'
  BY <1>31, <1>c DEF ResetCount, LStep, RStep, shared, local, Reading
<1>31a. ASSUME MarkClosed PROVE RingTypes'
  BY <1>31a, <1>c DEF MarkClosed, LStep, RStep, shared, local, Reading
<1>31b. ASSUME ShutPool PROVE RingTypes'
  BY <1>31b, <1>c DEF ShutPool, LStep, RStep, shared, local, Reading
<1>32. ASSUME Loop PROVE RingTypes'
  BY <1>32, <1>c DEF Loop, LStep, RStep, shared, local, Reading
<1>33. ASSUME Recheck PROVE RingTypes'
  BY <1>33, <1>c DEF Recheck, LStep, RStep, shared, local, Reading
<1>34. ASSUME Exit PROVE RingTypes'
  BY <1>34, <1>c DEF Exit, LStep, RStep, shared, local, Reading
<1>35. ASSUME UNCHANGED vars PROVE RingTypes'
  BY <1>35, <1>c DEF vars, LStep, RStep, shared, local, Reading
<1> QED
  BY <1>1, <1>2, <1>3, <1>4, <1>5, <1>6, <1>7, <1>8, <1>9, <1>10, <1>11, <1>12, <1>13, <1>14, <1>15, <1>16, <1>17, <1>18, <1>19, <1>20, <1>21, <1>22, <1>23, <1>24, <1>25, <1>26, <1>27, <1>28, <1>29, <1>30, <1>30a, <1>31, <1>31a, <1>31b, <1>32, <1>33, <1>34, <1>35 DEF Next, Listener, Reader

LEMMA HandStep ==
    ASSUME TypeInv, [Next]_vars
    PROVE  HandTypes'
<1> USE DEF TypeInv, HandTypes, Handling
<1>a. <<>> \in Seq(Chunks)
  OBVIOUS
<1>1. ASSUME NEW p \in Packets, Arrive(p) PROVE HandTypes'
  BY <1>1, <1>a DEF Arrive, LStep, RStep, shared, local
<1>2. ASSUME IntBufferSkip PROVE HandTypes'
  BY <1>2, <1>a DEF IntBufferSkip, LStep, RStep, shared, local
<1>3. ASSUME IntBufferFound PROVE HandTypes'
  BY <1>3, <1>a DEF IntBufferFound, LStep, RStep, shared, local
<1>4. ASSUME IntBufferNew PROVE HandTypes'
  BY <1>4, <1>a DEF IntBufferNew, LStep, RStep, shared, local
<1>5. ASSUME IntBufferCount PROVE HandTypes'
  BY <1>5, <1>a DEF IntBufferCount, LStep, RStep, shared, local
<1>6. ASSUME ReaderRuns PROVE HandTypes'
  BY <1>6, <1>a DEF ReaderRuns, LStep, RStep, shared, local
<1>7. ASSUME StartReader PROVE HandTypes'
  BY <1>7, <1>a DEF StartReader, LStep, RStep, shared, local
<1>8. ASSUME StartRejected PROVE HandTypes'
  BY <1>8, <1>a DEF StartRejected, LStep, RStep, shared, local
<1>9. ASSUME DropClosed PROVE HandTypes'
  BY <1>9, <1>a DEF DropClosed, LStep, RStep, shared, local
<1>10. ASSUME TakeAck PROVE HandTypes'
  BY <1>10, <1>a DEF TakeAck, LStep, RStep, shared, local
<1>11. ASSUME TakeData PROVE HandTypes'
  BY <1>11, <1>a DEF TakeData, LStep, RStep, shared, local
<1>12. ASSUME SetDataNull PROVE HandTypes'
  BY <1>12, <1>a DEF SetDataNull, LStep, RStep, shared, local
<1>13. ASSUME SetDataFull PROVE HandTypes'
  BY <1>13, <1>a DEF SetDataFull, LStep, RStep, shared, local
<1>14. ASSUME SetDataRoom PROVE HandTypes'
  BY <1>14, <1>a DEF SetDataRoom, LStep, RStep, shared, local
<1>15. ASSUME Offer PROVE HandTypes'
  BY <1>15, <1>a DEF Offer, LStep, RStep, shared, local
<1>16. ASSUME PickFound PROVE HandTypes'
  BY <1>16, <1>a DEF PickFound, LStep, RStep, shared, local
<1>17. ASSUME PickSeesNull PROVE HandTypes'
  BY <1>17, <1>a DEF PickSeesNull, LStep, RStep, shared, local
<1>18. ASSUME PickSkips PROVE HandTypes'
  BY <1>18, <1>a DEF PickSkips, LStep, RStep, shared, local
<1>19. ASSUME PickNone PROVE HandTypes'
  BY <1>19, <1>a DEF PickNone, LStep, RStep, shared, local
<1>20. ASSUME NEW at \in {"poll", "block"}, TakeChunk(at) PROVE HandTypes'
  <2>1. reader \in Reading
    BY <1>20 DEF TakeChunk, RStep, Reading
  <2>2. PollResult(current) \in Chunks
    BY <1>20, <2>1, TakeIsOk DEF TakeChunk, RingTypes
  <2>3. list' \in Seq(Chunks)
    BY <1>20, <2>2, AppendProperties DEF TakeChunk
  <2> QED
    BY <1>20, <2>3 DEF TakeChunk, RStep
<1>21. ASSUME FirstNull PROVE HandTypes'
  BY <1>21, <1>a DEF FirstNull, LStep, RStep, shared, local
<1>22. ASSUME BlockNull PROVE HandTypes'
  BY <1>22, <1>a DEF BlockNull, LStep, RStep, shared, local
<1>23. ASSUME ChunkTaken PROVE HandTypes'
  BY <1>23, <1>a DEF ChunkTaken, LStep, RStep, shared, local
<1>24. ASSUME GiveUp PROVE HandTypes'
  BY <1>24, <1>a DEF GiveUp, LStep, RStep, shared, local
<1>25. ASSUME Finish PROVE HandTypes'
  BY <1>25, <1>a DEF Finish, LStep, RStep, shared, local
<1>26. ASSUME GoRound PROVE HandTypes'
  BY <1>26, <1>a DEF GoRound, LStep, RStep, shared, local
<1>27. ASSUME Post PROVE HandTypes'
  BY <1>27, <1>a DEF Post, LStep, RStep, shared, local
<1>28. ASSUME SendEndAck PROVE HandTypes'
  BY <1>28, <1>a DEF SendEndAck, LStep, RStep, shared, local
<1>29. ASSUME Release PROVE HandTypes'
  BY <1>29, <1>a DEF Release, LStep, RStep, shared, local
<1>30. ASSUME AskUnread PROVE HandTypes'
  BY <1>30, <1>a DEF AskUnread, LStep, RStep, shared, local
<1>30a. ASSUME AskClient PROVE HandTypes'
  BY <1>30a, <1>a DEF AskClient, LStep, RStep, shared, local
<1>31. ASSUME ResetCount PROVE HandTypes'
  BY <1>31, <1>a DEF ResetCount, LStep, RStep, shared, local
<1>31a. ASSUME MarkClosed PROVE HandTypes'
  BY <1>31a, <1>a DEF MarkClosed, LStep, RStep, shared, local
<1>31b. ASSUME ShutPool PROVE HandTypes'
  BY <1>31b, <1>a DEF ShutPool, LStep, RStep, shared, local
<1>32. ASSUME Loop PROVE HandTypes'
  BY <1>32, <1>a DEF Loop, LStep, RStep, shared, local
<1>33. ASSUME Recheck PROVE HandTypes'
  BY <1>33, <1>a DEF Recheck, LStep, RStep, shared, local
<1>34. ASSUME Exit PROVE HandTypes'
  BY <1>34, <1>a DEF Exit, LStep, RStep, shared, local
<1>35. ASSUME UNCHANGED vars PROVE HandTypes'
  BY <1>35, <1>a DEF vars, LStep, RStep, shared, local
<1> QED
  BY <1>1, <1>2, <1>3, <1>4, <1>5, <1>6, <1>7, <1>8, <1>9, <1>10, <1>11, <1>12, <1>13, <1>14, <1>15, <1>16, <1>17, <1>18, <1>19, <1>20, <1>21, <1>22, <1>23, <1>24, <1>25, <1>26, <1>27, <1>28, <1>29, <1>30, <1>30a, <1>31, <1>31a, <1>31b, <1>32, <1>33, <1>34, <1>35 DEF Next, Listener, Reader

LEMMA CountStep ==
    ASSUME TypeInv, [Next]_vars
    PROVE  CountTypes'
<1> USE DEF TypeInv, CountTypes
<1>1. ASSUME NEW p \in Packets, Arrive(p) PROVE CountTypes'
  BY <1>1 DEF Arrive, LStep, RStep, history
<1>2. ASSUME IntBufferSkip PROVE CountTypes'
  BY <1>2 DEF IntBufferSkip, LStep, RStep, history
<1>3. ASSUME IntBufferFound PROVE CountTypes'
  BY <1>3 DEF IntBufferFound, LStep, RStep, history
<1>4. ASSUME IntBufferNew PROVE CountTypes'
  BY <1>4 DEF IntBufferNew, LStep, RStep, history
<1>5. ASSUME IntBufferCount PROVE CountTypes'
  BY <1>5 DEF IntBufferCount, LStep, RStep, history
<1>6. ASSUME ReaderRuns PROVE CountTypes'
  BY <1>6 DEF ReaderRuns, LStep, RStep, history
<1>7. ASSUME StartReader PROVE CountTypes'
  BY <1>7 DEF StartReader, LStep, RStep, history
<1>8. ASSUME StartRejected PROVE CountTypes'
  BY <1>8 DEF StartRejected, LStep, RStep, history
<1>9. ASSUME DropClosed PROVE CountTypes'
  BY <1>9 DEF DropClosed, LStep, RStep, history
<1>10. ASSUME TakeAck PROVE CountTypes'
  BY <1>10 DEF TakeAck, LStep, RStep, history
<1>11. ASSUME TakeData PROVE CountTypes'
  BY <1>11 DEF TakeData, LStep, RStep, history
<1>12. ASSUME SetDataNull PROVE CountTypes'
  BY <1>12 DEF SetDataNull, LStep, RStep, history
<1>13. ASSUME SetDataFull PROVE CountTypes'
  BY <1>13 DEF SetDataFull, LStep, RStep, history
<1>14. ASSUME SetDataRoom PROVE CountTypes'
  BY <1>14 DEF SetDataRoom, LStep, RStep, history
<1>15. ASSUME Offer PROVE CountTypes'
  BY <1>15 DEF Offer, LStep, RStep, history
<1>16. ASSUME PickFound PROVE CountTypes'
  BY <1>16 DEF PickFound, LStep, RStep, history
<1>17. ASSUME PickSeesNull PROVE CountTypes'
  BY <1>17 DEF PickSeesNull, LStep, RStep, history
<1>18. ASSUME PickSkips PROVE CountTypes'
  BY <1>18 DEF PickSkips, LStep, RStep, history
<1>19. ASSUME PickNone PROVE CountTypes'
  BY <1>19 DEF PickNone, LStep, RStep, history
<1>20. ASSUME NEW at \in {"poll", "block"}, TakeChunk(at) PROVE CountTypes'
  BY <1>20 DEF TakeChunk, LStep, RStep, history
<1>21. ASSUME FirstNull PROVE CountTypes'
  BY <1>21 DEF FirstNull, LStep, RStep, history
<1>22. ASSUME BlockNull PROVE CountTypes'
  BY <1>22 DEF BlockNull, LStep, RStep, history
<1>23. ASSUME ChunkTaken PROVE CountTypes'
  BY <1>23 DEF ChunkTaken, LStep, RStep, history
<1>24. ASSUME GiveUp PROVE CountTypes'
  BY <1>24 DEF GiveUp, LStep, RStep, history
<1>25. ASSUME Finish PROVE CountTypes'
  BY <1>25 DEF Finish, LStep, RStep, history
<1>26. ASSUME GoRound PROVE CountTypes'
  BY <1>26 DEF GoRound, LStep, RStep, history
<1>27. ASSUME Post PROVE CountTypes'
  <2>1. \A c \in Chunks : Occurrences(list, c) \in Nat
    BY OccurrencesFinite DEF HandTypes
  <2>2. delivered' = [c \in Chunks |-> delivered[c] + Occurrences(list, c)]
    BY <1>27 DEF Post, Occurrences, Places
  <2>3. arrived' = arrived
    BY <1>27 DEF Post, RStep
  <2> QED
    BY <2>1, <2>2, <2>3
<1>28. ASSUME SendEndAck PROVE CountTypes'
  BY <1>28 DEF SendEndAck, LStep, RStep, history
<1>29. ASSUME Release PROVE CountTypes'
  BY <1>29 DEF Release, LStep, RStep, history
<1>30. ASSUME AskUnread PROVE CountTypes'
  BY <1>30 DEF AskUnread, LStep, RStep, history
<1>30a. ASSUME AskClient PROVE CountTypes'
  BY <1>30a DEF AskClient, LStep, RStep, history
<1>31. ASSUME ResetCount PROVE CountTypes'
  BY <1>31 DEF ResetCount, LStep, RStep, history
<1>31a. ASSUME MarkClosed PROVE CountTypes'
  BY <1>31a DEF MarkClosed, LStep, RStep, history
<1>31b. ASSUME ShutPool PROVE CountTypes'
  BY <1>31b DEF ShutPool, LStep, RStep, history
<1>32. ASSUME Loop PROVE CountTypes'
  BY <1>32 DEF Loop, LStep, RStep, history
<1>33. ASSUME Recheck PROVE CountTypes'
  BY <1>33 DEF Recheck, LStep, RStep, history
<1>34. ASSUME Exit PROVE CountTypes'
  BY <1>34 DEF Exit, LStep, RStep, history
<1>35. ASSUME UNCHANGED vars PROVE CountTypes'
  BY <1>35 DEF vars, LStep, RStep, history
<1> QED
  BY <1>1, <1>2, <1>3, <1>4, <1>5, <1>6, <1>7, <1>8, <1>9, <1>10, <1>11, <1>12, <1>13, <1>14, <1>15, <1>16, <1>17, <1>18, <1>19, <1>20, <1>21, <1>22, <1>23, <1>24, <1>25, <1>26, <1>27, <1>28, <1>29, <1>30, <1>30a, <1>31, <1>31a, <1>31b, <1>32, <1>33, <1>34, <1>35 DEF Next, Listener, Reader

(* No step makes more of a chunk than there was, but for its arrival.       *)
LEMMA ConservedStep ==
    ASSUME Inv, [Next]_vars
    PROVE  Conserved'
<1> USE DEF Inv, TypeInv
<1> DEFINE ch(p) == AppData(p)
           sl(p) == AppData(p).InitSequenceNumber % BufSize
<1>n. \A p \in DataPackets :
        /\ ch(p) \in Chunks /\ p \in Packets /\ sl(p) \in Ring
        /\ delivered[ch(p)] \in Nat /\ arrived[p] \in Nat
        /\ Occurrences(list, ch(p)) \in Nat
        /\ InList(ch(p)) \in Nat /\ InRing(ch(p)) \in {0, 1} /\ InHand(p) \in {0, 1}
  <2> TAKE p \in DataPackets
  <2>1. ch(p) \in Chunks /\ p \in Packets /\ sl(p) \in Ring
    BY ChunkTypes
  <2>2. Occurrences(list, ch(p)) \in Nat
    BY OccurrencesFinite DEF HandTypes
  <2> HIDE DEF ch, sl
  <2> QED
    BY <2>1, <2>2 DEF CountTypes, InList, InRing, InHand
(* The places in sum hold no more than before.                              *)
<1>k. ASSUME delivered' = delivered, arrived' = arrived,
             \A p \in DataPackets : InList(ch(p))' + InRing(ch(p))' + InHand(p)'
                                      <= InList(ch(p)) + InRing(ch(p)) + InHand(p),
             \A p \in DataPackets : InList(ch(p))' \in Nat /\ InRing(ch(p))' \in {0, 1}
                                    /\ InHand(p)' \in {0, 1}
      PROVE  Conserved'
  <2> SUFFICES ASSUME NEW p \in DataPackets
               PROVE  delivered'[ch(p)] + InList(ch(p))' + InRing(ch(p))' + InHand(p)' <= arrived'[p]
    BY DEF Conserved
  <2>1. delivered[ch(p)] + InList(ch(p)) + InRing(ch(p)) + InHand(p) <= arrived[p]
    BY DEF Conserved
  <2> DEFINE d == delivered[ch(p)]  
             a == arrived[p]
             x == InList(ch(p))
             y == InRing(ch(p))
             z == InHand(p)
             u == InList(ch(p))'
             v == InRing(ch(p))'
             w == InHand(p)'
  <2>2. d \in Nat /\ a \in Nat /\ x \in Nat /\ y \in Nat /\ z \in Nat
    BY <1>n
  <2>3. u \in Nat /\ v \in Nat /\ w \in Nat /\ u + v + w <= x + y + z
    BY <1>k
  <2>4. d + x + y + z <= a
    BY <2>1
  <2>5. delivered'[ch(p)] = d /\ arrived'[p] = a
    BY <1>k
  <2> HIDE DEF d, a, x, y, z, u, v, w
  <2>6. d + u + v + w <= a
    BY <2>2, <2>3, <2>4
  <2> QED
    BY <2>5, <2>6 DEF u, v, w
<1>u. \A p \in DataPackets : InRing(ch(p))' \in {0, 1} /\ InHand(p)' \in {0, 1}
  BY DEF InRing, InHand
<1>m. \A p \in DataPackets : InList(ch(p))' \in Nat
  <2> TAKE p \in DataPackets
  <2>1. list' \in Seq(Chunks)
    BY HandStep DEF HandTypes
  <2>2. Occurrences(list', ch(p)) \in Nat
    BY <2>1, OccurrencesFinite
  <2>3. InList(ch(p))' = IF reader' \in Collecting THEN Occurrences(list', ch(p)) ELSE 0
    BY DEF InList, Occurrences, Places, Collecting, Reading
  <2> HIDE DEF ch
  <2> QED
    BY <2>2, <2>3
<1>l. ASSUME buf' = buf, list' = list, reader' \in {reader, "pick"}, packet' = packet,
             delivered' = delivered, arrived' = arrived,
             listener' \in Handling => listener \in Handling
      PROVE  Conserved'
  <2>1. \A p \in DataPackets : InList(ch(p))' \in {InList(ch(p)), 0} /\ InRing(ch(p))' = InRing(ch(p))
    BY <1>l DEF InList, InRing, Occurrences, Places, Holds, Collecting, Reading
  <2>2. \A p \in DataPackets : InHand(p)' <= InHand(p)
    BY <1>l DEF InHand, Handling
  <2> HIDE DEF ch, sl
  <2>3. \A p \in DataPackets : InList(ch(p))' + InRing(ch(p))' + InHand(p)'
                                 <= InList(ch(p)) + InRing(ch(p)) + InHand(p)
    BY <2>1, <2>2, <1>n, <1>m, <1>u
  <2> QED
    BY <2>3, <1>k, <1>l, <1>m, <1>u DEF ch
<1>r. ASSUME buf' = buf, listener' = listener, packet' = packet,
             delivered' = delivered, arrived' = arrived,
             reader' \in Collecting => (reader \in Collecting /\ list' = list) \/ list' = <<>>
      PROVE  Conserved'
  <2>1. \A p \in DataPackets : InHand(p)' = InHand(p) /\ InRing(ch(p))' = InRing(ch(p))
    BY <1>r DEF InHand, InRing, Holds, Handling
  <2>2. \A p \in DataPackets : InList(ch(p))' <= InList(ch(p))
    <3> TAKE p \in DataPackets
    <3>1. InList(ch(p))' = IF reader' \in Collecting THEN Occurrences(list', ch(p)) ELSE 0
      BY DEF InList, Occurrences, Places, Collecting, Reading
    <3>2. InList(ch(p)) \in Nat
      BY <1>n
    <3>3. Occurrences(<<>>, ch(p)) = 0
      BY EmptyList
    <3> HIDE DEF ch
    <3> QED
      BY <1>r, <3>1, <3>2, <3>3 DEF InList
  <2> HIDE DEF ch, sl
  <2>3. \A p \in DataPackets : InList(ch(p))' + InRing(ch(p))' + InHand(p)'
                                 <= InList(ch(p)) + InRing(ch(p)) + InHand(p)
    BY <2>1, <2>2, <1>n, <1>m, <1>u
  <2> QED
    BY <2>3, <1>k, <1>r, <1>m, <1>u DEF ch
(* One slot changes.                                                        *)
<1>s. ASSUME NEW s \in Ring, NEW b, buf' = [buf EXCEPT ![s] = b]
      PROVE  \A p \in DataPackets : 
               InRing(ch(p))' = IF sl(p) = s THEN (IF Holds(b, ch(p)) THEN 1 ELSE 0)
                                ELSE InRing(ch(p))
  <2> TAKE p \in DataPackets
  <2>1. buf'[sl(p)] = IF sl(p) = s THEN b ELSE buf[sl(p)]
    BY <1>s, <1>n DEF RingTypes
  <2>2. InRing(ch(p))' = IF Holds(buf'[sl(p)], ch(p)) THEN 1 ELSE 0
    BY DEF InRing, Holds
  <2>3. InRing(ch(p)) = IF Holds(buf[sl(p)], ch(p)) THEN 1 ELSE 0
    BY DEF InRing
  <2> HIDE DEF ch, sl
  <2> QED
    BY <2>1, <2>2, <2>3
<1>1. ASSUME NEW p \in Packets, Arrive(p) PROVE Conserved'
  <2> SUFFICES ASSUME NEW q \in DataPackets
               PROVE  delivered'[ch(q)] + InList(ch(q))' + InRing(ch(q))' + InHand(q)' <= arrived'[q]
    BY DEF Conserved
  <2>1. InList(ch(q))' = InList(ch(q)) /\ InRing(ch(q))' = InRing(ch(q)) /\ delivered' = delivered
    BY <1>1 DEF Arrive, shared, local, InList, InRing, Occurrences, Places, Holds, Collecting, Reading
  <2>2. InHand(q) = 0
    BY <1>1 DEF Arrive, InHand, Handling
  <2>3. InHand(q)' = IF p = q THEN 1 ELSE 0
    BY <1>1 DEF Arrive, InHand, Handling
  <2>4. arrived'[q] = IF p = q THEN arrived[q] + 1 ELSE arrived[q]
    BY <1>1, <1>n DEF Arrive, CountTypes
  <2>5. delivered[ch(q)] + InList(ch(q)) + InRing(ch(q)) + InHand(q) <= arrived[q]
    BY DEF Conserved
  <2>6. /\ delivered[ch(q)] \in Nat /\ arrived[q] \in Nat
        /\ InList(ch(q)) \in Nat /\ InRing(ch(q)) \in {0, 1}
    BY <1>n
  <2>7. delivered'[ch(q)] = delivered[ch(q)]
    BY <2>1
  <2> HIDE DEF ch, sl
  <2> QED
    BY <2>1, <2>2, <2>3, <2>4, <2>5, <2>6, <2>7
<1>2. ASSUME IntBufferSkip PROVE Conserved'
  BY <1>2, <1>l DEF IntBufferSkip, LStep, shared, local, Handling
<1>3. ASSUME IntBufferFound PROVE Conserved'
  BY <1>3, <1>l DEF IntBufferFound, LStep, shared, local, Handling
<1>4. ASSUME IntBufferNew PROVE Conserved'
  <2> DEFINE s == Slot(packet)
             b == NewBuffer(packet.packagetNum, packet.InitSeq)
  <2>1. packet \in Packets /\ s \in Ring /\ packet.packagetNum # -1
    BY <1>4, ChunkTypes DEF IntBufferNew, LStep, HandTypes, Handling
  <2>2. \A i \in DOMAIN b.buffer : b.buffer[i] = Null
    BY <2>1, NewIsOk
  <2>3. buf' = [buf EXCEPT ![s] = b] /\ delivered' = delivered /\ arrived' = arrived
    BY <1>4 DEF IntBufferNew, LStep
  <2>4. \A p \in DataPackets : InList(ch(p))' = InList(ch(p)) /\ InHand(p)' = InHand(p)
    BY <1>4 DEF IntBufferNew, LStep, local, InList, InHand, Handling, Occurrences, Places,
       Collecting, Reading
  <2>5. \A p \in DataPackets : ~Holds(b, ch(p))
    BY <2>2, <1>n, ChunkTypes DEF Holds
  <2> HIDE DEF b, s
  <2>c. \A p \in DataPackets :
         InRing(ch(p))' = IF sl(p) = s THEN (IF Holds(b, ch(p)) THEN 1 ELSE 0)
                          ELSE InRing(ch(p))
    BY <2>1, <2>3, <1>s
  <2>6. \A p \in DataPackets : InRing(ch(p))' <= InRing(ch(p))
    <3> HIDE DEF ch, sl
    <3> QED
      BY <2>5, <2>c, <1>n
  <2> HIDE DEF ch, sl
  <2>7. \A p \in DataPackets : InList(ch(p))' + InRing(ch(p))' + InHand(p)'
                                 <= InList(ch(p)) + InRing(ch(p)) + InHand(p)
    BY <2>4, <2>6, <1>n, <1>m, <1>u
  <2> QED
    BY <2>3, <2>7, <1>k, <1>m, <1>u DEF ch
<1>5. ASSUME IntBufferCount PROVE Conserved'
  BY <1>5, <1>l DEF IntBufferCount, LStep, shared, local, Handling
<1>6. ASSUME ReaderRuns PROVE Conserved'
  BY <1>6, <1>l DEF ReaderRuns, LStep, shared, local, Handling
<1>7. ASSUME StartReader PROVE Conserved'
  BY <1>7, <1>l DEF StartReader, LStep, shared, local, Handling
<1>8. ASSUME StartRejected PROVE Conserved'
  BY <1>8, <1>l DEF StartRejected, LStep, shared, local, Handling
<1>9. ASSUME DropClosed PROVE Conserved'
  BY <1>9, <1>l DEF DropClosed, LStep, shared, local, Handling
<1>10. ASSUME TakeAck PROVE Conserved'
  BY <1>10, <1>l DEF TakeAck, LStep, shared, local, Handling
<1>11. ASSUME TakeData PROVE Conserved'
  BY <1>11, <1>l DEF TakeData, LStep, shared, local, Handling
<1>12. ASSUME SetDataNull PROVE Conserved'
  BY <1>12, <1>l DEF SetDataNull, LStep, shared, local, Handling
<1>13. ASSUME SetDataFull PROVE Conserved'
  BY <1>13, <1>l DEF SetDataFull, LStep, shared, local, Handling
<1>14. ASSUME SetDataRoom PROVE Conserved'
  BY <1>14, <1>l DEF SetDataRoom, LStep, shared, local, Handling
<1>15. ASSUME Offer PROVE Conserved'
  <2> DEFINE s == Slot(packet)
             b == Insert(buf[s], AppData(packet))
  <2>1. packet \in DataPackets /\ s \in Ring
    BY <1>15, ChunkTypes DEF Offer, LStep, HandTypes, Handling, DataPackets
  <2>2. /\ delivered' = delivered /\ arrived' = arrived /\ packet' = packet
        /\ listener = "offer" /\ listener' = "idle" /\ list' = list /\ reader' = reader
    BY <1>15 DEF Offer, LStep, local
  <2>3. CASE buf[s] = Null
    BY <1>15, <2>2, <2>3, <1>l DEF Offer, Handling
  <2>4. CASE buf[s] # Null
    <3>1. Ok(buf[s], s)
      BY <2>1, <2>4 DEF RingTypes
    <3>2. AppData(packet) \in Chunks /\ AppData(packet).InitSequenceNumber % BufSize = s
      BY <2>1, ChunkTypes DEF Slot
    <3>3. DOMAIN b.buffer = DOMAIN buf[s].buffer
          /\ \A i \in DOMAIN buf[s].buffer : \/ b.buffer[i] = AppData(packet)
                                             \/ b.buffer[i] = buf[s].buffer[i]
      BY <3>1, <3>2, InsertIsOk
    <3>4. buf' = [buf EXCEPT ![s] = b]
      BY <1>15, <2>4 DEF Offer
    <3> HIDE DEF b, s
    <3>5. \A p \in DataPackets : p # packet => ch(p) # AppData(packet)
      BY <2>1, DistinctAssumption
    <3>6. \A p \in DataPackets : p # packet /\ Holds(b, ch(p)) => Holds(buf[s], ch(p))
      BY <2>4, <3>3, <3>5 DEF Holds
    <3>7. \A p \in DataPackets : sl(p) = s /\ Holds(buf[s], ch(p)) => InRing(ch(p)) = 1
      BY DEF InRing
    <3>c. \A p \in DataPackets :
           InRing(ch(p))' = IF sl(p) = s THEN (IF Holds(b, ch(p)) THEN 1 ELSE 0)
                            ELSE InRing(ch(p))
      BY <2>1, <3>4, <1>s
    <3>8. \A p \in DataPackets : p # packet => InRing(ch(p))' <= InRing(ch(p))
      <4> HIDE DEF ch, sl
      <4> QED
        BY <3>6, <3>7, <3>c, <1>n
    <3>9. \A p \in DataPackets : InList(ch(p))' = InList(ch(p))
      BY <2>2 DEF InList, Occurrences, Places, Collecting, Reading
    <3>10. \A p \in DataPackets : InHand(p)' = 0 /\ (p = packet => InHand(p) = 1)
      BY <2>2 DEF InHand, Handling
    <3> HIDE DEF ch, sl
    <3>11. \A p \in DataPackets : InList(ch(p))' + InRing(ch(p))' + InHand(p)'
                                    <= InList(ch(p)) + InRing(ch(p)) + InHand(p)
      BY <3>8, <3>9, <3>10, <1>n, <1>m, <1>u
    <3> QED
      BY <2>2, <3>11, <1>k, <1>m, <1>u DEF ch
  <2> QED
    BY <2>3, <2>4
<1>16. ASSUME PickFound PROVE Conserved'
  BY <1>16, <1>r DEF PickFound, RStep, shared, local, Collecting, Reading
<1>17. ASSUME PickSeesNull PROVE Conserved'
  BY <1>17, <1>r DEF PickSeesNull, RStep, shared, local, Collecting, Reading
<1>18. ASSUME PickSkips PROVE Conserved'
  BY <1>18, <1>r DEF PickSkips, RStep, shared, local, Collecting, Reading
<1>19. ASSUME PickNone PROVE Conserved'
  BY <1>19, <1>r DEF PickNone, RStep, shared, local, Collecting, Reading
<1>20. ASSUME NEW at \in {"poll", "block"}, TakeChunk(at) PROVE Conserved'
  <2> DEFINE c == PollResult(current)
  <2>1. readbufIndex \in Ring /\ Ok(current, readbufIndex) /\ reader \in Collecting
    BY <1>20 DEF TakeChunk, RStep, RingTypes, Reading, Collecting
  <2>2. /\ buf' = [buf EXCEPT ![readbufIndex] = Take(current)] /\ list' = Append(list, c)
        /\ reader' \in Collecting /\ delivered' = delivered /\ arrived' = arrived
        /\ packet' = packet /\ listener' = listener
    BY <1>20 DEF TakeChunk, RStep, current, Collecting, Reading
  <2>3. /\ c \in Chunks /\ c.InitSequenceNumber % BufSize = readbufIndex
        /\ \E i \in DOMAIN current.buffer : current.buffer[i] = c
        /\ DOMAIN Take(current).buffer = DOMAIN current.buffer
        /\ \A i \in DOMAIN current.buffer : /\ Take(current).buffer[i] \in {Null, current.buffer[i]}
                                            /\ Take(current).buffer[i] # c
    <3>1. PollResult(current) # Null
      BY <1>20 DEF TakeChunk
    <3> QED
      BY <2>1, <3>1, TakeIsOk
  <2>4. current # Null
    BY <2>1, NullIsNoBuffer DEF Ok
  <2> HIDE DEF c
  <2>5. \A p \in DataPackets : InList(ch(p))' = InList(ch(p)) + (IF c = ch(p) THEN 1 ELSE 0)
    <3> TAKE p \in DataPackets
    <3>1. InList(ch(p))' = IF reader' \in Collecting THEN Occurrences(list', ch(p)) ELSE 0
      BY DEF InList, Occurrences, Places, Collecting, Reading
    <3>2. Occurrences(Append(list, c), ch(p))
            = Occurrences(list, ch(p)) + (IF c = ch(p) THEN 1 ELSE 0)
      BY <2>3, AppendCounts DEF HandTypes
    <3> HIDE DEF ch
    <3> QED
      BY <2>1, <2>2, <3>1, <3>2 DEF InList
  <2>6. \A p \in DataPackets : InHand(p)' = InHand(p)
    BY <2>2 DEF InHand, Handling
  <2>7. \A p \in DataPackets : /\ Holds(Take(current), ch(p)) => Holds(current, ch(p)) /\ ch(p) # c
                               /\ ch(p) = c => sl(p) = readbufIndex /\ Holds(current, ch(p))
    BY <2>3, <2>4, <1>n, ChunkTypes DEF Holds
  <2>8. \A p \in DataPackets : sl(p) = readbufIndex /\ Holds(current, ch(p)) => InRing(ch(p)) = 1
    BY DEF InRing, current
  <2>c. \A p \in DataPackets :
         InRing(ch(p))' = IF sl(p) = readbufIndex THEN (IF Holds(Take(current), ch(p)) THEN 1 ELSE 0)
                          ELSE InRing(ch(p))
    BY <2>1, <2>2, <1>s
  <2> HIDE DEF ch, sl
  <2>9. \A p \in DataPackets : InRing(ch(p))' + (IF c = ch(p) THEN 1 ELSE 0) <= InRing(ch(p))
    BY <2>7, <2>8, <2>c, <1>n
  <2>10. \A p \in DataPackets : InList(ch(p))' + InRing(ch(p))' + InHand(p)'
                                  <= InList(ch(p)) + InRing(ch(p)) + InHand(p)
    BY <2>5, <2>6, <2>9, <1>n, <1>m, <1>u
  <2> QED
    BY <2>2, <2>10, <1>k, <1>m, <1>u DEF ch
<1>21. ASSUME FirstNull PROVE Conserved'
  BY <1>21, <1>r DEF FirstNull, RStep, shared, local, Collecting, Reading
<1>22. ASSUME BlockNull PROVE Conserved'
  BY <1>22, <1>r DEF BlockNull, RStep, shared, local, Collecting, Reading
<1>23. ASSUME ChunkTaken PROVE Conserved'
  BY <1>23, <1>r DEF ChunkTaken, RStep, shared, local, Collecting, Reading
<1>24. ASSUME GiveUp PROVE Conserved'
  <2>1. readbufIndex \in Ring /\ buf' = [buf EXCEPT ![readbufIndex] = Clear(current)]
    BY <1>24 DEF GiveUp, RingTypes, current
  <2>2. delivered' = delivered /\ arrived' = arrived
    BY <1>24 DEF GiveUp, RStep
  <2>3. \A p \in DataPackets : ~Holds(Clear(current), ch(p))
    <3>1. Ok(current, readbufIndex)
      BY <1>24 DEF GiveUp, RStep, RingTypes, Reading
    <3> QED
      BY <3>1, ClearIsOk, <1>n, ChunkTypes DEF Ok, Holds
  <2>c. \A p \in DataPackets :
         InRing(ch(p))' = IF sl(p) = readbufIndex THEN (IF Holds(Clear(current), ch(p)) THEN 1 ELSE 0)
                          ELSE InRing(ch(p))
    BY <2>1, <1>s
  <2>4. \A p \in DataPackets : InRing(ch(p))' <= InRing(ch(p))
    <3> HIDE DEF ch, sl
    <3> QED
      BY <2>3, <2>c, <1>n
  <2>5. \A p \in DataPackets : InHand(p)' = InHand(p)
    BY <1>24 DEF GiveUp, RStep, InHand, Handling
  <2>6. \A p \in DataPackets : InList(ch(p))' = 0
    <3> TAKE p \in DataPackets
    <3>1. list' = <<>>
      BY <1>24 DEF GiveUp
    <3>2. InList(ch(p))' = IF reader' \in Collecting THEN Occurrences(list', ch(p)) ELSE 0
      BY DEF InList, Occurrences, Places, Collecting, Reading
    <3>3. Occurrences(<<>>, ch(p)) = 0
      BY EmptyList
    <3> HIDE DEF ch
    <3> QED
      BY <3>1, <3>2, <3>3
  <2> HIDE DEF ch, sl
  <2>7. \A p \in DataPackets : InList(ch(p))' + InRing(ch(p))' + InHand(p)'
                                 <= InList(ch(p)) + InRing(ch(p)) + InHand(p)
    BY <2>4, <2>5, <2>6, <1>n, <1>m, <1>u
  <2> QED
    BY <2>2, <2>7, <1>k, <1>m, <1>u DEF ch
<1>25. ASSUME Finish PROVE Conserved'
  BY <1>25, <1>r DEF Finish, RStep, shared, local, Collecting, Reading
<1>26. ASSUME GoRound PROVE Conserved'
  BY <1>26, <1>r DEF GoRound, RStep, shared, local, Collecting, Reading
<1>27. ASSUME Post PROVE Conserved'
  <2> SUFFICES ASSUME NEW q \in DataPackets
               PROVE  delivered'[ch(q)] + InList(ch(q))' + InRing(ch(q))' + InHand(q)' <= arrived'[q]
    BY DEF Conserved
  <2>1. InRing(ch(q))' = InRing(ch(q)) /\ InHand(q)' = InHand(q) /\ arrived' = arrived
    BY <1>27 DEF Post, RStep, shared, InRing, InHand, Holds, Handling
  <2>2. InList(ch(q))' = 0 /\ InList(ch(q)) = Occurrences(list, ch(q))
    BY <1>27 DEF Post, RStep, InList, Collecting, Reading
  <2>3. delivered' = [c \in Chunks |-> delivered[c] + Occurrences(list, c)]
    BY <1>27 DEF Post, Occurrences, Places
  <2>4. delivered'[ch(q)] = delivered[ch(q)] + Occurrences(list, ch(q)) /\ arrived'[q] = arrived[q]
    BY <2>1, <2>3, <1>n
  <2>5. delivered[ch(q)] + InList(ch(q)) + InRing(ch(q)) + InHand(q) <= arrived[q]
    BY DEF Conserved
  <2>6. /\ delivered[ch(q)] \in Nat /\ arrived[q] \in Nat /\ Occurrences(list, ch(q)) \in Nat
        /\ InRing(ch(q)) \in {0, 1} /\ InHand(q) \in {0, 1}
    BY <1>n
  <2> HIDE DEF ch, sl
  <2> QED
    BY <2>1, <2>2, <2>4, <2>5, <2>6
<1>28. ASSUME SendEndAck PROVE Conserved'
  BY <1>28, <1>r DEF SendEndAck, RStep, shared, local, Collecting, Reading
<1>29. ASSUME Release PROVE Conserved'
  <2>1. readbufIndex \in Ring /\ buf' = [buf EXCEPT ![readbufIndex] = Null]
    BY <1>29 DEF Release, RingTypes, current
  <2>2. delivered' = delivered /\ arrived' = arrived
    BY <1>29 DEF Release, RStep
  <2>3. \A p \in DataPackets : ~Holds(Null, ch(p))
    BY DEF Holds
  <2>c. \A p \in DataPackets :
         InRing(ch(p))' = IF sl(p) = readbufIndex THEN (IF Holds(Null, ch(p)) THEN 1 ELSE 0)
                          ELSE InRing(ch(p))
    BY <2>1, <1>s
  <2>4. \A p \in DataPackets : InRing(ch(p))' <= InRing(ch(p))
    <3> HIDE DEF ch, sl
    <3> QED
      BY <2>3, <2>c, <1>n
  <2>5. \A p \in DataPackets : InHand(p)' = InHand(p)
    BY <1>29 DEF Release, RStep, InHand, Handling
  <2>6. \A p \in DataPackets : InList(ch(p))' = 0
    BY <1>29 DEF Release, RStep, InList, Collecting, Reading
  <2> HIDE DEF ch, sl
  <2>7. \A p \in DataPackets : InList(ch(p))' + InRing(ch(p))' + InHand(p)'
                                 <= InList(ch(p)) + InRing(ch(p)) + InHand(p)
    BY <2>4, <2>5, <2>6, <1>n, <1>m, <1>u
  <2> QED
    BY <2>2, <2>7, <1>k, <1>m, <1>u DEF ch
<1>30. ASSUME AskUnread PROVE Conserved'
  BY <1>30, <1>r DEF AskUnread, RStep, shared, local, Collecting, Reading
<1>30a. ASSUME AskClient PROVE Conserved'
  BY <1>30a, <1>r DEF AskClient, RStep, shared, local, Collecting, Reading
<1>31. ASSUME ResetCount PROVE Conserved'
  BY <1>31, <1>r DEF ResetCount, RStep, shared, local, Collecting, Reading
<1>31a. ASSUME MarkClosed PROVE Conserved'
  BY <1>31a, <1>r DEF MarkClosed, RStep, shared, local, Collecting, Reading
<1>31b. ASSUME ShutPool PROVE Conserved'
  BY <1>31b, <1>r DEF ShutPool, RStep, shared, local, Collecting, Reading
<1>32. ASSUME Loop PROVE Conserved'
  BY <1>32, <1>r DEF Loop, RStep, shared, local, Collecting, Reading
<1>33. ASSUME Recheck PROVE Conserved'
  BY <1>33, <1>r DEF Recheck, RStep, shared, local, Collecting, Reading
<1>34. ASSUME Exit PROVE Conserved'
  BY <1>34, <1>r DEF Exit, RStep, shared, local, Collecting, Reading
<1>35. ASSUME UNCHANGED vars PROVE Conserved'
  BY <1>35, <1>l DEF vars, shared, local, history
<1> QED
  BY <1>1, <1>2, <1>3, <1>4, <1>5, <1>6, <1>7, <1>8, <1>9, <1>10, <1>11, <1>12, <1>13, <1>14, <1>15, <1>16, <1>17, <1>18, <1>19, <1>20, <1>21, <1>22, <1>23, <1>24, <1>25, <1>26, <1>27, <1>28, <1>29, <1>30, <1>30a, <1>31, <1>31a, <1>31b, <1>32, <1>33, <1>34, <1>35 DEF Next, Listener, Reader

LEMMA InvInit == Init => Inv
<1> SUFFICES ASSUME Init PROVE Inv
  OBVIOUS
<1>1. RingTypes
  <2>1. readbufIndex \in Ring
    BY BufSizeAssumption DEF Init, Ring
  <2> QED
    BY <2>1 DEF Init, RingTypes, Reading, Ring
<1>2. HandTypes /\ CountTypes
  <2>1. list \in Seq(Chunks)
    BY DEF Init
  <2>2. delivered \in [Chunks -> Nat] /\ arrived \in [Packets -> Nat]
    BY DEF Init
  <2> QED
    BY <2>1, <2>2 DEF Init, HandTypes, CountTypes, Handling
<1>3. Conserved
  <2> SUFFICES ASSUME NEW p \in DataPackets
               PROVE  delivered[AppData(p)] + InList(AppData(p)) + InRing(AppData(p)) + InHand(p)
                        <= arrived[p]
    BY DEF Conserved
  <2>1. AppData(p) \in Chunks /\ p \in Packets /\ AppData(p).InitSequenceNumber % BufSize \in Ring
    BY ChunkTypes
  <2>2. delivered[AppData(p)] = 0 /\ arrived[p] = 0
    BY <2>1 DEF Init
  <2>3. InList(AppData(p)) = 0 /\ InHand(p) = 0
    BY DEF Init, InList, InHand, Collecting, Reading, Handling
  <2>4. InRing(AppData(p)) = 0
    BY <2>1 DEF Init, InRing, Holds, Ring
  <2> QED
    BY <2>2, <2>3, <2>4
<1> QED
  BY <1>1, <1>2, <1>3 DEF Inv, TypeInv

(* Through both races of the threads - the slot released under the listener, *)
(* the offer into a buffer already let go - and through every retry, a chunk *)
(* reaches the application at most as often as its packet arrived.           *)
THEOREM HandedOverOnce == Spec => []NoDuplicateDelivery
<1>1. Inv /\ [Next]_vars => Inv'
  BY RingStep, HandStep, CountStep, ConservedStep DEF Inv, TypeInv
<1>2. Inv => NoDuplicateDelivery
  <2> SUFFICES ASSUME Inv, NEW p \in DataPackets PROVE delivered[AppData(p)] <= arrived[p]
    BY DEF NoDuplicateDelivery
  <2>1. delivered[AppData(p)] + InList(AppData(p)) + InRing(AppData(p)) + InHand(p) <= arrived[p]
    BY DEF Inv, Conserved
  <2>2. AppData(p) \in Chunks /\ p \in Packets
    BY ChunkTypes
  <2>3. Occurrences(list, AppData(p)) \in Nat
    BY OccurrencesFinite DEF Inv, TypeInv, HandTypes
  <2>4. /\ InList(AppData(p)) \in Nat /\ InRing(AppData(p)) \in Nat /\ InHand(p) \in Nat
        /\ delivered[AppData(p)] \in Nat /\ arrived[p] \in Nat
    BY <2>2, <2>3 DEF InList, InRing, InHand, Inv, TypeInv, CountTypes
  <2> QED
    BY <2>1, <2>4
<1> QED
  BY InvInit, <1>1, <1>2, PTL DEF Spec

-----------------------------------------------------------------------------
(* The account of the ring.                                                *)

Filled(b) == {i \in 0 .. BufSize - 1 : b[i] # Null}

(* The reader has the buffer it holds still in its slot.                    *)
HeldInSlot == Holding => current # Null
AccountInv == TypeInv /\ OneReader /\ HeldInSlot /\ bufNum \in Int

LEMMA FilledFinite == IsFiniteSet(Filled(buf)) /\ Cardinality(Filled(buf)) \in Nat
<1>1. IsFiniteSet(0 .. BufSize - 1)
  BY BufSizeAssumption, FS_Interval
<1>2. Filled(buf) \in SUBSET (0 .. BufSize - 1)
  BY DEF Filled
<1> QED
  BY <1>1, <1>2, FS_Subset, FS_CardinalityType

(* One slot changes: filled, kept filled, or emptied.                       *)
LEMMA SlotChanges ==
    ASSUME RingTypes, NEW s \in Ring, NEW b, buf' = [buf EXCEPT ![s] = b]
    PROVE  /\ b # Null /\ buf[s] = Null =>
                Cardinality(Filled(buf')) = Cardinality(Filled(buf)) + 1
           /\ b # Null /\ buf[s] # Null =>
                Cardinality(Filled(buf')) = Cardinality(Filled(buf))
           /\ b = Null /\ buf[s] # Null =>
                Cardinality(Filled(buf')) = Cardinality(Filled(buf)) - 1
<1>1. \A i \in 0 .. BufSize - 1 : buf'[i] = IF i = s THEN b ELSE buf[i]
  BY DEF RingTypes, Ring
<1>2. s \in 0 .. BufSize - 1
  BY DEF Ring
<1>3. IsFiniteSet(Filled(buf)) /\ Cardinality(Filled(buf)) \in Nat
  BY FilledFinite
<1>4. ASSUME b # Null, buf[s] = Null
      PROVE  Cardinality(Filled(buf')) = Cardinality(Filled(buf)) + 1
  <2>1. Filled(buf') = Filled(buf) \cup {s} /\ s \notin Filled(buf)
    BY <1>1, <1>2, <1>4 DEF Filled
  <2> QED
    BY <2>1, <1>3, FS_AddElement
<1>5. ASSUME b # Null, buf[s] # Null
      PROVE  Cardinality(Filled(buf')) = Cardinality(Filled(buf))
  <2>1. Filled(buf') = Filled(buf)
    BY <1>1, <1>2, <1>5 DEF Filled
  <2> QED
    BY <2>1
<1>6. ASSUME b = Null, buf[s] # Null
      PROVE  Cardinality(Filled(buf')) = Cardinality(Filled(buf)) - 1
  <2>1. Filled(buf') = Filled(buf) \ {s} /\ s \in Filled(buf)
    BY <1>1, <1>2, <1>6 DEF Filled
  <2> QED
    BY <2>1, <1>3, FS_RemoveElement
<1> QED
  BY <1>4, <1>5, <1>6

LEMMA HeldStep ==
    ASSUME AccountInv, [Next]_vars
    PROVE  HeldInSlot'
<1> USE DEF AccountInv, TypeInv, HeldInSlot
<1>r. ASSUME reader' \in Reading PROVE HeldInSlot'
  <2>1. Ok(current, readbufIndex)'
    BY <1>r, RingStep DEF RingTypes
  <2>2. IsBuffer(current')
    BY <2>1 DEF Ok, IsBuffer, Buffers, Lengths, current
  <2> QED
    BY <2>2, NullIsNoBuffer
<1>f. ASSUME ~Holding' PROVE HeldInSlot'
  BY <1>f
<1>k. ASSUME buf' = buf, readbufIndex' = readbufIndex, Holding' => Holding PROVE HeldInSlot'
  BY <1>k DEF current
<1>1. ASSUME NEW p \in Packets, Arrive(p) PROVE HeldInSlot'
  BY <1>1, <1>k DEF Arrive, LStep, RStep, shared, local, vars, Holding
<1>2. ASSUME IntBufferSkip PROVE HeldInSlot'
  BY <1>2, <1>k DEF IntBufferSkip, LStep, RStep, shared, local, vars, Holding
<1>3. ASSUME IntBufferFound PROVE HeldInSlot'
  BY <1>3, <1>k DEF IntBufferFound, LStep, RStep, shared, local, vars, Holding
<1>4. ASSUME IntBufferNew PROVE HeldInSlot'
  <2> DEFINE b == NewBuffer(packet.packagetNum, packet.InitSeq)
  <2>1. packet \in Packets /\ Slot(packet) \in Ring /\ packet.packagetNum # -1
    BY <1>4, ChunkTypes DEF IntBufferNew, LStep, HandTypes, Handling
  <2>2. b # Null
    BY <2>1, NewIsOk, NullIsNoBuffer DEF Ok
  <2>3. /\ buf' = [buf EXCEPT ![Slot(packet)] = b] /\ readbufIndex' = readbufIndex
        /\ Holding' = Holding
    BY <1>4 DEF IntBufferNew, LStep, local, Holding
  <2> HIDE DEF b
  <2> QED
    BY <2>1, <2>2, <2>3 DEF current, RingTypes
<1>5. ASSUME IntBufferCount PROVE HeldInSlot'
  BY <1>5, <1>k DEF IntBufferCount, LStep, RStep, shared, local, vars, Holding
<1>6. ASSUME ReaderRuns PROVE HeldInSlot'
  BY <1>6, <1>k DEF ReaderRuns, LStep, RStep, shared, local, vars, Holding
<1>7. ASSUME StartReader PROVE HeldInSlot'
  BY <1>7, <1>f DEF StartReader, LStep, RStep, Holding
<1>8. ASSUME StartRejected PROVE HeldInSlot'
  BY <1>8, <1>k DEF StartRejected, LStep, RStep, shared, local, vars, Holding
<1>9. ASSUME DropClosed PROVE HeldInSlot'
  BY <1>9, <1>k DEF DropClosed, LStep, RStep, shared, local, vars, Holding
<1>10. ASSUME TakeAck PROVE HeldInSlot'
  BY <1>10, <1>k DEF TakeAck, LStep, RStep, shared, local, vars, Holding
<1>11. ASSUME TakeData PROVE HeldInSlot'
  BY <1>11, <1>k DEF TakeData, LStep, RStep, shared, local, vars, Holding
<1>12. ASSUME SetDataNull PROVE HeldInSlot'
  BY <1>12, <1>k DEF SetDataNull, LStep, RStep, shared, local, vars, Holding
<1>13. ASSUME SetDataFull PROVE HeldInSlot'
  BY <1>13, <1>k DEF SetDataFull, LStep, RStep, shared, local, vars, Holding
<1>14. ASSUME SetDataRoom PROVE HeldInSlot'
  BY <1>14, <1>k DEF SetDataRoom, LStep, RStep, shared, local, vars, Holding
<1>15. ASSUME Offer PROVE HeldInSlot'
  <2> DEFINE s == Slot(packet)
             b == Insert(buf[s], AppData(packet))
  <2>1. packet \in DataPackets /\ s \in Ring
    BY <1>15, ChunkTypes DEF Offer, LStep, HandTypes, Handling, DataPackets
  <2>2. readbufIndex' = readbufIndex /\ Holding' = Holding
    BY <1>15 DEF Offer, LStep, local, Holding
  <2>3. CASE buf[s] = Null
    BY <1>15, <2>2, <2>3, <1>k DEF Offer
  <2>4. CASE buf[s] # Null
    <3>1. Ok(buf[s], s)
      BY <2>1, <2>4 DEF RingTypes
    <3>2. AppData(packet) \in Chunks /\ AppData(packet).InitSequenceNumber % BufSize = s
      BY <2>1, ChunkTypes DEF Slot
    <3>3. Ok(b, s)
      BY <3>1, <3>2, InsertIsOk
    <3>4. b # Null
      BY <3>3, NullIsNoBuffer DEF Ok
    <3>5. buf' = [buf EXCEPT ![s] = b]
      BY <1>15, <2>4 DEF Offer
    <3> HIDE DEF b, s
    <3> QED
      BY <2>1, <2>2, <3>4, <3>5 DEF current, RingTypes
  <2> QED
    BY <2>3, <2>4
<1>16. ASSUME PickFound PROVE HeldInSlot'
  BY <1>16, <1>r DEF PickFound, RStep, Reading
<1>17. ASSUME PickSeesNull PROVE HeldInSlot'
  BY <1>17, <1>f DEF PickSeesNull, LStep, RStep, Holding
<1>18. ASSUME PickSkips PROVE HeldInSlot'
  BY <1>18, <1>f DEF PickSkips, LStep, RStep, Holding
<1>19. ASSUME PickNone PROVE HeldInSlot'
  BY <1>19, <1>f DEF PickNone, LStep, RStep, Holding
<1>20. ASSUME NEW at \in {"poll", "block"}, TakeChunk(at) PROVE HeldInSlot'
  BY <1>20, <1>r DEF TakeChunk, RStep, Reading
<1>21. ASSUME FirstNull PROVE HeldInSlot'
  BY <1>21, <1>r DEF FirstNull, RStep, Reading
<1>22. ASSUME BlockNull PROVE HeldInSlot'
  BY <1>22, <1>r DEF BlockNull, RStep, Reading
<1>23. ASSUME ChunkTaken PROVE HeldInSlot'
  BY <1>23, <1>r DEF ChunkTaken, RStep, Reading
<1>24. ASSUME GiveUp PROVE HeldInSlot'
  <2>1. readbufIndex \in Ring /\ Ok(current, readbufIndex)
    BY <1>24 DEF GiveUp, RStep, RingTypes, Reading
  <2>2. buf' = [buf EXCEPT ![readbufIndex] = Clear(current)] /\ readbufIndex' = readbufIndex
    BY <1>24 DEF GiveUp, current
  <2>3. Clear(current) # Null
    BY <2>1, ClearIsOk, NullIsNoBuffer DEF Ok
  <2>4. buf'[readbufIndex] = Clear(current)
    BY <2>1, <2>2 DEF RingTypes
  <2> QED
    BY <2>2, <2>3, <2>4 DEF current
<1>25. ASSUME Finish PROVE HeldInSlot'
  BY <1>25, <1>k DEF Finish, LStep, RStep, shared, local, vars, Holding
<1>26. ASSUME GoRound PROVE HeldInSlot'
  BY <1>26, <1>r DEF GoRound, RStep, Reading
<1>27. ASSUME Post PROVE HeldInSlot'
  BY <1>27, <1>k DEF Post, LStep, RStep, shared, local, vars, Holding
<1>28. ASSUME SendEndAck PROVE HeldInSlot'
  BY <1>28, <1>k DEF SendEndAck, LStep, RStep, shared, local, vars, Holding
<1>29. ASSUME Release PROVE HeldInSlot'
  BY <1>29, <1>f DEF Release, LStep, RStep, Holding
<1>30. ASSUME AskUnread PROVE HeldInSlot'
  BY <1>30, <1>f DEF AskUnread, LStep, RStep, Holding
<1>30a. ASSUME AskClient PROVE HeldInSlot'
  BY <1>30a, <1>f DEF AskClient, LStep, RStep, Holding
<1>31. ASSUME ResetCount PROVE HeldInSlot'
  BY <1>31, <1>f DEF ResetCount, LStep, RStep, Holding
<1>31a. ASSUME MarkClosed PROVE HeldInSlot'
  BY <1>31a, <1>f DEF MarkClosed, LStep, RStep, Holding
<1>31b. ASSUME ShutPool PROVE HeldInSlot'
  BY <1>31b, <1>f DEF ShutPool, LStep, RStep, Holding
<1>32. ASSUME Loop PROVE HeldInSlot'
  BY <1>32, <1>f DEF Loop, LStep, RStep, Holding
<1>33. ASSUME Recheck PROVE HeldInSlot'
  BY <1>33, <1>f DEF Recheck, LStep, RStep, Holding
<1>34. ASSUME Exit PROVE HeldInSlot'
  BY <1>34, <1>f DEF Exit, LStep, RStep, Holding
<1>35. ASSUME UNCHANGED vars PROVE HeldInSlot'
  BY <1>35, <1>k DEF vars, LStep, RStep, shared, local, vars, Holding
<1> QED
  BY <1>1, <1>2, <1>3, <1>4, <1>5, <1>6, <1>7, <1>8, <1>9, <1>10, <1>11, <1>12, <1>13, <1>14, <1>15, <1>16, <1>17, <1>18, <1>19, <1>20, <1>21, <1>22, <1>23, <1>24, <1>25, <1>26, <1>27, <1>28, <1>29, <1>30, <1>30a, <1>31, <1>31a, <1>31b, <1>32, <1>33, <1>34, <1>35 DEF Next, Listener, Reader

LEMMA AccountStep ==
    ASSUME AccountInv, [Next]_vars, RingAccounted, ~EmptyRelease, ~ClosingReset
    PROVE  RingAccounted'
<1> USE DEF AccountInv, TypeInv
<1> DEFINE F == Cardinality(Filled(buf))
           G == Cardinality(Filled(buf'))
           Before == bufNum = F - (IF Holding THEN 1 ELSE 0) - (IF listener = "count" THEN 1 ELSE 0)
           After == bufNum' = G - (IF Holding' THEN 1 ELSE 0) - (IF listener' = "count" THEN 1 ELSE 0)
           Kept == bufNum' \in Int /\ (~isClose' => After)
<1>a. ~isClose => Before
  BY DEF RingAccounted, Filled
<1>b. (~isClose' => After) => RingAccounted'
  BY DEF RingAccounted, Filled
<1>c. F \in Nat /\ bufNum \in Int
  BY FilledFinite
<1>k. ASSUME buf' = buf, bufNum' = bufNum, isClose' = isClose, Holding' <=> Holding,
             (listener' = "count") <=> (listener = "count")
      PROVE  Kept
  <2>1. G = F
    BY <1>k
  <2> HIDE DEF F, G
  <2> QED
    BY <1>a, <1>c, <1>k, <2>1
<1>1. ASSUME NEW p \in Packets, Arrive(p) PROVE Kept
  BY <1>1, <1>k DEF Arrive, LStep, RStep, shared, local, vars, Holding
<1>2. ASSUME IntBufferSkip PROVE Kept
  BY <1>2, <1>k DEF IntBufferSkip, LStep, shared, local, Holding
<1>3. ASSUME IntBufferFound PROVE Kept
  BY <1>3, <1>k DEF IntBufferFound, LStep, shared, local, Holding
<1>4. ASSUME IntBufferNew PROVE Kept
  <2> DEFINE b == NewBuffer(packet.packagetNum, packet.InitSeq)
  <2>1. packet \in Packets /\ Slot(packet) \in Ring /\ packet.packagetNum # -1
    BY <1>4, ChunkTypes DEF IntBufferNew, LStep, HandTypes, Handling
  <2>2. b # Null
    BY <2>1, NewIsOk, NullIsNoBuffer DEF Ok
  <2>3. buf' = [buf EXCEPT ![Slot(packet)] = b] /\ buf[Slot(packet)] = Null
    BY <1>4 DEF IntBufferNew
  <2>4. /\ (Holding' <=> Holding) /\ bufNum' = bufNum /\ isClose' = isClose
        /\ listener = "init" /\ listener' = "count"
    BY <1>4 DEF IntBufferNew, LStep, local, Holding
  <2> HIDE DEF b
  <2>5. G = F + 1
    BY <2>1, <2>2, <2>3, SlotChanges
  <2> HIDE DEF F, G
  <2> QED
    BY <1>a, <1>c, <2>4, <2>5
<1>5. ASSUME IntBufferCount PROVE Kept
  <2>1. /\ buf' = buf /\ (Holding' <=> Holding) /\ bufNum' = bufNum + 1 /\ isClose' = isClose
        /\ listener = "count" /\ listener' = "start"
    BY <1>5 DEF IntBufferCount, LStep, local, Holding
  <2>2. G = F
    BY <2>1
  <2> HIDE DEF F, G
  <2> QED
    BY <1>a, <1>c, <2>1, <2>2
<1>6. ASSUME ReaderRuns PROVE Kept
  BY <1>6, <1>k DEF ReaderRuns, LStep, shared, local, Holding
<1>7. ASSUME StartReader PROVE Kept
  <2>1. /\ buf' = buf /\ bufNum' = bufNum /\ isClose' = isClose /\ reader = "none"
        /\ reader' = "pick" /\ listener = "start" /\ listener' = "route"
    BY <1>7 DEF StartReader, LStep, OneReader
  <2> QED
    BY <2>1, <1>k DEF Holding
<1>8. ASSUME StartRejected PROVE Kept
  BY <1>8, <1>k DEF StartRejected, LStep, shared, local, Holding
<1>9. ASSUME DropClosed PROVE Kept
  BY <1>9, <1>k DEF DropClosed, LStep, shared, local, Holding
<1>10. ASSUME TakeAck PROVE Kept
  BY <1>10, <1>k DEF TakeAck, LStep, shared, local, Holding
<1>11. ASSUME TakeData PROVE Kept
  BY <1>11, <1>k DEF TakeData, LStep, shared, local, Holding
<1>12. ASSUME SetDataNull PROVE Kept
  BY <1>12, <1>k DEF SetDataNull, LStep, shared, local, Holding
<1>13. ASSUME SetDataFull PROVE Kept
  BY <1>13, <1>k DEF SetDataFull, LStep, shared, local, Holding
<1>14. ASSUME SetDataRoom PROVE Kept
  BY <1>14, <1>k DEF SetDataRoom, LStep, shared, local, Holding
<1>15. ASSUME Offer PROVE Kept
  <2> DEFINE s == Slot(packet)
             b == Insert(buf[s], AppData(packet))
  <2>1. packet \in DataPackets /\ s \in Ring
    BY <1>15, ChunkTypes DEF Offer, LStep, HandTypes, Handling, DataPackets
  <2>2. /\ (Holding' <=> Holding) /\ bufNum' = bufNum /\ isClose' = isClose
        /\ listener = "offer" /\ listener' = "idle"
    BY <1>15 DEF Offer, LStep, local, Holding
  <2>3. CASE buf[s] = Null
    BY <1>15, <2>2, <2>3, <1>k DEF Offer
  <2>4. CASE buf[s] # Null
    <3>1. Ok(buf[s], s)
      BY <2>1, <2>4 DEF RingTypes
    <3>2. AppData(packet) \in Chunks /\ AppData(packet).InitSequenceNumber % BufSize = s
      BY <2>1, ChunkTypes DEF Slot
    <3>3. Ok(b, s)
      BY <3>1, <3>2, InsertIsOk
    <3>4. b # Null
      BY <3>3, NullIsNoBuffer DEF Ok
    <3>5. buf' = [buf EXCEPT ![s] = b]
      BY <1>15, <2>4 DEF Offer
    <3> HIDE DEF b, s
    <3>6. G = F
      BY <2>1, <2>4, <3>4, <3>5, SlotChanges
    <3> HIDE DEF F, G
    <3> QED
      BY <1>a, <1>c, <2>2, <3>6
  <2> QED
    BY <2>3, <2>4
<1>16. ASSUME PickFound PROVE Kept
  <2>1. /\ buf' = buf /\ ~Holding /\ Holding' /\ bufNum' = bufNum - 1 /\ isClose' = isClose
        /\ listener' = listener
    BY <1>16 DEF PickFound, RStep, Holding
  <2>2. G = F
    BY <2>1
  <2> HIDE DEF F, G
  <2> QED
    BY <1>a, <1>c, <2>1, <2>2
<1>17. ASSUME PickSeesNull PROVE Kept
  BY <1>17, <1>k DEF PickSeesNull, LStep, RStep, shared, local, vars, Holding
<1>18. ASSUME PickSkips PROVE Kept
  BY <1>18, <1>k DEF PickSkips, LStep, RStep, shared, local, vars, Holding
<1>19. ASSUME PickNone PROVE Kept
  BY <1>19, <1>k DEF PickNone, LStep, RStep, shared, local, vars, Holding
<1>20. ASSUME NEW at \in {"poll", "block"}, TakeChunk(at) PROVE Kept
  <2>1. readbufIndex \in Ring /\ Ok(current, readbufIndex) /\ PollResult(current) # Null
    BY <1>20 DEF TakeChunk, RStep, RingTypes, Reading
  <2>2. buf' = [buf EXCEPT ![readbufIndex] = Take(current)] /\ isClose' = isClose
        /\ bufNum' = bufNum /\ (Holding' <=> Holding) /\ listener' = listener
    BY <1>20 DEF TakeChunk, RStep, current, Holding
  <2>3. Take(current) # Null /\ buf[readbufIndex] # Null
    BY <2>1, TakeIsOk, NullIsNoBuffer DEF Ok, current
  <2>4. G = F
    BY <2>1, <2>2, <2>3, SlotChanges
  <2> HIDE DEF F, G
  <2> QED
    BY <1>a, <1>c, <2>2, <2>4
<1>21. ASSUME FirstNull PROVE Kept
  BY <1>21, <1>k DEF FirstNull, LStep, RStep, shared, local, vars, Holding
<1>22. ASSUME BlockNull PROVE Kept
  BY <1>22, <1>k DEF BlockNull, LStep, RStep, shared, local, vars, Holding
<1>23. ASSUME ChunkTaken PROVE Kept
  BY <1>23, <1>k DEF ChunkTaken, LStep, RStep, shared, local, vars, Holding
<1>24. ASSUME GiveUp PROVE Kept
  BY <1>24, <1>c DEF GiveUp
<1>25. ASSUME Finish PROVE Kept
  BY <1>25, <1>k DEF Finish, LStep, RStep, shared, local, vars, Holding
<1>26. ASSUME GoRound PROVE Kept
  BY <1>26, <1>k DEF GoRound, LStep, RStep, shared, local, vars, Holding
<1>27. ASSUME Post PROVE Kept
  BY <1>27, <1>k DEF Post, LStep, RStep, shared, local, vars, Holding
<1>28. ASSUME SendEndAck PROVE Kept
  BY <1>28, <1>k DEF SendEndAck, LStep, RStep, shared, local, vars, Holding
<1>29. ASSUME Release PROVE Kept
  <2>1. /\ buf' = [buf EXCEPT ![readbufIndex] = Null] /\ isClose' = isClose
        /\ bufNum' = bufNum /\ Holding /\ ~Holding' /\ listener' = listener /\ readbufIndex \in Ring
    BY <1>29 DEF Release, RStep, Holding, EmptyRelease, RingTypes
  <2>2. buf[readbufIndex] # Null
    BY <2>1 DEF HeldInSlot, current
  <2>3. G = F - 1
    BY <2>1, <2>2, SlotChanges
  <2> HIDE DEF F, G
  <2> QED
    BY <1>a, <1>c, <2>1, <2>3
<1>30. ASSUME AskUnread PROVE Kept
  BY <1>30, <1>k DEF AskUnread, LStep, RStep, shared, local, vars, Holding
<1>30a. ASSUME AskClient PROVE Kept
  BY <1>30a, <1>k DEF AskClient, LStep, RStep, shared, local, vars, Holding
<1>31. ASSUME ResetCount PROVE Kept
  BY <1>31 DEF ResetCount, RStep, ClosingReset
<1>31a. ASSUME MarkClosed PROVE Kept
  BY <1>31a, <1>c DEF MarkClosed
<1>31b. ASSUME ShutPool PROVE Kept
  BY <1>31b, <1>k DEF ShutPool, LStep, RStep, shared, local, vars, Holding
<1>32. ASSUME Loop PROVE Kept
  BY <1>32, <1>k DEF Loop, LStep, RStep, shared, local, vars, Holding
<1>33. ASSUME Recheck PROVE Kept
  BY <1>33, <1>k DEF Recheck, LStep, RStep, shared, local, vars, Holding
<1>34. ASSUME Exit PROVE Kept
  BY <1>34, <1>k DEF Exit, LStep, RStep, shared, local, vars, Holding
<1>35. ASSUME UNCHANGED vars PROVE Kept
  BY <1>35, <1>k DEF vars, LStep, RStep, shared, local, vars, Holding
<1>q. Kept
  BY <1>1, <1>2, <1>3, <1>4, <1>5, <1>6, <1>7, <1>8, <1>9, <1>10, <1>11, <1>12, <1>13, <1>14, <1>15, <1>16, <1>17, <1>18, <1>19, <1>20, <1>21, <1>22, <1>23, <1>24, <1>25, <1>26, <1>27, <1>28, <1>29, <1>30, <1>30a, <1>31, <1>31a, <1>31b, <1>32, <1>33, <1>34, <1>35 DEF Next, Listener, Reader
<1> QED
  BY <1>b, <1>q

(* The count of unread buffers follows the ring through every interleaving  *)
(* of the two threads, whatever comes from the network; two steps can part  *)
(* them: the release after a pass that found nothing, and the reset of the  *)
(* count by a reader that closes the session.                               *)
THEOREM AccountFollowsRing == Spec => AccountKept
<1>1. Init => AccountInv
  BY InvInit DEF Inv, Init, AccountInv, OneReader, HeldInSlot, Holding
<1>2. AccountInv /\ [Next]_vars => AccountInv'
  <2> SUFFICES ASSUME AccountInv, [Next]_vars PROVE AccountInv'
    OBVIOUS
  <2>1. TypeInv'
    BY RingStep, HandStep, CountStep DEF AccountInv, TypeInv
  <2>2. HeldInSlot'
    BY HeldStep
  <2>3. OneReader'
    BY OneReaderStep DEF AccountInv
  <2>4. bufNum' \in Int
    BY DEF AccountInv, Next, vars, shared, Arrive, Listener, IntBufferSkip, IntBufferFound,
       IntBufferNew, IntBufferCount, ReaderRuns, StartReader, StartRejected, DropClosed, TakeAck,
       TakeData, SetDataNull, SetDataFull, SetDataRoom, Offer, Reader, PickFound, PickSeesNull,
       PickSkips, PickNone, TakeChunk, FirstNull, BlockNull, ChunkTaken, GiveUp, Finish, GoRound,
       Post, SendEndAck, Release, AskUnread, AskClient, ResetCount, MarkClosed, ShutPool, Loop,
       Recheck, Exit
  <2> QED
    BY <2>1, <2>2, <2>3, <2>4 DEF AccountInv
<1>3. AccountInv /\ [Next]_vars =>
        (RingAccounted /\ ~EmptyRelease /\ ~ClosingReset => RingAccounted')
  BY AccountStep
<1> QED
  BY <1>1, <1>2, <1>3, PTL DEF Spec, AccountKept

-----------------------------------------------------------------------------
(* What one step does to the ring, in terms a proof about slots can use.   *)

Unheld == {"none", "pick", "skip", "finish", "asked", "closing", "marking", "shutting",
           "loop", "recheck", "exit"}

(* The fields of a buffer after each operation. *)
LEMMA NewFields ==
    ASSUME NEW n \in Nat \ {0}, NEW i
    PROVE  LET b == NewBuffer(n, i)
           IN  /\ b.size = n /\ b.readPosition = 0 /\ b.numValidChunks = -1
               /\ b.highestReadSequenceNumber = -1
               /\ DOMAIN b.buffer = 0 .. n - 1 /\ \A j \in 0 .. n - 1 : b.buffer[j] = Null
  BY DEF NewBuffer

LEMMA BufferFields ==
    ASSUME NEW b, IsBuffer(b)
    PROVE  /\ b.size \in Nat \ {0} /\ b.size \in Lengths /\ b.readPosition \in 0 .. b.size - 1
           /\ b.numValidChunks \in Int /\ b.highestReadSequenceNumber \in Int
           /\ b.buffer \in [0 .. b.size - 1 -> Chunks \cup {Null}]
           /\ DOMAIN b.buffer = 0 .. b.size - 1 /\ b # Null
  BY LengthsAreSizes, NullIsNoBuffer DEF IsBuffer, Buffers

LEMMA InsertFields ==
    ASSUME NEW b, IsBuffer(b), NEW d \in Chunks
    PROVE  LET e == Insert(b, d)
           IN  /\ e.size = b.size /\ e.readPosition = b.readPosition
               /\ e.highestReadSequenceNumber = b.highestReadSequenceNumber
               /\ e.numValidChunks = (IF b.numValidChunks < 0 THEN 0 ELSE b.numValidChunks) + 1
               /\ e.buffer = [b.buffer EXCEPT ![d.sequenceNumber % b.size] = d]
               /\ d.sequenceNumber % b.size \in 0 .. b.size - 1
<1>1. PICK n \in Nat \ {0} : b \in Buffers(n)
  BY LengthsAreSizes DEF IsBuffer
<1>2. b.size = n /\ d.sequenceNumber % n \in 0 .. n - 1
  BY <1>1, ChunkTypes, DivMod DEF Buffers
<1> QED
  BY <1>1, <1>2 DEF Insert, SlotOf, Buffers

(* Adding a chunk changes neither size, nor cursor, nor last number read.   *)
LEMMA InsertKeeps ==
    ASSUME NEW b, IsBuffer(b), NEW d \in Chunks
    PROVE  /\ Insert(b, d).size = b.size /\ Insert(b, d).readPosition = b.readPosition
           /\ Insert(b, d).highestReadSequenceNumber = b.highestReadSequenceNumber
  BY InsertFields

LEMMA TakeFields ==
    ASSUME NEW b, IsBuffer(b), PollResult(b) # Null
    PROVE  LET e == Take(b)
           IN  /\ e.size = b.size /\ e.readPosition = NextPosition(b)
               /\ e.highestReadSequenceNumber = PollResult(b).sequenceNumber
               /\ e.highestReadSequenceNumber # -1
               /\ e.numValidChunks = b.numValidChunks - 1 /\ b.numValidChunks # 0
               /\ e.buffer = [b.buffer EXCEPT ![b.readPosition] = Null]
               /\ b.buffer[b.readPosition] = PollResult(b) /\ PollResult(b) \in Chunks
<1>1. PICK n \in Nat \ {0} : b \in Buffers(n)
  BY LengthsAreSizes DEF IsBuffer
<1>2. b.buffer[b.readPosition] = PollResult(b) /\ b.numValidChunks # 0
  BY DEF PollResult
<1>3. PollResult(b) \in Chunks
  BY <1>1, <1>2 DEF Buffers
<1>4. PollResult(b).sequenceNumber # -1
  BY <1>3, ChunkTypes
<1>5. /\ Take(b).size = b.size /\ Take(b).readPosition = NextPosition(b)
      /\ Take(b).highestReadSequenceNumber = b.buffer[b.readPosition].sequenceNumber
      /\ Take(b).numValidChunks = b.numValidChunks - 1
      /\ Take(b).buffer = [b.buffer EXCEPT ![b.readPosition] = Null]
  BY <1>1 DEF Take, Buffers
<1> QED
  BY <1>2, <1>3, <1>4, <1>5

LEMMA ClearFields ==
    ASSUME NEW b, IsBuffer(b)
    PROVE  LET e == Clear(b)
           IN  /\ e.size = b.size /\ e.readPosition = b.readPosition
               /\ e.highestReadSequenceNumber = b.highestReadSequenceNumber
               /\ e.numValidChunks = b.numValidChunks
               /\ DOMAIN e.buffer = 0 .. b.size - 1
               /\ \A j \in 0 .. b.size - 1 : e.buffer[j] = Null
<1>1. PICK n \in Nat \ {0} : b \in Buffers(n)
  BY LengthsAreSizes DEF IsBuffer
<1> QED
  BY <1>1 DEF Clear, Buffers

(* The steps that touch the ring. *)
LEMMA RingSteps ==
    ASSUME [Next]_vars
    PROVE  \/ buf' = buf
           \/ IntBufferNew \/ Offer \/ GiveUp \/ Release
           \/ TakeChunk("poll") \/ TakeChunk("block")
<1>1. ASSUME NEW p \in Packets, Arrive(p) PROVE buf' = buf
  BY <1>1 DEF Arrive, shared
<1>2. ASSUME Listener PROVE buf' = buf \/ IntBufferNew \/ Offer
  BY <1>2 DEF Listener, IntBufferSkip, IntBufferFound, IntBufferCount, ReaderRuns, StartReader,
     StartRejected, DropClosed, TakeAck, TakeData, SetDataNull, SetDataFull, SetDataRoom, shared
<1>3. ASSUME Reader
      PROVE  \/ buf' = buf \/ GiveUp \/ Release \/ TakeChunk("poll") \/ TakeChunk("block")
  BY <1>3 DEF Reader, PickFound, PickSeesNull, PickSkips, PickNone, FirstNull, BlockNull,
     ChunkTaken, Finish, GoRound, Post, SendEndAck, AskUnread, AskClient, ResetCount, MarkClosed,
     ShutPool, Loop, Recheck, Exit,
     shared
<1> QED
  BY <1>1, <1>2, <1>3 DEF Next, vars, shared

LEMMA OneSlot ==
    ASSUME RingTypes, NEW s \in Ring, NEW b, buf' = [buf EXCEPT ![s] = b]
    PROVE  \A v \in Ring : buf'[v] = IF v = s THEN b ELSE buf[v]
  BY DEF RingTypes

LEMMA NewEffect ==
    ASSUME TypeInv, IntBufferNew
    PROVE  /\ packet \in Packets /\ packet.packagetNum \in Nat \ {0} /\ Slot(packet) \in Ring
           /\ buf[Slot(packet)] = Null
           /\ \A v \in Ring : buf'[v] = IF v = Slot(packet)
                                        THEN NewBuffer(packet.packagetNum, packet.InitSeq)
                                        ELSE buf[v]
<1> DEFINE s == Slot(packet)
           b == NewBuffer(packet.packagetNum, packet.InitSeq)
<1>1. packet \in Packets /\ s \in Ring
  BY ChunkTypes DEF IntBufferNew, LStep, TypeInv, HandTypes, Handling
<1>2. packet.packagetNum \in Nat \ {0}
  BY <1>1, PacketsAssumption DEF IntBufferNew
<1>3. buf[s] = Null /\ buf' = [buf EXCEPT ![s] = b]
  BY DEF IntBufferNew
<1>4. ASSUME NEW t, t = s, NEW c, c = b, t \in Ring, buf' = [buf EXCEPT ![t] = c]
      PROVE  \A v \in Ring : buf'[v] = IF v = s THEN b ELSE buf[v]
  BY <1>4, OneSlot DEF TypeInv
<1> HIDE DEF s, b
<1>5. \A v \in Ring : buf'[v] = IF v = s THEN b ELSE buf[v]
  BY <1>1, <1>3, <1>4
<1> QED
  BY <1>1, <1>2, <1>3, <1>5 DEF s, b

LEMMA OfferEffect ==
    ASSUME TypeInv, Offer
    PROVE  /\ packet \in DataPackets /\ Slot(packet) \in Ring /\ AppData(packet) \in Chunks
           /\ buf[Slot(packet)] # Null => IsBuffer(buf[Slot(packet)])
           /\ \A v \in Ring : buf'[v] = IF v = Slot(packet) /\ buf[v] # Null
                                        THEN Insert(buf[v], AppData(packet))
                                        ELSE buf[v]
<1> DEFINE s == Slot(packet)
           b == Insert(buf[s], AppData(packet))
<1>1. packet \in DataPackets /\ s \in Ring /\ AppData(packet) \in Chunks
  BY ChunkTypes DEF Offer, LStep, TypeInv, HandTypes, Handling, DataPackets
<1>2. buf[s] # Null => IsBuffer(buf[s])
  BY <1>1 DEF TypeInv, RingTypes, Ok
<1>3. buf' = IF buf[s] = Null THEN buf ELSE [buf EXCEPT ![s] = b]
  BY DEF Offer
<1>4. ASSUME buf[s] # Null
      PROVE  \A v \in Ring : buf'[v] = IF v = s THEN b ELSE buf[v]
  <2>1. buf' = [buf EXCEPT ![s] = b]
    BY <1>3, <1>4
  <2> HIDE DEF s, b
  <2> QED
    BY <1>1, <2>1, OneSlot DEF TypeInv
<1> QED
  BY <1>1, <1>2, <1>3, <1>4

LEMMA ReaderEffect ==
    ASSUME TypeInv
    PROVE  /\ readbufIndex \in Ring /\ current = buf[readbufIndex]
           /\ reader \in Reading => IsBuffer(current) /\ AtPlace(current, readbufIndex)
           /\ \A at \in {"poll", "block"} : TakeChunk(at) =>
                \A v \in Ring : buf'[v] = IF v = readbufIndex THEN Take(current) ELSE buf[v]
           /\ GiveUp =>
                \A v \in Ring : buf'[v] = IF v = readbufIndex THEN Clear(current) ELSE buf[v]
           /\ Release =>
                \A v \in Ring : buf'[v] = IF v = readbufIndex THEN Null ELSE buf[v]
<1>1. readbufIndex \in Ring /\ current = buf[readbufIndex]
  BY DEF TypeInv, RingTypes, current
<1>2. reader \in Reading => IsBuffer(current) /\ AtPlace(current, readbufIndex)
  BY DEF TypeInv, RingTypes, Ok
<1>3. ASSUME NEW at \in {"poll", "block"}, TakeChunk(at)
      PROVE  \A v \in Ring : buf'[v] = IF v = readbufIndex THEN Take(current) ELSE buf[v]
  BY <1>1, <1>3, OneSlot DEF TakeChunk, TypeInv
<1>4. ASSUME GiveUp
      PROVE  \A v \in Ring : buf'[v] = IF v = readbufIndex THEN Clear(current) ELSE buf[v]
  BY <1>1, <1>4, OneSlot DEF GiveUp, TypeInv
<1>5. ASSUME Release
      PROVE  \A v \in Ring : buf'[v] = IF v = readbufIndex THEN Null ELSE buf[v]
  BY <1>1, <1>5, OneSlot DEF Release, TypeInv
<1> QED
  BY <1>1, <1>2, <1>3, <1>4, <1>5

-----------------------------------------------------------------------------
(* The types of the fields.                                                *)

(* A count below zero is the count of a buffer nothing was ever put into,  *)
(* so a poll that finds a chunk finds a count it can take one from.        *)
Counted(b) == /\ b.numValidChunks \in Nat \cup {-1}
              /\ b.numValidChunks = -1 => \A i \in DOMAIN b.buffer : b.buffer[i] = Null

ReaderPlaces == Collecting \cup Unheld \cup {"block", "ack", "release"}
ListenerPlaces == Handling \cup {"idle", "dead"}

CountsKept == \A s \in Ring : buf[s] # Null => Counted(buf[s])
Positions ==
    /\ bufNum \in Int
    /\ reader \in ReaderPlaces /\ listener \in ListenerPlaces
    /\ packet \in Packets \cup {Null}
Flags ==
    /\ isStartData \in BOOLEAN /\ isClose \in BOOLEAN /\ clientClose \in BOOLEAN
    /\ poolShut \in BOOLEAN /\ buffer \in BOOLEAN /\ failed \in BOOLEAN
Retries == /\ readNull \in 0 .. MaxReadNull + 1
           /\ reader \in {"block", "taken"} => readNull <= MaxReadNull

LEMMA CountsStep ==
    ASSUME TypeInv, CountsKept, [Next]_vars
    PROVE  CountsKept'
<1> SUFFICES ASSUME NEW s \in Ring, buf'[s] # Null PROVE Counted(buf'[s])
  BY DEF CountsKept, Ring
<1>1. CASE buf' = buf
  BY <1>1 DEF CountsKept
<1>2. CASE buf'[s] = buf[s]
  BY <1>2 DEF CountsKept
<1>3. CASE IntBufferNew
  <2>1. CASE s = Slot(packet)
    <3> DEFINE n == packet.packagetNum
    <3>1. n \in Nat \ {0} /\ buf'[s] = NewBuffer(n, packet.InitSeq)
      BY <1>3, <2>1, NewEffect
    <3> HIDE DEF n
    <3> QED
      BY <3>1, NewFields DEF Counted
  <2> QED
    BY <1>2, <1>3, <2>1, NewEffect
<1>4. CASE Offer
  <2>1. CASE s = Slot(packet) /\ buf[s] # Null
    <3>1. PICK b, d : b = buf[s] /\ d = AppData(packet)
      OBVIOUS
    <3>2. IsBuffer(b) /\ d \in Chunks /\ buf'[s] = Insert(b, d)
      BY <1>4, <2>1, <3>1, OfferEffect
    <3>3. b.numValidChunks \in Nat \cup {-1}
      BY <2>1, <3>1 DEF CountsKept, Counted
    <3>4. Insert(b, d).numValidChunks = (IF b.numValidChunks < 0 THEN 0 ELSE b.numValidChunks) + 1
      BY <3>2, InsertFields
    <3> QED
      BY <3>2, <3>3, <3>4 DEF Counted
  <2> QED
    BY <1>2, <1>4, <2>1, OfferEffect
<1>5. ASSUME NEW at \in {"poll", "block"}, TakeChunk(at) PROVE Counted(buf'[s])
  <2>1. CASE s = readbufIndex
    <3>1. IsBuffer(current) /\ PollResult(current) # Null /\ current = buf[s] /\ current # Null
      BY <1>5, <2>1, ReaderEffect, NullIsNoBuffer DEF TakeChunk, RStep, Reading
    <3>2. buf'[s] = Take(current)
      BY <1>5, <2>1, ReaderEffect
    <3>3. Counted(current)
      BY <2>1, <3>1 DEF CountsKept
    <3>4. current.buffer[current.readPosition] # Null /\ current.readPosition \in DOMAIN current.buffer
      BY <3>1, TakeFields, BufferFields
    <3>5. current.numValidChunks \in Nat \ {0}
      BY <3>1, <3>3, <3>4, TakeFields DEF Counted
    <3>6. buf'[s].numValidChunks = current.numValidChunks - 1
      BY <3>1, <3>2, TakeFields
    <3> QED
      BY <3>5, <3>6 DEF Counted
  <2> QED
    BY <1>2, <1>5, <2>1, ReaderEffect
<1>6. CASE GiveUp
  <2>1. CASE s = readbufIndex
    <3>1. IsBuffer(current) /\ current = buf[s] /\ current # Null
      BY <1>6, <2>1, ReaderEffect, NullIsNoBuffer DEF GiveUp, RStep, Reading
    <3>2. buf'[s] = Clear(current)
      BY <1>6, <2>1, ReaderEffect
    <3>3. Counted(current)
      BY <2>1, <3>1 DEF CountsKept
    <3>4. PICK b : b = current
      OBVIOUS
    <3>5. /\ Clear(b).numValidChunks = b.numValidChunks
          /\ \A j \in DOMAIN Clear(b).buffer : Clear(b).buffer[j] = Null
      BY <3>1, <3>4, ClearFields
    <3> QED
      BY <3>2, <3>3, <3>4, <3>5 DEF Counted
  <2> QED
    BY <1>2, <1>6, <2>1, ReaderEffect
<1>7. CASE Release
  BY <1>2, <1>7, ReaderEffect
<1> QED
  BY <1>1, <1>3, <1>4, <1>5, <1>6, <1>7, RingSteps

LEMMA PositionsStep ==
    ASSUME TypeInv, Positions, [Next]_vars
    PROVE  Positions'
<1> USE DEF Positions, ReaderPlaces, Unheld, Collecting, Reading, ListenerPlaces, Handling
<1>1. ASSUME NEW p \in Packets, Arrive(p) PROVE Positions'
  BY <1>1 DEF Arrive, shared, local
<1>2. ASSUME Listener PROVE Positions'
  <2>1. /\ listener' \in ListenerPlaces /\ reader' \in {reader, "pick"}
        /\ packet' = packet /\ bufNum' \in {bufNum, bufNum + 1}
    BY <1>2 DEF Listener, LStep, IntBufferSkip, IntBufferFound, IntBufferNew, IntBufferCount,
       ReaderRuns, StartReader, StartRejected, DropClosed, TakeAck, TakeData, SetDataNull,
       SetDataFull, SetDataRoom, Offer, shared, local
  <2> QED
    BY <2>1
<1>3. ASSUME Reader PROVE Positions'
  <2>1. /\ reader' \in ReaderPlaces /\ listener' = listener /\ packet' = packet
        /\ bufNum' \in {bufNum, bufNum - 1, 0}
    BY <1>3 DEF Reader, RStep, PickFound, PickSeesNull, PickSkips, PickNone, TakeChunk, FirstNull,
       BlockNull, ChunkTaken, GiveUp, Finish, GoRound, Post, SendEndAck, Release, AskUnread,
       AskClient, ResetCount, MarkClosed, ShutPool, Loop, Recheck, Exit, shared, local
  <2> QED
    BY <2>1
<1>4. ASSUME UNCHANGED vars PROVE Positions'
  BY <1>4 DEF vars, shared, local
<1> QED
  BY <1>1, <1>2, <1>3, <1>4 DEF Next

LEMMA FlagsStep ==
    ASSUME Flags, [Next]_vars
    PROVE  Flags'
<1> USE DEF Flags
<1>1. ASSUME NEW p \in Packets, Arrive(p) PROVE Flags'
  BY <1>1 DEF Arrive, shared, local
<1>2. ASSUME Listener PROVE Flags'
  <2>1. /\ isClose' = isClose /\ poolShut' = poolShut /\ buffer' = buffer /\ failed' = failed
        /\ isStartData' = isStartData \/ isStartData' = TRUE
    BY <1>2 DEF Listener, LStep, IntBufferSkip, IntBufferFound, IntBufferNew, IntBufferCount,
       ReaderRuns, StartReader, StartRejected, DropClosed, TakeAck, TakeData, SetDataNull,
       SetDataFull, SetDataRoom, Offer, shared, local
  <2>2. clientClose' = clientClose \/ clientClose' = (clientClose \/ packet.type = "close")
    BY <1>2 DEF Listener, LStep, IntBufferSkip, IntBufferFound, IntBufferNew, IntBufferCount,
       ReaderRuns, StartReader, StartRejected, DropClosed, TakeAck, TakeData, SetDataNull,
       SetDataFull, SetDataRoom, Offer, shared, local
  <2> QED
    BY <2>1, <2>2, Zenon
<1>3. ASSUME Reader PROVE Flags'
  <2>1. /\ clientClose' = clientClose
        /\ isStartData' = isStartData \/ isStartData' = FALSE
        /\ isClose' = isClose \/ isClose' = TRUE
    BY <1>3 DEF Reader, RStep, PickFound, PickSeesNull, PickSkips, PickNone, TakeChunk, FirstNull,
       BlockNull, ChunkTaken, GiveUp, Finish, GoRound, Post, SendEndAck, Release, AskUnread,
       AskClient, ResetCount, MarkClosed, ShutPool, Loop, Recheck, Exit, shared, local
  <2>2. /\ poolShut' = poolShut \/ poolShut' = TRUE
        /\ buffer' = buffer \/ buffer' = TRUE \/ buffer' = FALSE
        /\ failed' = failed \/ failed' = TRUE \/ failed' = FALSE
    BY <1>3 DEF Reader, RStep, PickFound, PickSeesNull, PickSkips, PickNone, TakeChunk, FirstNull,
       BlockNull, ChunkTaken, GiveUp, Finish, GoRound, Post, SendEndAck, Release, AskUnread,
       AskClient, ResetCount, MarkClosed, ShutPool, Loop, Recheck, Exit, shared, local
  <2> QED
    BY <2>1, <2>2, Zenon
<1>4. ASSUME UNCHANGED vars PROVE Flags'
  BY <1>4 DEF vars, shared, local
<1> QED
  BY <1>1, <1>2, <1>3, <1>4 DEF Next

LEMMA RetriesStep ==
    ASSUME Retries, [Next]_vars
    PROVE  Retries'
<1> USE DEF Retries
<1>1. ASSUME NEW p \in Packets, Arrive(p) PROVE Retries'
  BY <1>1 DEF Arrive, shared, local
<1>2. ASSUME Listener PROVE Retries'
  <2>1. readNull' = readNull /\ reader' \in {reader, "pick"}
    BY <1>2 DEF Listener, LStep, IntBufferSkip, IntBufferFound, IntBufferNew, IntBufferCount,
       ReaderRuns, StartReader, StartRejected, DropClosed, TakeAck, TakeData, SetDataNull,
       SetDataFull, SetDataRoom, Offer, shared, local
  <2> QED
    BY <2>1
<1>3. ASSUME Reader PROVE Retries'
  <2>1. CASE TakeChunk("poll") \/ TakeChunk("block")
    BY <2>1, MaxReadNullAssumption DEF TakeChunk, RStep
  <2>2. CASE BlockNull
    BY <2>2, MaxReadNullAssumption DEF BlockNull, RStep
  <2>3. CASE ChunkTaken
    BY <2>3 DEF ChunkTaken, RStep, local
  <2>4. ASSUME ~(TakeChunk("poll") \/ TakeChunk("block") \/ BlockNull \/ ChunkTaken)
        PROVE  readNull' = readNull /\ reader' \notin {"block", "taken"}
    BY <1>3, <2>4 DEF Reader, RStep, PickFound, PickSeesNull, PickSkips, PickNone, FirstNull,
       GiveUp, Finish, GoRound, Post, SendEndAck, Release, AskUnread, AskClient, ResetCount,
       MarkClosed, ShutPool, Loop, Recheck,
       Exit, shared, local
  <2> QED
    BY <2>1, <2>2, <2>3, <2>4
<1>4. ASSUME UNCHANGED vars PROVE Retries'
  BY <1>4 DEF vars, shared, local
<1> QED
  BY <1>1, <1>2, <1>3, <1>4 DEF Next

(* The fields of the session keep their types; above all, no interleaving   *)
(* of the two threads takes a chunk from a buffer whose count does not know *)
(* of one, and a retry is never counted past the limit by more than one.    *)
THEOREM SessionTypes == Spec => []TypeOK
<1> DEFINE IInv == TypeInv /\ CountsKept /\ Positions /\ Flags /\ Retries
<1>1. Init => IInv
  <2> SUFFICES ASSUME Init PROVE IInv
    OBVIOUS
  <2>1. CountsKept
    BY DEF Init, CountsKept, Ring
  <2>2. Positions
    BY DEF Init, Positions, ReaderPlaces, Unheld, ListenerPlaces
  <2>3. Retries
    BY MaxReadNullAssumption DEF Init, Retries
  <2>4. Flags
    BY Zenon DEF Init, Flags
  <2> QED
    BY <2>1, <2>2, <2>3, <2>4, InvInit DEF Inv
<1>2. IInv /\ [Next]_vars => IInv'
  BY RingStep, HandStep, CountStep, CountsStep, PositionsStep, FlagsStep, RetriesStep
     DEF TypeInv
<1>3. IInv => TypeOK
  <2> SUFFICES ASSUME IInv PROVE TypeOK
    OBVIOUS
  <2>1. ASSUME NEW i \in 0 .. BufSize - 1, buf[i] # Null
        PROVE  /\ buf[i].size \in Nat \ {0}
               /\ buf[i].readPosition \in 0 .. buf[i].size - 1
               /\ buf[i].buffer \in [0 .. buf[i].size - 1 -> Chunks \cup {Null}]
               /\ buf[i].numValidChunks \in Nat \cup {-1}
    <3>1. i \in Ring
      BY DEF Ring
    <3>2. IsBuffer(buf[i]) /\ Counted(buf[i])
      BY <2>1, <3>1 DEF TypeInv, RingTypes, Ok, CountsKept
    <3> QED
      BY <3>2, BufferFields DEF Counted
  <2>2. /\ bufNum \in Int /\ readbufIndex \in 0 .. BufSize - 1
        /\ {isStartData, isClose, clientClose, poolShut, buffer, failed} \subseteq BOOLEAN
        /\ packet \in Packets \cup {Null} /\ list \in Seq(Chunks) /\ readNull \in 0 .. MaxReadNull + 1
    BY DEF Positions, Flags, Retries, TypeInv, RingTypes, HandTypes, Ring
  <2>3. /\ reader \in {"none", "pick", "skip", "poll", "block", "taken", "after", "post",
                       "ack", "release", "finish", "asked", "closing", "marking", "shutting",
                       "loop", "recheck", "exit"}
        /\ listener \in {"idle", "init", "count", "start", "route", "set", "offer", "dead"}
    BY DEF Positions, ReaderPlaces, ListenerPlaces, Handling, Collecting, Reading, Unheld
  <2> QED
    BY <2>1, <2>2, <2>3 DEF TypeOK
<1> QED
  BY <1>1, <1>2, <1>3, PTL DEF Spec

-----------------------------------------------------------------------------
(* Messages that keep apart: no copies, a slot for each message.           *)

(* What the listener leaves alone. *)
Aside == /\ UNCHANGED <<local, delivered, results, acked>>
         /\ reader' = reader \/ StartReader

LEMMA StepKinds == [Next]_vars => Aside \/ Reader
<1> SUFFICES ASSUME [Next]_vars, ~Reader PROVE Aside
  OBVIOUS
<1>1. ASSUME NEW p \in Packets, Arrive(p) PROVE Aside
  BY <1>1 DEF Arrive, Aside
<1>2. ASSUME Listener PROVE Aside
  BY <1>2 DEF Listener, LStep, IntBufferSkip, IntBufferFound, IntBufferNew, IntBufferCount,
     ReaderRuns, StartReader, StartRejected, DropClosed, TakeAck, TakeData, SetDataNull,
     SetDataFull, SetDataRoom, Offer, Aside
<1>3. ASSUME UNCHANGED vars PROVE Aside
  BY <1>3 DEF vars, history, Aside
<1> QED
  BY <1>1, <1>2, <1>3 DEF Next

(* Chunks in one slot are of one message, and a place there is one chunk's. *)
LEMMA SlotOfMessage ==
    ASSUME MessagesApart, NEW c \in Chunks, NEW d \in Chunks,
           c.InitSequenceNumber % BufSize = d.InitSequenceNumber % BufSize
    PROVE  c.InitSequenceNumber = d.InitSequenceNumber
<1>1. PICK p \in DataPackets : c = AppData(p)
  BY DEF Chunks
<1>2. PICK q \in DataPackets : d = AppData(q)
  BY DEF Chunks
<1>3. /\ p \in Packets /\ q \in Packets
      /\ c.InitSequenceNumber = p.InitSeq /\ d.InitSequenceNumber = q.InitSeq
  BY <1>1, <1>2, ChunkTypes
<1>4. p.packagetNum # -1 /\ q.packagetNum # -1
  BY DEF MessagesApart
<1>5. Slot(p) = Slot(q)
  BY <1>3 DEF Slot
<1> QED
  BY <1>3, <1>4, <1>5 DEF MessagesApart

(* No packet came twice. *)
ArrivedOnce == \A p \in Packets : arrived[p] \in {0, 1}
(* What the reader collects is of the slot it reads. *)
ListAtSlot == reader \in Collecting =>
    \A i \in DOMAIN list : list[i].InitSequenceNumber % BufSize = readbufIndex

LEMMA ArrivedStep ==
    ASSUME TypeInv, MaxCopies = 1, ArrivedOnce, [Next]_vars
    PROVE  ArrivedOnce'
<1>1. ASSUME NEW p \in Packets, Arrive(p) PROVE ArrivedOnce'
  BY <1>1 DEF Arrive, ArrivedOnce, TypeInv, CountTypes
<1>2. ASSUME Listener PROVE ArrivedOnce'
  BY <1>2 DEF Listener, LStep, IntBufferSkip, IntBufferFound, IntBufferNew, IntBufferCount,
     ReaderRuns, StartReader, StartRejected, DropClosed, TakeAck, TakeData, SetDataNull,
     SetDataFull, SetDataRoom, Offer, ArrivedOnce
<1>3. ASSUME Reader PROVE ArrivedOnce'
  BY <1>3 DEF Reader, RStep, PickFound, PickSeesNull, PickSkips, PickNone, TakeChunk, FirstNull,
     BlockNull, ChunkTaken, GiveUp, Finish, GoRound, Post, SendEndAck, Release, AskUnread,
     AskClient, ResetCount, MarkClosed, ShutPool, Loop, Recheck, Exit, ArrivedOnce
<1>4. ASSUME UNCHANGED vars PROVE ArrivedOnce'
  BY <1>4 DEF vars, history, ArrivedOnce
<1> QED
  BY <1>1, <1>2, <1>3, <1>4 DEF Next

(* The reader's list changes when it finds a message, takes a chunk of it, *)
(* gives up, or finds nothing.                                             *)
LEMMA ListChanges ==
    ASSUME Reader
    PROVE  \/ list' = <<>>
           \/ TakeChunk("poll") \/ TakeChunk("block")
           \/ list' = list /\ (reader' \in Collecting => /\ reader \in Collecting
                                                        /\ readbufIndex' = readbufIndex)
  BY DEF Reader, RStep, PickFound, PickSeesNull, PickSkips, PickNone, FirstNull,
     BlockNull, ChunkTaken, GiveUp, Finish, GoRound, Post, SendEndAck, Release, AskUnread,
     AskClient, ResetCount, MarkClosed, ShutPool, Loop, Recheck, Exit, local, Collecting, Reading

LEMMA ListAtSlotStep ==
    ASSUME TypeInv, ListAtSlot, [Next]_vars
    PROVE  ListAtSlot'
<1> USE DEF ListAtSlot
<1>1. CASE Aside
  BY <1>1 DEF Aside, StartReader, LStep, local, Collecting, Reading
<1>2. CASE Reader
  <2>1. CASE list' = <<>>
    BY <2>1
  <2>2. ASSUME NEW at \in {"poll", "block"}, TakeChunk(at) PROVE ListAtSlot'
    <3>1. Ok(current, readbufIndex) /\ reader \in Reading /\ PollResult(current) # Null
      BY <2>2 DEF TakeChunk, RStep, Reading, TypeInv, RingTypes
    <3>2. /\ PollResult(current) \in Chunks
          /\ PollResult(current).InitSequenceNumber % BufSize = readbufIndex
      BY <3>1, TakeIsOk
    <3>3. list' = Append(list, PollResult(current)) /\ readbufIndex' = readbufIndex
      BY <2>2 DEF TakeChunk
    <3>4. list \in Seq(Chunks)
      BY DEF TypeInv, HandTypes
    <3>5. PICK d : d = PollResult(current)
      OBVIOUS
    <3>6. /\ DOMAIN list = 1 .. Len(list) /\ Len(list) \in Nat
          /\ DOMAIN list' = 1 .. Len(list) + 1
          /\ list'[Len(list) + 1] = d /\ \A i \in 1 .. Len(list) : list'[i] = list[i]
      <4>1. list' \in Seq(Chunks) /\ Len(list') = Len(list) + 1
        BY <3>2, <3>3, <3>4, AppendProperties
      <4> QED
        BY <3>2, <3>3, <3>4, <3>5, <4>1, AppendProperties, LenProperties
    <3>7. \A i \in DOMAIN list : list[i].InitSequenceNumber % BufSize = readbufIndex
      BY <3>1 DEF Collecting
    <3>8. \A i \in DOMAIN list' : list'[i].InitSequenceNumber % BufSize = readbufIndex
      BY <3>2, <3>5, <3>6, <3>7
    <3> QED
      BY <3>3, <3>8
  <2>3. CASE list' = list /\ (reader' \in Collecting => /\ reader \in Collecting
                                                       /\ readbufIndex' = readbufIndex)
    BY <2>3
  <2> QED
    BY <1>2, <2>1, <2>2, <2>3, ListChanges
<1> QED
  BY <1>1, <1>2, StepKinds

-----------------------------------------------------------------------------
(* What a slot holds while messages keep apart.                            *)

Held(s) == Holding /\ readbufIndex = s
Listed(c) == \E i \in DOMAIN list : list[i] = c

(* A buffer has the size its message announces; until the reader holds it  *)
(* nothing was read of it; the reader reads only what it holds.            *)
SlotSizes == \A s \in Ring : buf[s] # Null =>
    \E q \in Packets : q.packagetNum # -1 /\ Slot(q) = s /\ buf[s].size = q.packagetNum
SlotsUnread == \A s \in Ring : buf[s] # Null /\ ~Held(s) =>
    buf[s].readPosition = 0 /\ buf[s].highestReadSequenceNumber = -1
ReadingHolds == reader \in Reading => buffer
SlotInv == SlotSizes /\ SlotsUnread /\ ReadingHolds

LEMMA SizeOfMessage ==
    ASSUME MessagesApart, TypeInv, SlotSizes, NEW p \in DataPackets, buf[Slot(p)] # Null
    PROVE  buf[Slot(p)].size = p.packagetNum /\ p.packagetNum \in Nat \ {0}
<1>1. p \in Packets /\ Slot(p) \in Ring /\ p.packagetNum # -1
  BY ChunkTypes DEF MessagesApart
<1>2. PICK q \in Packets : q.packagetNum # -1 /\ Slot(q) = Slot(p) /\ buf[Slot(p)].size = q.packagetNum
  BY <1>1 DEF SlotSizes
<1>3. p.packagetNum = q.packagetNum
  BY <1>1, <1>2 DEF MessagesApart
<1> QED
  BY <1>1, <1>2, <1>3, PacketsAssumption

LEMMA ReadingHoldsStep ==
    ASSUME OneReader, ReadingHolds, [Next]_vars
    PROVE  ReadingHolds'
<1> USE DEF ReadingHolds, Reading
<1>1. CASE Aside
  BY <1>1 DEF Aside, StartReader, LStep, local
<1>2. CASE Reader
  BY <1>2 DEF Reader, RStep, PickFound, PickSeesNull, PickSkips, PickNone, TakeChunk, FirstNull,
     BlockNull, ChunkTaken, GiveUp, Finish, GoRound, Post, SendEndAck, Release, AskUnread,
     AskClient, ResetCount, MarkClosed, ShutPool, Loop, Recheck, Exit, local
<1> QED
  BY <1>1, <1>2, StepKinds

(* The reader lets go of a buffer only by releasing its slot. *)
LEMMA HeldStays ==
    ASSUME OneReader, [Next]_vars, NEW s, Held(s)
    PROVE  Release \/ Held(s)'
<1> USE DEF Held, Holding
<1>1. CASE Aside
  <2>1. readbufIndex' = readbufIndex /\ buffer' = buffer
    BY <1>1 DEF Aside, local
  <2>2. reader' = reader
    BY <1>1 DEF Aside, StartReader, LStep, OneReader
  <2> QED
    BY <2>1, <2>2
<1>2. CASE Reader
  BY <1>2 DEF Reader, RStep, PickFound, PickSeesNull, PickSkips, PickNone, TakeChunk, FirstNull,
     BlockNull, ChunkTaken, GiveUp, Finish, GoRound, Post, SendEndAck, AskUnread, AskClient,
     ResetCount, MarkClosed, ShutPool, Loop, Recheck, Exit, local
<1> QED
  BY <1>1, <1>2, StepKinds

LEMMA SlotSizesStep ==
    ASSUME TypeInv, SlotSizes, [Next]_vars
    PROVE  SlotSizes'
<1> DEFINE Sized(b, s) == \E q \in Packets :
             q.packagetNum # -1 /\ Slot(q) = s /\ b.size = q.packagetNum
<1> SUFFICES ASSUME NEW s \in Ring, buf'[s] # Null PROVE Sized(buf'[s], s)
  BY DEF SlotSizes, Ring, Slot
<1>k. buf[s] # Null => Sized(buf[s], s)
  BY DEF SlotSizes
<1>b. buf[s] # Null => IsBuffer(buf[s])
  BY DEF TypeInv, RingTypes, Ok
<1>1. CASE buf'[s] = buf[s]
  BY <1>1, <1>k
<1>2. CASE IntBufferNew
  <2>1. CASE s = Slot(packet)
    <3>1. /\ packet \in Packets /\ packet.packagetNum \in Nat \ {0}
          /\ buf'[s] = NewBuffer(packet.packagetNum, packet.InitSeq)
      BY <1>2, <2>1, NewEffect
    <3>2. PICK n : n = packet.packagetNum
      OBVIOUS
    <3>3. buf'[s].size = packet.packagetNum
      BY <3>1, <3>2, NewFields
    <3> QED
      BY <2>1, <3>1, <3>3
  <2> QED
    BY <1>1, <1>2, <2>1, NewEffect
<1>3. CASE Offer
  <2>1. CASE s = Slot(packet) /\ buf[s] # Null
    <3>1. PICK b, d : b = buf[s] /\ d = AppData(packet)
      OBVIOUS
    <3>2. IsBuffer(b) /\ d \in Chunks /\ buf'[s] = Insert(b, d)
      BY <1>3, <2>1, <3>1, OfferEffect
    <3>3. buf'[s].size = buf[s].size
      BY <3>1, <3>2, InsertKeeps
    <3> QED
      BY <2>1, <3>3, <1>k
  <2> QED
    BY <1>1, <1>3, <2>1, OfferEffect
<1>4. ASSUME NEW at \in {"poll", "block"}, TakeChunk(at) PROVE Sized(buf'[s], s)
  <2>1. CASE s = readbufIndex
    <3>1. PICK b : b = current
      OBVIOUS
    <3>2. IsBuffer(b) /\ PollResult(b) # Null /\ b = buf[s] /\ buf'[s] = Take(b)
      BY <1>4, <2>1, <3>1, ReaderEffect DEF TakeChunk, RStep, Reading
    <3>3. buf'[s].size = buf[s].size /\ buf[s] # Null
      BY <3>2, TakeFields, NullIsNoBuffer
    <3> QED
      BY <3>3, <1>k
  <2> QED
    BY <1>1, <1>4, <2>1, ReaderEffect
<1>5. CASE GiveUp
  <2>1. CASE s = readbufIndex
    <3>1. PICK b : b = current
      OBVIOUS
    <3>2. IsBuffer(b) /\ b = buf[s] /\ buf'[s] = Clear(b)
      BY <1>5, <2>1, <3>1, ReaderEffect DEF GiveUp, RStep, Reading
    <3>3. buf'[s].size = buf[s].size /\ buf[s] # Null
      BY <3>2, ClearFields, NullIsNoBuffer
    <3> QED
      BY <3>3, <1>k
  <2> QED
    BY <1>1, <1>5, <2>1, ReaderEffect
<1>6. CASE Release
  BY <1>1, <1>6, ReaderEffect
<1>7. CASE buf' = buf
  BY <1>1, <1>7
<1> QED
  BY <1>2, <1>3, <1>4, <1>5, <1>6, <1>7, RingSteps

LEMMA SlotsUnreadStep ==
    ASSUME TypeInv, OneReader, SlotsUnread, ReadingHolds, [Next]_vars
    PROVE  SlotsUnread'
<1> DEFINE Unread(b) == b.readPosition = 0 /\ b.highestReadSequenceNumber = -1
<1> SUFFICES ASSUME NEW s \in Ring, buf'[s] # Null, ~Held(s)' PROVE Unread(buf'[s])
  BY DEF SlotsUnread, Ring
<1>r. CASE Release
  <2>1. s # readbufIndex /\ buf'[s] = buf[s]
    BY <1>r, ReaderEffect
  <2>2. ~Held(s)
    BY <2>1 DEF Held
  <2> QED
    BY <2>1, <2>2 DEF SlotsUnread
<1>h. ASSUME ~Release PROVE ~Held(s)
  BY <1>h, HeldStays
<1>k. ASSUME ~Release, buf[s] # Null PROVE Unread(buf[s])
  BY <1>h, <1>k DEF SlotsUnread
<1>w. ASSUME reader \in Reading, ~Release PROVE s # readbufIndex
  BY <1>w, <1>h DEF Held, Holding, ReadingHolds, Reading
<1>1. CASE ~Release /\ buf'[s] = buf[s]
  BY <1>1, <1>k
<1>2. CASE IntBufferNew
  <2>0. ~Release
    BY <1>2 DEF IntBufferNew, LStep, Release, RStep
  <2>1. CASE s = Slot(packet)
    <3>1. PICK n, i : n = packet.packagetNum /\ i = packet.InitSeq
      OBVIOUS
    <3>2. n \in Nat \ {0} /\ buf'[s] = NewBuffer(n, i)
      BY <1>2, <2>1, <3>1, NewEffect
    <3> QED
      BY <3>2, NewFields
  <2> QED
    BY <1>1, <1>2, <2>0, <2>1, NewEffect
<1>3. CASE Offer
  <2>0. ~Release
    BY <1>3 DEF Offer, LStep, Release, RStep
  <2>1. CASE s = Slot(packet) /\ buf[s] # Null
    <3>1. PICK b, d : b = buf[s] /\ d = AppData(packet)
      OBVIOUS
    <3>2. IsBuffer(b) /\ d \in Chunks /\ buf'[s] = Insert(b, d)
      BY <1>3, <2>1, <3>1, OfferEffect
    <3>3. /\ buf'[s].readPosition = b.readPosition
          /\ buf'[s].highestReadSequenceNumber = b.highestReadSequenceNumber
      BY <3>2, InsertKeeps
    <3> QED
      BY <2>0, <2>1, <3>1, <3>3, <1>k
  <2> QED
    BY <1>1, <1>3, <2>0, <2>1, OfferEffect
<1>4. ASSUME NEW at \in {"poll", "block"}, TakeChunk(at) PROVE Unread(buf'[s])
  <2>0. ~Release /\ reader \in Reading
    BY <1>4 DEF TakeChunk, Release, RStep, Reading
  <2> QED
    BY <1>1, <1>4, <1>w, <2>0, ReaderEffect
<1>5. CASE GiveUp
  <2>0. ~Release /\ reader \in Reading
    BY <1>5 DEF GiveUp, Release, RStep, Reading
  <2> QED
    BY <1>1, <1>5, <1>w, <2>0, ReaderEffect
<1>6. CASE buf' = buf /\ ~Release
  BY <1>1, <1>6
<1> QED
  BY <1>r, <1>2, <1>3, <1>4, <1>5, <1>6, RingSteps

(* What arrived once is in one place at most.                              *)
LEMMA OnePlace ==
    ASSUME Inv, ArrivedOnce, NEW p \in DataPackets
    PROVE  LET c == AppData(p)
           IN  /\ delivered[c] \in Nat /\ InList(c) \in Nat
               /\ InRing(c) \in {0, 1} /\ InHand(p) \in {0, 1} /\ arrived[p] \in {0, 1}
               /\ delivered[c] + InList(c) + InRing(c) + InHand(p) <= arrived[p]
<1> DEFINE c == AppData(p)
<1>1. c \in Chunks /\ p \in Packets
  BY ChunkTypes
<1>2. Occurrences(list, c) \in Nat
  BY OccurrencesFinite DEF Inv, TypeInv, HandTypes
<1>3. delivered[c] \in Nat /\ arrived[p] \in {0, 1}
  BY <1>1 DEF Inv, TypeInv, CountTypes, ArrivedOnce
<1>4. delivered[c] + InList(c) + InRing(c) + InHand(p) <= arrived[p]
  BY DEF Inv, Conserved
<1> QED
  BY <1>2, <1>3, <1>4 DEF InList, InRing, InHand

LEMMA ListedCounts ==
    ASSUME TypeInv, NEW c \in Chunks
    PROVE  /\ Occurrences(list, c) \in Nat
           /\ Listed(c) <=> Occurrences(list, c) >= 1
<1>1. IsFiniteSet(Places(list, c)) /\ Occurrences(list, c) \in Nat
  BY OccurrencesFinite DEF TypeInv, HandTypes
<1>2. Occurrences(list, c) = 0 <=> Places(list, c) = {}
  BY <1>1, FS_EmptySet DEF Occurrences
<1>3. Listed(c) <=> Places(list, c) # {}
  BY DEF Listed, Places
<1> QED
  BY <1>1, <1>2, <1>3

(* The application keeps what it got. *)
LEMMA DeliveredGrows ==
    ASSUME TypeInv, [Next]_vars, NEW c \in Chunks
    PROVE  /\ delivered[c] \in Nat /\ delivered'[c] \in Nat
           /\ delivered'[c] >= delivered[c]
           /\ Post /\ Listed(c) => delivered'[c] > 0
<1>1. delivered[c] \in Nat /\ Occurrences(list, c) \in Nat
  BY ListedCounts DEF TypeInv, CountTypes
<1>2. CASE Post
  <2>1. delivered'[c] = delivered[c] + Occurrences(list, c)
    BY <1>2 DEF Post, Occurrences, Places
  <2> QED
    BY <1>1, <2>1, ListedCounts
<1>3. ASSUME ~Post PROVE delivered' = delivered
  BY <1>3, StepKinds DEF Aside, Reader, PickFound, PickSeesNull, PickSkips, PickNone, TakeChunk,
     FirstNull, BlockNull, ChunkTaken, GiveUp, Finish, GoRound, SendEndAck, Release, AskUnread,
     AskClient, ResetCount, MarkClosed, ShutPool, Loop, Recheck, Exit
<1> QED
  BY <1>1, <1>2, <1>3

-----------------------------------------------------------------------------
(* Which chunks the reader has behind it.                                  *)

(* Every chunk of the slot at a place the reader has passed is in its list. *)
Swept == reader \in Reading => \A c \in Chunks :
    /\ c.InitSequenceNumber % BufSize = readbufIndex
    /\ \/ c.sequenceNumber % current.size < current.readPosition
       \/ current.readPosition = 0 /\ current.highestReadSequenceNumber # -1
    => Listed(c)

LEMMA SlotOfChunk ==
    ASSUME NEW p \in DataPackets
    PROVE  /\ AppData(p) \in Chunks /\ Slot(p) \in Ring
           /\ AppData(p).InitSequenceNumber % BufSize = Slot(p)
           /\ AppData(p).sequenceNumber = p.PackagetID /\ p.PackagetID \in Nat
<1>1. p \in Packets
  BY DEF DataPackets
<1>2. p.PackagetID \in Nat
  BY <1>1, PacketsAssumption
<1> QED
  BY <1>1, <1>2, ChunkTypes DEF Slot, AppData

LEMMA PlaceOfChunk ==
    ASSUME MessagesApart, TypeInv, SlotSizes, NEW s \in Ring, buf[s] # Null,
           NEW c \in Chunks, NEW d \in Chunks,
           c.InitSequenceNumber % BufSize = s, d.InitSequenceNumber % BufSize = s,
           c.sequenceNumber % buf[s].size = d.sequenceNumber % buf[s].size
    PROVE  c = d
<1>1. PICK p \in DataPackets : c = AppData(p)
  BY DEF Chunks
<1>2. PICK q \in DataPackets : d = AppData(q)
  BY DEF Chunks
<1>3. Slot(p) = s /\ Slot(q) = s
  BY <1>1, <1>2, SlotOfChunk
<1>4. p.packagetNum = buf[s].size /\ q.packagetNum = buf[s].size
  BY <1>3, SizeOfMessage
<1>5. c.sequenceNumber = p.PackagetID /\ d.sequenceNumber = q.PackagetID
  BY <1>1, <1>2, SlotOfChunk
<1>6. p.InitSeq = q.InitSeq
  BY <1>1, <1>2, ChunkTypes, SlotOfMessage
<1>7. p = q
  BY <1>4, <1>5, <1>6 DEF MessagesApart
<1> QED
  BY <1>1, <1>2, <1>7

(* Taking a chunk lists it, and the list keeps what it had. *)
LEMMA TakeLists ==
    ASSUME TypeInv, NEW at \in {"poll", "block"}, TakeChunk(at)
    PROVE  /\ list' # <<>>
           /\ \A c : Listed(c)' <=> Listed(c) \/ c = PollResult(current)
<1>1. PollResult(current) \in Chunks /\ list \in Seq(Chunks)
  <2>1. Ok(current, readbufIndex)
    BY DEF TakeChunk, RStep, Reading, TypeInv, RingTypes
  <2>2. PollResult(current) # Null
    BY DEF TakeChunk
  <2>3. PollResult(current) \in Chunks
    BY <2>1, <2>2, TakeIsOk
  <2> QED
    BY <2>3 DEF TypeInv, HandTypes
<1>2. PICK d, n : d = PollResult(current) /\ n = Len(list)
  OBVIOUS
<1>3. list' = Append(list, d)
  BY <1>2 DEF TakeChunk
<1>4. list' \in Seq(Chunks) /\ Len(list') = n + 1 /\ n \in Nat
  BY <1>1, <1>2, <1>3, AppendProperties, LenProperties
<1>5. DOMAIN list = 1 .. n /\ DOMAIN list' = 1 .. n + 1
  BY <1>1, <1>2, <1>4, LenProperties
<1>6. list'[n + 1] = d /\ \A i \in 1 .. n : list'[i] = list[i]
  BY <1>1, <1>2, <1>3, AppendProperties
<1>7. \A i \in 1 .. n + 1 : i = n + 1 \/ i \in 1 .. n
  BY <1>4
<1>8. n + 1 \in 1 .. n + 1 /\ \A i \in 1 .. n : i \in 1 .. n + 1
  BY <1>4
<1>9. \A c : Listed(c)' <=> Listed(c) \/ c = d
  BY <1>5, <1>6, <1>7, <1>8 DEF Listed
<1>10. list' # <<>>
  BY <1>4, EmptySeq
<1> QED
  BY <1>2, <1>9, <1>10

(* The listener changes neither size nor place of the buffer being read.   *)
LEMMA AsideKeeps ==
    ASSUME TypeInv, OneReader, Aside, [Next]_vars, reader \in Reading
    PROVE  /\ current'.size = current.size /\ current'.readPosition = current.readPosition
           /\ current'.highestReadSequenceNumber = current.highestReadSequenceNumber
<1>b. readbufIndex \in Ring /\ current = buf[readbufIndex]
  BY ReaderEffect
<1>1. reader' = reader /\ readbufIndex' = readbufIndex
  BY DEF Aside, StartReader, LStep, OneReader, Reading, local
<1>2. current' = buf'[readbufIndex]
  BY <1>1 DEF current
<1>3. IsBuffer(current) /\ current # Null
  BY ReaderEffect, NullIsNoBuffer
<1>4. CASE IntBufferNew
  <2>1. buf'[readbufIndex] = buf[readbufIndex]
    BY <1>b, <1>3, <1>4, NewEffect
  <2> QED
    BY <1>b, <1>2, <2>1
<1>5. CASE Offer
  <2>1. PICK b, d : b = current /\ d = AppData(packet)
    OBVIOUS
  <2>2. IsBuffer(b) /\ d \in Chunks
    BY <1>3, <1>5, <2>1, OfferEffect
  <2>3. current' \in {b, Insert(b, d)}
    BY <1>b, <1>2, <1>5, <2>1, OfferEffect
  <2>4. /\ Insert(b, d).size = b.size /\ Insert(b, d).readPosition = b.readPosition
        /\ Insert(b, d).highestReadSequenceNumber = b.highestReadSequenceNumber
    BY <2>2, InsertFields
  <2> QED
    BY <2>1, <2>3, <2>4
<1>6. CASE buf' = buf
  BY <1>b, <1>2, <1>6
<1>7. ~GiveUp /\ ~Release /\ \A at \in {"poll", "block"} : ~TakeChunk(at)
  BY <1>1 DEF GiveUp, Release, TakeChunk, RStep
<1> QED
  BY <1>4, <1>5, <1>6, <1>7, RingSteps

LEMMA SweptStep ==
    ASSUME MessagesApart, TypeInv, OneReader, SlotInv, Swept, [Next]_vars
    PROVE  Swept'
<1> USE DEF SlotInv
<1> SUFFICES ASSUME reader' \in Reading, NEW c \in Chunks,
                    c.InitSequenceNumber % BufSize = readbufIndex',
                    \/ c.sequenceNumber % current'.size < current'.readPosition
                    \/ current'.readPosition = 0 /\ current'.highestReadSequenceNumber # -1
             PROVE  Listed(c)'
  BY DEF Swept, Chunks, DataPackets, AppData, Reading
<1>a. /\ c.sequenceNumber \in Nat
      /\ \A n \in Nat \ {0} : c.sequenceNumber % n \in 0 .. n - 1
  BY ChunkTypes, DivMod
<1>b. readbufIndex \in Ring /\ current = buf[readbufIndex]
  BY ReaderEffect
(* The reader was reading already, and its buffer keeps these fields. *)
<1>k. ASSUME reader \in Reading, readbufIndex' = readbufIndex, list' = list,
             current'.size = current.size, current'.readPosition = current.readPosition,
             current'.highestReadSequenceNumber = current.highestReadSequenceNumber
      PROVE  Listed(c)'
  BY <1>k DEF Swept, Listed
<1>1. CASE Aside
  <2>1. reader' = reader /\ readbufIndex' = readbufIndex /\ list' = list
    BY <1>1 DEF Aside, StartReader, LStep, OneReader, Reading, local
  <2> QED
    BY <1>1, <1>k, <2>1, AsideKeeps
<1>2. CASE PickFound
  <2>1. /\ buf' = buf /\ readbufIndex' = readbufIndex /\ ~Held(readbufIndex)
        /\ current # Null
    BY <1>2 DEF PickFound, RStep, Held, Holding
  <2>2. /\ current' = current /\ current.readPosition = 0
        /\ current.highestReadSequenceNumber = -1
    BY <1>b, <2>1 DEF SlotsUnread, current
  <2>3. current.size \in Nat \ {0}
    BY <1>b, <2>1, BufferFields DEF TypeInv, RingTypes, Ok
  <2>4. c.sequenceNumber % current.size \in 0 .. current.size - 1
    BY <1>a, <2>3
  <2> QED
    BY <2>2, <2>3, <2>4
<1>3. ASSUME NEW at \in {"poll", "block"}, TakeChunk(at) PROVE Listed(c)'
  <2>1. PICK b, d : b = current /\ d = PollResult(current)
    OBVIOUS
  <2>2. /\ IsBuffer(b) /\ AtPlace(b, readbufIndex) /\ d # Null /\ b # Null
        /\ reader \in Reading /\ readbufIndex' = readbufIndex
    BY <1>3, <2>1, ReaderEffect, NullIsNoBuffer DEF TakeChunk, RStep, Reading
  <2>3. current' = Take(b)
    BY <1>3, <1>b, <2>1, <2>2, ReaderEffect DEF current
  <2>4. /\ Take(b).size = b.size /\ Take(b).readPosition = NextPosition(b)
        /\ b.buffer[b.readPosition] = d /\ d \in Chunks
    BY <2>1, <2>2, TakeFields
  <2>5. b.size \in Nat \ {0} /\ b.readPosition \in 0 .. b.size - 1 /\ b.readPosition \in DOMAIN b.buffer
    BY <2>2, BufferFields
  <2>6. d.InitSequenceNumber % BufSize = readbufIndex /\ d.sequenceNumber % b.size = b.readPosition
    BY <2>2, <2>4, <2>5 DEF AtPlace
  <2>7. c.sequenceNumber % b.size \in 0 .. b.size - 1
    BY <1>a, <2>5
  <2>8. c.sequenceNumber % b.size <= b.readPosition
    <3>1. CASE b.readPosition + 1 = b.size
      BY <2>5, <2>7, <3>1
    <3>2. CASE b.readPosition + 1 # b.size
      <4>1. NextPosition(b) = b.readPosition + 1
        BY <3>2 DEF NextPosition
      <4> QED
        BY <2>3, <2>4, <2>5, <2>7, <4>1
    <3> QED
      BY <3>1, <3>2
  <2>9. CASE c.sequenceNumber % b.size < b.readPosition
    BY <1>3, <2>1, <2>2, <2>9, TakeLists DEF Swept
  <2>10. CASE c.sequenceNumber % b.size = b.readPosition
    <3>1. c = d
      BY <1>b, <2>1, <2>2, <2>4, <2>6, <2>10, PlaceOfChunk
    <3> QED
      BY <1>3, <2>1, <3>1, TakeLists
  <2> QED
    BY <2>5, <2>7, <2>8, <2>9, <2>10
<1>4. CASE FirstNull \/ BlockNull \/ ChunkTaken \/ GoRound
  <2>1. reader \in Reading /\ buf' = buf /\ readbufIndex' = readbufIndex /\ list' = list
    BY <1>4 DEF FirstNull, BlockNull, ChunkTaken, GoRound, RStep, Reading, shared, local
  <2> QED
    BY <1>k, <2>1 DEF current
<1>5. ASSUME Reader, ~PickFound, ~(FirstNull \/ BlockNull \/ ChunkTaken \/ GoRound),
             \A at \in {"poll", "block"} : ~TakeChunk(at)
      PROVE  FALSE
  BY <1>5 DEF Reader, RStep, PickSeesNull, PickSkips, PickNone, GiveUp, Finish, Post, SendEndAck,
     Release, AskUnread, AskClient, ResetCount, MarkClosed, ShutPool, Loop, Recheck, Exit, Reading
<1> QED
  BY <1>1, <1>2, <1>3, <1>4, <1>5, StepKinds

-----------------------------------------------------------------------------
(* Before the reader took its first chunk.                                 *)

(* Nothing was ever read: then a reader at work has a buffer to find, so   *)
(* its first pass takes a chunk.                                           *)
NoneRead ==
    /\ lastInitSeq = -1 /\ readNull = 0
    /\ reader \in {"none", "pick", "skip", "poll", "after"}
    /\ \A s \in Ring : buf[s] # Null => buf[s].highestReadSequenceNumber = -1
    /\ bufNum \in Nat
    /\ reader \in {"pick", "skip"} => bufNum # 0
    /\ reader = "none" /\ (listener = "start" \/ (listener # "count" /\ \E s \in Ring : buf[s] # Null))
         => bufNum # 0

LEMMA NoneReadStep ==
    ASSUME TypeInv, OneReader, NoneRead, [Next]_vars
    PROVE  NoneRead' \/ TakeChunk("poll")
<1> SUFFICES ASSUME ~TakeChunk("poll") PROVE NoneRead'
  OBVIOUS
<1>0. ~TakeChunk("block") /\ ~Release /\ ~GiveUp
  BY MaxReadNullAssumption DEF NoneRead, TakeChunk, Release, GiveUp, RStep
(* The numbers read stay as they are. *)
<1>1. \A s \in Ring : buf'[s] # Null => buf'[s].highestReadSequenceNumber = -1
  <2> SUFFICES ASSUME NEW s \in Ring, buf'[s] # Null
               PROVE  buf'[s].highestReadSequenceNumber = -1
    OBVIOUS
  <2>k. buf'[s] = buf[s] => buf'[s].highestReadSequenceNumber = -1
    BY DEF NoneRead
  <2>1. CASE IntBufferNew
    <3>1. CASE s = Slot(packet)
      <4>1. PICK n, i : n = packet.packagetNum /\ i = packet.InitSeq
        OBVIOUS
      <4>2. n \in Nat \ {0} /\ buf'[s] = NewBuffer(n, i)
        BY <2>1, <3>1, <4>1, NewEffect
      <4> QED
        BY <4>2, NewFields
    <3> QED
      BY <2>1, <2>k, <3>1, NewEffect
  <2>2. CASE Offer
    <3>1. CASE s = Slot(packet) /\ buf[s] # Null
      <4>1. PICK b, d : b = buf[s] /\ d = AppData(packet)
        OBVIOUS
      <4>2. IsBuffer(b) /\ d \in Chunks /\ buf'[s] = Insert(b, d)
        BY <2>2, <3>1, <4>1, OfferEffect
      <4>3. buf'[s].highestReadSequenceNumber = b.highestReadSequenceNumber
        BY <4>2, InsertFields
      <4> QED
        BY <3>1, <4>1, <4>3 DEF NoneRead
    <3> QED
      BY <2>2, <2>k, <3>1, OfferEffect
  <2>3. CASE buf' = buf
    BY <2>3, <2>k
  <2> QED
    BY <1>0, <2>1, <2>2, <2>3, RingSteps
<1>2. ASSUME NEW p \in Packets, Arrive(p) PROVE NoneRead'
  BY <1>1, <1>2 DEF Arrive, shared, local, NoneRead
<1>3. CASE Listener
  <2>1. /\ lastInitSeq' = lastInitSeq /\ readNull' = readNull
        /\ reader' = reader \/ StartReader
    BY <1>3, StepKinds DEF Reader, Aside, local, Listener, LStep, IntBufferSkip, IntBufferFound,
       IntBufferNew, IntBufferCount, ReaderRuns, StartReader, StartRejected, DropClosed, TakeAck,
       TakeData, SetDataNull, SetDataFull, SetDataRoom, Offer
  <2>2. CASE StartReader
    BY <1>1, <2>1, <2>2 DEF StartReader, LStep, OneReader, NoneRead
  <2>3. CASE IntBufferCount
    BY <1>1, <2>1, <2>3 DEF IntBufferCount, LStep, NoneRead, StartReader
  <2>4. CASE IntBufferNew
    BY <1>1, <2>1, <2>4 DEF IntBufferNew, LStep, NoneRead, StartReader
  <2>5. CASE IntBufferFound
    <3>1. packet \in Packets /\ Slot(packet) \in Ring
      BY <2>5, ChunkTypes DEF IntBufferFound, LStep, TypeInv, HandTypes, Handling
    <3> QED
      BY <1>1, <2>1, <2>5, <3>1 DEF IntBufferFound, LStep, NoneRead, StartReader, shared
  <2>6. CASE Offer
    <3>1. \A s \in Ring : buf'[s] # Null => buf[s] # Null
      BY <2>6, OfferEffect
    <3> QED
      BY <1>1, <2>1, <2>6, <3>1 DEF Offer, LStep, NoneRead, StartReader
  <2>7. ASSUME ~StartReader, ~IntBufferCount, ~IntBufferNew, ~IntBufferFound, ~Offer
        PROVE  /\ buf' = buf /\ bufNum' = bufNum
               /\ listener' # "start" /\ listener # "count"
    BY <1>3, <2>7 DEF Listener, LStep, IntBufferSkip, ReaderRuns, StartRejected, DropClosed,
       TakeAck, TakeData, SetDataNull, SetDataFull, SetDataRoom, shared
  <2> QED
    BY <1>1, <2>1, <2>2, <2>3, <2>4, <2>5, <2>6, <2>7 DEF NoneRead
<1>4. CASE Reader
  <2>1. CASE PickFound \/ PickSeesNull \/ PickSkips \/ FirstNull \/ GoRound
    BY <1>1, <2>1 DEF PickFound, PickSeesNull, PickSkips, FirstNull, GoRound, RStep, NoneRead,
       shared, local
  <2>2. ~PickNone
    BY DEF PickNone, RStep, NoneRead
  <2>3. ~Finish
    <3>1. reader = "after" => current # Null /\ readbufIndex \in Ring /\ current = buf[readbufIndex]
      BY ReaderEffect, NullIsNoBuffer DEF Reading
    <3> QED
      BY <3>1 DEF Finish, RStep, NoneRead, IsEmpty
  <2> QED
    BY <1>0, <1>4, <2>1, <2>2, <2>3 DEF Reader, BlockNull, ChunkTaken, Post, SendEndAck, AskUnread,
       AskClient, ResetCount, MarkClosed, ShutPool, Loop, Recheck, Exit, RStep, NoneRead
<1>5. ASSUME UNCHANGED vars PROVE NoneRead'
  BY <1>1, <1>5 DEF vars, shared, local, NoneRead
<1> QED
  BY <1>2, <1>3, <1>4, <1>5 DEF Next

-----------------------------------------------------------------------------
(* What an end acknowledgement leaves behind.                              *)

(* The last place of a buffer is the one it does not wait for: it calls    *)
(* itself empty as soon as the places before it were read.                 *)
Early(p) == p.packagetNum = 1 \/ p.PackagetID % p.packagetNum < p.packagetNum - 1
DoneAt(s) == \A p \in DataPackets :
    Slot(p) = s /\ Early(p) => delivered[AppData(p)] > 0
ListedAt(s) == \A p \in DataPackets : Slot(p) = s /\ Early(p) => Listed(AppData(p))

(* No chunk will be read of slot s any more: because the session is closed *)
(* and nothing that is on its way can reach the slot, or because the chunk *)
(* at the place the reader looks at was handed over before.                *)
Blank(b) == \A i \in DOMAIN b.buffer : b.buffer[i] = Null
ClosedAt(s) ==
    /\ isClose
    /\ listener \in {"set", "offer"} /\ Slot(packet) = s => buf[s] = Null
    /\ buf[s] # Null => Blank(buf[s])
OverAt(s) == DoneAt(s) /\ (buf[s] # Null => buf[s].readPosition = 0)
Retired(s) == ClosedAt(s) \/ OverAt(s)

AckedInv ==
    /\ acked \subseteq Nat /\ readInitSeq \in Nat
    /\ lastInitSeq = -1 \/ lastInitSeq \in acked
AckedPast == \A m \in acked :
    \/ Retired(m % BufSize)
    \/ reader = "release" /\ readbufIndex = m % BufSize /\ (isClose \/ DoneAt(readbufIndex))

(* The number the reader acknowledges next: none yet, one acknowledged     *)
(* before, or that of the message it is reading, which was never.          *)
Pending ==
    /\ readInitSeq \notin acked /\ readInitSeq % BufSize = readbufIndex
    /\ \/ reader \in Reading /\ list # <<>>
       \/ reader = "post" /\ (isClose \/ ListedAt(readbufIndex))
       \/ reader = "ack" /\ (isClose \/ DoneAt(readbufIndex))
NextAck == NoneRead \/ (readInitSeq = lastInitSeq /\ readInitSeq \in acked) \/ Pending

EndInv == AckedInv /\ AckedPast /\ NextAck
ApartInv == Inv /\ OneReader /\ ArrivedOnce /\ SlotInv /\ Swept /\ CountsKept

LEMMA DoneStays ==
    ASSUME TypeInv, [Next]_vars, NEW s, DoneAt(s)
    PROVE  DoneAt(s)'
<1> SUFFICES ASSUME NEW p \in DataPackets, Slot(p) = s, Early(p) PROVE delivered'[AppData(p)] > 0
  BY DEF DoneAt
<1>1. PICK c \in Chunks : c = AppData(p)
  BY SlotOfChunk
<1>2. delivered[c] > 0
  BY <1>1 DEF DoneAt
<1>3. delivered[c] \in Nat /\ delivered'[c] \in Nat /\ delivered'[c] >= delivered[c]
  BY DeliveredGrows
<1> QED
  BY <1>1, <1>2, <1>3

(* Of a retired slot nothing is read. *)
LEMMA RetiredUnread ==
    ASSUME MessagesApart, ApartInv, reader \in Reading, Retired(readbufIndex)
    PROVE  PollResult(current) = Null
<1>1. PICK b, d : b = current /\ d = PollResult(current)
  OBVIOUS
<1>2. SUFFICES ASSUME d # Null PROVE FALSE
  BY <1>1
<1>3. /\ IsBuffer(b) /\ AtPlace(b, readbufIndex) /\ readbufIndex \in Ring
      /\ b = buf[readbufIndex] /\ b # Null
  BY <1>1, ReaderEffect, NullIsNoBuffer DEF ApartInv, Inv
<1>4. /\ b.buffer[b.readPosition] = d /\ d \in Chunks
      /\ b.readPosition \in DOMAIN b.buffer /\ b.size \in Nat \ {0}
  BY <1>1, <1>2, <1>3, TakeFields, BufferFields
<1>5. CASE ClosedAt(readbufIndex)
  BY <1>2, <1>3, <1>4, <1>5 DEF ClosedAt, Blank
<1>6. CASE OverAt(readbufIndex)
  <2>1. b.readPosition = 0
    BY <1>3, <1>6 DEF OverAt
  <2>2. d.InitSequenceNumber % BufSize = readbufIndex /\ d.sequenceNumber % b.size = 0
    BY <1>2, <1>3, <1>4, <2>1 DEF AtPlace
  <2>3. PICK p \in DataPackets : d = AppData(p)
    BY <1>4 DEF Chunks
  <2>4. Slot(p) = readbufIndex /\ p.PackagetID = d.sequenceNumber
    BY <2>2, <2>3, SlotOfChunk
  <2>5. p.packagetNum = b.size
    BY <1>3, <2>4, SizeOfMessage DEF ApartInv, Inv, SlotInv
  <2>6. Early(p)
    BY <1>4, <2>2, <2>4, <2>5 DEF Early
  <2>7. delivered[d] > 0
    BY <1>6, <2>3, <2>4, <2>6 DEF OverAt, DoneAt
  <2>8. InRing(d) = 1
    BY <1>3, <1>4, <2>2 DEF InRing, Holds
  <2>9. /\ delivered[d] \in Nat /\ InList(d) \in Nat /\ InHand(p) \in {0, 1} /\ arrived[p] \in {0, 1}
        /\ delivered[d] + InList(d) + InRing(d) + InHand(p) <= arrived[p]
    BY <2>3, OnePlace DEF ApartInv
  <2> QED
    BY <2>7, <2>8, <2>9
<1> QED
  BY <1>5, <1>6 DEF Retired

LEMMA RetiredStays ==
    ASSUME MessagesApart, ApartInv, [Next]_vars, NEW s \in Ring, Retired(s)
    PROVE  Retired(s)'
<1>0. TypeInv /\ OneReader
  BY DEF ApartInv, Inv
<1>t. ASSUME NEW at \in {"poll", "block"}, TakeChunk(at) PROVE s # readbufIndex
  <2>1. reader \in Reading /\ PollResult(current) # Null
    BY <1>t DEF TakeChunk, RStep, Reading
  <2> QED
    BY <2>1, RetiredUnread
<1>1. CASE OverAt(s)
  <2>1. DoneAt(s)'
    BY <1>0, <1>1, DoneStays DEF OverAt
  <2> SUFFICES ASSUME buf'[s] # Null PROVE buf'[s].readPosition = 0
    BY <2>1 DEF Retired, OverAt
  <2>k. buf'[s] = buf[s] => buf'[s].readPosition = 0
    BY <1>1 DEF OverAt
  <2>2. CASE IntBufferNew
    <3>1. CASE s = Slot(packet)
      <4>1. PICK n, i : n = packet.packagetNum /\ i = packet.InitSeq
        OBVIOUS
      <4>2. n \in Nat \ {0} /\ buf'[s] = NewBuffer(n, i)
        BY <1>0, <2>2, <3>1, <4>1, NewEffect
      <4> QED
        BY <4>2, NewFields
    <3> QED
      BY <1>0, <2>2, <2>k, <3>1, NewEffect
  <2>3. CASE Offer
    <3>1. CASE s = Slot(packet) /\ buf[s] # Null
      <4>1. PICK b, d : b = buf[s] /\ d = AppData(packet)
        OBVIOUS
      <4>2. IsBuffer(b) /\ d \in Chunks /\ buf'[s] = Insert(b, d)
        BY <1>0, <2>3, <3>1, <4>1, OfferEffect
      <4>3. buf'[s].readPosition = b.readPosition
        BY <4>2, InsertKeeps
      <4> QED
        BY <1>1, <3>1, <4>1, <4>3 DEF OverAt
    <3> QED
      BY <1>0, <2>3, <2>k, <3>1, OfferEffect
  <2>4. CASE GiveUp
    <3>1. CASE s = readbufIndex
      <4>1. PICK b : b = current
        OBVIOUS
      <4>2. IsBuffer(b) /\ b = buf[s] /\ buf'[s] = Clear(b) /\ b # Null
        BY <1>0, <2>4, <3>1, <4>1, ReaderEffect, NullIsNoBuffer DEF GiveUp, RStep, Reading
      <4>3. buf'[s].readPosition = b.readPosition
        BY <4>2, ClearFields
      <4> QED
        BY <1>1, <4>2, <4>3 DEF OverAt
    <3> QED
      BY <1>0, <2>4, <2>k, <3>1, ReaderEffect
  <2>5. ASSUME NEW at \in {"poll", "block"}, TakeChunk(at) PROVE buf'[s] = buf[s]
    BY <1>0, <1>t, <2>5, ReaderEffect
  <2>6. CASE Release
    BY <1>0, <2>6, <2>k, ReaderEffect
  <2> QED
    BY <2>k, <2>2, <2>3, <2>4, <2>5, <2>6, RingSteps
<1>2. CASE ClosedAt(s)
  <2>1. isClose'
    <3>1. isClose' = isClose \/ isClose' = TRUE
      BY DEF Next, vars, shared, Arrive, Listener, IntBufferSkip, IntBufferFound, IntBufferNew,
         IntBufferCount, ReaderRuns, StartReader, StartRejected, DropClosed, TakeAck, TakeData,
         SetDataNull, SetDataFull, SetDataRoom, Offer, Reader, PickFound, PickSeesNull, PickSkips,
         PickNone, TakeChunk, FirstNull, BlockNull, ChunkTaken, GiveUp, Finish, GoRound, Post,
         SendEndAck, Release, AskUnread, AskClient, ResetCount, MarkClosed, ShutPool, Loop,
         Recheck, Exit
    <3> QED
      BY <1>2, <3>1 DEF ClosedAt
  <2>2. ~TakeData
    BY <1>2 DEF TakeData, ClosedAt
  <2>3. listener' \in {"set", "offer"} => listener \in {"set", "offer"} /\ packet' = packet
    BY <2>2 DEF Next, vars, Arrive, Listener, LStep, IntBufferSkip, IntBufferFound, IntBufferNew,
       IntBufferCount, ReaderRuns, StartReader, StartRejected, DropClosed, TakeAck,
       SetDataNull, SetDataFull, SetDataRoom, Offer, Reader, RStep, PickFound, PickSeesNull,
       PickSkips, PickNone, TakeChunk, FirstNull, BlockNull, ChunkTaken, GiveUp, Finish, GoRound,
       Post, SendEndAck, Release, AskUnread, AskClient, ResetCount, MarkClosed, ShutPool, Loop,
       Recheck, Exit
  <2>4. CASE IntBufferNew
    <3>1. listener' = "count"
      BY <2>4 DEF IntBufferNew, LStep
    <3>2. CASE s = Slot(packet)
      <4>1. PICK n, i : n = packet.packagetNum /\ i = packet.InitSeq
        OBVIOUS
      <4>2. n \in Nat \ {0} /\ buf'[s] = NewBuffer(n, i)
        BY <1>0, <2>4, <3>2, <4>1, NewEffect
      <4>3. Blank(buf'[s])
        BY <4>2, NewFields DEF Blank
      <4> QED
        BY <2>1, <3>1, <4>3 DEF Retired, ClosedAt
    <3>3. CASE s # Slot(packet)
      <4>1. buf'[s] = buf[s]
        BY <1>0, <2>4, <3>3, NewEffect
      <4> QED
        BY <1>2, <2>1, <3>1, <4>1 DEF Retired, ClosedAt
    <3> QED
      BY <3>2, <3>3
  <2>5. CASE buf'[s] = buf[s]
    BY <1>2, <2>1, <2>3, <2>5 DEF Retired, ClosedAt
  <2>6. CASE Offer
    <3>1. listener = "offer" /\ buf'[s] = buf[s]
      BY <1>0, <1>2, <2>6, OfferEffect DEF Offer, LStep, ClosedAt
    <3> QED
      BY <2>5, <3>1
  <2>7. CASE GiveUp
    <3>1. CASE s = readbufIndex
      <4>1. PICK b : b = current
        OBVIOUS
      <4>2. /\ IsBuffer(b) /\ b = buf[s] /\ buf'[s] = Clear(b) /\ b # Null
            /\ listener' = listener /\ packet' = packet
        BY <1>0, <2>7, <3>1, <4>1, ReaderEffect, NullIsNoBuffer DEF GiveUp, RStep, Reading
      <4>3. /\ DOMAIN Clear(b).buffer = 0 .. b.size - 1
            /\ \A j \in 0 .. b.size - 1 : Clear(b).buffer[j] = Null
        BY <4>2, ClearFields
      <4>4. Blank(buf'[s])
        BY <4>2, <4>3 DEF Blank
      <4> QED
        BY <1>2, <2>1, <4>2, <4>4 DEF Retired, ClosedAt
    <3>2. CASE s # readbufIndex
      <4>1. buf'[s] = buf[s]
        BY <1>0, <2>7, <3>2, ReaderEffect
      <4> QED
        BY <2>5, <4>1
    <3> QED
      BY <3>1, <3>2
  <2>8. ASSUME NEW at \in {"poll", "block"}, TakeChunk(at) PROVE buf'[s] = buf[s]
    BY <1>0, <1>t, <2>8, ReaderEffect
  <2>9. CASE Release
    <3>1. buf'[s] = Null \/ buf'[s] = buf[s]
      BY <1>0, <2>9, ReaderEffect
    <3> QED
      BY <2>1, <2>5, <3>1 DEF Retired, ClosedAt
  <2> QED
    BY <2>4, <2>5, <2>6, <2>7, <2>8, <2>9, RingSteps
<1> QED
  BY <1>1, <1>2 DEF Retired

(* Which steps change what the reader knows of acknowledgements. *)
LEMMA AckChanges ==
    ASSUME [Next]_vars
    PROVE  /\ (acked' = acked /\ lastInitSeq' = lastInitSeq) \/ SendEndAck
           /\ readInitSeq' = readInitSeq \/ TakeChunk("poll") \/ TakeChunk("block")
           /\ isClose' = isClose \/ isClose' = TRUE
<1>1. CASE Reader
  BY <1>1 DEF Reader, RStep, PickFound, PickSeesNull, PickSkips, PickNone, TakeChunk, FirstNull,
     BlockNull, ChunkTaken, GiveUp, Finish, GoRound, Post, SendEndAck, Release, AskUnread,
     AskClient, ResetCount, MarkClosed, ShutPool, Loop, Recheck, Exit, shared, local
<1>2. ASSUME ~Reader PROVE isClose' = isClose
  BY <1>2 DEF Next, vars, shared, Arrive, Listener, IntBufferSkip, IntBufferFound, IntBufferNew,
     IntBufferCount, ReaderRuns, StartReader, StartRejected, DropClosed, TakeAck, TakeData,
     SetDataNull, SetDataFull, SetDataRoom, Offer
<1>3. CASE Aside
  BY <1>1, <1>2, <1>3 DEF Aside, local
<1> QED
  BY <1>1, <1>3, StepKinds

LEMMA AckedStep ==
    ASSUME TypeInv, AckedInv, [Next]_vars
    PROVE  AckedInv'
<1>1. ASSUME NEW at \in {"poll", "block"}, TakeChunk(at) PROVE readInitSeq' \in Nat
  <2>1. Ok(current, readbufIndex) /\ PollResult(current) # Null
    BY <1>1 DEF TakeChunk, RStep, Reading, TypeInv, RingTypes
  <2>2. PollResult(current) \in Chunks
    BY <2>1, TakeIsOk
  <2> QED
    BY <1>1, <2>2, ChunkTypes DEF TakeChunk
<1>2. readInitSeq' \in Nat
  BY <1>1, AckChanges DEF AckedInv
<1>3. acked' \subseteq Nat /\ (lastInitSeq' = -1 \/ lastInitSeq' \in acked')
  BY AckChanges DEF AckedInv, SendEndAck
<1> QED
  BY <1>2, <1>3 DEF AckedInv

LEMMA AckedPastStep ==
    ASSUME MessagesApart, ApartInv, EndInv, [Next]_vars
    PROVE  AckedPast'
<1>0. TypeInv /\ OneReader /\ readbufIndex \in Ring /\ BufSize \in Nat \ {0}
  BY BufSizeAssumption DEF ApartInv, Inv, TypeInv, RingTypes
<1> SUFFICES ASSUME NEW m \in acked'
             PROVE  \/ Retired(m % BufSize)'
                    \/ /\ reader' = "release" /\ readbufIndex' = m % BufSize
                       /\ isClose' \/ DoneAt(m % BufSize)'
  BY DEF AckedPast, DoneAt
<1>1. ASSUME m \notin acked
      PROVE  /\ reader' = "release" /\ readbufIndex' = m % BufSize
             /\ isClose' \/ DoneAt(m % BufSize)'
  <2>1. SendEndAck /\ m = readInitSeq /\ lastInitSeq # readInitSeq
    BY <1>1, AckChanges DEF SendEndAck
  <2>2. Pending /\ reader = "ack"
    BY <2>1 DEF EndInv, NextAck, NoneRead, SendEndAck, RStep
  <2>3. m % BufSize = readbufIndex /\ (isClose \/ DoneAt(m % BufSize))
    BY <2>1, <2>2 DEF Pending, Reading
  <2>4. reader' = "release" /\ readbufIndex' = readbufIndex /\ isClose' = isClose
    BY <2>1 DEF SendEndAck, RStep, shared
  <2> QED
    BY <1>0, <2>3, <2>4, DoneStays
<1>2. ASSUME m \in acked, Retired(m % BufSize) PROVE Retired(m % BufSize)'
  <2>1. m % BufSize \in Ring
    <3>1. m \in Nat
      BY <1>2 DEF EndInv, AckedInv
    <3> QED
      BY <1>0, <3>1, DivMod DEF Ring
  <2> QED
    BY <1>2, <2>1, RetiredStays
<1>3. ASSUME m \in acked, reader = "release", readbufIndex = m % BufSize,
             isClose \/ DoneAt(readbufIndex)
      PROVE  \/ Retired(m % BufSize)'
             \/ /\ reader' = "release" /\ readbufIndex' = m % BufSize
                /\ isClose' \/ DoneAt(m % BufSize)'
  <2>1. PICK s \in Ring : s = m % BufSize
    BY <1>0, <1>3
  <2>2. isClose' \/ DoneAt(s)'
    <3>1. CASE isClose
      BY <3>1, AckChanges
    <3>2. CASE DoneAt(s)
      BY <1>0, <3>2, DoneStays
    <3> QED
      BY <1>3, <2>1, <3>1, <3>2
  <2>3. CASE Release
    <3>1. buf'[s] = Null
      BY <1>0, <1>3, <2>1, <2>3, ReaderEffect
    <3> QED
      BY <2>1, <2>2, <3>1 DEF Retired, ClosedAt, OverAt
  <2>4. CASE Aside
    <3>1. reader' = reader /\ readbufIndex' = readbufIndex
      BY <1>0, <1>3, <2>4 DEF Aside, StartReader, LStep, OneReader, local
    <3> QED
      BY <1>3, <2>1, <2>2, <3>1
  <2>5. Reader => Release
    BY <1>3 DEF Reader, RStep, PickFound, PickSeesNull, PickSkips, PickNone, TakeChunk, FirstNull,
       BlockNull, ChunkTaken, GiveUp, Finish, GoRound, Post, SendEndAck, AskUnread, AskClient,
       ResetCount, MarkClosed, ShutPool,
       Loop, Recheck, Exit
  <2> QED
    BY <2>3, <2>4, <2>5, StepKinds
<1> QED
  BY <1>1, <1>2, <1>3 DEF EndInv, AckedPast

(* A buffer that calls itself empty has given out what it waits for. *)
LEMMA EmptyIsListed ==
    ASSUME MessagesApart, ApartInv, reader \in Reading, IsEmpty(current)
    PROVE  ListedAt(readbufIndex)
<1> SUFFICES ASSUME NEW p \in DataPackets, Slot(p) = readbufIndex, Early(p)
             PROVE  Listed(AppData(p))
  BY DEF ListedAt
<1>1. PICK c \in Chunks : /\ c = AppData(p) /\ c.sequenceNumber = p.PackagetID
                          /\ c.InitSequenceNumber % BufSize = readbufIndex
  BY SlotOfChunk
<1>2. IsBuffer(current) /\ current # Null /\ current = buf[readbufIndex] /\ readbufIndex \in Ring
  BY ReaderEffect, NullIsNoBuffer DEF ApartInv, Inv
<1>3. current.size = p.packagetNum
  BY <1>2, SizeOfMessage DEF ApartInv, Inv, SlotInv
<1>4. current.readPosition \in Int /\ current.size \in Nat \ {0}
  BY <1>2, BufferFields
<1>5. current.readPosition = current.size - 1 /\ current.highestReadSequenceNumber # -1
  BY <1>4 DEF IsEmpty
<1>6. CASE p.packagetNum = 1
  BY <1>1, <1>3, <1>5, <1>6 DEF ApartInv, Swept
<1>7. CASE p.PackagetID % p.packagetNum < p.packagetNum - 1
  BY <1>1, <1>3, <1>5, <1>7 DEF ApartInv, Swept
<1> QED
  BY <1>6, <1>7 DEF Early

LEMMA NextAckStep ==
    ASSUME MessagesApart, ApartInv, EndInv, [Next]_vars
    PROVE  NextAck'
<1>0. TypeInv /\ OneReader /\ readbufIndex \in Ring
  BY DEF ApartInv, Inv, TypeInv, RingTypes
<1>1. ASSUME NEW at \in {"poll", "block"}, TakeChunk(at) PROVE NextAck'
  <2>1. PICK d : d = PollResult(current)
    OBVIOUS
  <2>2. reader \in Reading /\ d # Null /\ Ok(current, readbufIndex)
    BY <1>1, <2>1 DEF TakeChunk, RStep, Reading, TypeInv, ApartInv, Inv, RingTypes
  <2>3. d.InitSequenceNumber % BufSize = readbufIndex
    BY <2>1, <2>2, TakeIsOk
  <2>4. d.InitSequenceNumber \notin acked
    <3> SUFFICES ASSUME d.InitSequenceNumber \in acked PROVE FALSE
      OBVIOUS
    <3>1. Retired(readbufIndex)
      BY <2>2, <2>3 DEF EndInv, AckedPast, Reading
    <3> QED
      BY <2>1, <2>2, <3>1, RetiredUnread
  <2>5. /\ readInitSeq' = d.InitSequenceNumber /\ readbufIndex' = readbufIndex
        /\ reader' = "taken" /\ acked' = acked
    BY <1>1, <2>1 DEF TakeChunk, RStep
  <2>6. list' # <<>>
    BY <1>0, <1>1, TakeLists
  <2> QED
    BY <2>3, <2>4, <2>5, <2>6 DEF NextAck, Pending, Reading
<1>2. CASE NoneRead
  BY <1>0, <1>1, <1>2, NoneReadStep DEF NextAck
<1>3. ASSUME readInitSeq = lastInitSeq, readInitSeq \in acked,
             ~TakeChunk("poll"), ~TakeChunk("block")
      PROVE  NextAck'
  <2>1. readInitSeq' = readInitSeq
    BY <1>3, AckChanges
  <2>2. lastInitSeq' = readInitSeq /\ acked \subseteq acked'
    BY <1>3, AckChanges DEF SendEndAck
  <2>3. readInitSeq' = lastInitSeq' /\ readInitSeq' \in acked'
    BY <1>3, <2>1, <2>2
  <2> QED
    BY <2>3 DEF NextAck
<1>4. ASSUME Pending, ~TakeChunk("poll"), ~TakeChunk("block") PROVE NextAck'
  <2>0. readInitSeq' = readInitSeq
    BY <1>4, AckChanges
  <2>s. PICK s : s = readbufIndex
    OBVIOUS
  <2>d. DoneAt(s) => DoneAt(s)'
    BY <1>0, DoneStays
  <2>c. isClose => isClose'
    BY AckChanges
  <2>1. CASE Aside
    <3>1. /\ reader' = reader /\ readbufIndex' = readbufIndex /\ list' = list /\ acked' = acked
      BY <1>0, <1>4, <2>1 DEF Aside, StartReader, LStep, OneReader, local, Pending, Reading
    <3>2. ListedAt(s)' <=> ListedAt(s)
      BY <3>1 DEF ListedAt, Listed
    <3> QED
      BY <1>4, <2>0, <2>s, <2>d, <2>c, <3>1, <3>2 DEF NextAck, Pending
  <2>2. CASE FirstNull \/ BlockNull \/ ChunkTaken \/ GoRound
    BY <1>4, <2>0, <2>2 DEF FirstNull, BlockNull, ChunkTaken, GoRound, RStep, Reading, shared,
       local, NextAck, Pending
  <2>3. CASE GiveUp
    BY <1>4, <2>0, <2>3 DEF GiveUp, RStep, Reading, NextAck, Pending
  <2>4. CASE Finish
    <3>1. /\ reader = "after" /\ reader' = "post" /\ readbufIndex' = readbufIndex
          /\ list' = list /\ acked' = acked /\ IsEmpty(current)
      BY <2>4 DEF Finish, RStep, local
    <3>2. ListedAt(s)
      BY <2>s, <3>1, EmptyIsListed DEF Reading
    <3>3. ListedAt(s)'
      BY <3>1, <3>2 DEF ListedAt, Listed
    <3> QED
      BY <1>4, <2>0, <2>s, <3>1, <3>3 DEF NextAck, Pending
  <2>5. CASE Post
    <3>1. /\ reader = "post" /\ reader' = "ack" /\ readbufIndex' = readbufIndex
          /\ isClose' = isClose /\ acked' = acked
      BY <2>5 DEF Post, RStep, local, shared
    <3>2. ListedAt(s) => DoneAt(s)'
      <4> SUFFICES ASSUME ListedAt(s), NEW p \in DataPackets, Slot(p) = s, Early(p)
                   PROVE  delivered'[AppData(p)] > 0
        BY DEF DoneAt
      <4>1. PICK c \in Chunks : c = AppData(p)
        BY SlotOfChunk
      <4>2. Listed(c)
        BY <4>1 DEF ListedAt
      <4> QED
        BY <1>0, <2>5, <4>1, <4>2, DeliveredGrows
    <3> QED
      BY <1>4, <2>0, <2>s, <3>1, <3>2 DEF NextAck, Pending, Reading
  <2>6. CASE SendEndAck
    <3>1. /\ lastInitSeq' = readInitSeq
          /\ acked' = IF lastInitSeq # readInitSeq THEN acked \cup {readInitSeq} ELSE acked
      BY <2>6 DEF SendEndAck
    <3>2. readInitSeq # -1 /\ readInitSeq \notin acked
      BY <1>4 DEF Pending, EndInv, AckedInv
    <3>3. lastInitSeq # readInitSeq
      BY <3>2 DEF EndInv, AckedInv
    <3> QED
      BY <2>0, <3>1, <3>3 DEF NextAck
  <2>7. Reader => \/ FirstNull \/ BlockNull \/ ChunkTaken \/ GoRound
                  \/ GiveUp \/ Finish \/ Post \/ SendEndAck
    BY <1>4 DEF Reader, RStep, PickFound, PickSeesNull, PickSkips, PickNone, Release, AskUnread,
       AskClient, ResetCount, MarkClosed, ShutPool, Loop, Recheck, Exit, Pending, Reading
  <2> QED
    BY <2>1, <2>2, <2>3, <2>4, <2>5, <2>6, <2>7, StepKinds
<1> QED
  BY <1>1, <1>2, <1>3, <1>4 DEF EndInv, NextAck

LEMMA ApartStep ==
    ASSUME MessagesApart, ApartInv, [Next]_vars
    PROVE  ApartInv'
<1>1. Inv'
  BY RingStep, HandStep, CountStep, ConservedStep DEF ApartInv, Inv, TypeInv
<1>2. OneReader' /\ ArrivedOnce' /\ CountsKept'
  BY OneReaderStep, ArrivedStep, CountsStep DEF ApartInv, Inv, MessagesApart
<1>3. SlotInv'
  BY SlotSizesStep, SlotsUnreadStep, ReadingHoldsStep DEF ApartInv, Inv, SlotInv
<1>4. Swept'
  BY SweptStep DEF ApartInv, Inv
<1> QED
  BY <1>1, <1>2, <1>3, <1>4 DEF ApartInv

LEMMA ApartInit == Init => ApartInv /\ EndInv
<1> SUFFICES ASSUME Init PROVE ApartInv /\ EndInv
  OBVIOUS
<1>1. Inv /\ OneReader /\ ArrivedOnce
  BY InvInit DEF Init, OneReader, ArrivedOnce
<1>2. \A s \in Ring : buf[s] = Null
  BY DEF Init, Ring
<1>3. SlotInv /\ CountsKept
  BY <1>2 DEF Init, SlotInv, SlotSizes, SlotsUnread, ReadingHolds, CountsKept, Reading
<1>4. Swept
  BY DEF Init, Swept, Reading
<1>5. EndInv
  BY <1>2 DEF Init, EndInv, AckedInv, AckedPast, NextAck, NoneRead
<1> QED
  BY <1>1, <1>3, <1>4, <1>5 DEF ApartInv

LEMMA InRingHere ==
    ASSUME NEW p \in DataPackets
    PROVE  /\ InRing(AppData(p)) = 1 <=>
                /\ buf[Slot(p)] # Null
                /\ \E i \in DOMAIN buf[Slot(p)].buffer : buf[Slot(p)].buffer[i] = AppData(p)
           /\ InRing(AppData(p))' = 1 <=>
                /\ buf'[Slot(p)] # Null
                /\ \E i \in DOMAIN buf'[Slot(p)].buffer : buf'[Slot(p)].buffer[i] = AppData(p)
<1>1. AppData(p).InitSequenceNumber % BufSize = Slot(p)
  BY SlotOfChunk
<1> QED
  BY <1>1 DEF InRing, Holds

(* Where a chunk lies in the buffer of its message. *)
LEMMA PlaceInBuffer ==
    ASSUME MessagesApart, TypeInv, SlotSizes, NEW p \in DataPackets, buf[Slot(p)] # Null
    PROVE  AppData(p).sequenceNumber % buf[Slot(p)].size = p.PackagetID % p.packagetNum
  BY SizeOfMessage, SlotOfChunk

(* The reader has as many chunks in its list as places behind it, and what  *)
(* it has listed is in the order of the places.                             *)
Abreast == reader \in Reading =>
    \/ Len(list) < current.size /\ current.readPosition = Len(list)
    \/ Len(list) = current.size /\ current.readPosition = 0
InPlace(d, i) == \A p \in DataPackets : d = AppData(p) => p.PackagetID % p.packagetNum = i - 1
Placed == reader \in Collecting => \A i \in DOMAIN list : InPlace(list[i], i)
ListInv == ListAtSlot /\ Abreast /\ Placed

(* A chunk that is taken goes to its place: a full list has the chunk of    *)
(* the first place already, and what is listed is not in the ring.          *)
LEMMA TakenInPlace ==
    ASSUME MessagesApart, ApartInv, ListInv, NEW at \in {"poll", "block"}, TakeChunk(at)
    PROVE  /\ Len(list) < current.size /\ current.readPosition = Len(list)
           /\ InPlace(PollResult(current), Len(list) + 1)
<1>0. /\ TypeInv /\ Inv /\ ArrivedOnce /\ SlotSizes /\ readbufIndex \in Ring
      /\ current = buf[readbufIndex] /\ reader \in Reading /\ reader \in Collecting
  BY ReaderEffect DEF ApartInv, Inv, SlotInv, TakeChunk, RStep, Reading, Collecting
<1>1. PICK b, d, n : b = current /\ d = PollResult(current) /\ n = Len(list)
  OBVIOUS
<1>2. IsBuffer(b) /\ AtPlace(b, readbufIndex) /\ d # Null /\ b # Null
  BY <1>0, <1>1, ReaderEffect, NullIsNoBuffer DEF TakeChunk
<1>3. b.buffer[b.readPosition] = d /\ d \in Chunks
  BY <1>1, <1>2, TakeFields
<1>4. b.size \in Nat \ {0} /\ b.readPosition \in DOMAIN b.buffer
  BY <1>2, BufferFields
<1>5. d.InitSequenceNumber % BufSize = readbufIndex /\ d.sequenceNumber % b.size = b.readPosition
  BY <1>2, <1>3, <1>4 DEF AtPlace
<1>6. list \in Seq(Chunks) /\ n \in Nat /\ DOMAIN list = 1 .. n
  BY <1>0, <1>1, LenProperties DEF TypeInv, HandTypes
<1>7. n < b.size /\ b.readPosition = n
  <2> SUFFICES ASSUME n = b.size, b.readPosition = 0 PROVE FALSE
    BY <1>0, <1>1 DEF ListInv, Abreast
  <2>1. 1 \in DOMAIN list /\ list[1] \in Chunks
    BY <1>4, <1>6
  <2>2. PICK q \in DataPackets : list[1] = AppData(q)
    BY <2>1 DEF Chunks
  <2>3. q.PackagetID % q.packagetNum = 0
    BY <1>0, <2>1, <2>2 DEF ListInv, Placed, InPlace
  <2>4. Slot(q) = readbufIndex /\ AppData(q).InitSequenceNumber % BufSize = readbufIndex
    BY <1>0, <2>1, <2>2, SlotOfChunk DEF ListInv, ListAtSlot
  <2>5. AppData(q).sequenceNumber % b.size = 0
    BY <1>0, <1>1, <1>2, <2>3, <2>4, PlaceInBuffer
  <2>6. AppData(q) = d
    BY <1>0, <1>1, <1>2, <1>3, <1>5, <2>4, <2>5, PlaceOfChunk, SlotOfChunk
  <2>7. InRing(AppData(q)) = 1
    BY <1>0, <1>1, <1>2, <1>3, <1>4, <2>4, <2>6, InRingHere
  <2>8. InList(AppData(q)) >= 1
    BY <1>0, <2>1, <2>2, ListedCounts, SlotOfChunk DEF Listed, InList
  <2> QED
    BY <1>0, <2>7, <2>8, OnePlace
<1>8. ASSUME NEW p \in DataPackets, d = AppData(p) PROVE p.PackagetID % p.packagetNum = n
  <2>1. Slot(p) = readbufIndex
    BY <1>5, <1>8, SlotOfChunk
  <2> QED
    BY <1>0, <1>1, <1>2, <1>5, <1>7, <1>8, <2>1, PlaceInBuffer
<1> QED
  BY <1>1, <1>6, <1>7, <1>8 DEF InPlace

LEMMA ListInvStep ==
    ASSUME MessagesApart, ApartInv, ListInv, [Next]_vars
    PROVE  ListInv'
<1>0. /\ TypeInv /\ OneReader /\ SlotsUnread /\ readbufIndex \in Ring
      /\ current = buf[readbufIndex] /\ list \in Seq(Chunks)
  BY ReaderEffect DEF ApartInv, Inv, SlotInv, TypeInv, HandTypes
<1>1. ListAtSlot'
  BY <1>0, ListAtSlotStep DEF ListInv
<1>2. ASSUME NEW at \in {"poll", "block"}, TakeChunk(at) PROVE Abreast' /\ Placed'
  <2>1. PICK b, d, n : b = current /\ d = PollResult(current) /\ n = Len(list)
    OBVIOUS
  <2>2. n < b.size /\ b.readPosition = n /\ InPlace(d, n + 1)
    BY <1>2, <2>1, TakenInPlace
  <2>3. /\ IsBuffer(b) /\ d # Null /\ reader \in Collecting
        /\ readbufIndex' = readbufIndex /\ list' = Append(list, d)
    BY <1>2, <2>1, ReaderEffect, <1>0 DEF TakeChunk, RStep, Reading, Collecting
  <2>4. current' = Take(b)
    BY <1>0, <1>2, <2>1, <2>3, ReaderEffect DEF current
  <2>5. /\ Take(b).size = b.size /\ Take(b).readPosition = NextPosition(b) /\ d \in Chunks
        /\ b.size \in Nat \ {0}
    BY <2>1, <2>3, TakeFields, BufferFields
  <2>6. list' \in Seq(Chunks) /\ Len(list') = n + 1 /\ n \in Nat
    BY <1>0, <2>1, <2>3, <2>5, AppendProperties, LenProperties
  <2>7. DOMAIN list = 1 .. n /\ DOMAIN list' = 1 .. n + 1
    BY <1>0, <2>1, <2>6, LenProperties
  <2>8. list'[n + 1] = d /\ \A i \in 1 .. n : list'[i] = list[i]
    BY <1>0, <2>1, <2>3, <2>5, AppendProperties
  <2>9. \A i \in 1 .. n + 1 : i = n + 1 \/ i \in 1 .. n
    BY <2>6
  <2>10. \A i \in 1 .. n + 1 : InPlace(list'[i], i)
    BY <2>2, <2>3, <2>7, <2>8, <2>9 DEF ListInv, Placed
  <2>11. Placed'
    BY <2>7, <2>10 DEF Placed, InPlace, DataPackets, AppData
  <2>12. Abreast'
    BY <2>2, <2>4, <2>5, <2>6 DEF Abreast, NextPosition
  <2> QED
    BY <2>11, <2>12
(* The reader's list is as it was, and its buffer keeps size and place.     *)
<1>k. ASSUME reader' \in Collecting => reader \in Collecting, list' = list
      PROVE  Placed'
  BY <1>k DEF ListInv, Placed, InPlace, DataPackets, AppData
<1>a. ASSUME reader' \in Reading => reader \in Reading, list' = list,
             reader \in Reading => /\ current'.size = current.size
                                   /\ current'.readPosition = current.readPosition
      PROVE  Abreast'
  BY <1>a DEF ListInv, Abreast
<1>3. ASSUME Aside PROVE Abreast' /\ Placed'
  <2>1. reader' = reader \/ (reader = "none" /\ reader' = "pick")
    BY <1>0, <1>3 DEF Aside, StartReader, LStep, OneReader
  <2>2. readbufIndex' = readbufIndex /\ list' = list
    BY <1>3 DEF Aside, local
  <2>3. ASSUME reader \in Reading
        PROVE  current'.size = current.size /\ current'.readPosition = current.readPosition
    BY <1>0, <1>3, <2>2, <2>3, AsideKeeps
  <2>4. (reader' \in Collecting => reader \in Collecting) /\ (reader' \in Reading => reader \in Reading)
    BY <2>1 DEF Collecting, Reading
  <2> QED
    BY <1>k, <1>a, <2>2, <2>3, <2>4
<1>4. ASSUME PickFound PROVE Abreast' /\ Placed'
  <2>1. /\ buf' = buf /\ readbufIndex' = readbufIndex /\ ~Held(readbufIndex)
        /\ current # Null /\ list' = <<>>
    BY <1>4 DEF PickFound, RStep, Held, Holding
  <2>2. current' = current /\ current.readPosition = 0
    BY <1>0, <2>1 DEF SlotsUnread, current
  <2>3. current.size \in Nat \ {0}
    BY <1>0, <2>1, BufferFields DEF TypeInv, RingTypes, Ok
  <2>4. Len(list') = 0 /\ DOMAIN list' = {}
    BY <2>1
  <2> QED
    BY <2>2, <2>3, <2>4 DEF Abreast, Placed
<1>5. ASSUME GiveUp \/ PickNone PROVE Abreast' /\ Placed'
  <2>1. list' = <<>> /\ reader' = "post"
    BY <1>5 DEF GiveUp, PickNone, RStep
  <2>2. DOMAIN list' = {} /\ reader' \notin Reading
    BY <2>1 DEF Reading
  <2> QED
    BY <2>2 DEF Abreast, Placed
<1>6. ASSUME FirstNull \/ BlockNull \/ ChunkTaken \/ GoRound \/ Finish
      PROVE  Abreast' /\ Placed'
  <2>1. reader \in Reading /\ buf' = buf /\ readbufIndex' = readbufIndex /\ list' = list
    BY <1>6 DEF FirstNull, BlockNull, ChunkTaken, GoRound, Finish, RStep, Reading, shared, local
  <2> QED
    BY <1>k, <1>a, <2>1 DEF current, Collecting
<1>7. ASSUME Reader, ~PickFound, ~GiveUp, ~PickNone, \A at \in {"poll", "block"} : ~TakeChunk(at),
             ~(FirstNull \/ BlockNull \/ ChunkTaken \/ GoRound \/ Finish)
      PROVE  reader' \notin Collecting
  BY <1>7 DEF Reader, RStep, PickSeesNull, PickSkips, Post, SendEndAck, Release, AskUnread,
     AskClient, ResetCount, MarkClosed, ShutPool, Loop, Recheck, Exit, Reading, Collecting
<1>8. ASSUME reader' \notin Collecting PROVE Abreast' /\ Placed'
  BY <1>8 DEF Abreast, Placed, Collecting
<1> QED
  BY <1>1, <1>2, <1>3, <1>4, <1>5, <1>6, <1>7, <1>8, StepKinds DEF ListInv

(* With messages apart, a posted result is of one message, begins with the  *)
(* chunk of its buffer's first place and skips none, whatever the two       *)
(* threads, the retries and the releases under the listener do.             *)
THEOREM ResultsAreCoherent ==
    ASSUME MessagesApart
    PROVE  Spec => []ResultsCoherent
<1> DEFINE IInv == ApartInv /\ ListInv /\ ResultsCoherent
<1>1. Init => IInv
  BY ApartInit DEF Init, ListInv, ListAtSlot, Abreast, Placed, ResultsCoherent, Collecting, Reading
<1>2. IInv /\ [Next]_vars => IInv'
  <2> SUFFICES ASSUME IInv, [Next]_vars PROVE IInv'
    OBVIOUS
  <2>1. ApartInv' /\ ListInv'
    BY ApartStep, ListInvStep
  <2>2. CASE results' = results
    BY <2>1, <2>2 DEF ResultsCoherent, DataPackets, AppData
  <2>3. CASE Post /\ results' # results
    <3>1. results' = results \cup {list} /\ reader \in Collecting
      BY <2>3 DEF Post, RStep, Collecting
    <3>2. \A i \in DOMAIN list : list[i] \in Chunks
      BY DEF ApartInv, Inv, TypeInv, HandTypes
    <3>3. \A i, j \in DOMAIN list : list[i].InitSequenceNumber = list[j].InitSequenceNumber
      BY <3>1, <3>2, SlotOfMessage DEF ListInv, ListAtSlot
    <3>4. \A i \in DOMAIN list : InPlace(list[i], i)
      BY <3>1 DEF ListInv, Placed
    <3> QED
      BY <2>1, <3>1, <3>3, <3>4 DEF ResultsCoherent, InPlace, DataPackets, AppData
  <2>4. results' = results \/ Post
    BY StepKinds DEF Aside, Reader, PickFound, PickSeesNull, PickSkips, PickNone, TakeChunk,
       FirstNull, BlockNull, ChunkTaken, GiveUp, Finish, GoRound, SendEndAck, Release, AskUnread,
       AskClient, ResetCount, MarkClosed, ShutPool, Loop, Recheck, Exit
  <2> QED
    BY <2>1, <2>2, <2>3, <2>4
<1>3. IInv => ResultsCoherent
  OBVIOUS
<1> QED
  BY <1>1, <1>2, <1>3, PTL DEF Spec

(* With messages apart, the sender is told once that a message is finished: *)
(* whether the reader gave the message up, called it finished with its last *)
(* chunk still on the way, or passed over an empty slot in between, no later *)
(* pass reads a chunk of it and acknowledges it anew.                       *)
THEOREM EndIsAcknowledgedOnce ==
    ASSUME MessagesApart
    PROVE  Spec => EndAckOnce
<1> DEFINE IInv == ApartInv /\ EndInv
<1>1. Init => IInv
  BY ApartInit
<1>2. IInv /\ [Next]_vars => IInv'
  BY ApartStep, AckedStep, AckedPastStep, NextAckStep DEF EndInv, ApartInv, Inv
<1>3. IInv => (reader = "ack" /\ lastInitSeq # readInitSeq => readInitSeq \notin acked)
  BY DEF EndInv, NextAck, NoneRead, Pending
<1> QED
  BY <1>1, <1>2, <1>3, PTL DEF Spec, EndAckOnce

-----------------------------------------------------------------------------
(* A message of one packet.                                                *)

Single(p) == p.packagetNum = 1

(* Until its chunk is stored the buffer counts nothing; then it counts one. *)
SingleAwaited == \A p \in DataPackets :
    Single(p) /\ (arrived[p] = 0 \/ InHand(p) = 1) /\ buf[Slot(p)] # Null
      => buf[Slot(p)].numValidChunks = -1
SingleStored == \A p \in DataPackets :
    Single(p) /\ InRing(AppData(p)) = 1 => buf[Slot(p)].numValidChunks = 1
(* Once its chunk is taken, the buffer is empty and the message is posted. *)
AboutToPost(p) ==
    /\ reader \in {"taken", "after", "post"} /\ readNull = 0
    /\ Listed(AppData(p)) /\ readbufIndex = Slot(p)
    /\ reader # "post" => IsEmpty(current)
SingleRead == \A p \in DataPackets :
    Single(p) /\ readInitSeq = p.InitSeq
      => NoneRead \/ delivered[AppData(p)] > 0 \/ AboutToPost(p)
SingleInv == SingleAwaited /\ SingleStored /\ SingleRead

LEMMA SameSingle ==
    ASSUME MessagesApart, NEW p \in DataPackets, Single(p),
           NEW q \in DataPackets, Slot(q) = Slot(p)
    PROVE  q = p
<1>1. p \in Packets /\ q \in Packets /\ p.PackagetID \in Nat /\ q.PackagetID \in Nat
  BY ChunkTypes, SlotOfChunk
<1>2. p.packagetNum # -1 /\ q.packagetNum # -1
  BY DEF MessagesApart
<1>3. q.InitSeq = p.InitSeq /\ q.packagetNum = p.packagetNum
  BY <1>1, <1>2 DEF MessagesApart
<1>4. PICK one : one = 1
  OBVIOUS
<1>5. p.PackagetID % one \in 0 .. one - 1 /\ q.PackagetID % one \in 0 .. one - 1
  BY <1>1, <1>4, DivMod
<1>6. p.PackagetID % one = q.PackagetID % one
  BY <1>4, <1>5
<1> QED
  BY <1>3, <1>4, <1>6 DEF MessagesApart, Single

LEMMA HandChanges ==
    ASSUME TypeInv, [Next]_vars, NEW p \in Packets
    PROVE  /\ arrived'[p] = 0 => arrived[p] = 0
           /\ InHand(p)' = 1 => InHand(p) = 1 \/ Arrive(p)
           /\ Offer => InHand(p)' = 0
<1>1. ASSUME NEW q \in Packets, Arrive(q)
      PROVE  /\ arrived'[p] = 0 => arrived[p] = 0
             /\ InHand(p)' = 1 => Arrive(p)
             /\ ~Offer
  <2>1. arrived \in [Packets -> Nat]
    BY DEF TypeInv, CountTypes
  <2>2. arrived' = [arrived EXCEPT ![q] = @ + 1] /\ packet' = q
    BY <1>1 DEF Arrive
  <2>3. arrived'[p] = 0 => arrived[p] = 0
    BY <2>1, <2>2
  <2>4. InHand(p)' = 1 => packet' = p
    BY DEF InHand
  <2>5. ~Offer
    BY <1>1 DEF Arrive, Offer, LStep
  <2> QED
    BY <1>1, <2>2, <2>3, <2>4, <2>5
<1>2. CASE Listener
  <2>1. arrived' = arrived /\ packet' = packet /\ listener \in Handling
    BY <1>2 DEF Listener, LStep, IntBufferSkip, IntBufferFound, IntBufferNew, IntBufferCount,
       ReaderRuns, StartReader, StartRejected, DropClosed, TakeAck, TakeData, SetDataNull,
       SetDataFull, SetDataRoom, Offer, Handling
  <2>2. Offer => listener' = "idle"
    BY DEF Offer, LStep
  <2> QED
    BY <2>1, <2>2 DEF InHand, Handling
<1>3. CASE Reader
  BY <1>3 DEF Reader, RStep, PickFound, PickSeesNull, PickSkips, PickNone, TakeChunk, FirstNull,
     BlockNull, ChunkTaken, GiveUp, Finish, GoRound, Post, SendEndAck, Release, AskUnread,
     AskClient, ResetCount, MarkClosed, ShutPool, Loop, Recheck, Exit, Offer, LStep, InHand, Handling
<1>4. ASSUME UNCHANGED vars
      PROVE  arrived' = arrived /\ InHand(p)' = InHand(p) /\ ~Offer
  BY <1>4 DEF vars, history, Offer, LStep, InHand
<1> QED
  BY <1>1, <1>2, <1>3, <1>4 DEF Next

LEMMA SingleSlotStep ==
    ASSUME MessagesApart, ApartInv, SingleAwaited, SingleStored, [Next]_vars
    PROVE  SingleAwaited' /\ SingleStored'
<1>0. TypeInv /\ OneReader /\ CountsKept /\ SlotSizes
  BY DEF ApartInv, Inv, SlotInv
<1> SUFFICES ASSUME NEW p \in DataPackets, Single(p), buf'[Slot(p)] # Null
             PROVE  /\ arrived'[p] = 0 \/ InHand(p)' = 1
                         => buf'[Slot(p)].numValidChunks = -1
                    /\ InRing(AppData(p))' = 1 => buf'[Slot(p)].numValidChunks = 1
  BY InRingHere DEF SingleAwaited, SingleStored, Single, Slot
<1> DEFINE s == Slot(p)
           c == AppData(p)
<1>1. /\ delivered[c] \in Nat /\ InList(c) \in Nat /\ InRing(c) \in {0, 1}
      /\ InHand(p) \in {0, 1} /\ arrived[p] \in {0, 1}
      /\ delivered[c] + InList(c) + InRing(c) + InHand(p) <= arrived[p]
  BY OnePlace DEF ApartInv
<1>2. arrived'[p] = 0 \/ InHand(p)' = 1 => arrived[p] = 0 \/ InHand(p) = 1
  <2>1. Arrive(p) => arrived[p] = 0
    BY <1>1 DEF Arrive, MessagesApart
  <2> QED
    BY <1>0, <2>1, HandChanges, ChunkTypes
<1>3. s \in Ring /\ c \in Chunks /\ c.sequenceNumber = p.PackagetID /\ p.PackagetID \in Nat
  BY SlotOfChunk
<1>4. buf[s] # Null => IsBuffer(buf[s]) /\ buf[s].size = 1
  <2>1. buf[s] # Null => IsBuffer(buf[s])
    BY <1>0, <1>3 DEF TypeInv, RingTypes, Ok
  <2>2. buf[s] # Null => buf[s].size = p.packagetNum
    BY <1>0, SizeOfMessage
  <2> QED
    BY <2>1, <2>2 DEF Single
<1>5. CASE buf'[s] = buf[s]
  <2>1. InRing(c)' = 1 => InRing(c) = 1
    BY <1>5, InRingHere
  <2> QED
    BY <1>2, <1>5, <2>1 DEF SingleAwaited, SingleStored
<1>6. CASE IntBufferNew
  <2>1. CASE s = Slot(packet)
    <3>1. PICK n, i : n = packet.packagetNum /\ i = packet.InitSeq
      OBVIOUS
    <3>2. n \in Nat \ {0} /\ buf'[s] = NewBuffer(n, i)
      BY <1>0, <1>6, <2>1, <3>1, NewEffect
    <3>3. /\ buf'[s].numValidChunks = -1
          /\ DOMAIN buf'[s].buffer = 0 .. n - 1 /\ \A j \in 0 .. n - 1 : buf'[s].buffer[j] = Null
      BY <3>2, NewFields
    <3>4. InRing(c)' # 1
      BY <1>3, <3>3, InRingHere, ChunkTypes
    <3> QED
      BY <3>3, <3>4
  <2> QED
    BY <1>0, <1>3, <1>5, <1>6, <2>1, NewEffect
<1>7. CASE Offer
  <2>1. CASE s = Slot(packet) /\ buf[s] # Null
    <3>1. packet = p
      BY <1>0, <1>7, <2>1, OfferEffect, SameSingle
    <3>2. InHand(p) = 1 /\ InHand(p)' = 0
      BY <1>0, <1>7, <3>1, HandChanges, ChunkTypes DEF Offer, LStep, InHand, Handling
    <3>3. buf[s].numValidChunks = -1
      BY <2>1, <3>2 DEF SingleAwaited
    <3>4. PICK b, d : b = buf[s] /\ d = AppData(packet)
      OBVIOUS
    <3>5. IsBuffer(b) /\ d \in Chunks /\ buf'[s] = Insert(b, d)
      BY <1>0, <1>7, <2>1, <3>4, OfferEffect
    <3>6. Insert(b, d).numValidChunks = (IF b.numValidChunks < 0 THEN 0 ELSE b.numValidChunks) + 1
      BY <3>5, InsertFields
    <3>7. arrived'[p] # 0
      BY <1>0, <1>1, <3>2, HandChanges, ChunkTypes
    <3>8. buf'[s].numValidChunks = 1
      BY <3>3, <3>4, <3>5, <3>6
    <3> QED
      BY <3>2, <3>7, <3>8
  <2> QED
    BY <1>0, <1>3, <1>5, <1>7, <2>1, OfferEffect
<1>8. ASSUME NEW at \in {"poll", "block"}, TakeChunk(at)
      PROVE  /\ arrived'[p] = 0 \/ InHand(p)' = 1 => buf'[s].numValidChunks = -1
             /\ InRing(c)' = 1 => buf'[s].numValidChunks = 1
  <2>1. CASE s = readbufIndex
    <3>1. PICK b, d : b = current /\ d = PollResult(current)
      OBVIOUS
    <3>2. /\ IsBuffer(b) /\ d # Null /\ b = buf[s] /\ buf'[s] = Take(b) /\ b.size = 1 /\ b # Null
          /\ Ok(b, s)
      BY <1>0, <1>4, <1>8, <2>1, <3>1, ReaderEffect, NullIsNoBuffer
         DEF TakeChunk, RStep, Reading, Ok
    <3>3. /\ Take(b).buffer = [b.buffer EXCEPT ![b.readPosition] = Null]
          /\ b.buffer[b.readPosition] = d /\ d \in Chunks
      BY <3>1, <3>2, TakeFields
    <3>4. b.readPosition \in DOMAIN b.buffer /\ DOMAIN b.buffer = 0 .. 0 /\ b.readPosition = 0
      BY <3>2, BufferFields
    <3>5. d = c
      <4>1. PICK q \in DataPackets : d = AppData(q)
        BY <3>3 DEF Chunks
      <4>2. d.InitSequenceNumber % BufSize = s
        BY <3>1, <3>2, TakeIsOk
      <4> QED
        BY <4>1, <4>2, SlotOfChunk, SameSingle
    <3>6. InRing(c) = 1
      BY <3>2, <3>3, <3>4, <3>5, InRingHere
    <3>7. InRing(c)' # 1
      BY <1>3, <3>2, <3>3, <3>4, InRingHere, ChunkTypes
    <3> QED
      BY <1>1, <1>2, <3>6, <3>7
  <2> QED
    BY <1>0, <1>3, <1>5, <1>8, <2>1, ReaderEffect
<1>9. CASE GiveUp
  <2>1. CASE s = readbufIndex
    <3>1. PICK b : b = current
      OBVIOUS
    <3>2. IsBuffer(b) /\ b = buf[s] /\ buf'[s] = Clear(b) /\ b # Null
      BY <1>0, <1>9, <2>1, <3>1, ReaderEffect, NullIsNoBuffer DEF GiveUp, RStep, Reading
    <3>3. /\ Clear(b).numValidChunks = b.numValidChunks
          /\ DOMAIN Clear(b).buffer = 0 .. b.size - 1
          /\ \A j \in 0 .. b.size - 1 : Clear(b).buffer[j] = Null
      BY <3>2, ClearFields
    <3>4. InRing(c)' # 1
      BY <1>3, <3>2, <3>3, InRingHere, ChunkTypes
    <3> QED
      BY <1>2, <3>2, <3>3, <3>4 DEF SingleAwaited
  <2> QED
    BY <1>0, <1>3, <1>5, <1>9, <2>1, ReaderEffect
<1>10. CASE Release
  BY <1>0, <1>3, <1>5, <1>10, ReaderEffect
<1>11. CASE buf' = buf
  BY <1>5, <1>11
<1> QED
  BY <1>6, <1>7, <1>8, <1>9, <1>10, <1>11, RingSteps

(* Taking the chunk of a one-packet message leaves its buffer empty. *)
LEMMA TakeSingle ==
    ASSUME MessagesApart, ApartInv, SingleStored, NEW p \in DataPackets, Single(p),
           Slot(p) = readbufIndex, NEW at \in {"poll", "block"}, TakeChunk(at)
    PROVE  /\ PollResult(current) = AppData(p) /\ InRing(AppData(p)) = 1
           /\ IsEmpty(current)' /\ current' # Null
<1>0. TypeInv /\ readbufIndex \in Ring /\ current = buf[readbufIndex]
  BY ReaderEffect DEF ApartInv, Inv
<1>1. PICK b, d : b = current /\ d = PollResult(current)
  OBVIOUS
<1>2. /\ IsBuffer(b) /\ d # Null /\ b = buf[readbufIndex] /\ b # Null /\ Ok(b, readbufIndex)
      /\ readbufIndex' = readbufIndex
  BY <1>0, <1>1, ReaderEffect, NullIsNoBuffer DEF TakeChunk, RStep, Reading, Ok
<1>3. d \in Chunks /\ d.InitSequenceNumber % BufSize = readbufIndex
      /\ \E i \in DOMAIN b.buffer : b.buffer[i] = d
  BY <1>1, <1>2, TakeIsOk
<1>4. PICK q \in DataPackets : d = AppData(q)
  BY <1>3 DEF Chunks
<1>5. Slot(q) = readbufIndex
  BY <1>3, <1>4, SlotOfChunk
<1>6. d = AppData(p)
  BY <1>4, <1>5, SameSingle
<1>7. InRing(d) = 1
  BY <1>2, <1>3, <1>6, InRingHere
<1>8. b.numValidChunks = 1 /\ b.size = 1
  <2>1. b.numValidChunks = 1
    BY <1>2, <1>6, <1>7 DEF SingleStored
  <2>2. b.size = p.packagetNum
    BY <1>0, <1>2, SizeOfMessage DEF ApartInv, SlotInv
  <2> QED
    BY <2>1, <2>2 DEF Single
<1>9. current' = Take(b)
  BY <1>0, <1>1, <1>2, ReaderEffect DEF current
<1>10. /\ Take(b).size = b.size /\ Take(b).readPosition = NextPosition(b)
       /\ Take(b).highestReadSequenceNumber # -1
       /\ Take(b).numValidChunks = b.numValidChunks - 1
  BY <1>1, <1>2, TakeFields
<1>11. NextPosition(b) = 0
  <2>1. b.readPosition \in 0 .. b.size - 1
    BY <1>2, BufferFields
  <2> QED
    BY <1>8, <2>1 DEF NextPosition
<1>12. IsEmpty(current)'
  BY <1>8, <1>9, <1>10, <1>11 DEF IsEmpty
<1>13. current' # Null
  BY <1>1, <1>2, <1>9, TakeIsOk, NullIsNoBuffer DEF Ok
<1> QED
  BY <1>1, <1>6, <1>7, <1>12, <1>13

LEMMA SingleReadStep ==
    ASSUME MessagesApart, ApartInv, SingleInv, [Next]_vars
    PROVE  SingleRead'
<1>0. TypeInv /\ OneReader /\ readbufIndex \in Ring /\ current = buf[readbufIndex]
  BY ReaderEffect DEF ApartInv, Inv
<1> SUFFICES ASSUME NEW p \in DataPackets, Single(p), readInitSeq' = p.InitSeq
             PROVE  NoneRead' \/ delivered'[AppData(p)] > 0 \/ AboutToPost(p)'
  BY DEF SingleRead, Single
<1>1. PICK c \in Chunks : c = AppData(p)
  BY SlotOfChunk
<1>2. ASSUME NEW at \in {"poll", "block"}, TakeChunk(at) PROVE AboutToPost(p)'
  <2>1. PICK d : d = PollResult(current)
    OBVIOUS
  <2>2. Ok(current, readbufIndex) /\ d # Null
    BY <1>2, <2>1, <1>0 DEF TakeChunk, RStep, Reading, TypeInv, RingTypes
  <2>3. d.InitSequenceNumber % BufSize = readbufIndex
    BY <2>1, <2>2, TakeIsOk
  <2>4. /\ d.InitSequenceNumber = p.InitSeq /\ reader' = "taken" /\ readNull' = 0
        /\ readbufIndex' = readbufIndex
    BY <1>2, <2>1 DEF TakeChunk, RStep
  <2>5. Slot(p) = readbufIndex
    BY <2>3, <2>4 DEF Slot
  <2>6. d = c /\ IsEmpty(current)'
    BY <1>1, <1>2, <2>1, <2>5, TakeSingle DEF SingleInv
  <2>7. Listed(c)'
    BY <1>0, <1>2, <2>1, <2>6, TakeLists
  <2> QED
    BY <1>1, <2>4, <2>5, <2>6, <2>7 DEF AboutToPost
<1>3. ASSUME ~TakeChunk("poll"), ~TakeChunk("block")
      PROVE  NoneRead' \/ delivered'[AppData(p)] > 0 \/ AboutToPost(p)'
  <2>0. readInitSeq = p.InitSeq
    BY <1>3, AckChanges
  <2>1. CASE NoneRead
    BY <1>0, <1>3, <2>1, NoneReadStep
  <2>2. CASE delivered[AppData(p)] > 0
    BY <1>0, <1>1, <2>2, DeliveredGrows
  <2>3. CASE AboutToPost(p)
    <3>1. CASE Aside
      <4>1. /\ reader' = reader /\ readNull' = readNull /\ list' = list
            /\ readbufIndex' = readbufIndex
        BY <1>0, <2>3, <3>1 DEF Aside, StartReader, LStep, OneReader, local, AboutToPost
      <4>2. reader # "post" => buf'[readbufIndex] = buf[readbufIndex]
        <5> SUFFICES ASSUME reader # "post" PROVE buf'[readbufIndex] = buf[readbufIndex]
          OBVIOUS
        <5>1. reader \in Reading /\ current # Null
          BY <1>0, <2>3, ReaderEffect, NullIsNoBuffer DEF AboutToPost, Reading
        <5>2. ~GiveUp /\ ~Release
          BY <4>1, <5>1 DEF GiveUp, Release, RStep
        <5>3. IntBufferNew => buf'[readbufIndex] = buf[readbufIndex]
          BY <1>0, <5>1, NewEffect
        <5>4. ASSUME Offer, Slot(packet) = readbufIndex PROVE FALSE
          <6>1. packet = p
            BY <1>0, <2>3, <5>4, OfferEffect, SameSingle DEF AboutToPost
          <6>2. InHand(p) = 1
            BY <5>4, <6>1 DEF Offer, LStep, InHand, Handling
          <6>3. InList(c) >= 1
            BY <1>0, <1>1, <2>3, <5>1, ListedCounts DEF AboutToPost, InList, Collecting
          <6> QED
            BY <1>1, <6>2, <6>3, OnePlace DEF ApartInv
        <5>5. Offer => buf'[readbufIndex] = buf[readbufIndex]
          BY <1>0, <5>4, OfferEffect
        <5> QED
          BY <1>3, <5>2, <5>3, <5>5, RingSteps
      <4>3. reader # "post" => current' = current
        BY <4>1, <4>2 DEF current
      <4>4. Listed(c)' <=> Listed(c)
        BY <4>1 DEF Listed
      <4>5. reader # "post" => IsEmpty(current)'
        BY <2>3, <4>3 DEF AboutToPost, IsEmpty
      <4> QED
        BY <1>1, <2>3, <4>1, <4>4, <4>5 DEF AboutToPost
    <3>2. CASE ChunkTaken
      <4>1. /\ reader = "taken" /\ IsEmpty(current) /\ readNull' = readNull
            /\ reader' = "after" /\ buf' = buf /\ list' = list /\ readbufIndex' = readbufIndex
        BY <2>3, <3>2 DEF ChunkTaken, RStep, shared, local, AboutToPost
      <4> QED
        BY <2>3, <4>1 DEF AboutToPost, Listed, IsEmpty, current
    <3>3. CASE Finish
      <4>1. /\ reader' = "post" /\ readNull' = readNull /\ list' = list
            /\ readbufIndex' = readbufIndex
        BY <3>3 DEF Finish, RStep, local
      <4> QED
        BY <2>3, <4>1 DEF AboutToPost, Listed
    <3>4. ~GiveUp /\ ~GoRound
      BY <2>3, MaxReadNullAssumption DEF GiveUp, GoRound, RStep, AboutToPost
    <3>5. CASE Post
      BY <1>0, <1>1, <2>3, <3>5, DeliveredGrows DEF AboutToPost
    <3>6. Reader => ChunkTaken \/ Finish \/ Post
      BY <1>3, <2>3, <3>4 DEF Reader, RStep, PickFound, PickSeesNull, PickSkips, PickNone,
         FirstNull, BlockNull, SendEndAck, Release, AskUnread, AskClient, ResetCount, MarkClosed,
         ShutPool, Loop, Recheck, Exit,
         AboutToPost
    <3> QED
      BY <3>1, <3>2, <3>3, <3>5, <3>6, StepKinds
  <2> QED
    BY <2>0, <2>1, <2>2, <2>3 DEF SingleInv, SingleRead
<1> QED
  BY <1>2, <1>3

(* With messages apart, a one-packet message is acknowledged as finished     *)
(* only after the application has it - though the reader acknowledges what   *)
(* it last read a chunk of, whether it posted that or gave it up.            *)
THEOREM SingleAcksAreTruthful ==
    ASSUME MessagesApart
    PROVE  Spec => []SingleAckTruthful
<1> DEFINE IInv == ApartInv /\ SingleInv /\ SingleAckTruthful
<1>1. Init => IInv
  <2> SUFFICES ASSUME Init PROVE IInv
    OBVIOUS
  <2>1. ApartInv /\ NoneRead
    BY ApartInit DEF Init, NoneRead, Ring
  <2>2. \A p \in DataPackets : buf[Slot(p)] = Null
    BY SlotOfChunk DEF Init, Ring
  <2>3. SingleInv
    BY <2>1, <2>2, InRingHere DEF SingleInv, SingleAwaited, SingleStored, SingleRead
  <2>4. SingleAckTruthful
    BY DEF Init, SingleAckTruthful
  <2> QED
    BY <2>1, <2>3, <2>4
<1>2. IInv /\ [Next]_vars => IInv'
  <2> SUFFICES ASSUME IInv, [Next]_vars PROVE IInv'
    OBVIOUS
  <2>1. ApartInv' /\ SingleInv'
    BY ApartStep, SingleSlotStep, SingleReadStep DEF SingleInv
  <2>2. SingleAckTruthful'
    <3> SUFFICES ASSUME NEW p \in DataPackets, p.packagetNum = 1, p.InitSeq \in acked'
                 PROVE  delivered'[AppData(p)] > 0
      BY DEF SingleAckTruthful
    <3>1. PICK c \in Chunks : c = AppData(p)
      BY SlotOfChunk
    <3>2. CASE p.InitSeq \in acked
      BY <3>1, <3>2, DeliveredGrows DEF SingleAckTruthful, ApartInv, Inv
    <3>3. CASE p.InitSeq \notin acked
      <4>1. SendEndAck
        BY <3>3, AckChanges
      <4>2. acked' \subseteq acked \cup {readInitSeq} /\ reader = "ack"
        BY <4>1 DEF SendEndAck, RStep
      <4>3. readInitSeq = p.InitSeq
        BY <3>3, <4>2
      <4>4. delivered[AppData(p)] > 0
        BY <4>2, <4>3 DEF SingleInv, SingleRead, Single, NoneRead, AboutToPost
      <4> QED
        BY <3>1, <4>4, DeliveredGrows DEF ApartInv, Inv
    <3> QED
      BY <3>2, <3>3
  <2> QED
    BY <2>1, <2>2
<1>3. IInv => SingleAckTruthful
  OBVIOUS
<1> QED
  BY <1>1, <1>2, <1>3, PTL DEF Spec

-----------------------------------------------------------------------------
(* A session that gets nothing but one-packet messages and confirmations.  *)

Placing == Handling \ {"init"}

(* Every retry and every way of closing is for longer messages.            *)
Calm == /\ readNull = 0 /\ ~isClose /\ ~poolShut /\ ~clientClose
        /\ reader \notin {"block", "closing", "marking", "shutting"}
(* The slot of a message in hand is filled until its chunk is in and out.  *)
Prepared == listener \in Placing /\ packet \in DataPackets => buf[Slot(packet)] # Null
(* A reader that has a buffer to release has read it empty.                *)
Emptied == reader \in {"taken", "post", "ack", "release"} /\ buffer
             => current # Null /\ IsEmpty(current)
(* What came is kept.                                                      *)
Kept == \A p \in DataPackets : arrived[p] = 1 =>
    \/ delivered[AppData(p)] > 0 \/ InList(AppData(p)) > 0
    \/ InRing(AppData(p)) = 1 \/ InHand(p) = 1

SinglesInv == /\ Calm /\ RingAccounted /\ Prepared /\ Emptied /\ Kept
              /\ listener # "dead"
(* What the listener has in hand arrived. *)
HandArrived == listener \in Handling => arrived[packet] # 0
BaseInv == ApartInv /\ SingleInv /\ HeldInSlot /\ HandArrived

LEMMA StillSingles ==
    ASSUME TypeInv, [Next]_vars, OnlySingles'
    PROVE  OnlySingles
<1> SUFFICES ASSUME NEW p \in Packets, arrived[p] > 0
             PROVE  p.type \in {"data", "confirm"} /\ p.packagetNum = 1
  BY DEF OnlySingles
<1>1. arrived'[p] # 0
  BY HandChanges
<1>2. arrived'[p] \in Nat
  BY CountStep DEF CountTypes
<1> QED
  BY <1>1, <1>2 DEF OnlySingles

LEMMA HandArrivedStep ==
    ASSUME TypeInv, HandArrived, [Next]_vars
    PROVE  HandArrived'
<1> USE DEF HandArrived
<1>1. ASSUME NEW p \in Packets, Arrive(p) PROVE HandArrived'
  <2>1. arrived'[p] = arrived[p] + 1 /\ packet' = p
    BY <1>1 DEF Arrive, TypeInv, CountTypes
  <2> QED
    BY <2>1 DEF TypeInv, CountTypes
<1>2. CASE Listener
  <2>1. arrived' = arrived /\ packet' = packet /\ listener \in Handling
    BY <1>2 DEF Listener, LStep, IntBufferSkip, IntBufferFound, IntBufferNew, IntBufferCount,
       ReaderRuns, StartReader, StartRejected, DropClosed, TakeAck, TakeData, SetDataNull,
       SetDataFull, SetDataRoom, Offer, Handling
  <2> QED
    BY <2>1
<1>3. CASE Reader
  BY <1>3 DEF Reader, RStep, PickFound, PickSeesNull, PickSkips, PickNone, TakeChunk, FirstNull,
     BlockNull, ChunkTaken, GiveUp, Finish, GoRound, Post, SendEndAck, Release, AskUnread,
     AskClient, ResetCount, MarkClosed, ShutPool, Loop, Recheck, Exit
<1>4. ASSUME UNCHANGED vars PROVE HandArrived'
  BY <1>4 DEF vars, history
<1> QED
  BY <1>1, <1>2, <1>3, <1>4 DEF Next

(* The packet in hand is of a one-packet message; if it brings the message's *)
(* data, its buffer counts nothing.                                          *)
LEMMA InHandSingle ==
    ASSUME MessagesApart, BaseInv, OnlySingles, listener \in Handling
    PROVE  /\ packet \in Packets /\ Single(packet) /\ packet.type # "close"
           /\ arrived[packet] = 1 /\ Slot(packet) \in Ring
           /\ packet.type = "data" => packet \in DataPackets
           /\ packet \in DataPackets /\ buf[Slot(packet)] # Null =>
                /\ buf[Slot(packet)].numValidChunks = -1 /\ buf[Slot(packet)].size = 1
<1>1. packet \in Packets /\ Slot(packet) \in Ring
  BY ChunkTypes DEF BaseInv, ApartInv, Inv, TypeInv, HandTypes
<1>2. arrived[packet] = 1
  BY <1>1 DEF BaseInv, HandArrived, ApartInv, ArrivedOnce
<1>3. packet.type \in {"data", "confirm"} /\ Single(packet)
  BY <1>1, <1>2 DEF OnlySingles, Single
<1>4. ASSUME packet \in DataPackets, buf[Slot(packet)] # Null
      PROVE  buf[Slot(packet)].numValidChunks = -1 /\ buf[Slot(packet)].size = 1
  <2>1. buf[Slot(packet)].numValidChunks = -1
    BY <1>1, <1>3, <1>4 DEF BaseInv, SingleInv, SingleAwaited, InHand
  <2>2. buf[Slot(packet)].size = 1
    BY <1>3, <1>4, SizeOfMessage DEF BaseInv, ApartInv, Inv, SlotInv, Single
  <2> QED
    BY <2>1, <2>2
<1> QED
  BY <1>1, <1>2, <1>3, <1>4 DEF DataPackets

(* Which of the listener's and the reader's steps such a session takes. *)
LEMMA CalmListener ==
    ASSUME MessagesApart, BaseInv, OnlySingles, SinglesInv, Listener
    PROVE  /\ \/ IntBufferFound \/ IntBufferNew \/ IntBufferCount \/ ReaderRuns \/ StartReader
              \/ TakeAck \/ TakeData \/ SetDataRoom \/ Offer
           /\ TakeAck => packet.type \notin {"data", "close"}
<1> USE DEF SinglesInv
<1>1. /\ listener \in Handling /\ packet \in Packets /\ Single(packet)
      /\ packet.type # "close" /\ (packet.type = "data" => packet \in DataPackets)
  <2>1. listener \in Handling
    BY DEF Listener, LStep, IntBufferSkip, IntBufferFound, IntBufferNew, IntBufferCount,
       ReaderRuns, StartReader, StartRejected, DropClosed, TakeAck, TakeData, SetDataNull,
       SetDataFull, SetDataRoom, Offer, Handling
  <2> QED
    BY <2>1, InHandSingle
<1>2. ~IntBufferSkip
  BY <1>1 DEF IntBufferSkip, Single
<1>3. ~StartRejected /\ ~DropClosed
  BY DEF StartRejected, DropClosed, Calm
<1>4. ASSUME listener = "set" PROVE packet \in DataPackets
  BY <1>1, <1>4 DEF BaseInv, ApartInv, Inv, TypeInv, HandTypes
<1>5. ~SetDataNull
  BY <1>4 DEF SetDataNull, LStep, Prepared, Placing, Handling
<1>6. ~SetDataFull
  <2> SUFFICES ASSUME SetDataFull PROVE FALSE
    OBVIOUS
  <2>1. /\ buf[Slot(packet)] # Null /\ buf[Slot(packet)].numValidChunks = buf[Slot(packet)].size
        /\ listener = "set"
    BY DEF SetDataFull, LooksFull, LStep
  <2> QED
    BY <1>1, <1>4, <2>1, InHandSingle
<1>7. TakeAck => packet.type \notin {"data", "close"}
  BY <1>1 DEF TakeAck
<1> QED
  BY <1>2, <1>3, <1>5, <1>6, <1>7 DEF Listener

LEMMA CalmReader ==
    ASSUME BaseInv, SinglesInv, Reader
    PROVE  \/ PickFound \/ PickSeesNull \/ PickSkips \/ PickNone \/ TakeChunk("poll")
           \/ FirstNull \/ (ChunkTaken /\ reader' = "after")
           \/ Finish \/ GoRound \/ Post \/ SendEndAck \/ Release
           \/ AskUnread \/ (AskClient /\ reader' = "loop") \/ Loop \/ Recheck \/ Exit
<1> USE DEF SinglesInv
<1>1. ~TakeChunk("block") /\ ~BlockNull /\ ~ResetCount /\ ~MarkClosed /\ ~ShutPool
  BY DEF TakeChunk, BlockNull, ResetCount, MarkClosed, ShutPool, RStep, Calm
<1>2. ~GiveUp
  BY MaxReadNullAssumption DEF GiveUp, Calm
<1>3. ChunkTaken => reader' = "after"
  BY DEF ChunkTaken, RStep, Emptied, BaseInv, ApartInv, SlotInv, ReadingHolds, Reading
<1>4. AskClient => reader' = "loop"
  BY DEF AskClient, RStep, Calm
<1> QED
  BY <1>1, <1>2, <1>3, <1>4 DEF Reader

(* With the count in step with the ring, a filled slot no one has in hand   *)
(* is a buffer to read.                                                     *)
LEMMA FilledCounts ==
    ASSUME RingAccounted, ~isClose, ~Holding, listener # "count", bufNum \in Int
    PROVE  bufNum = 0 <=> \A s \in Ring : buf[s] = Null
<1>1. IsFiniteSet(Filled(buf)) /\ Cardinality(Filled(buf)) \in Nat
  BY FilledFinite
<1>2. bufNum = Cardinality(Filled(buf))
  BY <1>1 DEF RingAccounted, Filled
<1>3. Cardinality(Filled(buf)) = 0 <=> Filled(buf) = {}
  BY <1>1, FS_EmptySet
<1>4. Filled(buf) = {} <=> \A s \in Ring : buf[s] = Null
  BY DEF Filled, Ring
<1> QED
  BY <1>2, <1>3, <1>4

LEMMA CalmStep ==
    ASSUME MessagesApart, BaseInv, OnlySingles, SinglesInv, bufNum \in Int, ~EmptyRelease,
           [Next]_vars
    PROVE  Calm' /\ RingAccounted'
<1> DEFINE Away == {"block", "closing", "marking", "shutting"}
<1>0. Calm /\ reader \notin Away
  BY DEF SinglesInv, Calm
<1>1. RingAccounted'
  <2>1. AccountInv
    BY DEF BaseInv, ApartInv, Inv, AccountInv
  <2> QED
    BY <2>1, AccountStep DEF SinglesInv, Calm, ClosingReset
<1>2. ASSUME NEW p \in Packets, Arrive(p)
      PROVE  UNCHANGED <<readNull, isClose, poolShut, clientClose>> /\ reader' \notin Away
  BY <1>0, <1>2 DEF Arrive, shared, local
<1>3. ASSUME Listener
      PROVE  UNCHANGED <<readNull, isClose, poolShut>> /\ ~clientClose' /\ reader' \notin Away
  <2>1. CASE IntBufferFound \/ IntBufferNew \/ IntBufferCount \/ ReaderRuns \/ StartReader
             \/ TakeData \/ SetDataRoom \/ Offer
    <3>1. /\ UNCHANGED <<readNull, isClose, poolShut, clientClose>>
          /\ reader' = reader \/ reader' = "pick"
      BY <2>1 DEF IntBufferFound, IntBufferNew, IntBufferCount, ReaderRuns, StartReader, TakeData,
         SetDataRoom, Offer, LStep, shared, local
    <3> QED
      BY <1>0, <3>1 DEF Calm
  <2>2. CASE TakeAck
    <3>1. packet.type # "close"
      BY <1>3, <2>2, CalmListener
    <3>2. /\ UNCHANGED <<readNull, isClose, poolShut, reader>>
          /\ clientClose' = (clientClose \/ packet.type = "close")
      BY <2>2 DEF TakeAck, LStep, local
    <3> QED
      BY <1>0, <3>1, <3>2 DEF Calm
  <2> QED
    BY <1>3, <2>1, <2>2, CalmListener
<1>4. ASSUME Reader
      PROVE  UNCHANGED <<readNull, isClose, poolShut, clientClose>> /\ reader' \notin Away
  <2>1. CASE TakeChunk("poll")
    BY <1>0, <2>1 DEF TakeChunk, RStep, Calm
  <2>2. CASE PickFound \/ PickSeesNull \/ PickSkips \/ PickNone \/ FirstNull
    BY <2>2 DEF PickFound, PickSeesNull, PickSkips, PickNone, FirstNull, RStep, shared, local
  <2>3. CASE (ChunkTaken /\ reader' = "after") \/ Finish \/ GoRound \/ Post \/ SendEndAck
    BY <2>3 DEF ChunkTaken, Finish, GoRound, Post, SendEndAck, RStep, shared, local
  <2>4. CASE Release \/ AskUnread \/ (AskClient /\ reader' = "loop") \/ Loop \/ Recheck \/ Exit
    BY <2>4 DEF Release, AskUnread, AskClient, Loop, Recheck, Exit, RStep, shared, local
  <2> QED
    BY <1>4, <2>1, <2>2, <2>3, <2>4, CalmReader
<1>5. ASSUME UNCHANGED vars
      PROVE  UNCHANGED <<readNull, isClose, poolShut, clientClose, reader>>
  BY <1>5 DEF vars, shared, local
<1>6. UNCHANGED <<readNull, isClose, poolShut>> /\ (clientClose' => clientClose)
  BY <1>2, <1>3, <1>4, <1>5 DEF Next
<1>7. reader' \notin Away
  BY <1>0, <1>2, <1>3, <1>4, <1>5 DEF Next
<1> QED
  BY <1>0, <1>1, <1>6, <1>7 DEF Calm

(* Only releasing a slot empties it. *)
LEMMA SlotStays ==
    ASSUME TypeInv, [Next]_vars, NEW s \in Ring, buf[s] # Null
    PROVE  buf'[s] # Null \/ (Release /\ s = readbufIndex)
<1>1. IsBuffer(buf[s])
  BY DEF TypeInv, RingTypes, Ok
<1>2. CASE IntBufferNew
  BY <1>2, NewEffect
<1>3. CASE Offer
  <2>1. PICK b : b = buf[s]
    OBVIOUS
  <2>d. PICK d \in Chunks : d = AppData(packet)
    BY <1>3, OfferEffect
  <2>2. IsBuffer(Insert(b, d)) \/ buf'[s] = buf[s]
    <3>1. CASE s = Slot(packet)
      <4>1. Ok(b, s)
        BY <2>1 DEF TypeInv, RingTypes
      <4>2. d.InitSequenceNumber % BufSize = s
        BY <1>3, <2>d, <3>1, OfferEffect, SlotOfChunk
      <4> QED
        BY <4>1, <4>2, InsertIsOk DEF Ok
    <3>2. CASE s # Slot(packet)
      BY <1>3, <3>2, OfferEffect
    <3> QED
      BY <3>1, <3>2
  <2>3. Insert(b, d) # Null \/ buf'[s] = buf[s]
    BY <2>2, NullIsNoBuffer
  <2> QED
    BY <1>3, <2>1, <2>d, <2>3, OfferEffect
<1>4. CASE GiveUp
  <2>1. PICK b : b = current
    OBVIOUS
  <2>2. IsBuffer(b)
    BY <1>4, <2>1, ReaderEffect DEF GiveUp, RStep, Reading
  <2>3. Clear(b) # Null
    BY <2>2, ClearIsOk, NullIsNoBuffer DEF Ok
  <2> QED
    BY <1>4, <2>1, <2>3, ReaderEffect
<1>5. CASE Release
  BY <1>5, ReaderEffect
<1>6. ASSUME NEW at \in {"poll", "block"}, TakeChunk(at)
      PROVE  buf'[s] # Null
  <2>1. PICK b : b = current
    OBVIOUS
  <2>2. Ok(b, readbufIndex) /\ PollResult(b) # Null
    BY <1>6, <2>1 DEF TakeChunk, RStep, Reading, TypeInv, RingTypes
  <2>3. Take(b) # Null
    BY <2>2, TakeIsOk, NullIsNoBuffer DEF Ok
  <2> QED
    BY <1>6, <2>1, <2>3, ReaderEffect
<1> QED
  BY <1>2, <1>3, <1>4, <1>5, <1>6, RingSteps

(* A packet comes into the listener's hand by arriving. *)
LEMMA ArrivalChanges ==
    ASSUME [Next]_vars
    PROVE  \/ \E q \in Packets : Arrive(q)
           \/ /\ arrived' = arrived
              /\ UNCHANGED <<listener, packet>> \/ (Listener /\ packet' = packet)
<1>1. CASE Listener
  BY <1>1 DEF Listener, LStep, IntBufferSkip, IntBufferFound, IntBufferNew, IntBufferCount,
     ReaderRuns, StartReader, StartRejected, DropClosed, TakeAck, TakeData, SetDataNull,
     SetDataFull, SetDataRoom, Offer
<1>2. CASE Reader
  BY <1>2 DEF Reader, RStep, PickFound, PickSeesNull, PickSkips, PickNone, TakeChunk, FirstNull,
     BlockNull, ChunkTaken, GiveUp, Finish, GoRound, Post, SendEndAck, Release, AskUnread,
     AskClient, ResetCount, MarkClosed, ShutPool, Loop, Recheck, Exit
<1>3. CASE UNCHANGED vars
  BY <1>3 DEF vars, history
<1> QED
  BY <1>1, <1>2, <1>3 DEF Next

LEMMA PreparedStep ==
    ASSUME MessagesApart, BaseInv, OnlySingles, SinglesInv, ~EmptyRelease,
           [Next]_vars
    PROVE  Prepared' /\ listener' # "dead"
<1>0. TypeInv /\ Prepared /\ Emptied /\ listener # "dead"
  BY DEF BaseInv, ApartInv, Inv, SinglesInv
<1>1. CASE IntBufferNew
  <2>1. listener' = "count" /\ packet' = packet
    BY <1>1 DEF IntBufferNew, LStep
  <2>2. /\ Slot(packet) \in Ring /\ packet \in Packets /\ packet.packagetNum # -1
        /\ buf'[Slot(packet)] = NewBuffer(packet.packagetNum, packet.InitSeq)
    BY <1>0, <1>1, NewEffect
  <2>3. buf'[Slot(packet)] # Null
    BY <2>2, NewIsOk, NullIsNoBuffer DEF Ok
  <2> QED
    BY <2>1, <2>3 DEF Prepared, Slot
<1>2. CASE IntBufferFound
  <2>1. /\ listener' = "start" /\ packet' = packet /\ buf' = buf /\ buf[Slot(packet)] # Null
    BY <1>2 DEF IntBufferFound, LStep, shared
  <2> QED
    BY <2>1 DEF Prepared, Slot
<1>3. ASSUME ~IntBufferNew, ~IntBufferFound PROVE Prepared' /\ listener' # "dead"
  <2>1. /\ listener' # "dead"
        /\ listener' \in Placing => listener \in Placing /\ packet' = packet
    <3>1. ASSUME NEW q \in Packets, Arrive(q) PROVE listener' = "init"
      BY <3>1 DEF Arrive
    <3>2. CASE UNCHANGED <<listener, packet>>
      BY <1>0, <3>2
    <3>3. ASSUME Listener, packet' = packet
          PROVE  listener' # "dead" /\ (listener' \in Placing => listener \in Placing)
      BY <1>3, <3>3, CalmListener DEF IntBufferCount, ReaderRuns, StartReader, TakeAck,
         TakeData, SetDataRoom, Offer, LStep, Placing, Handling
    <3> QED
      BY <3>1, <3>2, <3>3, ArrivalChanges DEF Placing, Handling
  <2>2. Prepared'
    <3> SUFFICES ASSUME listener' \in Placing, packet \in DataPackets
                 PROVE  buf'[Slot(packet)] # Null
      BY <2>1 DEF Prepared, Slot
    <3>1. listener \in Handling /\ buf[Slot(packet)] # Null
      BY <1>0, <2>1 DEF Prepared, Placing
    <3>2. Slot(packet) \in Ring /\ buf[Slot(packet)].numValidChunks = -1
      BY <3>1, InHandSingle
    <3>3. ASSUME Release, Slot(packet) = readbufIndex PROVE FALSE
      BY <1>0, <3>2, <3>3 DEF Release, RStep, Emptied, IsEmpty, current, EmptyRelease
    <3> QED
      BY <1>0, <3>1, <3>2, <3>3, SlotStays
  <2> QED
    BY <2>1, <2>2
<1> QED
  BY <1>1, <1>2, <1>3

(* A chunk the reader takes is of a packet that came. *)
LEMMA TakenArrived ==
    ASSUME ApartInv, NEW at \in {"poll", "block"}, TakeChunk(at)
    PROVE  \E p \in DataPackets : Slot(p) = readbufIndex /\ arrived[p] = 1
<1>0. TypeInv /\ Inv /\ ArrivedOnce /\ readbufIndex \in Ring /\ current = buf[readbufIndex]
  BY ReaderEffect DEF ApartInv, Inv
<1>1. PICK b, d : b = current /\ d = PollResult(current)
  OBVIOUS
<1>2. IsBuffer(b) /\ d # Null /\ b # Null /\ Ok(b, readbufIndex)
  BY <1>0, <1>1, ReaderEffect, NullIsNoBuffer DEF TakeChunk, RStep, Reading, Ok
<1>3. /\ d \in Chunks /\ d.InitSequenceNumber % BufSize = readbufIndex
      /\ \E i \in DOMAIN b.buffer : b.buffer[i] = d
  BY <1>1, <1>2, TakeIsOk
<1>4. PICK p \in DataPackets : d = AppData(p)
  BY <1>3 DEF Chunks
<1>5. Slot(p) = readbufIndex /\ InRing(AppData(p)) = 1
  BY <1>0, <1>1, <1>2, <1>3, <1>4, SlotOfChunk, InRingHere
<1> QED
  BY <1>0, <1>5, OnePlace

LEMMA EmptiedStep ==
    ASSUME MessagesApart, BaseInv, OnlySingles, SinglesInv, [Next]_vars
    PROVE  Emptied'
<1>0. /\ TypeInv /\ ApartInv /\ SingleInv /\ Emptied /\ OneReader
      /\ readbufIndex \in Ring /\ current = buf[readbufIndex]
  BY ReaderEffect DEF BaseInv, ApartInv, Inv, SinglesInv
<1> DEFINE After == {"taken", "post", "ack", "release"}
<1> SUFFICES ASSUME reader' \in After, buffer' PROVE current' # Null /\ IsEmpty(current)'
  BY DEF Emptied
<1>1. CASE Aside
  <2>1. reader' = reader /\ readbufIndex' = readbufIndex /\ reader \in After /\ buffer
    BY <1>1 DEF Aside, StartReader, LStep, local
  <2>2. current # Null /\ IsEmpty(current)
    BY <1>0, <2>1 DEF Emptied
  <2>3. buf'[readbufIndex] = buf[readbufIndex]
    <3>1. ~GiveUp /\ ~Release /\ ~TakeChunk("poll") /\ ~TakeChunk("block")
      BY <2>1 DEF GiveUp, Release, TakeChunk, RStep
    <3>2. IntBufferNew => buf'[readbufIndex] = buf[readbufIndex]
      BY <1>0, <2>2, NewEffect
    <3>3. ASSUME Offer, Slot(packet) = readbufIndex PROVE FALSE
      <4>1. buf[Slot(packet)].numValidChunks = -1
        BY <1>0, <2>2, <3>3, InHandSingle, OfferEffect DEF Offer, LStep, Handling
      <4> QED
        BY <2>2, <3>3, <4>1 DEF IsEmpty, current
    <3>4. Offer => buf'[readbufIndex] = buf[readbufIndex]
      BY <1>0, <3>3, OfferEffect
    <3> QED
      BY <3>1, <3>2, <3>4, RingSteps
  <2> QED
    BY <2>1, <2>2, <2>3 DEF current, IsEmpty
<1>2. CASE TakeChunk("poll")
  <2>1. PICK p \in DataPackets : Slot(p) = readbufIndex /\ arrived[p] = 1
    BY <1>0, <1>2, TakenArrived
  <2>2. Single(p)
    BY <2>1 DEF OnlySingles, Single, DataPackets
  <2> QED
    BY <1>0, <1>2, <2>1, <2>2, TakeSingle DEF SingleInv
<1>3. CASE Finish
  <2>1. current # Null /\ IsEmpty(current)
    BY <1>0, <1>3, ReaderEffect, NullIsNoBuffer DEF Finish, RStep, Reading
  <2>2. buf' = buf /\ readbufIndex' = readbufIndex
    BY <1>3 DEF Finish, shared, local
  <2> QED
    BY <2>1, <2>2 DEF current, IsEmpty
<1>4. CASE Post \/ SendEndAck
  <2>1. buf' = buf /\ readbufIndex' = readbufIndex /\ buffer
    BY <1>4 DEF Post, SendEndAck, shared, local
  <2>2. current # Null /\ IsEmpty(current)
    BY <1>0, <1>4, <2>1 DEF Post, SendEndAck, RStep, Emptied
  <2> QED
    BY <2>1, <2>2 DEF current, IsEmpty
<1>5. CASE Reader
  BY <1>2, <1>3, <1>4, <1>5, <1>0, CalmReader DEF PickFound, PickSeesNull, PickSkips, PickNone,
     FirstNull, GoRound, Release, AskUnread, AskClient, Loop, Recheck, Exit, RStep
<1> QED
  BY <1>1, <1>5, StepKinds

(* What came stays: with the application, in the list, the ring or in hand. *)
LEMMA KeptInList ==
    ASSUME BaseInv, OnlySingles, SinglesInv, [Next]_vars, NEW c \in Chunks, InList(c) > 0
    PROVE  delivered'[c] > 0 \/ (reader' \in Collecting /\ Listed(c)')
<1>0. TypeInv /\ OneReader
  BY DEF BaseInv, ApartInv, Inv
<1>1. reader \in Collecting /\ Listed(c)
  BY <1>0, ListedCounts DEF InList
<1>2. CASE Aside
  BY <1>0, <1>1, <1>2 DEF Aside, StartReader, LStep, OneReader, local, Collecting, Reading, Listed
<1>3. CASE TakeChunk("poll")
  BY <1>0, <1>1, <1>3, TakeLists DEF TakeChunk, RStep, Collecting, Reading
<1>4. CASE Post
  BY <1>0, <1>1, <1>4, DeliveredGrows
<1>5. CASE FirstNull \/ ChunkTaken \/ Finish \/ GoRound
  <2>1. list' = list
    BY <1>5 DEF FirstNull, ChunkTaken, Finish, GoRound, local
  <2>2. reader' \in Collecting
    BY <1>5 DEF FirstNull, ChunkTaken, Finish, GoRound, RStep, Collecting, Reading
  <2> QED
    BY <1>1, <2>1, <2>2 DEF Listed
<1>6. CASE Reader
  BY <1>0, <1>1, <1>3, <1>4, <1>5, <1>6, CalmReader DEF PickFound, PickSeesNull, PickSkips,
     PickNone, SendEndAck, Release, AskUnread, AskClient, Loop, Recheck, Exit, RStep, Collecting, Reading
<1> QED
  BY <1>2, <1>6, StepKinds

LEMMA KeptInRing ==
    ASSUME MessagesApart, BaseInv, OnlySingles, SinglesInv, ~EmptyRelease, [Next]_vars,
           NEW p \in DataPackets, Single(p), InRing(AppData(p)) = 1
    PROVE  InRing(AppData(p))' = 1 \/ (reader' \in Collecting /\ Listed(AppData(p))')
<1>0. /\ TypeInv /\ Inv /\ ArrivedOnce /\ SingleInv /\ Emptied /\ ApartInv
      /\ Slot(p) \in Ring /\ current = buf[readbufIndex] /\ readbufIndex \in Ring
  BY SlotOfChunk, ReaderEffect DEF BaseInv, ApartInv, Inv, SinglesInv
<1>1. buf[Slot(p)] # Null /\ buf[Slot(p)].numValidChunks = 1
  BY <1>0, InRingHere DEF SingleInv, SingleStored
<1>2. ASSUME buf'[Slot(p)] = buf[Slot(p)] PROVE InRing(AppData(p))' = 1
  BY <1>2, InRingHere
<1>3. IntBufferNew => buf'[Slot(p)] = buf[Slot(p)]
  BY <1>0, <1>1, NewEffect
<1>4. ASSUME Offer, Slot(packet) = Slot(p) PROVE FALSE
  <2>1. packet = p
    BY <1>0, <1>4, OfferEffect, SameSingle
  <2>2. InHand(p) = 1
    BY <1>4, <2>1 DEF Offer, LStep, InHand, Handling
  <2> QED
    BY <1>0, <2>2, OnePlace
<1>5. Offer => buf'[Slot(p)] = buf[Slot(p)]
  BY <1>0, <1>4, OfferEffect
<1>6. ASSUME Release, Slot(p) = readbufIndex PROVE FALSE
  BY <1>1, <1>0, <1>6 DEF Release, RStep, Emptied, IsEmpty, EmptyRelease
<1>7. Release => buf'[Slot(p)] = buf[Slot(p)]
  BY <1>0, <1>6, ReaderEffect
<1>8. CASE TakeChunk("poll")
  <2>1. CASE Slot(p) = readbufIndex
    <3>1. PollResult(current) = AppData(p)
      BY <1>0, <1>8, <2>1, TakeSingle DEF SingleInv
    <3>2. Listed(AppData(p))'
      BY <1>0, <1>8, <3>1, TakeLists DEF Listed
    <3> QED
      BY <1>8, <3>2 DEF TakeChunk, RStep, Collecting, Reading
  <2>2. CASE Slot(p) # readbufIndex
    BY <1>0, <1>2, <1>8, <2>2, ReaderEffect
  <2> QED
    BY <2>1, <2>2
<1>9. ~TakeChunk("block") /\ ~GiveUp
  BY MaxReadNullAssumption DEF TakeChunk, GiveUp, RStep, SinglesInv, Calm
<1> QED
  BY <1>2, <1>3, <1>5, <1>7, <1>8, <1>9, RingSteps

LEMMA KeptInHand ==
    ASSUME MessagesApart, BaseInv, OnlySingles, SinglesInv, [Next]_vars,
           NEW p \in DataPackets, InHand(p) = 1
    PROVE  InHand(p)' = 1 \/ InRing(AppData(p))' = 1
<1>0. TypeInv /\ Slot(p) \in Ring /\ AppData(p) \in Chunks
  BY SlotOfChunk DEF BaseInv, ApartInv, Inv
<1>1. listener \in Handling /\ packet = p
  BY DEF InHand
<1>2. CASE Offer
  <2>1. PICK b : b = buf[Slot(p)]
    OBVIOUS
  <2>d. PICK d \in Chunks : d = AppData(p)
    BY <1>0
  <2>2. b # Null /\ IsBuffer(b)
    BY <1>0, <1>1, <1>2, <2>1, OfferEffect DEF Offer, LStep, SinglesInv, Prepared, Placing, Handling
  <2>3. buf'[Slot(p)] = Insert(b, d)
    BY <1>0, <1>1, <1>2, <2>1, <2>d, <2>2, OfferEffect
  <2>4. /\ Insert(b, d).buffer = [b.buffer EXCEPT ![d.sequenceNumber % b.size] = d]
        /\ d.sequenceNumber % b.size \in 0 .. b.size - 1
        /\ DOMAIN b.buffer = 0 .. b.size - 1
    BY <2>2, InsertFields, BufferFields
  <2>5. \E i \in DOMAIN Insert(b, d).buffer : Insert(b, d).buffer[i] = d
    BY <2>4
  <2>6. Insert(b, d) # Null
    BY <1>0, <1>1, <1>2, <2>1, <2>2, <2>3, SlotStays DEF Offer, Release, LStep, RStep, Handling
  <2> QED
    BY <2>d, <2>3, <2>5, <2>6, InRingHere
<1>3. ASSUME ~Offer PROVE listener' \in Handling /\ packet' = p
  <2>1. ASSUME NEW q \in Packets PROVE ~Arrive(q)
    BY <1>1 DEF Arrive, Handling
  <2>2. ASSUME Listener PROVE listener' \in Handling
    <3>1. ~TakeAck
      BY <1>1, <2>2, CalmListener DEF DataPackets
    <3> QED
      BY <1>3, <2>2, <3>1, CalmListener DEF IntBufferFound, IntBufferNew, IntBufferCount,
         ReaderRuns, StartReader, TakeData, SetDataRoom, LStep, Handling
  <2> QED
    BY <1>1, <2>1, <2>2, ArrivalChanges
<1> QED
  BY <1>2, <1>3 DEF InHand

LEMMA ListedOnce ==
    ASSUME NEW l \in Seq(Chunks), NEW c, NEW i \in DOMAIN l, l[i] = c
    PROVE  Occurrences(l, c) >= 1
<1>1. IsFiniteSet(Places(l, c)) /\ Occurrences(l, c) \in Nat
  BY OccurrencesFinite
<1>2. Occurrences(l, c) = 0 <=> Places(l, c) = {}
  BY <1>1, FS_EmptySet DEF Occurrences
<1>3. Places(l, c) # {}
  BY DEF Places
<1> QED
  BY <1>1, <1>2, <1>3

LEMMA KeptStep ==
    ASSUME MessagesApart, BaseInv, OnlySingles, SinglesInv, TypeInv', ~EmptyRelease,
           [Next]_vars
    PROVE  Kept'
<1>0. TypeInv /\ ArrivedOnce /\ Kept
  BY DEF BaseInv, ApartInv, Inv, SinglesInv
<1> SUFFICES ASSUME NEW p \in DataPackets, arrived'[p] = 1
             PROVE  \/ delivered'[AppData(p)] > 0 \/ InList(AppData(p))' > 0
                    \/ InRing(AppData(p))' = 1 \/ InHand(p)' = 1
  BY DEF Kept
<1>1. PICK c \in Chunks : c = AppData(p)
  BY SlotOfChunk
<1>2. ASSUME reader' \in Collecting, Listed(c)' PROVE InList(AppData(p))' > 0
  <2>1. PICK l \in Seq(Chunks) : l = list'
    BY DEF TypeInv, HandTypes
  <2>2. Occurrences(l, c) >= 1
    BY <1>2, <2>1, ListedOnce DEF Listed
  <2>3. Occurrences(l, c) \in Nat
    BY OccurrencesFinite
  <2> QED
    BY <1>1, <1>2, <2>1, <2>2, <2>3 DEF InList, Occurrences, Places
<1>3. CASE arrived[p] = 1
  <2>1. CASE delivered[c] > 0
    BY <1>0, <1>1, <2>1, DeliveredGrows
  <2>2. CASE InList(c) > 0
    BY <1>1, <1>2, <2>2, KeptInList
  <2>3. CASE InRing(c) = 1
    <3>1. Single(p)
      BY <1>3 DEF OnlySingles, Single, DataPackets
    <3>2. Listed(AppData(p))' <=> Listed(c)'
      BY <1>1 DEF Listed
    <3> QED
      BY <1>1, <1>2, <2>3, <3>1, <3>2, KeptInRing
  <2>4. CASE InHand(p) = 1
    BY <2>4, KeptInHand
  <2> QED
    BY <1>0, <1>1, <1>3, <2>1, <2>2, <2>3, <2>4 DEF Kept
<1>4. CASE arrived[p] = 0
  <2>1. PICK q \in Packets : Arrive(q)
    BY <1>4, ArrivalChanges
  <2>2. q = p
    BY <1>0, <1>4, <2>1 DEF Arrive, TypeInv, CountTypes, DataPackets
  <2> QED
    BY <2>1, <2>2 DEF Arrive, InHand, Handling
<1> QED
  BY <1>0, <1>3, <1>4 DEF ArrivedOnce, DataPackets

-----------------------------------------------------------------------------
(* The invariant of a session of one-packet messages.                      *)

SinglesKept == BaseInv /\ bufNum \in Int /\ (OnlySingles => SinglesInv)

LEMMA SinglesInit == MessagesApart /\ Init => SinglesKept
<1> SUFFICES ASSUME MessagesApart, Init PROVE SinglesKept
  OBVIOUS
<1>1. ApartInv /\ NoneRead
  BY ApartInit DEF Init, NoneRead, Ring
<1>2. \A p \in DataPackets : buf[Slot(p)] = Null
  BY SlotOfChunk DEF Init, Ring
<1>3. SingleInv
  BY <1>1, <1>2, InRingHere DEF SingleInv, SingleAwaited, SingleStored, SingleRead
<1>4. BaseInv
  BY <1>1, <1>3 DEF BaseInv, HeldInSlot, Holding, HandArrived, Handling, Init
<1>5. RingAccounted
  <2>1. Filled(buf) = {}
    BY DEF Filled, Init
  <2>2. Cardinality(Filled(buf)) = 0
    BY <2>1, FS_EmptySet
  <2> QED
    BY <2>2 DEF RingAccounted, Filled, Holding, Init
<1>6. Calm
  BY DEF Calm, Init
<1>7. Prepared /\ Emptied /\ Kept /\ listener # "dead"
  BY DEF Prepared, Placing, Handling, Emptied, Kept, DataPackets, Ring, Init
<1> QED
  BY <1>1, <1>4, <1>5, <1>6, <1>7 DEF SinglesKept, SinglesInv, NoneRead

LEMMA SinglesStep ==
    ASSUME MessagesApart, SinglesKept, ~EmptyRelease, [Next]_vars
    PROVE  SinglesKept'
<1>0. BaseInv /\ ApartInv /\ SingleInv /\ TypeInv /\ OneReader /\ bufNum \in Int
  BY DEF SinglesKept, BaseInv, ApartInv, Inv
<1>1. ApartInv' /\ SingleInv'
  BY <1>0, ApartStep, SingleSlotStep, SingleReadStep DEF SingleInv
<1>2. HeldInSlot'
  BY <1>0, HeldStep DEF AccountInv, BaseInv
<1>3. HandArrived'
  BY <1>0, HandArrivedStep DEF BaseInv
<1>4. BaseInv'
  BY <1>1, <1>2, <1>3 DEF BaseInv
<1>5. bufNum' \in Int
  BY <1>0 DEF Next, Listener, Reader, Arrive, shared, vars, IntBufferSkip, IntBufferFound,
     IntBufferNew, IntBufferCount, ReaderRuns, StartReader, StartRejected, DropClosed, TakeAck,
     TakeData, SetDataNull, SetDataFull, SetDataRoom, Offer, PickFound, PickSeesNull, PickSkips,
     PickNone, TakeChunk, FirstNull, BlockNull, ChunkTaken, GiveUp, Finish, GoRound, Post,
     SendEndAck, Release, AskUnread, AskClient, ResetCount, MarkClosed, ShutPool, Loop, Recheck,
     Exit
<1>6. ASSUME OnlySingles' PROVE SinglesInv'
  <2>1. OnlySingles /\ SinglesInv
    BY <1>0, <1>6, StillSingles DEF SinglesKept
  <2>2. Calm' /\ RingAccounted'
    BY <1>0, <2>1, CalmStep
  <2>4. Prepared' /\ listener' # "dead"
    BY <1>0, <2>1, PreparedStep
  <2>5. Emptied'
    BY <1>0, <2>1, EmptiedStep
  <2>6. Kept'
    BY <1>0, <1>1, <2>1, KeptStep DEF ApartInv, Inv
  <2> QED
    BY <2>2, <2>4, <2>5, <2>6 DEF SinglesInv
<1> QED
  BY <1>4, <1>5, <1>6 DEF SinglesKept

(* With messages apart, as long as only one-packet messages and their       *)
(* confirmations came, in any order, and in a behaviour without an empty     *)
(* pass, the listener always finds the buffer it is to put a chunk into: the *)
(* reader does not release a slot before that slot's chunk is in it and read.*)
THEOREM ListenerLives ==
    ASSUME MessagesApart
    PROVE  Spec => ListenerSurvives
<1> DEFINE Lives == OnlySingles => listener # "dead"
<1>1. SinglesKept => Lives
  BY DEF SinglesKept, SinglesInv
<1>2. MessagesApart /\ Init => SinglesKept
  BY SinglesInit
<1>3. SinglesKept /\ ~EmptyRelease /\ [Next]_vars => SinglesKept'
  BY SinglesStep
<1> HIDE DEF Lives
<1>4. SinglesKept /\ []~EmptyRelease /\ [][Next]_vars => []Lives
  BY <1>1, <1>3, PTL
<1>5. Spec => (NoEmptyPass => []Lives)
  BY <1>2, <1>4, PTL DEF Spec, NoEmptyPass
<1> QED
  BY <1>5 DEF ListenerSurvives, Lives

(* ... and when such a session comes to rest with nothing unread, the        *)
(* application was handed every message that reached it, once: none lies on  *)
(* in the ring with the reader gone, and none was lost on the way.           *)
THEOREM NothingIsLost ==
    ASSUME MessagesApart
    PROVE  Spec => ExactlyOnceAtRest
<1>1. SinglesKept => DeliveredAtRest
  <2> SUFFICES ASSUME SinglesKept, OnlySingles, listener = "idle", reader = "none", bufNum = 0,
                      NEW p \in DataPackets
               PROVE  delivered[AppData(p)] = arrived[p]
    BY DEF DeliveredAtRest
  <2>0. SinglesInv /\ BaseInv /\ Inv /\ ArrivedOnce
    BY DEF SinglesKept, BaseInv, ApartInv
  <2>1. Slot(p) \in Ring /\ p \in Packets
    BY SlotOfChunk DEF DataPackets
  <2>2. buf[Slot(p)] = Null
    BY <2>0, <2>1, FilledCounts DEF SinglesInv, Calm, Holding
  <2>3. InRing(AppData(p)) # 1
    BY <2>2, InRingHere
  <2>4. InList(AppData(p)) = 0 /\ InHand(p) = 0
    BY DEF InList, InHand, Collecting, Reading, Handling
  <2>5. arrived[p] = 1 => delivered[AppData(p)] > 0
    BY <2>0, <2>3, <2>4 DEF SinglesInv, Kept
  <2>6. /\ delivered[AppData(p)] \in Nat /\ InRing(AppData(p)) \in {0, 1}
        /\ arrived[p] \in {0, 1}
        /\ delivered[AppData(p)] + InList(AppData(p)) + InRing(AppData(p)) + InHand(p) <= arrived[p]
    BY <2>0, OnePlace
  <2> QED
    BY <2>3, <2>4, <2>5, <2>6
<1>2. MessagesApart /\ Init => SinglesKept
  BY SinglesInit
<1>3. SinglesKept /\ ~EmptyRelease /\ [Next]_vars => SinglesKept'
  BY SinglesStep
<1>4. SinglesKept /\ []~EmptyRelease /\ [][Next]_vars => []DeliveredAtRest
  BY <1>1, <1>3, PTL
<1>5. Spec => (NoEmptyPass => []DeliveredAtRest)
  BY <1>2, <1>4, PTL DEF Spec, NoEmptyPass
<1> QED
  BY <1>5 DEF ExactlyOnceAtRest
=============================================================================
