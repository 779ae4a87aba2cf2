------------------------- MODULE ClientSessionProofs -------------------------
(***************************************************************************)
(* First the pieces of a message.  Then the proofs of ClientSession's      *)
(* TypeOK, ReuseBounded, EndForgets and LostOnlyToEnds for any senders,    *)
(* lengths and bounds: whatever the senders, the worker and the spilling   *)
(* thread do in between, a packet that was kept is in memory, in the       *)
(* store's hands or covered by a message that ended; a counter gives out a *)
(* number once; and what an end removes from memory does not come back.    *)
(***************************************************************************)
EXTENDS ClientSession, RingArithmetic, SequenceTheorems, FiniteSetTheorems

-----------------------------------------------------------------------------
(* The pieces of SubPackaget.subData, for every length and streamSize.      *)
USE StreamSizeAssumption

(* The last piece of a message starts within it and is no longer than       *)
(* streamSize, and it is not empty unless the message is.                   *)
LEMMA LastPiece ==
    ASSUME NEW length \in Nat
    PROVE  /\ PacketsOf(length) \in Nat \ {0}
           /\ length - Offset(PacketsOf(length)) \in 0 .. StreamSize
           /\ length > 0 => length - Offset(PacketsOf(length)) > 0
<1>1. CASE length < StreamSize
  <2>1. PacketsOf(length) = 1
    BY <1>1 DEF PacketsOf
  <2>2. Offset(1) = 0
    BY DEF Offset
  <2> QED
    BY <1>1, <2>1, <2>2
<1>2. CASE ~(length < StreamSize)
  <2> DEFINE a == length + StreamSize - 1
             n == a \div StreamSize
             r == a % StreamSize
  <2>1. a \in Nat
    OBVIOUS
  <2>2. n \in Nat /\ r \in 0 .. StreamSize - 1 /\ a = StreamSize * n + r
    BY <2>1, DivMod
  <2>3. PacketsOf(length) = n
    BY <1>2 DEF PacketsOf
  <2> HIDE DEF n, r
  <2>4. n # 0
    <3> SUFFICES ASSUME n = 0 PROVE FALSE
      OBVIOUS
    <3>1. StreamSize * n = 0
      BY SMT
    <3>2. length >= StreamSize
      BY <1>2
    <3> QED
      BY <2>2, <3>1, <3>2
  <2>5. Offset(n) = StreamSize * n - StreamSize /\ StreamSize * n \in Nat
    BY <2>2, SMT DEF Offset
  <2>6. length - Offset(n) = r + 1
    BY <2>2, <2>5
  <2> QED
    BY <2>2, <2>3, <2>4, <2>6
<1> QED
  BY <1>1, <1>2

(* The next piece starts where one of full length ends.                     *)
LEMMA OffsetStep ==
    ASSUME NEW i \in Nat \ {0}
    PROVE  /\ Offset(i) \in Nat
           /\ Offset(i + 1) = Offset(i) + StreamSize
<1>1. i - 1 \in Nat
  OBVIOUS
<1>2. (i - 1) * StreamSize \in Nat
  BY <1>1
<1>3. ((i + 1) - 1) * StreamSize = (i - 1) * StreamSize + StreamSize
  BY SMT
<1> QED
  BY <1>2, <1>3 DEF Offset

(* Pieces that are not neighbours start further apart.                      *)
LEMMA OffsetsApart ==
    ASSUME NEW i \in Nat \ {0}, NEW j \in Nat \ {0}, i < j
    PROVE  Offset(i) + StreamSize <= Offset(j)
<1>1. StreamSize * (i - 1) + StreamSize <= StreamSize * (j - 1)
  <2>1. i - 1 \in Nat /\ j - 1 \in Nat /\ i - 1 < j - 1
    OBVIOUS
  <2> QED
    BY <2>1, LapsApart
<1>2. Offset(i) = StreamSize * (i - 1) /\ Offset(j) = StreamSize * (j - 1)
  BY SMT DEF Offset
<1> QED
  BY <1>1, <1>2

(* No piece is longer than streamSize, and none is empty unless the message *)
(* is (SubPackaget.subData leaves no empty piece at the end).               *)
THEOREM PieceBounds ==
    ASSUME NEW length \in Nat, NEW i \in 1 .. PacketsOf(length)
    PROVE  /\ PieceLength(length, i) \in 0 .. StreamSize
           /\ length > 0 => PieceLength(length, i) > 0
<1>1. CASE i < PacketsOf(length)
  BY <1>1 DEF PieceLength
<1>2. CASE ~(i < PacketsOf(length))
  <2>1. i = PacketsOf(length)
    BY <1>2, LastPiece
  <2>2. PieceLength(length, i) = length - Offset(PacketsOf(length))
    BY <1>2, <2>1 DEF PieceLength
  <2> QED
    BY <2>2, LastPiece
<1> QED
  BY <1>1, <1>2

(* The closed form is what the loop of subData computes for a message of at *)
(* least streamSize: it starts with a full piece at offset 0, each turn     *)
(* yields the length the next one has, and it ends after the last.          *)
THEOREM LoopComputes ==
    ASSUME NEW length \in Nat, length >= StreamSize
    PROVE  LET n      == PacketsOf(length)
               End(i) == Offset(i) + PieceLength(length, i)
           IN /\ Offset(1) = 0 /\ PieceLength(length, 1) = StreamSize
              /\ \A i \in 1 .. n - 1 : /\ Offset(i + 1) = End(i)
                                       /\ PieceLength(length, i + 1) = NextLength(length, End(i))
              /\ NextLength(length, End(n)) = 0
<1> DEFINE n == PacketsOf(length)
           End(i) == Offset(i) + PieceLength(length, i)
<1>0. n \in Nat \ {0} /\ length - Offset(n) \in 1 .. StreamSize
  BY LastPiece
<1>1. Offset(1) = 0
  BY DEF Offset
<1> HIDE DEF n
<1>2. PieceLength(length, 1) = StreamSize
  <2>1. CASE 1 < n
    BY <2>1 DEF PieceLength, n
  <2>2. CASE n = 1
    <3>1. PieceLength(length, 1) = length - Offset(1)
      BY <2>2 DEF PieceLength, n
    <3> QED
      BY <1>0, <1>1, <2>2, <3>1
  <2> QED
    BY <1>0, <2>1, <2>2
<1>3. ASSUME NEW i \in 1 .. n - 1
      PROVE  Offset(i + 1) = End(i) /\ PieceLength(length, i + 1) = NextLength(length, End(i))
  <2>1. i \in Nat \ {0} /\ i + 1 \in Nat \ {0} /\ i < n
    BY <1>0
  <2>2. Offset(i + 1) = Offset(i) + StreamSize /\ Offset(i) \in Nat
    BY <2>1, OffsetStep
  <2>3. PieceLength(length, i) = StreamSize
    BY <2>1 DEF PieceLength, n
  <2>4. Offset(i + 1) = End(i)
    BY <2>2, <2>3
  <2>5. CASE i + 1 = n
    <3>1. PieceLength(length, i + 1) = length - Offset(n)
      BY <2>5, <1>0 DEF PieceLength, n
    <3>2. NextLength(length, End(i)) = length - Offset(n)
      BY <1>0, <2>4, <2>5 DEF NextLength
    <3> QED
      BY <2>4, <3>1, <3>2
  <2>6. CASE i + 1 < n
    <3>1. PieceLength(length, i + 1) = StreamSize
      BY <2>6 DEF PieceLength, n
    <3>2. Offset(i + 1) + StreamSize <= Offset(n)
      BY <1>0, <2>1, <2>6, OffsetsApart
    <3>3. Offset(i + 1) \in Nat /\ Offset(n) \in Nat
      BY <1>0, <2>1, OffsetStep
    <3>4. length - Offset(i + 1) > StreamSize
      BY <1>0, <3>2, <3>3
    <3> QED
      BY <2>4, <3>1, <3>4 DEF NextLength
  <2> QED
    BY <1>0, <2>1, <2>5, <2>6
<1>4. NextLength(length, End(n)) = 0
  <2>1. PieceLength(length, n) = length - Offset(n)
    BY <1>0 DEF PieceLength, n
  <2>2. Offset(n) \in Nat
    BY <1>0, OffsetStep
  <2>3. End(n) = length
    BY <2>1, <2>2
  <2> QED
    BY <2>3 DEF NextLength
<1> QED
  BY <1>1, <1>2, <1>3, <1>4 DEF n

(* Every byte of a message is in exactly one of its pieces: nothing is cut  *)
(* off, sent twice or left between two pieces.                              *)
THEOREM PiecesPartition ==
    ASSUME NEW length \in Nat, NEW b \in 0 .. length - 1
    PROVE  LET Contains(i) == Offset(i) <= b /\ b < Offset(i) + PieceLength(length, i)
           IN /\ \E i \in 1 .. PacketsOf(length) : Contains(i)
              /\ \A i, j \in 1 .. PacketsOf(length) : Contains(i) /\ Contains(j) => i = j
<1> DEFINE n == PacketsOf(length)
           Contains(i) == Offset(i) <= b /\ b < Offset(i) + PieceLength(length, i)
           q == b \div StreamSize
           r == b % StreamSize
<1>0. n \in Nat \ {0} /\ length - Offset(n) \in 0 .. StreamSize
  BY LastPiece
<1>1. b \in Nat
  OBVIOUS
<1>2. q \in Nat /\ r \in 0 .. StreamSize - 1 /\ b = StreamSize * q + r
  BY <1>1, DivMod
<1> HIDE DEF n, q, r
<1>3. Offset(q + 1) = StreamSize * q /\ StreamSize * q \in Nat
  <2>1. Offset(q + 1) = ((q + 1) - 1) * StreamSize
    BY DEF Offset
  <2> QED
    BY <1>2, <2>1, SMT
<1>4. Offset(n) \in Nat /\ Offset(n) + StreamSize >= length
  <2>1. Offset(n) \in Nat
    BY <1>0, OffsetStep
  <2> QED
    BY <1>0, <2>1
<1>5. q + 1 <= n
  <2> SUFFICES ASSUME n < q + 1 PROVE FALSE
    BY <1>0, <1>2
  <2>1. Offset(n) + StreamSize <= Offset(q + 1)
    BY <1>0, <1>2, OffsetsApart
  <2> QED
    BY <1>1, <1>2, <1>3, <1>4, <2>1
<1>6. Contains(q + 1)
  <2>1. CASE q + 1 < n
    <3>1. PieceLength(length, q + 1) = StreamSize
      BY <2>1 DEF PieceLength, n
    <3> QED
      BY <1>2, <1>3, <3>1
  <2>2. CASE q + 1 = n
    <3>1. PieceLength(length, q + 1) = length - Offset(q + 1)
      BY <1>0, <1>2, <2>2 DEF PieceLength, n
    <3> QED
      BY <1>2, <1>3, <3>1
  <2> QED
    BY <1>0, <1>2, <1>5, <2>1, <2>2
<1>7. ASSUME NEW i \in 1 .. n, NEW j \in 1 .. n, i < j, Contains(i), Contains(j)
      PROVE  FALSE
  <2>1. PieceLength(length, i) = StreamSize
    BY <1>0, <1>7 DEF PieceLength, n
  <2>2. Offset(i) + StreamSize <= Offset(j) /\ Offset(i) \in Nat /\ Offset(j) \in Nat
    BY <1>0, <1>7, OffsetsApart, OffsetStep
  <2> QED
    BY <1>1, <1>7, <2>1, <2>2
<1>8. q + 1 \in 1 .. n
  BY <1>0, <1>2, <1>5
<1>9. \A i, j \in 1 .. n : Contains(i) /\ Contains(j) => i = j
  <2> SUFFICES ASSUME NEW i \in 1 .. n, NEW j \in 1 .. n, Contains(i), Contains(j), i # j
               PROVE  FALSE
    OBVIOUS
  <2>1. i < j \/ j < i
    BY <1>0
  <2> HIDE DEF Contains
  <2> QED
    BY <2>1, <1>7
<1> QED
  BY <1>6, <1>8, <1>9 DEF n

(* A full packet that is asked for again is sent as a message of two        *)
(* packets, since its header has come to its length (ClientSession.addData  *)
(* passes the kept packet to sendData).                                     *)
THEOREM FullPacketResentAsTwo ==
    ASSUME HeaderLength <= StreamSize
    PROVE  PacketsOf(PacketLength(StreamSize)) = 2
<1> DEFINE len == PacketLength(StreamSize)
           n == PacketsOf(len)
<1>1. HeaderLength = 41
  BY DEF HeaderLength
<1>2. len = StreamSize + 41 /\ len \in Nat
  BY <1>1 DEF PacketLength
<1> HIDE DEF len
<1>3. n \in Nat \ {0} /\ Offset(n) < len /\ len <= Offset(n) + StreamSize
  <2>1. n \in Nat \ {0} /\ len - Offset(n) \in 1 .. StreamSize
    BY <1>2, LastPiece
  <2>2. Offset(n) \in Nat
    BY <2>1, OffsetStep
  <2> QED
    BY <1>2, <2>1, <2>2
<1> HIDE DEF n
<1>4. Offset(1) = 0 /\ Offset(3) = StreamSize + StreamSize
  BY SMT DEF Offset
<1>5. n # 1
  BY <1>2, <1>3, <1>4
<1>6. ~(n >= 3)
  <2> SUFFICES ASSUME n >= 3 PROVE FALSE
    OBVIOUS
  <2>1. Offset(n) >= Offset(3)
    <3>1. CASE n = 3
      BY <3>1, <1>4
    <3>2. CASE n > 3
      <4>1. Offset(3) + StreamSize <= Offset(n)
        BY <1>3, <3>2, OffsetsApart
      <4>2. Offset(n) \in Nat
        BY <1>3, OffsetStep
      <4> QED
        BY <1>4, <4>1, <4>2
    <3> QED
      BY <1>3, <3>1, <3>2
  <2>2. Offset(n) \in Nat
    BY <1>3, OffsetStep
  <2> QED
    BY <1>1, <1>2, <1>3, <1>4, <2>1, <2>2
<1> QED
  BY <1>3, <1>5, <1>6 DEF n, len
HIDE StreamSizeAssumption

-----------------------------------------------------------------------------
(* The session.                                                             *)

Places == {"idle", "first", "make", "firstTake", "register", "send", "keep", "next", "nextTake",
           "confirm", "end", "remove", "forget", "loss", "file", "dead", "close", "set", "shut"}
Jobs   == [length : Nat, init : Numbers, size : Nat, left : Nat, id : Numbers,
           again : Numbers \cup {-1}, inOrder : BOOLEAN]
Kept   == [Numbers -> Loads \cup {Null}]

(* A thread that takes a number has a counter to take it from.              *)
NumberTypes ==
    /\ atomics \in Seq(Nat) /\ current \in 0 .. Len(atomics)
    /\ counter \in [Threads -> 0 .. Len(atomics)]
    /\ \A t \in Threads : pc[t] \in {"firstTake", "nextTake"} => counter[t] # 0

(* How far each thread is with its message.                                 *)
Starting == {"first", "make", "firstTake", "register"}
Sending  == {"send", "keep", "next", "nextTake"}
Progress(t) ==
    /\ pc[t] \in Starting => job[t].left = job[t].size
    /\ pc[t] \in Starting \cup Sending =>
         job[t].size = PacketsOf(job[t].length) /\ job[t].left \in 1 .. job[t].size
    /\ pc[t] \in {"register", "send", "keep"} /\ job[t].inOrder =>
         job[t].id = job[t].init + job[t].size - job[t].left
    /\ pc[t] = "confirm" => job[t].left = 0
JobTypes == /\ pc \in [Threads -> Places] /\ job \in [Threads -> Jobs]
            /\ \A t \in Threads : Progress(t)

StoreTypes == /\ mapCache \in Kept /\ flushed \subseteq Numbers
              /\ fileDB = Null \/ fileDB \in Kept
              /\ \/ spilling = NoPacket
                 \/ /\ fileDB # Null
                    /\ spilling \in [number : Numbers, load : Loads]

(* The packets that the worker removes are those of a message that ended.   *)
EndTypes == /\ ack \in Numbers /\ ending \in [i : Nat, size : Nat]
            /\ mapInitSeq \in [Numbers -> Nat]
            /\ pc["worker"] = "remove" =>
                 /\ ending.i <= ending.size
                 /\ \E e \in ended : e.init = ack /\ e.size = ending.size

TypeInv == NumberTypes /\ JobTypes /\ StoreTypes /\ EndTypes

(* Where a packet with number n may be once it was kept.                    *)
Covered(n) == /\ n \in Numbers
              /\ Held(n) \/ n \in flushed \/ \E e \in ended : n \in e.init .. e.init + e.size
JobCovered == \A t \in Threads : job[t].inOrder =>
                \A n \in job[t].init .. job[t].init + job[t].size - job[t].left - 1 : Covered(n)
WholeCovered == \A w \in whole : \A n \in NumbersOf(w) : Covered(n)

Inv == TypeInv /\ JobCovered /\ WholeCovered

LEMMA WorkerIsThread == "worker" \in Threads /\ Senders \subseteq Threads
BY DEF Threads

LEMMA NewJobIsJob ==
    ASSUME NEW length \in Nat, NEW again \in Numbers \cup {-1}
    PROVE  /\ NewJob(length, again) \in Jobs
           /\ NewJob(length, again).size = PacketsOf(NewJob(length, again).length)
           /\ NewJob(length, again).left = NewJob(length, again).size
           /\ NewJob(length, again).left \in 1 .. NewJob(length, again).size
<1>1. PacketsOf(length) \in Nat \ {0}
  BY LastPiece
<1>2. 0 \in Numbers
  BY BoundsAssumption DEF Numbers
<1> QED
  BY <1>1, <1>2 DEF NewJob, Jobs

LEMMA NoStoreIsNoMap == Null \notin Kept
BY NullAssumption DEF Kept

(* What a thread keeps is a packet.                                         *)
LEMMA LoadIsLoad ==
    ASSUME TypeInv, NEW t \in Threads, pc[t] \in Starting \cup Sending
    PROVE  Load(t) \in Loads /\ Load(t) # Null
<1>1. job[t] \in Jobs /\ Part(t) \in 1 .. PacketsOf(job[t].length)
  BY DEF TypeInv, JobTypes, Progress, Part, Jobs
<1>2. PieceLength(job[t].length, Part(t)) \in 0 .. StreamSize
  BY <1>1, PieceBounds DEF Jobs
<1>3. PacketLength(PieceLength(job[t].length, Part(t))) \in Nat
  BY <1>2, StreamSizeAssumption DEF PacketLength, HeaderLength
<1>4. Load(t) \in Loads
  BY <1>1, <1>3, LastPiece DEF Load, Loads, Jobs
<1> QED
  BY <1>4, NullAssumption

-----------------------------------------------------------------------------
(* The types.                                                              *)

LEMMA NumberStep ==
    ASSUME TypeInv, [Next]_vars
    PROVE  NumberTypes'
<1> USE DEF TypeInv
<1>1. ASSUME NEW t \in Threads, LookupCounter(t) PROVE NumberTypes'
  <2>1. current # 0 \/ pc' = [pc EXCEPT ![t] = "make"]
    BY <1>1 DEF LookupCounter, Step
  <2>2. \E to \in Places : pc' = [pc EXCEPT ![t] = to]
    BY <1>1 DEF LookupCounter, Step, Places
  <2>3. counter' = [counter EXCEPT ![t] = current] /\ UNCHANGED <<atomics, current>>
    BY <1>1 DEF LookupCounter
  <2> QED
    BY <2>1, <2>2, <2>3 DEF NumberTypes, JobTypes
<1>2. ASSUME NEW t \in Threads, MakeCounter(t) PROVE NumberTypes'
  <2>1. atomics' \in Seq(Nat) /\ Len(atomics') = Len(atomics) + 1 /\ Len(atomics) \in Nat
    BY <1>2, AppendProperties DEF MakeCounter, NumberTypes
  <2> QED
    BY <1>2, <2>1 DEF MakeCounter, Step, NumberTypes, JobTypes
<1>3. ASSUME NEW t \in Threads, TakeFirst(t) PROVE NumberTypes'
  <2>1. counter[t] \in 1 .. Len(atomics) /\ atomics[counter[t]] \in Nat
    BY <1>3 DEF TakeFirst, Step, NumberTypes
  <2>2. atomics' \in Seq(Nat) /\ Len(atomics') = Len(atomics)
    BY <1>3, <2>1, ExceptSeq DEF TakeFirst, GetAndIncrement, NumberTypes
  <2>3. /\ counter' = [counter EXCEPT ![t] = 0] /\ current' = current
        /\ \E to \in {"register", "send"} : pc' = [pc EXCEPT ![t] = to]
    BY <1>3 DEF TakeFirst, Step
  <2> QED
    BY <2>2, <2>3 DEF NumberTypes, JobTypes
<1>4. ASSUME NEW t \in Threads, TakeNext(t) PROVE NumberTypes'
  <2>1. counter[t] \in 1 .. Len(atomics) /\ atomics[counter[t]] \in Nat
    BY <1>4 DEF TakeNext, Step, NumberTypes
  <2>2. atomics' \in Seq(Nat) /\ Len(atomics') = Len(atomics)
    BY <1>4, <2>1, ExceptSeq DEF TakeNext, GetAndIncrement, NumberTypes
  <2>3. /\ counter' = [counter EXCEPT ![t] = 0] /\ current' = current
        /\ \E to \in {"register", "send"} : pc' = [pc EXCEPT ![t] = to]
    BY <1>4 DEF TakeNext, Step
  <2> QED
    BY <2>2, <2>3 DEF NumberTypes, JobTypes
<1>5. ASSUME NEW t \in Threads, Register(t) PROVE NumberTypes'
  BY <1>5 DEF Register, Step, NumberTypes, JobTypes, numbers, state, closing, acking, spill, history
<1>6. ASSUME NEW t \in Threads, Send(t) PROVE NumberTypes'
  BY <1>6 DEF Send, Step, NumberTypes, JobTypes, numbers, state, closing, acking, spill, history
<1>7. ASSUME NEW t \in Threads, Keep(t) PROVE NumberTypes'
  BY <1>7 DEF Keep, KeepAs, Step, NumberTypes, JobTypes, numbers, state, closing, acking, spill, history
<1>8. ASSUME NEW t \in Threads, Confirm(t) PROVE NumberTypes'
  BY <1>8 DEF Confirm, Step, NumberTypes, JobTypes, numbers, state, closing, acking, spill, history
<1>9. ASSUME NEW s \in Senders, Begin(s) PROVE NumberTypes'
  BY <1>9 DEF Begin, Step, NumberTypes, JobTypes, numbers, state, closing, acking, spill, history
<1>10. ASSUME ReceiveEnd PROVE NumberTypes'
  BY <1>10, WorkerIsThread DEF ReceiveEnd, Receive, Step, NumberTypes, JobTypes, numbers, state, closing, acking, spill, history
<1>11. ASSUME ReceiveLoss PROVE NumberTypes'
  BY <1>11, WorkerIsThread DEF ReceiveLoss, Receive, Step, NumberTypes, JobTypes, numbers, state, closing, acking, spill, history
<1>12. ASSUME CloseTest PROVE NumberTypes'
  BY <1>12, WorkerIsThread DEF CloseTest, Step, NumberTypes, JobTypes, numbers, state, closing, acking, spill, history
<1>13. ASSUME CloseSet PROVE NumberTypes'
  BY <1>13, WorkerIsThread DEF CloseSet, Step, NumberTypes, JobTypes, numbers, state, closing, acking, spill, history
<1>14. ASSUME CloseSocket PROVE NumberTypes'
  BY <1>14, WorkerIsThread DEF CloseSocket, Step, NumberTypes, JobTypes, numbers, state, closing, acking, spill, history
<1>15. ASSUME EndUnknown PROVE NumberTypes'
  BY <1>15, WorkerIsThread DEF EndUnknown, Handled, Step, NumberTypes, JobTypes, numbers, state, closing, acking, spill, history
<1>16. ASSUME EndKnown PROVE NumberTypes'
  BY <1>16, WorkerIsThread DEF EndKnown, Step, NumberTypes, JobTypes, numbers, state, closing, acking, spill, history
<1>17. ASSUME RemovePacket PROVE NumberTypes'
  BY <1>17, WorkerIsThread DEF RemovePacket, RemovesUpTo, Step, NumberTypes, JobTypes, numbers, state, closing, acking, spill, history
<1>18. ASSUME ForgetMessage PROVE NumberTypes'
  BY <1>18, WorkerIsThread DEF ForgetMessage, Handled, Step, NumberTypes, JobTypes, numbers, state, closing, acking, spill, history
<1>19. ASSUME LookupKept PROVE NumberTypes'
  BY <1>19, WorkerIsThread DEF LookupKept, Handled, Step, NumberTypes, JobTypes, numbers, state, closing, acking, spill, history
<1>20. ASSUME LookupFile PROVE NumberTypes'
  BY <1>20, WorkerIsThread DEF LookupFile, Handled, Step, NumberTypes, JobTypes, numbers, state, closing, acking, spill, history
<1>21. ASSUME SetLogicalClose PROVE NumberTypes'
  BY <1>21 DEF SetLogicalClose, Step, NumberTypes, JobTypes, numbers, state, closing, acking, spill, history
<1>22. ASSUME SpillStart PROVE NumberTypes'
  BY <1>22 DEF SpillStart, Step, NumberTypes, JobTypes, numbers, state, closing, acking, spill, history
<1>23. ASSUME SpillStore PROVE NumberTypes'
  BY <1>23 DEF SpillStore, Step, NumberTypes, JobTypes, numbers, state, closing, acking, spill, history
<1>24. ASSUME NEW n \in Numbers, SpillTake(n) PROVE NumberTypes'
  BY <1>24 DEF SpillTake, Step, NumberTypes, JobTypes, numbers, state, closing, acking, spill, history
<1>25. ASSUME NEW n \in Numbers, SpillFlush(n) PROVE NumberTypes'
  BY <1>25 DEF SpillFlush, Step, NumberTypes, JobTypes, numbers, state, closing, acking, spill, history
<1>26. ASSUME UNCHANGED vars PROVE NumberTypes'
  BY <1>26 DEF vars, Step, NumberTypes, JobTypes, numbers, state, closing, acking, spill, history
<1> QED
  BY <1>1, <1>2, <1>3, <1>4, <1>5, <1>6, <1>7, <1>8, <1>9, <1>10, <1>11, <1>12, <1>13, <1>14, <1>15, <1>16, <1>17, <1>18, <1>19, <1>20, <1>21, <1>22, <1>23, <1>24, <1>25, <1>26, WorkerIsThread DEF Next, SendData, Work

LEMMA JobStep ==
    ASSUME TypeInv, [Next]_vars
    PROVE  JobTypes'
<1> USE DEF TypeInv
(* A step of one thread whose new place and job fit together.               *)
<1>a. ASSUME NEW t \in Threads, NEW to \in Places, NEW j \in Jobs,
             pc' = [pc EXCEPT ![t] = to], job' = [job EXCEPT ![t] = j], Progress(t)'
      PROVE  JobTypes'
  BY <1>a DEF JobTypes, Progress
(* A step to a place where nothing is said of the job.                      *)
<1>b. ASSUME NEW t \in Threads, NEW to \in Places \ (Starting \cup Sending \cup {"confirm"}),
             NEW j \in Jobs, pc' = [pc EXCEPT ![t] = to], job' = [job EXCEPT ![t] = j]
      PROVE  JobTypes'
  BY <1>b, <1>a DEF Progress, Starting, Sending, JobTypes
<1>c. NoJob \in Jobs
  BY BoundsAssumption DEF NoJob, Jobs, Numbers
<1>1. ASSUME NEW t \in Threads, LookupCounter(t) PROVE JobTypes'
  <2>1. job' = job /\ job[t] \in Jobs /\ Progress(t)
    BY <1>1 DEF LookupCounter, JobTypes
  <2>2. \E to \in Places : pc' = [pc EXCEPT ![t] = to] /\ Progress(t)'
    BY <1>1, <2>1 DEF LookupCounter, Step, Places, Progress, Starting, Sending, JobTypes
  <2> QED
    BY <2>1, <2>2, <1>a DEF JobTypes
<1>2. ASSUME NEW t \in Threads, MakeCounter(t) PROVE JobTypes'
  <2>1. job' = job /\ job[t] \in Jobs /\ Progress(t)
    BY <1>2 DEF MakeCounter, JobTypes
  <2>2. \E to \in Places : pc' = [pc EXCEPT ![t] = to] /\ Progress(t)'
    BY <1>2, <2>1 DEF MakeCounter, Step, Places, Progress, Starting, Sending, JobTypes
  <2> QED
    BY <2>1, <2>2, <1>a DEF JobTypes
<1>3. ASSUME NEW t \in Threads, TakeFirst(t) PROVE JobTypes'
  <2> DEFINE n == atomics[counter[t]]
             j == [job[t] EXCEPT !.init = n, !.id = n]
  <2>1. n \in Numbers
    BY <1>3, BoundsAssumption DEF TakeFirst, Step, NumberTypes, Numbers
  <2>2. j \in Jobs /\ job' = [job EXCEPT ![t] = j] /\ pc' = [pc EXCEPT ![t] = "register"]
    BY <1>3, <2>1 DEF TakeFirst, Step, JobTypes, Jobs
  <2>3. job'[t] = j /\ pc'[t] = "register"
    BY <2>2 DEF JobTypes
  <2>4. pc[t] = "firstTake" /\ Progress(t) /\ job[t] \in Jobs
    BY <1>3 DEF TakeFirst, Step, JobTypes
  <2>5. Progress(t)'
    BY <2>1, <2>3, <2>4 DEF Progress, Starting, Sending, Jobs, Numbers
  <2> QED
    BY <2>2, <2>5, <1>a DEF Places
<1>4. ASSUME NEW t \in Threads, TakeNext(t) PROVE JobTypes'
  <2> DEFINE n == atomics[counter[t]]
             j == [job[t] EXCEPT !.id = n, !.inOrder = job[t].inOrder /\ n = job[t].init + Part(t) - 1]
  <2>1. n \in Numbers
    BY <1>4, BoundsAssumption DEF TakeNext, Step, NumberTypes, Numbers
  <2>2. j \in Jobs /\ job' = [job EXCEPT ![t] = j] /\ pc' = [pc EXCEPT ![t] = "send"]
    BY <1>4, <2>1 DEF TakeNext, Step, JobTypes, Jobs
  <2>3. job'[t] = j /\ pc'[t] = "send"
    BY <2>2 DEF JobTypes
  <2>4. pc[t] = "nextTake" /\ Progress(t) /\ job[t] \in Jobs
    BY <1>4 DEF TakeNext, Step, JobTypes
  <2>5. j.inOrder => j.id = j.init + j.size - j.left
    <3> SUFFICES ASSUME j.inOrder PROVE j.id = j.init + j.size - j.left
      OBVIOUS
    <3>1. n = job[t].init + Part(t) - 1
      BY <2>4, Zenon DEF Jobs
    <3>2. j.id = n /\ j.init = job[t].init /\ j.size = job[t].size /\ j.left = job[t].left
      BY <2>4 DEF Jobs
    <3> QED
      BY <2>4, <3>1, <3>2 DEF Part, Jobs, Numbers
  <2>6. j.size = PacketsOf(j.length) /\ j.left \in 1 .. j.size
    BY <2>4 DEF Progress, Sending, Jobs
  <2> HIDE DEF j
  <2>7. Progress(t)'
    BY <2>3, <2>5, <2>6 DEF Progress, Starting, Sending
  <2> QED
    BY <2>2, <2>7, <1>a DEF Places
<1>5. ASSUME NEW t \in Threads, Register(t) PROVE JobTypes'
  <2>1. job' = job /\ job[t] \in Jobs /\ Progress(t)
    BY <1>5 DEF Register, JobTypes
  <2>2. \E to \in Places : pc' = [pc EXCEPT ![t] = to] /\ Progress(t)'
    BY <1>5, <2>1 DEF Register, Step, Places, Progress, Starting, Sending, JobTypes
  <2> QED
    BY <2>1, <2>2, <1>a DEF JobTypes
<1>6. ASSUME NEW t \in Threads, Send(t) PROVE JobTypes'
  <2>1. job' = job /\ job[t] \in Jobs /\ Progress(t)
    BY <1>6 DEF Send, JobTypes
  <2>2. \E to \in Places : pc' = [pc EXCEPT ![t] = to] /\ Progress(t)'
    BY <1>6, <2>1 DEF Send, Step, Places, Progress, Starting, Sending, JobTypes
  <2> QED
    BY <2>1, <2>2, <1>a DEF JobTypes
<1>7. ASSUME NEW t \in Threads, Keep(t) PROVE JobTypes'
  <2> DEFINE j == [job[t] EXCEPT !.left = job[t].left - 1]
             to == IF job[t].left = 1 THEN "confirm" ELSE "next"
  <2>1. pc[t] = "keep" /\ Progress(t) /\ job[t] \in Jobs /\ job[t].left \in 1 .. job[t].size
    BY <1>7 DEF Keep, KeepAs, Step, JobTypes, Progress, Sending
  <2>2. j \in Jobs /\ job' = [job EXCEPT ![t] = j] /\ pc' = [pc EXCEPT ![t] = to]
    BY <1>7, <2>1 DEF Keep, KeepAs, Step, JobTypes, Jobs
  <2>3. job'[t] = j /\ pc'[t] = to
    BY <2>2 DEF JobTypes
  <2>4. Progress(t)'
    BY <2>1, <2>3 DEF Progress, Starting, Sending, Jobs
  <2>5. to \in Places
    BY DEF Places
  <2> QED
    BY <2>2, <2>4, <2>5, <1>a
<1>8. ASSUME NEW t \in Threads, Confirm(t) PROVE JobTypes'
  <2>1. pc' = [pc EXCEPT ![t] = "idle"] /\ job' = [job EXCEPT ![t] = NoJob]
    BY <1>8 DEF Confirm, Step
  <2> QED
    BY <2>1, <1>b, <1>c DEF Places, Starting, Sending
<1>9. ASSUME NEW s \in Senders, Begin(s) PROVE JobTypes'
  <2> DEFINE j == NewJob(LengthOf[s], -1)
  <2>1. s \in Threads /\ LengthOf[s] \in Nat
    BY LengthsAssumption, WorkerIsThread
  <2>2. j \in Jobs /\ j.size = PacketsOf(j.length) /\ j.left = j.size /\ j.left \in 1 .. j.size
    BY <2>1, NewJobIsJob
  <2> HIDE DEF j
  <2>3. pc' = [pc EXCEPT ![s] = "first"] /\ job' = [job EXCEPT ![s] = j]
    BY <1>9 DEF Begin, Step, j
  <2>4. Progress(s)'
    BY <2>1, <2>2, <2>3 DEF Progress, Starting, Sending, JobTypes
  <2> QED
    BY <2>1, <2>2, <2>3, <2>4, <1>a DEF Places
<1>10. ASSUME ReceiveEnd PROVE JobTypes'
  <2>1. \E to \in {"end", "loss"} : pc' = [pc EXCEPT !["worker"] = to]
    BY <1>10 DEF ReceiveEnd, Receive, Step
  <2>2. job' = [job EXCEPT !["worker"] = job["worker"]] /\ job["worker"] \in Jobs
    BY <1>10, WorkerIsThread DEF ReceiveEnd, Receive, JobTypes
  <2> QED
    BY <2>1, <2>2, <1>b, WorkerIsThread DEF Places, Starting, Sending
<1>11. ASSUME ReceiveLoss PROVE JobTypes'
  <2>1. \E to \in {"end", "loss"} : pc' = [pc EXCEPT !["worker"] = to]
    BY <1>11 DEF ReceiveLoss, Receive, Step
  <2>2. job' = [job EXCEPT !["worker"] = job["worker"]] /\ job["worker"] \in Jobs
    BY <1>11, WorkerIsThread DEF ReceiveLoss, Receive, JobTypes
  <2> QED
    BY <2>1, <2>2, <1>b, WorkerIsThread DEF Places, Starting, Sending
<1>12. ASSUME CloseTest PROVE JobTypes'
  <2>1. \E to \in {"idle", "set"} : pc' = [pc EXCEPT !["worker"] = to]
    BY <1>12 DEF CloseTest, Step
  <2>2. job' = [job EXCEPT !["worker"] = job["worker"]] /\ job["worker"] \in Jobs
    BY <1>12, WorkerIsThread DEF CloseTest, JobTypes
  <2> QED
    BY <2>1, <2>2, <1>b, WorkerIsThread DEF Places, Starting, Sending
<1>13. ASSUME CloseSet PROVE JobTypes'
  <2>1. \E to \in {"shut"} : pc' = [pc EXCEPT !["worker"] = to]
    BY <1>13 DEF CloseSet, Step
  <2>2. job' = [job EXCEPT !["worker"] = job["worker"]] /\ job["worker"] \in Jobs
    BY <1>13, WorkerIsThread DEF CloseSet, JobTypes
  <2> QED
    BY <2>1, <2>2, <1>b, WorkerIsThread DEF Places, Starting, Sending
<1>14. ASSUME CloseSocket PROVE JobTypes'
  <2>1. \E to \in {"idle"} : pc' = [pc EXCEPT !["worker"] = to]
    BY <1>14 DEF CloseSocket, Step
  <2>2. job' = [job EXCEPT !["worker"] = job["worker"]] /\ job["worker"] \in Jobs
    BY <1>14, WorkerIsThread DEF CloseSocket, JobTypes
  <2> QED
    BY <2>1, <2>2, <1>b, WorkerIsThread DEF Places, Starting, Sending
<1>15. ASSUME EndUnknown PROVE JobTypes'
  <2>1. \E to \in {"idle"} : pc' = [pc EXCEPT !["worker"] = to]
    BY <1>15 DEF EndUnknown, Step
  <2>2. job' = [job EXCEPT !["worker"] = job["worker"]] /\ job["worker"] \in Jobs
    BY <1>15, WorkerIsThread DEF EndUnknown, JobTypes
  <2> QED
    BY <2>1, <2>2, <1>b, WorkerIsThread DEF Places, Starting, Sending
<1>16. ASSUME EndKnown PROVE JobTypes'
  <2>1. \E to \in {"remove"} : pc' = [pc EXCEPT !["worker"] = to]
    BY <1>16 DEF EndKnown, Step
  <2>2. job' = [job EXCEPT !["worker"] = job["worker"]] /\ job["worker"] \in Jobs
    BY <1>16, WorkerIsThread DEF EndKnown, JobTypes
  <2> QED
    BY <2>1, <2>2, <1>b, WorkerIsThread DEF Places, Starting, Sending
<1>17. ASSUME RemovePacket PROVE JobTypes'
  <2>1. \E to \in {"forget", "remove"} : pc' = [pc EXCEPT !["worker"] = to]
    BY <1>17 DEF RemovePacket, RemovesUpTo, Step
  <2>2. job' = [job EXCEPT !["worker"] = job["worker"]] /\ job["worker"] \in Jobs
    BY <1>17, WorkerIsThread DEF RemovePacket, RemovesUpTo, JobTypes
  <2> QED
    BY <2>1, <2>2, <1>b, WorkerIsThread DEF Places, Starting, Sending
<1>18. ASSUME ForgetMessage PROVE JobTypes'
  <2>1. \E to \in {"close", "idle"} : pc' = [pc EXCEPT !["worker"] = to]
    BY <1>18 DEF ForgetMessage, Step
  <2>2. job' = [job EXCEPT !["worker"] = job["worker"]] /\ job["worker"] \in Jobs
    BY <1>18, WorkerIsThread DEF ForgetMessage, JobTypes
  <2> QED
    BY <2>1, <2>2, <1>b, WorkerIsThread DEF Places, Starting, Sending
<1>19. ASSUME LookupKept PROVE JobTypes'
  <2>1. CASE ~(mapCache[ack] # Null)
    <3>1. job' = job /\ \E to \in {"file"} : pc' = [pc EXCEPT !["worker"] = to]
      BY <1>19, <2>1 DEF LookupKept, Step
    <3>2. job["worker"] \in Jobs /\ job' = [job EXCEPT !["worker"] = job["worker"]]
      BY <3>1, WorkerIsThread DEF JobTypes
    <3> QED
      BY <3>1, <3>2, <1>b, WorkerIsThread DEF Places, Starting, Sending
  <2>2. CASE mapCache[ack] # Null
    <3> DEFINE j == NewJob(mapCache[ack].length, ack)
    <3>1. mapCache[ack].length \in Nat /\ ack \in Numbers
      BY <2>2 DEF StoreTypes, EndTypes, Kept, Loads, Stored
    <3>2. j \in Jobs /\ j.size = PacketsOf(j.length) /\ j.left = j.size /\ j.left \in 1 .. j.size
      BY <3>1, NewJobIsJob
    <3> HIDE DEF j
    <3>3. pc' = [pc EXCEPT !["worker"] = "first"] /\ job' = [job EXCEPT !["worker"] = j]
      BY <1>19, <2>2 DEF LookupKept, Step, Resend, j
    <3>4. Progress("worker")'
      BY <3>2, <3>3, WorkerIsThread DEF Progress, Starting, Sending, JobTypes
    <3> QED
      BY <3>2, <3>3, <3>4, <1>a, WorkerIsThread DEF Places
  <2> QED
    BY <2>1, <2>2
<1>20. ASSUME LookupFile PROVE JobTypes'
  <2>1. CASE ~(Stored(ack))
    <3>1. job' = job /\ \E to \in {"idle", "dead"} : pc' = [pc EXCEPT !["worker"] = to]
      BY <1>20, <2>1 DEF LookupFile, Step
    <3>2. job["worker"] \in Jobs /\ job' = [job EXCEPT !["worker"] = job["worker"]]
      BY <3>1, WorkerIsThread DEF JobTypes
    <3> QED
      BY <3>1, <3>2, <1>b, WorkerIsThread DEF Places, Starting, Sending
  <2>2. CASE Stored(ack)
    <3> DEFINE j == NewJob(fileDB[ack].length, ack)
    <3>1. fileDB[ack].length \in Nat /\ ack \in Numbers
      BY <2>2 DEF StoreTypes, EndTypes, Kept, Loads, Stored
    <3>2. j \in Jobs /\ j.size = PacketsOf(j.length) /\ j.left = j.size /\ j.left \in 1 .. j.size
      BY <3>1, NewJobIsJob
    <3> HIDE DEF j
    <3>3. pc' = [pc EXCEPT !["worker"] = "first"] /\ job' = [job EXCEPT !["worker"] = j]
      BY <1>20, <2>2 DEF LookupFile, Step, Resend, j
    <3>4. Progress("worker")'
      BY <3>2, <3>3, WorkerIsThread DEF Progress, Starting, Sending, JobTypes
    <3> QED
      BY <3>2, <3>3, <3>4, <1>a, WorkerIsThread DEF Places
  <2> QED
    BY <2>1, <2>2
<1>21. ASSUME SetLogicalClose PROVE JobTypes'
  BY <1>21 DEF SetLogicalClose, JobTypes, Progress
<1>22. ASSUME SpillStart PROVE JobTypes'
  BY <1>22 DEF SpillStart, JobTypes, Progress
<1>23. ASSUME SpillStore PROVE JobTypes'
  BY <1>23 DEF SpillStore, JobTypes, Progress
<1>24. ASSUME NEW n \in Numbers, SpillTake(n) PROVE JobTypes'
  BY <1>24 DEF SpillTake, JobTypes, Progress
<1>25. ASSUME NEW n \in Numbers, SpillFlush(n) PROVE JobTypes'
  BY <1>25 DEF SpillFlush, JobTypes, Progress
<1>26. ASSUME UNCHANGED vars PROVE JobTypes'
  BY <1>26 DEF vars, JobTypes, Progress
<1> QED
  BY <1>1, <1>2, <1>3, <1>4, <1>5, <1>6, <1>7, <1>8, <1>9, <1>10, <1>11, <1>12, <1>13, <1>14, <1>15, <1>16, <1>17, <1>18, <1>19, <1>20, <1>21, <1>22, <1>23, <1>24, <1>25, <1>26, WorkerIsThread DEF Next, SendData, Work

LEMMA StoreStep ==
    ASSUME TypeInv, [Next]_vars
    PROVE  StoreTypes'
<1> USE DEF TypeInv
<1>1. ASSUME NEW t \in Threads, LookupCounter(t) PROVE StoreTypes'
  BY <1>1 DEF LookupCounter, Step, StoreTypes, Kept, state, spill
<1>2. ASSUME NEW t \in Threads, MakeCounter(t) PROVE StoreTypes'
  BY <1>2 DEF MakeCounter, Step, StoreTypes, Kept, state, spill
<1>3. ASSUME NEW t \in Threads, TakeFirst(t) PROVE StoreTypes'
  BY <1>3 DEF TakeFirst, GetAndIncrement, Step, StoreTypes, Kept, state, spill
<1>4. ASSUME NEW t \in Threads, TakeNext(t) PROVE StoreTypes'
  BY <1>4 DEF TakeNext, GetAndIncrement, Step, StoreTypes, Kept, state, spill
<1>5. ASSUME NEW t \in Threads, Register(t) PROVE StoreTypes'
  BY <1>5 DEF Register, Step, StoreTypes, Kept, state, spill
<1>6. ASSUME NEW t \in Threads, Send(t) PROVE StoreTypes'
  BY <1>6 DEF Send, Step, StoreTypes, Kept, state, spill
<1>7. ASSUME NEW t \in Threads, Keep(t) PROVE StoreTypes'
  <2>1. Load(t) \in Loads
    BY <1>7, LoadIsLoad DEF Keep, KeepAs, Step, Sending
  <2> QED
    BY <1>7, <2>1 DEF Keep, KeepAs, StoreTypes, Kept, spill
<1>8. ASSUME NEW t \in Threads, Confirm(t) PROVE StoreTypes'
  BY <1>8 DEF Confirm, Step, StoreTypes, Kept, state, spill
<1>9. ASSUME NEW s \in Senders, Begin(s) PROVE StoreTypes'
  BY <1>9 DEF Begin, Step, StoreTypes, Kept, state, spill
<1>10. ASSUME ReceiveEnd PROVE StoreTypes'
  BY <1>10, WorkerIsThread DEF ReceiveEnd, Receive, Step, StoreTypes, Kept, state, spill
<1>11. ASSUME ReceiveLoss PROVE StoreTypes'
  BY <1>11, WorkerIsThread DEF ReceiveLoss, Receive, Step, StoreTypes, Kept, state, spill
<1>12. ASSUME CloseTest PROVE StoreTypes'
  BY <1>12, WorkerIsThread DEF CloseTest, Step, StoreTypes, Kept, state, spill
<1>13. ASSUME CloseSet PROVE StoreTypes'
  BY <1>13, WorkerIsThread DEF CloseSet, Step, StoreTypes, Kept, state, spill
<1>14. ASSUME CloseSocket PROVE StoreTypes'
  BY <1>14, WorkerIsThread DEF CloseSocket, Step, StoreTypes, Kept, state, spill
<1>15. ASSUME EndUnknown PROVE StoreTypes'
  BY <1>15, WorkerIsThread DEF EndUnknown, Handled, Step, StoreTypes, Kept, state, spill
<1>16. ASSUME EndKnown PROVE StoreTypes'
  BY <1>16, WorkerIsThread DEF EndKnown, Step, StoreTypes, Kept, state, spill
<1>17. ASSUME RemovePacket PROVE StoreTypes'
  BY <1>17, WorkerIsThread DEF RemovePacket, RemovesUpTo, Step, StoreTypes, Kept, state, spill
<1>18. ASSUME ForgetMessage PROVE StoreTypes'
  BY <1>18, WorkerIsThread DEF ForgetMessage, Handled, Step, StoreTypes, Kept, state, spill
<1>19. ASSUME LookupKept PROVE StoreTypes'
  BY <1>19, WorkerIsThread DEF LookupKept, Handled, Step, StoreTypes, Kept, state, spill
<1>20. ASSUME LookupFile PROVE StoreTypes'
  BY <1>20, WorkerIsThread DEF LookupFile, Handled, Step, StoreTypes, Kept, state, spill
<1>21. ASSUME SetLogicalClose PROVE StoreTypes'
  BY <1>21 DEF SetLogicalClose, Step, StoreTypes, Kept, state, spill
<1>22. ASSUME SpillStart PROVE StoreTypes'
  <2>1. fileDB' \in Kept
    BY <1>22 DEF SpillStart, Kept
  <2>2. fileDB' # Null
    BY <2>1, NoStoreIsNoMap
  <2> QED
    BY <1>22, <2>1, <2>2 DEF SpillStart, StoreTypes, state
<1>23. ASSUME SpillStore PROVE StoreTypes'
  <2>1. fileDB' \in Kept
    BY <1>23 DEF SpillStore, StoreTypes, Kept, NoPacket, Stored
  <2>2. fileDB' # Null
    BY <2>1, NoStoreIsNoMap
  <2>3. spilling' = NoPacket \/ spilling' = spilling
    BY <1>23 DEF SpillStore
  <2>4. mapCache' = mapCache /\ flushed' \subseteq Numbers
    BY <1>23 DEF SpillStore, StoreTypes, state
  <2> QED
    BY <2>1, <2>2, <2>3, <2>4 DEF StoreTypes
<1>24. ASSUME NEW n \in Numbers, SpillTake(n) PROVE StoreTypes'
  BY <1>24 DEF SpillTake, Step, StoreTypes, Kept, state, spill
<1>25. ASSUME NEW n \in Numbers, SpillFlush(n) PROVE StoreTypes'
  <2>1. fileDB' \in Kept
    BY <1>25 DEF SpillFlush, StoreTypes, Kept, NoPacket, Stored
  <2>2. fileDB' # Null
    BY <2>1, NoStoreIsNoMap
  <2>3. spilling' = NoPacket \/ spilling' = spilling
    BY <1>25 DEF SpillFlush
  <2>4. mapCache' = mapCache /\ flushed' \subseteq Numbers
    BY <1>25 DEF SpillFlush, StoreTypes, state
  <2> QED
    BY <2>1, <2>2, <2>3, <2>4 DEF StoreTypes
<1>26. ASSUME UNCHANGED vars PROVE StoreTypes'
  BY <1>26 DEF vars, Step, StoreTypes, Kept, state, spill
<1> QED
  BY <1>1, <1>2, <1>3, <1>4, <1>5, <1>6, <1>7, <1>8, <1>9, <1>10, <1>11, <1>12, <1>13, <1>14, <1>15, <1>16, <1>17, <1>18, <1>19, <1>20, <1>21, <1>22, <1>23, <1>24, <1>25, <1>26, WorkerIsThread DEF Next, SendData, Work

LEMMA EndStep ==
    ASSUME TypeInv, [Next]_vars
    PROVE  EndTypes'
<1> USE DEF TypeInv
<1>a. 0 \in Numbers
  BY BoundsAssumption DEF Numbers
<1>1. ASSUME NEW t \in Threads, LookupCounter(t) PROVE EndTypes'
  BY <1>1, WorkerIsThread DEF LookupCounter, Step, EndTypes, JobTypes, state, acking, history
<1>2. ASSUME NEW t \in Threads, MakeCounter(t) PROVE EndTypes'
  BY <1>2, WorkerIsThread DEF MakeCounter, Step, EndTypes, JobTypes, state, acking, history
<1>3. ASSUME NEW t \in Threads, TakeFirst(t) PROVE EndTypes'
  BY <1>3, WorkerIsThread DEF TakeFirst, GetAndIncrement, Step, EndTypes, JobTypes, state, acking, history
<1>4. ASSUME NEW t \in Threads, TakeNext(t) PROVE EndTypes'
  BY <1>4, WorkerIsThread DEF TakeNext, GetAndIncrement, Step, EndTypes, JobTypes, state, acking, history
<1>5. ASSUME NEW t \in Threads, Register(t) PROVE EndTypes'
  <2>1. mapInitSeq' \in [Numbers -> Nat]
    BY <1>5 DEF Register, EndTypes, JobTypes, Jobs
  <2> QED
    BY <1>5, <2>1, WorkerIsThread DEF Register, Step, EndTypes, JobTypes, acking, history
<1>6. ASSUME NEW t \in Threads, Send(t) PROVE EndTypes'
  BY <1>6, WorkerIsThread DEF Send, Step, EndTypes, JobTypes, state, acking, history
<1>7. ASSUME NEW t \in Threads, Keep(t) PROVE EndTypes'
  BY <1>7, WorkerIsThread DEF Keep, KeepAs, Step, EndTypes, JobTypes, state, acking, history
<1>8. ASSUME NEW t \in Threads, Confirm(t) PROVE EndTypes'
  BY <1>8, WorkerIsThread DEF Confirm, Step, EndTypes, JobTypes, state, acking, history
<1>9. ASSUME NEW s \in Senders, Begin(s) PROVE EndTypes'
  BY <1>9, WorkerIsThread DEF Begin, Step, EndTypes, JobTypes, state, acking, history
<1>10. ASSUME ReceiveEnd PROVE EndTypes'
  BY <1>10, <1>a, WorkerIsThread DEF ReceiveEnd, Receive, Step, EndTypes, JobTypes, state, acking, history
<1>11. ASSUME ReceiveLoss PROVE EndTypes'
  BY <1>11, <1>a, WorkerIsThread DEF ReceiveLoss, Receive, Step, EndTypes, JobTypes, state, acking, history
<1>12. ASSUME CloseTest PROVE EndTypes'
  BY <1>12, <1>a, WorkerIsThread DEF CloseTest, Step, EndTypes, JobTypes, state, acking, history
<1>13. ASSUME CloseSet PROVE EndTypes'
  BY <1>13, <1>a, WorkerIsThread DEF CloseSet, Step, EndTypes, JobTypes, state, acking, history
<1>14. ASSUME CloseSocket PROVE EndTypes'
  BY <1>14, <1>a, WorkerIsThread DEF CloseSocket, Step, EndTypes, JobTypes, state, acking, history
<1>15. ASSUME EndUnknown PROVE EndTypes'
  BY <1>15, <1>a, WorkerIsThread DEF EndUnknown, Handled, Step, EndTypes, JobTypes, state, acking, history
<1>16. ASSUME EndKnown PROVE EndTypes'
  <2>1. mapInitSeq[ack] \in Nat
    BY DEF EndTypes
  <2>2. \E e \in ended' : e.init = ack' /\ e.size = ending'.size
    <3> DEFINE c == [init |-> ack, size |-> mapInitSeq[ack]] \in whole
               e == [init |-> ack, size |-> mapInitSeq[ack], clean |-> c]
    <3>1. e \in ended' /\ ack' = ack /\ ending'.size = mapInitSeq[ack]
      BY <1>16 DEF EndKnown
    <3>2. e.init = ack /\ e.size = mapInitSeq[ack]
      OBVIOUS
    <3> QED
      BY <3>1, <3>2
  <2> QED
    BY <1>16, <2>1, <2>2 DEF EndKnown, EndTypes, state
<1>17. ASSUME RemovePacket PROVE EndTypes'
  <2>1. ending'.i \in Nat /\ ending'.size = ending.size
    BY <1>17 DEF RemovePacket, RemovesUpTo, EndTypes
  <2>2. pc["worker"] = "remove" /\ (pc'["worker"] = "remove" => ending'.i <= ending.size)
    BY <1>17, WorkerIsThread DEF RemovePacket, RemovesUpTo, Step, EndTypes, JobTypes
  <2> QED
    BY <1>17, <2>1, <2>2 DEF RemovePacket, RemovesUpTo, EndTypes, history
<1>18. ASSUME ForgetMessage PROVE EndTypes'
  BY <1>18, <1>a, WorkerIsThread DEF ForgetMessage, Handled, Step, EndTypes, JobTypes, state, acking, history
<1>19. ASSUME LookupKept PROVE EndTypes'
  BY <1>19, <1>a, WorkerIsThread DEF LookupKept, Handled, Step, EndTypes, JobTypes, state, acking, history
<1>20. ASSUME LookupFile PROVE EndTypes'
  BY <1>20, <1>a, WorkerIsThread DEF LookupFile, Handled, Step, EndTypes, JobTypes, state, acking, history
<1>21. ASSUME SetLogicalClose PROVE EndTypes'
  BY <1>21, <1>a DEF SetLogicalClose, Step, EndTypes, JobTypes, state, acking, history
<1>22. ASSUME SpillStart PROVE EndTypes'
  BY <1>22, <1>a DEF SpillStart, Step, EndTypes, JobTypes, state, acking, history
<1>23. ASSUME SpillStore PROVE EndTypes'
  BY <1>23, <1>a DEF SpillStore, Step, EndTypes, JobTypes, state, acking, history
<1>24. ASSUME NEW n \in Numbers, SpillTake(n) PROVE EndTypes'
  BY <1>24, <1>a DEF SpillTake, Step, EndTypes, JobTypes, state, acking, history
<1>25. ASSUME NEW n \in Numbers, SpillFlush(n) PROVE EndTypes'
  BY <1>25, <1>a DEF SpillFlush, Step, EndTypes, JobTypes, state, acking, history
<1>26. ASSUME UNCHANGED vars PROVE EndTypes'
  BY <1>26, <1>a DEF vars, Step, EndTypes, JobTypes, state, acking, history
<1> QED
  BY <1>1, <1>2, <1>3, <1>4, <1>5, <1>6, <1>7, <1>8, <1>9, <1>10, <1>11, <1>12, <1>13, <1>14, <1>15, <1>16, <1>17, <1>18, <1>19, <1>20, <1>21, <1>22, <1>23, <1>24, <1>25, <1>26, WorkerIsThread DEF Next, SendData, Work

-----------------------------------------------------------------------------
(* A packet that was kept stays within reach.                              *)

LEMMA CoveredStays ==
    ASSUME TypeInv, [Next]_vars, NEW n, Covered(n)
    PROVE  Covered(n)'
<1> USE DEF TypeInv
<1>a. n \in Numbers
  BY DEF Covered
(* It stays where it is unless it leaves memory or the store's cache.       *)
<1>b. ASSUME mapCache[n] # Null => mapCache'[n] # Null, Stored(n) => Stored(n)',
             spilling.number = n => spilling'.number = n,
             flushed \subseteq flushed', ended \subseteq ended'
      PROVE  Covered(n)'
  BY <1>b DEF Covered, Held
<1>c. ASSUME UNCHANGED <<mapCache, fileDB, spilling, flushed, ended>> PROVE Covered(n)'
  BY <1>c, <1>b DEF Stored
<1>1. ASSUME NEW t \in Threads, LookupCounter(t) PROVE Covered(n)'
  BY <1>1, <1>c DEF LookupCounter, state, spill, history
<1>2. ASSUME NEW t \in Threads, MakeCounter(t) PROVE Covered(n)'
  BY <1>2, <1>c DEF MakeCounter, state, spill, history
<1>3. ASSUME NEW t \in Threads, TakeFirst(t) PROVE Covered(n)'
  BY <1>3, <1>c DEF TakeFirst, state, spill, history
<1>4. ASSUME NEW t \in Threads, TakeNext(t) PROVE Covered(n)'
  BY <1>4, <1>c DEF TakeNext, state, spill, history
<1>5. ASSUME NEW t \in Threads, Register(t) PROVE Covered(n)'
  BY <1>5, <1>c DEF Register, state, spill, history
<1>6. ASSUME NEW t \in Threads, Send(t) PROVE Covered(n)'
  BY <1>6, <1>c DEF Send, state, spill, history
<1>7. ASSUME NEW t \in Threads, Keep(t) PROVE Covered(n)'
  <2>1. Load(t) # Null
    BY <1>7, LoadIsLoad DEF Keep, KeepAs, Step, Sending
  <2>2. mapCache[n] # Null => mapCache'[n] # Null
    BY <1>7, <2>1, <1>a DEF Keep, KeepAs, StoreTypes, Kept
  <2> QED
    BY <1>7, <2>2, <1>b DEF Keep, KeepAs, Stored, spill, history
<1>8. ASSUME NEW t \in Threads, Confirm(t) PROVE Covered(n)'
  BY <1>8, <1>c DEF Confirm, state, spill, history
<1>9. ASSUME NEW s \in Senders, Begin(s) PROVE Covered(n)'
  BY <1>9, <1>c DEF Begin, state, spill, history
<1>10. ASSUME ReceiveEnd PROVE Covered(n)'
  BY <1>10, <1>c DEF ReceiveEnd, Receive, state, spill, history
<1>11. ASSUME ReceiveLoss PROVE Covered(n)'
  BY <1>11, <1>c DEF ReceiveLoss, Receive, state, spill, history
<1>12. ASSUME CloseTest PROVE Covered(n)'
  BY <1>12, <1>c DEF CloseTest, state, spill, history
<1>13. ASSUME CloseSet PROVE Covered(n)'
  BY <1>13, <1>c DEF CloseSet, state, spill, history
<1>14. ASSUME CloseSocket PROVE Covered(n)'
  BY <1>14, <1>c DEF CloseSocket, state, spill, history
<1>15. ASSUME EndUnknown PROVE Covered(n)'
  BY <1>15, <1>c DEF EndUnknown, state, spill, history
<1>16. ASSUME EndKnown PROVE Covered(n)'
  <2>1. UNCHANGED <<mapCache, fileDB, spilling, flushed>> /\ ended \subseteq ended'
    BY <1>16 DEF EndKnown, state, spill
  <2> QED
    BY <2>1, <1>b DEF Stored
<1>17. ASSUME RemovePacket PROVE Covered(n)'
  <2>1. CASE n = ack + ending.i
    <3>1. PICK e \in ended : e.init = ack /\ e.size = ending.size
      BY <1>17 DEF RemovePacket, RemovesUpTo, Step, EndTypes
    <3>2. n \in e.init .. e.init + e.size
      BY <1>17, <2>1, <3>1 DEF RemovePacket, RemovesUpTo, Step, EndTypes, Numbers
    <3>3. e \in ended'
      BY <1>17, <3>1 DEF RemovePacket, RemovesUpTo, history
    <3> QED
      BY <3>2, <3>3, <1>a DEF Covered
  <2>2. CASE n # ack + ending.i
    <3>1. mapCache'[n] = mapCache[n] /\ UNCHANGED <<fileDB, spilling, flushed, ended>>
      BY <1>17, <2>2, <1>a DEF RemovePacket, RemovesUpTo, spill, history
    <3> QED
      BY <3>1, <1>b DEF Stored
  <2> QED
    BY <2>1, <2>2
<1>18. ASSUME ForgetMessage PROVE Covered(n)'
  BY <1>18, <1>c DEF ForgetMessage, state, spill, history
<1>19. ASSUME LookupKept PROVE Covered(n)'
  BY <1>19, <1>c DEF LookupKept, state, spill, history
<1>20. ASSUME LookupFile PROVE Covered(n)'
  BY <1>20, <1>c DEF LookupFile, state, spill, history
<1>21. ASSUME SetLogicalClose PROVE Covered(n)'
  BY <1>21, <1>c DEF SetLogicalClose, state, spill, history
<1>22. ASSUME SpillStart PROVE Covered(n)'
  <2>1. ~ Stored(n) /\ UNCHANGED <<mapCache, spilling, flushed, ended>>
    BY <1>22 DEF SpillStart, Stored, state, history
  <2> QED
    BY <2>1, <1>b
<1>23. ASSUME SpillStore PROVE Covered(n)'
  <2>1. spilling.number \in Numbers /\ spilling.load # Null /\ fileDB \in Kept
    BY <1>23, NullAssumption DEF SpillStore, StoreTypes
  <2>2. fileDB' = [fileDB EXCEPT ![spilling.number] = spilling.load] /\ fileDB' \in Kept /\ fileDB' # Null
    <3>1. fileDB' = [fileDB EXCEPT ![spilling.number] = spilling.load]
      BY <1>23 DEF SpillStore
    <3>2. spilling.load \in Loads
      BY <1>23 DEF SpillStore, StoreTypes
    <3>3. fileDB' \in Kept
      BY <2>1, <3>1, <3>2 DEF Kept
    <3> QED
      BY <3>1, <3>3, NoStoreIsNoMap
  <2>3. Stored(n) => Stored(n)'
    BY <2>1, <2>2, <1>a DEF Stored, Kept
  <2>4. spilling.number = n => Stored(n)'
    BY <2>1, <2>2, <1>a DEF Stored, Kept
  <2>5. UNCHANGED <<mapCache, flushed, ended>>
    BY <1>23 DEF SpillStore, state, history
  <2> QED
    BY <2>3, <2>4, <2>5, <1>a DEF Covered, Held
<1>24. ASSUME NEW m \in Numbers, SpillTake(m) PROVE Covered(n)'
  <2>1. UNCHANGED <<fileDB, flushed, ended>> /\ spilling = NoPacket
    BY <1>24 DEF SpillTake, history
  <2>2. n # m => mapCache'[n] = mapCache[n]
    BY <1>24, <1>a DEF SpillTake, StoreTypes, Kept
  <2>3. spilling'.number = m
    BY <1>24 DEF SpillTake
  <2>4. spilling.number # n
    BY <2>1, <1>a DEF NoPacket, Numbers
  <2>5. Held(n) => Held(n)'
    BY <2>1, <2>2, <2>3, <2>4 DEF Held, Stored
  <2> QED
    BY <2>1, <2>5, <1>a DEF Covered
<1>25. ASSUME NEW m \in Numbers, SpillFlush(m) PROVE Covered(n)'
  <2>1. UNCHANGED <<mapCache, spilling, ended>> /\ flushed' = flushed \cup {m}
    BY <1>25 DEF SpillFlush, state, history
  <2>2. n # m /\ Stored(n) => Stored(n)'
    <3>1. fileDB \in Kept /\ fileDB' = [fileDB EXCEPT ![m] = Null]
      BY <1>25 DEF SpillFlush, StoreTypes, Stored
    <3>2. fileDB' \in Kept
      BY <3>1 DEF Kept
    <3> QED
      BY <3>1, <3>2, <1>a, NoStoreIsNoMap DEF Stored, Kept
  <2> QED
    BY <2>1, <2>2, <1>a DEF Covered, Held
<1>26. ASSUME UNCHANGED vars PROVE Covered(n)'
  BY <1>26, <1>c DEF vars, state, spill, history
<1> QED
  BY <1>1, <1>2, <1>3, <1>4, <1>5, <1>6, <1>7, <1>8, <1>9, <1>10, <1>11, <1>12, <1>13, <1>14, <1>15, <1>16, <1>17, <1>18, <1>19, <1>20, <1>21, <1>22, <1>23, <1>24, <1>25, <1>26, WorkerIsThread DEF Next, SendData, Work

(* The packets a thread has kept so far of its message.                     *)
Done(j) == j.init .. j.init + j.size - j.left - 1

LEMMA JobCoveredStep ==
    ASSUME Inv, [Next]_vars
    PROVE  JobCovered'
<1> USE DEF Inv, TypeInv
(* The thread that steps keeps nothing, or the packet is covered by now.    *)
<1>a. ASSUME NEW t \in Threads, \A v \in Threads : v # t => job'[v] = job[v],
             job'[t].inOrder => \A n \in Done(job'[t]) : Covered(n)'
      PROVE  JobCovered'
  <2> SUFFICES ASSUME NEW v \in Threads, job'[v].inOrder, NEW n \in Done(job'[v])
               PROVE  Covered(n)'
    BY DEF JobCovered, Done
  <2>1. CASE v = t
    BY <2>1, <1>a
  <2>2. CASE v # t
    BY <2>2, <1>a, CoveredStays DEF JobCovered, Done
  <2> QED
    BY <2>1, <2>2
<1>b. ASSUME job' = job PROVE JobCovered'
  BY <1>b, CoveredStays DEF JobCovered
(* A job that begins has kept nothing.                                      *)
<1>c. ASSUME NEW j \in Jobs, j.left = j.size PROVE Done(j) = {}
  BY <1>c DEF Done, Jobs, Numbers
<1>1. ASSUME NEW t \in Threads, LookupCounter(t) PROVE JobCovered'
  BY <1>1, <1>b DEF LookupCounter
<1>2. ASSUME NEW t \in Threads, MakeCounter(t) PROVE JobCovered'
  BY <1>2, <1>b DEF MakeCounter
<1>3. ASSUME NEW t \in Threads, TakeFirst(t) PROVE JobCovered'
  <2>1. job'[t] \in Jobs /\ job'[t].left = job'[t].size /\ \A v \in Threads : v # t => job'[v] = job[v]
    <3>1. job' = [job EXCEPT ![t].init = atomics[counter[t]], ![t].id = atomics[counter[t]]]
      BY <1>3 DEF TakeFirst
    <3>2. job[t].left = job[t].size
      BY <1>3 DEF TakeFirst, Step, JobTypes, Progress, Starting
    <3>3. JobTypes'
      BY JobStep
    <3> QED
      BY <3>1, <3>2, <3>3 DEF JobTypes, Jobs
  <2> QED
    BY <2>1, <1>a, <1>c
<1>4. ASSUME NEW t \in Threads, TakeNext(t) PROVE JobCovered'
  <2> DEFINE n == atomics[counter[t]]
             j == [job[t] EXCEPT !.id = n, !.inOrder = job[t].inOrder /\ n = job[t].init + Part(t) - 1]
  <2>1. job' = [job EXCEPT ![t] = j] /\ job[t] \in Jobs
    BY <1>4 DEF TakeNext, JobTypes
  <2>2. Done(j) = Done(job[t]) /\ (j.inOrder => job[t].inOrder)
    BY <2>1 DEF Done, Jobs
  <2>3. j.inOrder => \A m \in Done(j) : Covered(m)'
    BY <2>2, CoveredStays DEF JobCovered, Done
  <2> HIDE DEF j
  <2> QED
    BY <2>1, <2>3, <1>a DEF JobTypes
<1>5. ASSUME NEW t \in Threads, Register(t) PROVE JobCovered'
  BY <1>5, <1>b DEF Register
<1>6. ASSUME NEW t \in Threads, Send(t) PROVE JobCovered'
  BY <1>6, <1>b DEF Send
<1>7. ASSUME NEW t \in Threads, Keep(t) PROVE JobCovered'
  <2> DEFINE j == [job[t] EXCEPT !.left = job[t].left - 1]
  <2>1. pc[t] = "keep" /\ Progress(t) /\ job[t] \in Jobs /\ job[t].left \in 1 .. job[t].size
    BY <1>7 DEF Keep, KeepAs, Step, JobTypes, Progress, Sending
  <2>2. job' = [job EXCEPT ![t] = j] /\ mapCache' = [mapCache EXCEPT ![job[t].id] = Load(t)]
    BY <1>7 DEF Keep, KeepAs, JobTypes
  <2>3. ASSUME j.inOrder, NEW n \in Done(j) PROVE Covered(n)'
    <3>1. job[t].inOrder /\ job[t].id = job[t].init + job[t].size - job[t].left
      BY <2>1, <2>3 DEF Progress, Jobs
    <3>2. n \in Done(job[t]) \/ n = job[t].id
      BY <2>1, <2>3, <3>1 DEF Done, Jobs, Numbers
    <3>3. CASE n \in Done(job[t])
      BY <3>1, <3>3, CoveredStays DEF JobCovered, Done
    <3>4. CASE n = job[t].id
      <4>1. Load(t) # Null /\ n \in Numbers
        BY <2>1, <3>4, LoadIsLoad DEF Sending, Jobs
      <4>2. mapCache'[n] # Null
        BY <2>2, <3>4, <4>1 DEF StoreTypes, Kept
      <4> QED
        BY <4>1, <4>2 DEF Covered, Held
    <3> QED
      BY <3>2, <3>3, <3>4
  <2> HIDE DEF j
  <2> QED
    BY <2>2, <2>3, <1>a DEF JobTypes
<1>8. ASSUME NEW t \in Threads, Confirm(t) PROVE JobCovered'
  <2>1. NoJob \in Jobs /\ NoJob.left = NoJob.size
    BY BoundsAssumption DEF NoJob, Jobs, Numbers
  <2>2. job' = [job EXCEPT ![t] = NoJob] /\ t \in Threads
    BY <1>8, WorkerIsThread DEF Confirm
  <2> QED
    BY <2>1, <2>2, <1>a, <1>c DEF JobTypes
<1>9. ASSUME NEW s \in Senders, Begin(s) PROVE JobCovered'
  <2>1. NewJob(LengthOf[s], -1) \in Jobs /\ NewJob(LengthOf[s], -1).left = NewJob(LengthOf[s], -1).size
    BY LengthsAssumption, NewJobIsJob
  <2>2. job' = [job EXCEPT ![s] = NewJob(LengthOf[s], -1)] /\ s \in Threads
    BY <1>9, WorkerIsThread DEF Begin
  <2> QED
    BY <2>1, <2>2, <1>a, <1>c DEF JobTypes
<1>10. ASSUME ReceiveEnd PROVE JobCovered'
  BY <1>10, <1>b DEF ReceiveEnd, Receive
<1>11. ASSUME ReceiveLoss PROVE JobCovered'
  BY <1>11, <1>b DEF ReceiveLoss, Receive
<1>12. ASSUME CloseTest PROVE JobCovered'
  BY <1>12, <1>b DEF CloseTest
<1>13. ASSUME CloseSet PROVE JobCovered'
  BY <1>13, <1>b DEF CloseSet
<1>14. ASSUME CloseSocket PROVE JobCovered'
  BY <1>14, <1>b DEF CloseSocket
<1>15. ASSUME EndUnknown PROVE JobCovered'
  BY <1>15, <1>b DEF EndUnknown
<1>16. ASSUME EndKnown PROVE JobCovered'
  BY <1>16, <1>b DEF EndKnown
<1>17. ASSUME RemovePacket PROVE JobCovered'
  BY <1>17, <1>b DEF RemovePacket, RemovesUpTo
<1>18. ASSUME ForgetMessage PROVE JobCovered'
  BY <1>18, <1>b DEF ForgetMessage
<1>19. ASSUME LookupKept PROVE JobCovered'
  <2>1. CASE ~(mapCache[ack] # Null)
    BY <1>19, <2>1, <1>b DEF LookupKept
  <2>2. CASE mapCache[ack] # Null
    <3> DEFINE j == NewJob(mapCache[ack].length, ack)
    <3>1. mapCache[ack].length \in Nat /\ ack \in Numbers
      BY <2>2 DEF StoreTypes, EndTypes, Kept, Loads, Stored
    <3>2. j \in Jobs /\ j.left = j.size
      BY <3>1, NewJobIsJob
    <3> HIDE DEF j
    <3>3. job' = [job EXCEPT !["worker"] = j]
      BY <1>19, <2>2 DEF LookupKept, Resend, j
    <3> QED
      BY <3>2, <3>3, <1>a, <1>c, WorkerIsThread DEF JobTypes
  <2> QED
    BY <2>1, <2>2
<1>20. ASSUME LookupFile PROVE JobCovered'
  <2>1. CASE ~(Stored(ack))
    BY <1>20, <2>1, <1>b DEF LookupFile
  <2>2. CASE Stored(ack)
    <3> DEFINE j == NewJob(fileDB[ack].length, ack)
    <3>1. fileDB[ack].length \in Nat /\ ack \in Numbers
      BY <2>2 DEF StoreTypes, EndTypes, Kept, Loads, Stored
    <3>2. j \in Jobs /\ j.left = j.size
      BY <3>1, NewJobIsJob
    <3> HIDE DEF j
    <3>3. job' = [job EXCEPT !["worker"] = j]
      BY <1>20, <2>2 DEF LookupFile, Resend, j
    <3> QED
      BY <3>2, <3>3, <1>a, <1>c, WorkerIsThread DEF JobTypes
  <2> QED
    BY <2>1, <2>2
<1>21. ASSUME SetLogicalClose PROVE JobCovered'
  BY <1>21, <1>b DEF SetLogicalClose
<1>22. ASSUME SpillStart PROVE JobCovered'
  BY <1>22, <1>b DEF SpillStart
<1>23. ASSUME SpillStore PROVE JobCovered'
  BY <1>23, <1>b DEF SpillStore
<1>24. ASSUME NEW n \in Numbers, SpillTake(n) PROVE JobCovered'
  BY <1>24, <1>b DEF SpillTake
<1>25. ASSUME NEW n \in Numbers, SpillFlush(n) PROVE JobCovered'
  BY <1>25, <1>b DEF SpillFlush
<1>26. ASSUME UNCHANGED vars PROVE JobCovered'
  BY <1>26, <1>b DEF vars
<1> QED
  BY <1>1, <1>2, <1>3, <1>4, <1>5, <1>6, <1>7, <1>8, <1>9, <1>10, <1>11, <1>12, <1>13, <1>14, <1>15, <1>16, <1>17, <1>18, <1>19, <1>20, <1>21, <1>22, <1>23, <1>24, <1>25, <1>26, WorkerIsThread DEF Next, SendData, Work

(* Messages only become whole when the last packet was kept.                *)
LEMMA WholeStep ==
    ASSUME Inv, [Next]_vars
    PROVE  WholeCovered'
<1> USE DEF Inv, TypeInv
<1>a. ASSUME whole' = whole PROVE WholeCovered'
  BY <1>a, CoveredStays DEF WholeCovered
<1>1. ASSUME NEW t \in Threads, LookupCounter(t) PROVE WholeCovered'
  BY <1>1, <1>a DEF LookupCounter, history
<1>2. ASSUME NEW t \in Threads, MakeCounter(t) PROVE WholeCovered'
  BY <1>2, <1>a DEF MakeCounter, history
<1>3. ASSUME NEW t \in Threads, TakeFirst(t) PROVE WholeCovered'
  BY <1>3, <1>a DEF TakeFirst, history
<1>4. ASSUME NEW t \in Threads, TakeNext(t) PROVE WholeCovered'
  BY <1>4, <1>a DEF TakeNext, history
<1>5. ASSUME NEW t \in Threads, Register(t) PROVE WholeCovered'
  BY <1>5, <1>a DEF Register, history
<1>6. ASSUME NEW t \in Threads, Send(t) PROVE WholeCovered'
  BY <1>6, <1>a DEF Send, history
<1>7. ASSUME NEW t \in Threads, Keep(t) PROVE WholeCovered'
  BY <1>7, <1>a DEF Keep, KeepAs, history
<1>8. ASSUME NEW t \in Threads, Confirm(t) PROVE WholeCovered'
  <2> DEFINE w == [init |-> job[t].init, size |-> job[t].size]
  <2>1. whole' = whole \/ (job[t].inOrder /\ whole' = whole \cup {w})
    BY <1>8 DEF Confirm
  <2>2. ASSUME job[t].inOrder, NEW n \in NumbersOf(w) PROVE Covered(n)'
    <3>1. job[t].left = 0 /\ job[t] \in Jobs
      BY <1>8 DEF Confirm, Step, JobTypes, Progress
    <3>2. n \in Done(job[t])
      BY <2>2, <3>1 DEF NumbersOf, Done, Jobs, Numbers
    <3> QED
      BY <2>2, <3>2, CoveredStays DEF JobCovered, Done
  <2> HIDE DEF w
  <2>3. ASSUME NEW v \in whole' PROVE \A n \in NumbersOf(v) : Covered(n)'
    <3>1. CASE v \in whole
      BY <3>1, CoveredStays DEF WholeCovered
    <3>2. CASE v \notin whole
      BY <2>1, <2>2, <2>3, <3>2
    <3> QED
      BY <3>1, <3>2
  <2> QED
    BY <2>3 DEF WholeCovered, NumbersOf
<1>9. ASSUME NEW s \in Senders, Begin(s) PROVE WholeCovered'
  BY <1>9, <1>a DEF Begin, history
<1>10. ASSUME ReceiveEnd PROVE WholeCovered'
  BY <1>10, <1>a DEF ReceiveEnd, Receive, history
<1>11. ASSUME ReceiveLoss PROVE WholeCovered'
  BY <1>11, <1>a DEF ReceiveLoss, Receive, history
<1>12. ASSUME CloseTest PROVE WholeCovered'
  BY <1>12, <1>a DEF CloseTest, history
<1>13. ASSUME CloseSet PROVE WholeCovered'
  BY <1>13, <1>a DEF CloseSet, history
<1>14. ASSUME CloseSocket PROVE WholeCovered'
  BY <1>14, <1>a DEF CloseSocket, history
<1>15. ASSUME EndUnknown PROVE WholeCovered'
  BY <1>15, <1>a DEF EndUnknown, history
<1>16. ASSUME EndKnown PROVE WholeCovered'
  BY <1>16, <1>a DEF EndKnown, history
<1>17. ASSUME RemovePacket PROVE WholeCovered'
  BY <1>17, <1>a DEF RemovePacket, RemovesUpTo, history
<1>18. ASSUME ForgetMessage PROVE WholeCovered'
  BY <1>18, <1>a DEF ForgetMessage, history
<1>19. ASSUME LookupKept PROVE WholeCovered'
  BY <1>19, <1>a DEF LookupKept, history
<1>20. ASSUME LookupFile PROVE WholeCovered'
  BY <1>20, <1>a DEF LookupFile, history
<1>21. ASSUME SetLogicalClose PROVE WholeCovered'
  BY <1>21, <1>a DEF SetLogicalClose, history
<1>22. ASSUME SpillStart PROVE WholeCovered'
  BY <1>22, <1>a DEF SpillStart, history
<1>23. ASSUME SpillStore PROVE WholeCovered'
  BY <1>23, <1>a DEF SpillStore, history
<1>24. ASSUME NEW n \in Numbers, SpillTake(n) PROVE WholeCovered'
  BY <1>24, <1>a DEF SpillTake, history
<1>25. ASSUME NEW n \in Numbers, SpillFlush(n) PROVE WholeCovered'
  BY <1>25, <1>a DEF SpillFlush, history
<1>26. ASSUME UNCHANGED vars PROVE WholeCovered'
  BY <1>26, <1>a DEF vars, history
<1> QED
  BY <1>1, <1>2, <1>3, <1>4, <1>5, <1>6, <1>7, <1>8, <1>9, <1>10, <1>11, <1>12, <1>13, <1>14, <1>15, <1>16, <1>17, <1>18, <1>19, <1>20, <1>21, <1>22, <1>23, <1>24, <1>25, <1>26, WorkerIsThread DEF Next, SendData, Work

-----------------------------------------------------------------------------
LEMMA InitInv == Init => Inv
<1> SUFFICES ASSUME Init PROVE Inv
  OBVIOUS
<1> USE DEF Init
<1>a. 0 \in Numbers
  BY BoundsAssumption DEF Numbers
<1>1. NumberTypes
  BY EmptySeq DEF NumberTypes
<1>2. JobTypes
  BY <1>a DEF JobTypes, Progress, NoJob, Jobs, Places, Starting, Sending
<1>3. StoreTypes
  BY DEF StoreTypes, Kept
<1>4. EndTypes
  BY <1>a, WorkerIsThread DEF EndTypes
<1>5. JobCovered /\ WholeCovered
  BY DEF JobCovered, WholeCovered, NoJob
<1> QED
  BY <1>1, <1>2, <1>3, <1>4, <1>5 DEF Inv, TypeInv

LEMMA InvAlways == Spec => []Inv
<1>1. Inv /\ [Next]_vars => Inv'
  <2> SUFFICES ASSUME Inv, [Next]_vars PROVE Inv'
    OBVIOUS
  <2>1. TypeInv'
    BY NumberStep, JobStep, StoreStep, EndStep DEF Inv, TypeInv
  <2>2. JobCovered' /\ WholeCovered'
    BY JobCoveredStep, WholeStep
  <2> QED
    BY <2>1, <2>2 DEF Inv
<1> QED
  BY <1>1, InitInv, PTL DEF Spec

(* A packet of a message that was sent and has not ended can be resent, for *)
(* any number of senders, any lengths and however many packets are spilled: *)
(* only a file that the store wrote, or the end of another message, takes   *)
(* it.  In fact no packet kept under its message's consecutive numbers ever *)
(* goes otherwise.                                                          *)
THEOREM KeptUntilAnEnd == Spec => []LostOnlyToEnds
<1>1. Inv => LostOnlyToEnds
  BY DEF Inv, WholeCovered, Covered, LostOnlyToEnds
<1> QED
  BY <1>1, InvAlways, PTL

-----------------------------------------------------------------------------
(* Which steps take numbers, send and keep.  All others leave counters,     *)
(* senders and what was sent alone; the worker may begin to send, and may   *)
(* stop waiting only while acknowledgements are received.                   *)
Busy == Starting \cup Sending \cup {"confirm"}
Aside ==
    /\ UNCHANGED <<atomics, current, initRec, begun, packets, whole>>
    /\ \A s \in Senders : pc'[s] = pc[s] /\ job'[s] = job[s]
    /\ \/ pc'["worker"] = pc["worker"] /\ job'["worker"] = job["worker"]
       \/ /\ pc["worker"] \notin Busy
          /\ pc["worker"] = "idle" => initRec
          /\ \/ pc'["worker"] \notin Busy /\ job'["worker"] = job["worker"]
             \/ /\ pc'["worker"] = "first"
                /\ job'["worker"].left = job'["worker"].size
                /\ job'["worker"].init = 0

LEMMA StepKinds ==
    ASSUME TypeInv, [Next]_vars
    PROVE  \/ \E t \in Threads : SendData(t)
           \/ \E s \in Senders : Begin(s)
           \/ Aside
<1> USE DEF TypeInv
<1>a. pc \in [Threads -> Places] /\ job \in [Threads -> Jobs]
  BY DEF JobTypes
(* A step of the worker from one place to another that is not about sending. *)
<1>b. ASSUME UNCHANGED <<atomics, current, initRec, begun, packets, whole, job>>,
             NEW to \in Places \ Busy, pc["worker"] \notin Busy,
             pc["worker"] = "idle" => initRec, pc' = [pc EXCEPT !["worker"] = to]
      PROVE  Aside
  BY <1>a, <1>b, WorkerIsThread, SendersAssumption DEF Aside
<1>c. ASSUME UNCHANGED <<atomics, current, initRec, begun, packets, whole, pc, job>>
      PROVE  Aside
  BY <1>c DEF Aside
<1>d. ASSUME UNCHANGED <<atomics, current, initRec, begun, packets, whole>>,
             NEW load, Resend(load), pc["worker"] \in {"loss", "file"},
             pc' = [pc EXCEPT !["worker"] = "first"]
      PROVE  Aside
  <2>1. \A s \in Senders : pc'[s] = pc[s] /\ job'[s] = job[s]
    BY <1>a, <1>d, WorkerIsThread, SendersAssumption DEF Resend
  <2>2. pc'["worker"] = "first" /\ job'["worker"] = NewJob(load.length, ack)
    BY <1>a, <1>d, WorkerIsThread DEF Resend
  <2>3. job'["worker"].left = job'["worker"].size /\ job'["worker"].init = 0
    BY <2>2 DEF NewJob
  <2> QED
    BY <1>d, <2>1, <2>2, <2>3 DEF Aside, Busy, Starting, Sending
<1>10. ASSUME ReceiveEnd PROVE Aside
  BY <1>10, <1>b DEF ReceiveEnd, Receive, Step, numbers, state, history, Places, Busy, Starting, Sending
<1>11. ASSUME ReceiveLoss PROVE Aside
  BY <1>11, <1>b DEF ReceiveLoss, Receive, Step, numbers, state, history, Places, Busy, Starting, Sending
<1>12. ASSUME CloseTest PROVE Aside
  BY <1>12, <1>b DEF CloseTest, Step, numbers, state, history, Places, Busy, Starting, Sending
<1>13. ASSUME CloseSet PROVE Aside
  BY <1>13, <1>b DEF CloseSet, Step, numbers, state, history, Places, Busy, Starting, Sending
<1>14. ASSUME CloseSocket PROVE Aside
  BY <1>14, <1>b DEF CloseSocket, Step, numbers, state, history, Places, Busy, Starting, Sending
<1>15. ASSUME EndUnknown PROVE Aside
  BY <1>15, <1>b DEF EndUnknown, Step, numbers, state, history, Places, Busy, Starting, Sending
<1>16. ASSUME EndKnown PROVE Aside
  BY <1>16, <1>b DEF EndKnown, Step, numbers, state, history, Places, Busy, Starting, Sending
<1>17. ASSUME RemovePacket PROVE Aside
  BY <1>17, <1>b DEF RemovePacket, RemovesUpTo, Step, numbers, history, Places, Busy, Starting, Sending
<1>18. ASSUME ForgetMessage PROVE Aside
  BY <1>18, <1>b DEF ForgetMessage, Step, numbers, history, Places, Busy, Starting, Sending
<1>19. ASSUME LookupKept PROVE Aside
  <2>1. CASE pc' = [pc EXCEPT !["worker"] = "first"] /\ Resend(mapCache[ack])
    BY <1>19, <2>1, <1>d DEF LookupKept, Step, numbers, state, history
  <2>2. CASE pc' = [pc EXCEPT !["worker"] = "file"] /\ job' = job
    BY <1>19, <2>2, <1>b DEF LookupKept, Step, numbers, state, history, Places, Busy, Starting, Sending
  <2> QED
    BY <1>19, <2>1, <2>2 DEF LookupKept, Step
<1>20. ASSUME LookupFile PROVE Aside
  <2>1. CASE pc' = [pc EXCEPT !["worker"] = "first"] /\ Resend(fileDB[ack])
    BY <1>20, <2>1, <1>d DEF LookupFile, Step, numbers, state, history
  <2>2. CASE pc' = [pc EXCEPT !["worker"] = "idle"] /\ job' = job
    BY <1>20, <2>2, <1>b DEF LookupFile, Step, numbers, state, history, Places, Busy, Starting, Sending
  <2>3. CASE pc' = [pc EXCEPT !["worker"] = "dead"] /\ job' = job
    BY <1>20, <2>3, <1>b DEF LookupFile, Step, numbers, state, history, Places, Busy, Starting, Sending
  <2> QED
    BY <1>20, <2>1, <2>2, <2>3 DEF LookupFile, Step
<1>21. ASSUME SetLogicalClose PROVE Aside
  BY <1>21, <1>c DEF SetLogicalClose, numbers, state, history
<1>22. ASSUME SpillStart PROVE Aside
  BY <1>22, <1>c DEF SpillStart, numbers, state, history
<1>23. ASSUME SpillStore PROVE Aside
  BY <1>23, <1>c DEF SpillStore, numbers, state, history
<1>24. ASSUME NEW n \in Numbers, SpillTake(n) PROVE Aside
  BY <1>24, <1>c DEF SpillTake, numbers, history
<1>25. ASSUME NEW n \in Numbers, SpillFlush(n) PROVE Aside
  BY <1>25, <1>c DEF SpillFlush, numbers, state, history
<1>26. ASSUME UNCHANGED vars PROVE Aside
  BY <1>26, <1>c DEF vars, numbers, state, history
<1> QED
  BY <1>10, <1>11, <1>12, <1>13, <1>14, <1>15, <1>16, <1>17, <1>18, <1>19, <1>20, <1>21, <1>22, <1>23, <1>24, <1>25, <1>26, WorkerIsThread DEF Next, Work

-----------------------------------------------------------------------------
(* The counters.                                                            *)

(* Numbers below the bound are handed out; flags are flags.                 *)
Flags == /\ \A c \in 1 .. Len(atomics) : atomics[c] \in 0 .. MaxNumber + 1
         /\ initRec \in BOOLEAN /\ isClose \in BOOLEAN
         /\ logicalClose \in BOOLEAN /\ socketOpen \in BOOLEAN

LEMMA FlagsStep ==
    ASSUME TypeInv, Flags, [Next]_vars
    PROVE  Flags'
<1> USE DEF TypeInv
<1>a. atomics \in Seq(Nat) /\ Len(atomics) \in Nat
  BY DEF NumberTypes
<1>1. \A c \in 1 .. Len(atomics') : atomics'[c] \in 0 .. MaxNumber + 1
  <2>1. ASSUME NEW t \in Threads, SendData(t)
        PROVE  \A c \in 1 .. Len(atomics') : atomics'[c] \in 0 .. MaxNumber + 1
    <3>1. CASE MakeCounter(t)
      BY <1>a, <3>1, AppendProperties, BoundsAssumption DEF MakeCounter, Flags
    <3>2. ASSUME NEW c \in 1 .. Len(atomics), GetAndIncrement(c), atomics[c] <= MaxNumber
          PROVE  \A d \in 1 .. Len(atomics') : atomics'[d] \in 0 .. MaxNumber + 1
      <4>1. Len(atomics') = Len(atomics) /\ atomics[c] \in Nat
        BY <1>a, <3>2, ExceptSeq DEF GetAndIncrement
      <4>2. \A d \in 1 .. Len(atomics) : atomics'[d] = IF d = c THEN atomics[c] + 1 ELSE atomics[d]
        BY <1>a, <3>2 DEF GetAndIncrement
      <4> QED
        BY <3>2, <4>1, <4>2, BoundsAssumption DEF Flags
    <3>3. CASE TakeFirst(t)
      BY <3>2, <3>3 DEF TakeFirst, Step, NumberTypes
    <3>4. CASE TakeNext(t)
      BY <3>2, <3>4 DEF TakeNext, Step, NumberTypes
    <3>5. CASE LookupCounter(t) \/ Register(t) \/ Send(t) \/ Keep(t) \/ Confirm(t)
      BY <3>5 DEF LookupCounter, Register, Send, Keep, KeepAs, Confirm, Flags, numbers
    <3> QED
      BY <2>1, <3>1, <3>3, <3>4, <3>5 DEF SendData
  <2>2. ASSUME atomics' = atomics
        PROVE  \A c \in 1 .. Len(atomics') : atomics'[c] \in 0 .. MaxNumber + 1
    BY <2>2 DEF Flags
  <2> QED
    BY <2>1, <2>2, StepKinds DEF Begin, Aside, numbers
<1>2. initRec' \in BOOLEAN
  <2>1. ASSUME NEW t \in Threads, SendData(t) PROVE initRec' \in BOOLEAN
    BY <2>1 DEF SendData, LookupCounter, MakeCounter, TakeFirst, TakeNext, Register, Send, Keep, KeepAs,
       Confirm, Flags, state
  <2> QED
    BY <2>1, StepKinds DEF Begin, Aside, state, Flags
<1>3. isClose' \in BOOLEAN /\ logicalClose' \in BOOLEAN /\ socketOpen' \in BOOLEAN
  <2>1. ASSUME NEW t \in Threads, SendData(t) PROVE UNCHANGED <<isClose, logicalClose, socketOpen>>
    BY <2>1 DEF SendData, LookupCounter, MakeCounter, TakeFirst, TakeNext, Register, Send, Keep, KeepAs,
       Confirm, closing
  <2>2. \/ UNCHANGED <<isClose, logicalClose, socketOpen>>
        \/ CloseSet \/ CloseSocket \/ SetLogicalClose
    BY <2>1, WorkerIsThread DEF Next, Work, Begin, ReceiveEnd, ReceiveLoss, Receive, EndUnknown, EndKnown, RemovePacket,
       RemovesUpTo, ForgetMessage, LookupKept, LookupFile, CloseTest, SpillStart, SpillTake, SpillStore,
       SpillFlush, vars, closing
  <2> QED
    BY <2>2 DEF CloseSet, CloseSocket, SetLogicalClose, Flags
<1> QED
  BY <1>1, <1>2, <1>3 DEF Flags

(* Every variable keeps its type, for any senders and lengths.              *)
THEOREM SessionTypes == Spec => []TypeOK
<1>1. Init => Flags
  <2> SUFFICES ASSUME Init PROVE Flags
    OBVIOUS
  <2>1. Len(atomics) = 0
    BY EmptySeq DEF Init
  <2>2. \A c \in 1 .. Len(atomics) : atomics[c] \in 0 .. MaxNumber + 1
    <3> SUFFICES ASSUME NEW c \in 1 .. Len(atomics) PROVE FALSE
      OBVIOUS
    <3> QED
      BY <2>1
  <2> QED
    BY <2>2 DEF Init, Flags
<1>2. Inv /\ Flags /\ [Next]_vars => Flags'
  BY FlagsStep DEF Inv
<1>3. Inv /\ Flags => TypeOK
  <2> SUFFICES ASSUME Inv, Flags PROVE TypeOK
    OBVIOUS
  <2> USE DEF Inv, TypeInv
  <2>1. atomics \in Seq(0 .. MaxNumber + 1)
    <3>1. PICK S : S = 0 .. MaxNumber + 1
      OBVIOUS
    <3>2. atomics \in Seq(Nat) /\ \A c \in 1 .. Len(atomics) : atomics[c] \in S
      BY <3>1 DEF NumberTypes, Flags
    <3>3. atomics \in Seq(S)
      BY <3>2
    <3> QED
      BY <3>1, <3>3
  <2>2. /\ mapCache \in [Numbers -> Loads \cup {Null}] /\ flushed \subseteq Numbers
        /\ fileDB # Null => fileDB \in [Numbers -> Loads \cup {Null}]
        /\ spilling \in [number : Numbers, load : Loads] \cup {NoPacket}
    BY DEF StoreTypes, Kept
  <2>3. /\ job \in [Threads -> [length : Nat, init : Numbers, size : Nat, left : Nat,
                            id : Numbers, again : Numbers \cup {-1}, inOrder : BOOLEAN]]
        /\ \A t \in Threads : pc[t] \in Places
    BY DEF JobTypes, Jobs
  <2> QED
    BY <2>1, <2>2, <2>3 DEF TypeOK, NumberTypes, EndTypes, Flags, Places
<1> QED
  BY <1>1, <1>2, <1>3, InvAlways, PTL DEF Spec

(* No more counters are made than application threads race for the first    *)
(* number.  A thread may make one only before it has its first number, and  *)
(* the worker not at all, for it works only once acknowledgements are       *)
(* received, when a message was sent.                                       *)
CanMake  == {s \in Senders : s \notin begun \/ pc[s] \in {"first", "make"}}
Numbered == {"firstTake", "register"} \cup Sending \cup {"confirm"}
Counters ==
    /\ \A s \in Senders : s \notin begun => pc[s] = "idle"
    /\ pc["worker"] # "make" /\ (pc["worker"] # "idle" => initRec)
    /\ initRec => current # 0
    /\ \A t \in Threads : pc[t] \in Numbered => current # 0
    /\ Len(atomics) <= Cardinality(Senders \ CanMake)

LEMMA MoreCannotMake ==
    ASSUME CanMake' \subseteq CanMake
    PROVE  Cardinality(Senders \ CanMake) <= Cardinality(Senders \ CanMake')
<1> PICK S : S = Senders \ CanMake'
  OBVIOUS
<1> PICK T : T = Senders \ CanMake
  OBVIOUS
<1>1. T \in SUBSET S /\ S \in SUBSET Senders
  OBVIOUS
<1>2. IsFiniteSet(S)
  BY <1>1, FS_Subset, SendersAssumption
<1> QED
  BY <1>1, <1>2, FS_Subset

LEMMA CountersStep ==
    ASSUME TypeInv, Counters, [Next]_vars
    PROVE  Counters'
<1> USE DEF TypeInv
<1>a. /\ pc \in [Threads -> Places] /\ atomics \in Seq(Nat) /\ Len(atomics) \in Nat
      /\ current \in 0 .. Len(atomics)
  BY DEF JobTypes, NumberTypes
<1>b. IsFiniteSet(Senders \ CanMake) /\ IsFiniteSet(Senders \ CanMake')
  BY FS_Subset, SendersAssumption
<1>c. Cardinality(Senders \ CanMake) \in Nat /\ Cardinality(Senders \ CanMake') \in Nat
  BY <1>b, FS_CardinalityType
(* Nobody gains the right to make a counter, and none is made.              *)
<1>d. ASSUME Len(atomics') = Len(atomics), begun \subseteq begun',
             \A s \in Senders : pc'[s] = pc[s] \/ pc'[s] \notin {"first", "make"} \/ pc[s] \in {"first", "make"}
                                \/ s \notin begun
      PROVE  Len(atomics') <= Cardinality(Senders \ CanMake')
  <2>1. CanMake' \subseteq CanMake
    BY <1>d DEF CanMake
  <2> QED
    BY <1>a, <1>c, <1>d, <2>1, MoreCannotMake DEF Counters
<1>1. ASSUME NEW t \in Threads, LookupCounter(t) PROVE Counters'
  <2>0. \E to \in {"make", "firstTake", "nextTake"} :
          /\ pc' = [pc EXCEPT ![t] = to]
          /\ to = "make" => pc[t] = "first"
    BY <1>1 DEF LookupCounter, Step
  <2>1. Len(atomics') <= Cardinality(Senders \ CanMake')
    <3>1. \A s \in Senders : pc'[s] = pc[s] \/ pc'[s] \notin {"first", "make"} \/ pc[s] \in {"first", "make"}
      BY <1>a, <2>0, WorkerIsThread
    <3>2. Len(atomics') = Len(atomics) /\ begun \subseteq begun'
      BY <1>1 DEF LookupCounter, history
    <3> QED
      BY <1>d, <3>1, <3>2
  <2>2. t = "worker" => current # 0
    BY <1>1 DEF LookupCounter, Step, Counters
  <2> QED
    BY <1>1, <1>a, <2>1, <2>2, WorkerIsThread, SendersAssumption DEF LookupCounter, Step, Counters, Numbered, Sending, state, history
<1>2. ASSUME NEW t \in Threads, MakeCounter(t) PROVE Counters'
  <2>1. t \in Senders /\ t \in begun
    BY <1>2 DEF MakeCounter, Step, Counters, Threads
  <2>2. t \in CanMake /\ CanMake' = CanMake \ {t}
    BY <1>2, <1>a, <2>1, WorkerIsThread DEF MakeCounter, Step, CanMake, history
  <2>3. Senders \ CanMake' = (Senders \ CanMake) \cup {t} /\ t \notin Senders \ CanMake
    BY <2>1, <2>2
  <2>4. Cardinality(Senders \ CanMake') = Cardinality(Senders \ CanMake) + 1
    BY <1>b, <2>3, FS_AddElement
  <2>5. Len(atomics') = Len(atomics) + 1
    BY <1>2, <1>a, AppendProperties DEF MakeCounter
  <2>6. Len(atomics') <= Cardinality(Senders \ CanMake')
    BY <1>a, <1>c, <2>4, <2>5 DEF Counters
  <2>7. current' # 0
    BY <1>2, <1>a DEF MakeCounter
  <2> QED
    BY <1>2, <1>a, <2>1, <2>6, <2>7, WorkerIsThread, SendersAssumption DEF MakeCounter, Step, Counters, state, history
<1>3. ASSUME NEW t \in Threads, NEW to \in Numbered \cup {"idle"}, pc[t] \in Numbered,
             pc' = [pc EXCEPT ![t] = to], UNCHANGED <<current, begun>>, initRec => initRec',
             Len(atomics') = Len(atomics)
      PROVE  Counters'
  <2>0. /\ pc[t] \notin {"idle", "first", "make"} /\ to # "make" /\ to # "first"
        /\ to \in Numbered \/ to = "idle"
    BY <1>3 DEF Numbered, Sending
  <2>1. Len(atomics') <= Cardinality(Senders \ CanMake')
    <3>1. \A s \in Senders : pc'[s] = pc[s] \/ pc'[s] \notin {"first", "make"} \/ pc[s] \in {"first", "make"}
      BY <1>3, <1>a, <2>0, WorkerIsThread
    <3> QED
      BY <1>3, <1>d, <3>1
  <2>2. current' # 0 /\ (initRec' => current' # 0)
    BY <1>3 DEF Counters
  <2>3. \A s \in Senders : s \notin begun' => pc'[s] = "idle"
    BY <1>3, <1>a, <2>0, WorkerIsThread DEF Counters
  <2>4. pc'["worker"] # "make" /\ (pc'["worker"] # "idle" => initRec')
    BY <1>3, <1>a, <2>0, WorkerIsThread DEF Counters
  <2> QED
    BY <2>1, <2>2, <2>3, <2>4 DEF Counters
<1>4. ASSUME NEW t \in Threads, TakeFirst(t) \/ TakeNext(t) PROVE Counters'
  <2>1. Len(atomics') = Len(atomics)
    BY <1>4, <1>a, ExceptSeq DEF TakeFirst, TakeNext, Step, GetAndIncrement, NumberTypes
  <2> QED
    BY <1>3, <1>4, <2>1 DEF TakeFirst, TakeNext, Step, Numbered, Sending, state, history
<1>5. ASSUME NEW t \in Threads, Register(t) \/ Send(t) \/ Keep(t) \/ Confirm(t) PROVE Counters'
  <2>1. \E to \in Numbered \cup {"idle"} : pc[t] \in Numbered /\ pc' = [pc EXCEPT ![t] = to]
    BY <1>5 DEF Register, Send, Keep, KeepAs, Confirm, Step, Numbered, Sending
  <2>2. UNCHANGED <<atomics, current, begun>> /\ (initRec => initRec')
    BY <1>5 DEF Register, Send, Keep, KeepAs, Confirm, numbers, history, state
  <2> QED
    BY <1>3, <2>1, <2>2
<1>6. ASSUME NEW s \in Senders, Begin(s) PROVE Counters'
  <2>1. Len(atomics') <= Cardinality(Senders \ CanMake')
    BY <1>6, <1>a, <1>d, WorkerIsThread DEF Begin, Step, numbers
  <2> QED
    BY <1>6, <1>a, <2>1, WorkerIsThread, SendersAssumption DEF Begin, Step, Counters, Numbered, Sending, numbers, state
<1>7. ASSUME Aside PROVE Counters'
  <2>1. Len(atomics') <= Cardinality(Senders \ CanMake')
    BY <1>7, <1>d DEF Aside
  <2>2. \A s \in Senders : s \notin begun' => pc'[s] = "idle"
    BY <1>7 DEF Aside, Counters
  <2>3. pc'["worker"] # "make" /\ (pc'["worker"] # "idle" => initRec')
    BY <1>7 DEF Aside, Counters, Busy, Starting
  <2>4. \A t \in Threads : pc'[t] \in Numbered => current' # 0
    <3> SUFFICES ASSUME NEW t \in Threads, pc'[t] \in Numbered PROVE current' # 0
      OBVIOUS
    <3>1. CASE t \in Senders
      BY <1>7, <3>1, WorkerIsThread DEF Aside, Counters
    <3>2. CASE t = "worker"
      BY <1>7, <3>2, WorkerIsThread DEF Aside, Counters, Busy, Starting, Numbered
    <3> QED
      BY <3>1, <3>2 DEF Threads
  <2> QED
    BY <1>7, <2>1, <2>2, <2>3, <2>4 DEF Aside, Counters
<1> QED
  BY <1>1, <1>2, <1>4, <1>5, <1>6, <1>7, StepKinds DEF SendData

(* A counter gives a number out once, and what was given out is sent once:  *)
(* the packets with a number, and the threads about to send one, are no     *)
(* more than the counters that passed it.                                   *)
SentAs(n)    == {p \in packets : p.id = n}
Unsent(n)    == {t \in Threads : pc[t] \in {"register", "send"} /\ job[t].id = n}
TakenFrom(n) == {c \in 1 .. Len(atomics) : atomics[c] > n}
Room(n)      == Cardinality(SentAs(n)) + Cardinality(Unsent(n)) <= Cardinality(TakenFrom(n))
NumbersCounted == IsFiniteSet(packets) /\ \A n \in Numbers : Room(n)

LEMMA CountsAreNumbers ==
    ASSUME TypeInv, IsFiniteSet(packets), NEW n
    PROVE  /\ IsFiniteSet(SentAs(n)) /\ Cardinality(SentAs(n)) \in Nat
           /\ IsFiniteSet(Unsent(n)) /\ Cardinality(Unsent(n)) \in Nat
           /\ IsFiniteSet(TakenFrom(n)) /\ Cardinality(TakenFrom(n)) \in Nat
           /\ Cardinality(TakenFrom(n)) <= Len(atomics)
<1>1. SentAs(n) \in SUBSET packets /\ Unsent(n) \in SUBSET Threads
  BY DEF SentAs, Unsent
<1>2. IsFiniteSet(Threads)
  BY FS_AddElement, SendersAssumption DEF Threads
<1>3. IsFiniteSet(SentAs(n)) /\ IsFiniteSet(Unsent(n))
  BY <1>1, <1>2, FS_Subset
<1>4. PICK k : k = Len(atomics)
  OBVIOUS
<1>5. k \in Nat /\ TakenFrom(n) \in SUBSET (1 .. k)
  BY <1>4 DEF TakenFrom, TypeInv, NumberTypes
<1>6. IsFiniteSet(1 .. k) /\ Cardinality(1 .. k) = k
  <2>1. PICK one \in Int : one = 1
    OBVIOUS
  <2>2. IsFiniteSet(one .. k) /\ Cardinality(one .. k) = IF one > k THEN 0 ELSE k - one + 1
    BY <1>5, FS_Interval
  <2> QED
    BY <1>5, <2>1, <2>2
<1>7. IsFiniteSet(TakenFrom(n)) /\ Cardinality(TakenFrom(n)) <= k
  BY <1>5, <1>6, FS_Subset
<1> QED
  BY <1>3, <1>4, <1>7, FS_CardinalityType

LEMMA NumbersCountedStep ==
    ASSUME TypeInv, TypeInv', NumbersCounted, [Next]_vars
    PROVE  NumbersCounted'
<1> USE DEF TypeInv
<1>a. /\ pc \in [Threads -> Places] /\ job \in [Threads -> Jobs]
      /\ atomics \in Seq(Nat) /\ Len(atomics) \in Nat
  BY DEF JobTypes, NumberTypes
(* A step that neither takes a number nor sends.                            *)
<1>b. ASSUME packets' = packets, \A n \in Numbers : TakenFrom(n)' = TakenFrom(n),
             \A t \in Threads : pc'[t] \in {"register", "send"} =>
                pc[t] \in {"register", "send"} /\ job'[t].id = job[t].id
      PROVE  NumbersCounted'
  <2> SUFFICES ASSUME NEW n \in Numbers PROVE Room(n)'
    BY <1>b DEF NumbersCounted
  <2>1. SentAs(n)' = SentAs(n)
    BY <1>b DEF SentAs
  <2>2. Unsent(n)' \in SUBSET Unsent(n)
    BY <1>b DEF Unsent
  <2>3. Cardinality(Unsent(n)') <= Cardinality(Unsent(n)) /\ Cardinality(Unsent(n)') \in Nat
    BY <2>2, CountsAreNumbers, FS_Subset, FS_CardinalityType DEF NumbersCounted
  <2>4. Room(n) /\ TakenFrom(n)' = TakenFrom(n)
    BY <1>b DEF NumbersCounted
  <2>5. Cardinality(SentAs(n)) \in Nat /\ Cardinality(Unsent(n)) \in Nat /\ Cardinality(TakenFrom(n)) \in Nat
    BY CountsAreNumbers DEF NumbersCounted
  <2> QED
    BY <2>1, <2>3, <2>4, <2>5 DEF Room
(* Taking a number.                                                         *)
<1>c. ASSUME NEW t \in Threads, NEW c \in 1 .. Len(atomics), GetAndIncrement(c), packets' = packets,
             NEW to \in {"register", "send"}, NEW j, pc' = [pc EXCEPT ![t] = to],
             pc[t] \notin {"register", "send"}, job' = [job EXCEPT ![t] = j], j.id = atomics[c]
      PROVE  NumbersCounted'
  <2> SUFFICES ASSUME NEW n \in Numbers PROVE Room(n)'
    BY <1>c DEF NumbersCounted
  <2>1. SentAs(n)' = SentAs(n)
    BY <1>c DEF SentAs
  <2>2. /\ Len(atomics') = Len(atomics) /\ atomics[c] \in Nat
        /\ \A d \in 1 .. Len(atomics) : atomics'[d] = IF d = c THEN atomics[c] + 1 ELSE atomics[d]
    BY <1>a, <1>c, ExceptSeq DEF GetAndIncrement
  <2>3. n \in Nat /\ \A d \in 1 .. Len(atomics) : atomics[d] \in Nat
    BY <1>a DEF Numbers
  <2>4. Room(n) /\ IsFiniteSet(packets)
    BY DEF NumbersCounted
  <2>5. /\ Cardinality(SentAs(n)) \in Nat /\ Cardinality(Unsent(n)) \in Nat
        /\ Cardinality(TakenFrom(n)) \in Nat
        /\ IsFiniteSet(Unsent(n)) /\ IsFiniteSet(TakenFrom(n))
    BY <2>4, CountsAreNumbers
  <2>6. CASE atomics[c] = n
    <3>1. Unsent(n)' = Unsent(n) \cup {t} /\ t \notin Unsent(n)
      BY <1>a, <1>c, <2>6 DEF Unsent
    <3>2. TakenFrom(n)' = TakenFrom(n) \cup {c} /\ c \notin TakenFrom(n)
      BY <1>c, <2>2, <2>3, <2>6 DEF TakenFrom
    <3>3. Cardinality(Unsent(n)') = Cardinality(Unsent(n)) + 1
      BY <2>5, <3>1, FS_AddElement
    <3>4. Cardinality(TakenFrom(n)') = Cardinality(TakenFrom(n)) + 1
      BY <2>5, <3>2, FS_AddElement
    <3> QED
      BY <2>1, <2>4, <2>5, <3>3, <3>4 DEF Room
  <2>7. CASE atomics[c] # n
    <3>1. Unsent(n)' = Unsent(n)
      BY <1>a, <1>c, <2>7 DEF Unsent
    <3>2. TakenFrom(n)' = TakenFrom(n)
      BY <1>c, <2>2, <2>3, <2>7, SMTT(30) DEF TakenFrom
    <3> QED
      BY <2>1, <2>4, <3>1, <3>2 DEF Room
  <2> QED
    BY <2>6, <2>7
<1>d. ASSUME atomics' = atomics PROVE \A n \in Numbers : TakenFrom(n)' = TakenFrom(n)
  BY <1>d DEF TakenFrom
<1>1. ASSUME NEW t \in Threads, LookupCounter(t) PROVE NumbersCounted'
  BY <1>1, <1>a, <1>b, <1>d DEF LookupCounter, Step, history
<1>2. ASSUME NEW t \in Threads, MakeCounter(t) PROVE NumbersCounted'
  <2>1. ASSUME NEW n \in Numbers PROVE TakenFrom(n)' = TakenFrom(n)
    <3>1. /\ Len(atomics') = Len(atomics) + 1 /\ atomics'[Len(atomics) + 1] = 0
          /\ \A c \in 1 .. Len(atomics) : atomics'[c] = atomics[c]
      BY <1>2, <1>a, AppendProperties DEF MakeCounter
    <3>2. n \in Nat /\ ~(0 > n)
      BY DEF Numbers
    <3>3. \A c \in 1 .. Len(atomics') : c = Len(atomics) + 1 \/ c \in 1 .. Len(atomics)
      BY <1>a, <3>1
    <3>4. \A c \in 1 .. Len(atomics) : c \in 1 .. Len(atomics')
      BY <1>a, <3>1
    <3>5. \A c : c \in TakenFrom(n)' <=> c \in TakenFrom(n)
      BY <3>1, <3>2, <3>3, <3>4, Zenon DEF TakenFrom
    <3> QED
      BY <3>5
  <2> QED
    BY <1>2, <1>a, <1>b, <2>1 DEF MakeCounter, Step, history
<1>3. ASSUME NEW t \in Threads, TakeFirst(t) PROVE NumbersCounted'
  <2> DEFINE n == atomics[counter[t]]
             j == [job[t] EXCEPT !.init = n, !.id = n]
  <2>1. counter[t] \in 1 .. Len(atomics) /\ GetAndIncrement(counter[t])
    BY <1>3 DEF TakeFirst, Step, NumberTypes
  <2>2. job' = [job EXCEPT ![t] = j] /\ j.id = n
    BY <1>3, <1>a DEF TakeFirst, Jobs
  <2>3. pc' = [pc EXCEPT ![t] = "register"] /\ pc[t] = "firstTake" /\ packets' = packets
    BY <1>3 DEF TakeFirst, Step, history
  <2> HIDE DEF j
  <2> QED
    BY <2>1, <2>2, <2>3, <1>c
<1>4. ASSUME NEW t \in Threads, TakeNext(t) PROVE NumbersCounted'
  <2> DEFINE n == atomics[counter[t]]
             j == [job[t] EXCEPT !.id = n, !.inOrder = @ /\ n = job[t].init + Part(t) - 1]
  <2>1. counter[t] \in 1 .. Len(atomics) /\ GetAndIncrement(counter[t])
    BY <1>4 DEF TakeNext, Step, NumberTypes
  <2>2. job' = [job EXCEPT ![t] = j] /\ j.id = n
    BY <1>4, <1>a DEF TakeNext, Jobs
  <2>3. pc' = [pc EXCEPT ![t] = "send"] /\ pc[t] = "nextTake" /\ packets' = packets
    BY <1>4 DEF TakeNext, Step, history
  <2> HIDE DEF j
  <2> QED
    BY <2>1, <2>2, <2>3, <1>c
<1>5. ASSUME NEW t \in Threads, Register(t) PROVE NumbersCounted'
  BY <1>5, <1>a, <1>b, <1>d DEF Register, Step, numbers, history
<1>6. ASSUME NEW t \in Threads, Send(t) PROVE NumbersCounted'
  <2> DEFINE p == [id |-> job[t].id, initseq |-> job[t].init, size |-> job[t].size, load |-> Load(t)]
  <2>1. packets' = packets \/ packets' = packets \cup {p}
    BY <1>6, Zenon DEF Send
  <2>2. p.id = job[t].id
    OBVIOUS
  <2> HIDE DEF p
  <2>3. IsFiniteSet(packets) /\ IsFiniteSet(packets')
    BY <2>1, FS_AddElement DEF NumbersCounted
  <2> SUFFICES ASSUME NEW n \in Numbers PROVE Room(n)'
    BY <2>3 DEF NumbersCounted
  <2>4. Room(n) /\ TakenFrom(n)' = TakenFrom(n)
    BY <1>6, <1>d DEF NumbersCounted, Send, numbers
  <2>5. /\ Cardinality(SentAs(n)) \in Nat /\ Cardinality(Unsent(n)) \in Nat
        /\ Cardinality(TakenFrom(n)) \in Nat
        /\ IsFiniteSet(Unsent(n)) /\ IsFiniteSet(SentAs(n))
    BY <2>3, CountsAreNumbers
  <2>6. pc[t] = "send" /\ pc' = [pc EXCEPT ![t] = "keep"] /\ job' = job
    BY <1>6 DEF Send, Step
  <2>7. Unsent(n)' = Unsent(n) \ {t} /\ (t \in Unsent(n) <=> job[t].id = n)
    BY <1>a, <2>6 DEF Unsent
  <2>8. CASE job[t].id = n
    <3>1. Cardinality(Unsent(n)') = Cardinality(Unsent(n)) - 1
      BY <2>5, <2>7, <2>8, FS_RemoveElement
    <3>2. SentAs(n)' = SentAs(n) \/ SentAs(n)' = SentAs(n) \cup {p}
      <4>1. CASE packets' = packets
        BY <4>1 DEF SentAs
      <4>2. CASE packets' = packets \cup {p}
        BY <4>2, <2>2, <2>8 DEF SentAs
      <4> QED
        BY <2>1, <4>1, <4>2
    <3>3. Cardinality(SentAs(n) \cup {p}) \in {Cardinality(SentAs(n)), Cardinality(SentAs(n)) + 1}
      BY <2>5, FS_AddElement
    <3>4. Cardinality(SentAs(n)') \in {Cardinality(SentAs(n)), Cardinality(SentAs(n)) + 1}
      BY <3>2, <3>3
    <3> QED
      BY <2>4, <2>5, <3>1, <3>4 DEF Room
  <2>9. CASE job[t].id # n
    <3>1. SentAs(n)' = SentAs(n) /\ Unsent(n)' = Unsent(n)
      BY <2>1, <2>2, <2>7, <2>9 DEF SentAs
    <3> QED
      BY <2>4, <3>1 DEF Room
  <2> QED
    BY <2>8, <2>9
<1>7. ASSUME NEW t \in Threads, Keep(t) PROVE NumbersCounted'
  <2>1. \A u \in Threads : pc'[u] \in {"register", "send"} => u # t /\ pc'[u] = pc[u]
    BY <1>7, <1>a DEF Keep, KeepAs, Step
  <2>2. \A u \in Threads : u # t => job'[u] = job[u]
    BY <1>7, <1>a DEF Keep, KeepAs
  <2> QED
    BY <1>7, <1>b, <1>d, <2>1, <2>2 DEF Keep, KeepAs, numbers, history
<1>8. ASSUME NEW t \in Threads, Confirm(t) PROVE NumbersCounted'
  BY <1>8, <1>a, <1>b, <1>d DEF Confirm, Step, numbers
<1>9. ASSUME NEW s \in Senders, Begin(s) PROVE NumbersCounted'
  BY <1>9, <1>a, <1>b, <1>d, WorkerIsThread DEF Begin, Step, numbers
<1>10. ASSUME Aside PROVE NumbersCounted'
  <2>1. ASSUME NEW t \in Threads, pc'[t] \in {"register", "send"}
        PROVE  pc[t] \in {"register", "send"} /\ job'[t].id = job[t].id
    <3>1. CASE t \in Senders
      BY <1>10, <2>1, <3>1 DEF Aside
    <3>2. CASE t = "worker"
      BY <1>10, <2>1, <3>2 DEF Aside, Busy, Starting, Sending
    <3> QED
      BY <3>1, <3>2 DEF Threads
  <2> QED
    BY <1>10, <1>b, <1>d, <2>1 DEF Aside
<1> QED
  BY <1>1, <1>2, <1>3, <1>4, <1>5, <1>6, <1>7, <1>8, <1>9, <1>10, StepKinds DEF SendData

(* However many threads share the session, a packet number is used no more  *)
(* often than there are counters, and there are no more counters than       *)
(* threads: only the race of getInstanceID for the first number doubles one. *)
THEOREM ReuseIsBounded == Spec => []ReuseBounded
<1>1. Init => Counters /\ NumbersCounted
  <2> SUFFICES ASSUME Init PROVE Counters /\ NumbersCounted
    OBVIOUS
  <2>1. TypeInv
    BY InitInv DEF Inv
  <2>2. Len(atomics) = 0
    BY EmptySeq DEF Init
  <2>3. Counters
    <3>1. CanMake = Senders /\ Senders \ CanMake = {}
      BY DEF Init, CanMake
    <3>2. Len(atomics) <= Cardinality(Senders \ CanMake)
      BY <2>2, <3>1, FS_EmptySet
    <3> QED
      BY <3>2, WorkerIsThread DEF Init, Counters, Numbered, Sending
  <2>4. IsFiniteSet(packets)
    BY FS_EmptySet DEF Init
  <2>5. ASSUME NEW n \in Numbers PROVE Room(n)
    <3>1. SentAs(n) = {} /\ Unsent(n) = {}
      BY DEF Init, SentAs, Unsent
    <3>2. Cardinality(TakenFrom(n)) \in Nat
      BY <2>1, <2>4, CountsAreNumbers
    <3> QED
      BY <3>1, <3>2, FS_EmptySet DEF Room
  <2> QED
    BY <2>3, <2>4, <2>5 DEF NumbersCounted
<1>2. Inv /\ Inv' /\ Counters /\ NumbersCounted /\ [Next]_vars => Counters' /\ NumbersCounted'
  BY CountersStep, NumbersCountedStep DEF Inv
<1>3. Inv /\ Counters /\ NumbersCounted => ReuseBounded
  <2> SUFFICES ASSUME Inv, Counters, NumbersCounted PROVE ReuseBounded
    OBVIOUS
  <2>1. Len(atomics) \in Nat
    BY DEF Inv, TypeInv, NumberTypes
  <2>2. Len(atomics) <= Cardinality(Senders)
    <3>1. Senders \ CanMake \in SUBSET Senders
      OBVIOUS
    <3>2. /\ Cardinality(Senders \ CanMake) <= Cardinality(Senders)
          /\ Cardinality(Senders \ CanMake) \in Nat /\ Cardinality(Senders) \in Nat
      BY <3>1, SendersAssumption, FS_Subset, FS_CardinalityType
    <3> QED
      BY <2>1, <3>2 DEF Counters
  <2>3. ASSUME NEW n \in Numbers PROVE Cardinality({p \in packets : p.id = n}) <= Len(atomics)
    <3>1. /\ Cardinality(SentAs(n)) \in Nat /\ Cardinality(Unsent(n)) \in Nat
          /\ Cardinality(TakenFrom(n)) \in Nat /\ Cardinality(TakenFrom(n)) <= Len(atomics)
      BY CountsAreNumbers DEF Inv, NumbersCounted
    <3>2. Cardinality(SentAs(n)) <= Len(atomics)
      BY <2>1, <3>1 DEF NumbersCounted, Room
    <3> QED
      BY <3>2 DEF SentAs
  <2> QED
    BY <2>2, <2>3 DEF ReuseBounded
<1> QED
  BY <1>1, <1>2, <1>3, InvAlways, PTL DEF Spec

-----------------------------------------------------------------------------
(* What an end removes stays away.                                          *)

(* With one counter, the next number it gives out, and the threads that     *)
(* hold a number whose packet they have not kept yet.                       *)
Fresh    == IF Len(atomics) = 0 THEN 0 ELSE atomics[1]
InFlight == {t \in Threads : pc[t] \in {"register", "send", "keep"}}
(* A number whose packet nobody will keep again.                            *)
Past(n)  == n < Fresh /\ \A t \in InFlight : job[t].id # n
NumbersApart ==
    Len(atomics) <= 1 =>
      /\ \A t \in InFlight : job[t].id < Fresh
      /\ \A t, u \in InFlight : t # u => job[t].id # job[u].id
      /\ \A t \in Threads : job[t].inOrder => \A n \in Done(job[t]) : Past(n)
      /\ \A w \in whole : \A n \in NumbersOf(w) : Past(n)

LEMMA FreshStep ==
    ASSUME TypeInv, [Next]_vars, Len(atomics') <= 1
    PROVE  /\ Len(atomics) <= 1 /\ Fresh \in Nat /\ Fresh' \in Nat
           /\ Fresh' = Fresh \/ \E t \in Threads : TakeFirst(t) \/ TakeNext(t)
           /\ \A t \in Threads : TakeFirst(t) \/ TakeNext(t) =>
                Fresh' = Fresh + 1 /\ atomics[counter[t]] = Fresh
<1> USE DEF TypeInv
<1>a. atomics \in Seq(Nat) /\ Len(atomics) \in Nat
  BY DEF NumberTypes
<1>1. ASSUME NEW t \in Threads, TakeFirst(t) \/ TakeNext(t)
      PROVE  /\ Len(atomics) <= 1 /\ Fresh \in Nat /\ Fresh' = Fresh + 1
             /\ atomics[counter[t]] = Fresh
  <2>1. counter[t] \in 1 .. Len(atomics) /\ GetAndIncrement(counter[t])
    BY <1>1 DEF TakeFirst, TakeNext, Step, NumberTypes
  <2>2. Len(atomics') = Len(atomics)
    BY <1>a, <2>1, ExceptSeq DEF GetAndIncrement
  <2>3. counter[t] = 1 /\ Len(atomics) = 1
    BY <1>a, <2>1, <2>2
  <2>4. atomics[1] \in Nat /\ atomics'[1] = atomics[1] + 1
    <3>1. PICK c : c = counter[t]
      OBVIOUS
    <3>2. c \in 1 .. Len(atomics) /\ atomics' = [atomics EXCEPT ![c] = atomics[c] + 1]
      BY <2>1, <3>1 DEF GetAndIncrement
    <3>3. atomics[c] \in Nat /\ atomics'[c] = atomics[c] + 1
      BY <1>a, <3>2
    <3> QED
      BY <2>3, <3>1, <3>3
  <2> QED
    BY <2>2, <2>3, <2>4 DEF Fresh
<1>2. ASSUME NEW t \in Threads, MakeCounter(t)
      PROVE  Len(atomics) <= 1 /\ Fresh \in Nat /\ Fresh' = Fresh
  <2>1. Len(atomics') = Len(atomics) + 1 /\ atomics'[Len(atomics) + 1] = 0
    BY <1>2, <1>a, AppendProperties DEF MakeCounter
  <2>2. Len(atomics) = 0
    BY <1>a, <2>1
  <2> QED
    BY <2>1, <2>2 DEF Fresh
<1>3. ASSUME atomics' = atomics
      PROVE  Len(atomics) <= 1 /\ Fresh \in Nat /\ Fresh' = Fresh
  <2>1. Len(atomics) = 0 \/ (1 \in 1 .. Len(atomics) /\ atomics[1] \in Nat)
    BY <1>a
  <2> QED
    BY <1>3, <2>1 DEF Fresh
<1>4. \/ atomics' = atomics
      \/ \E t \in Threads : TakeFirst(t) \/ TakeNext(t) \/ MakeCounter(t)
  BY StepKinds DEF SendData, LookupCounter, Register, Send, Keep, KeepAs, Confirm, Begin, Aside, numbers
<1>5. Len(atomics) <= 1 /\ Fresh \in Nat /\ Fresh' \in Nat
  BY <1>1, <1>2, <1>3, <1>4
<1>6. Fresh' = Fresh \/ \E t \in Threads : TakeFirst(t) \/ TakeNext(t)
  BY <1>2, <1>3, <1>4
<1> QED
  BY <1>1, <1>5, <1>6

LEMMA NumbersApartStep ==
    ASSUME TypeInv, TypeInv', NumbersApart, [Next]_vars
    PROVE  NumbersApart'
<1> USE DEF TypeInv
<1> SUFFICES ASSUME Len(atomics') <= 1 PROVE NumbersApart'
  BY DEF NumbersApart
<1>a. /\ pc \in [Threads -> Places] /\ job \in [Threads -> Jobs]
      /\ pc' \in [Threads -> Places] /\ job' \in [Threads -> Jobs]
  BY DEF JobTypes
<1>n. Len(atomics) <= 1 /\ Fresh \in Nat /\ Fresh' \in Nat
  BY FreshStep
<1>p. ASSUME NEW j \in Jobs, NEW n \in Done(j) PROVE n \in Int
  BY <1>p DEF Done
<1>w. ASSUME NEW w \in whole, NEW n \in NumbersOf(w) PROVE Past(n)
  BY <1>n, <1>w DEF NumbersApart
(* A step that neither takes nor keeps a packet.                            *)
<1>b. ASSUME \A t \in Threads : ~TakeFirst(t) /\ ~TakeNext(t),
             \A t \in Threads : t \in InFlight' => t \in InFlight /\ job'[t].id = job[t].id,
             \A t \in Threads : job'[t].inOrder => Done(job'[t]) = {} \/ job'[t] = job[t],
             \A w \in whole' : w \in whole \/ \E t \in Threads :
                job[t].inOrder /\ NumbersOf(w) = Done(job[t])
      PROVE  NumbersApart'
  <2>1. Fresh' = Fresh
    BY <1>b, FreshStep
  <2>2. ASSUME NEW n, Past(n) PROVE Past(n)'
    BY <1>b, <2>1, <2>2 DEF Past, InFlight
  <2>3. \A t \in InFlight' : job'[t].id < Fresh'
    BY <1>n, <1>b, <2>1 DEF NumbersApart, InFlight
  <2>4. \A t, u \in InFlight' : t # u => job'[t].id # job'[u].id
    BY <1>n, <1>b DEF NumbersApart, InFlight
  <2>5. \A t \in Threads : job'[t].inOrder => \A n \in Done(job'[t]) : Past(n)'
    BY <1>n, <1>b, <2>2 DEF NumbersApart
  <2>6. \A w \in whole' : \A n \in NumbersOf(w) : Past(n)'
    BY <1>n, <1>b, <2>2 DEF NumbersApart
  <2> QED
    BY <2>3, <2>4, <2>5, <2>6 DEF NumbersApart, Done, NumbersOf
(* Taking the next number.                                                  *)
<1>c. ASSUME NEW t \in Threads, TakeFirst(t) \/ TakeNext(t), NEW j \in Jobs, whole' = whole,
             t \notin InFlight, InFlight' = InFlight \cup {t},
             job' = [job EXCEPT ![t] = j], j.id = Fresh,
             j.inOrder => Done(j) = {} \/ (job[t].inOrder /\ Done(j) = Done(job[t]))
      PROVE  NumbersApart'
  <2>1. Fresh' = Fresh + 1
    BY <1>c, FreshStep
  <2>2. job'[t] = j /\ \A u \in Threads : u # t => job'[u] = job[u]
    BY <1>a, <1>c
  <2>3. \A u \in InFlight : u # t /\ u \in Threads /\ job[u].id < Fresh /\ job[u].id \in Int
    BY <1>a, <1>c, <1>n, SMTT(30) DEF NumbersApart, InFlight, Jobs, Numbers
  <2>4. ASSUME NEW n \in Int, Past(n) PROVE Past(n)'
    <3>1. n < Fresh /\ \A u \in InFlight : job[u].id # n
      BY <2>4 DEF Past
    <3>2. n < Fresh'
      BY <1>n, <2>1, <3>1
    <3>3. \A u \in InFlight' : job'[u].id # n
      BY <1>c, <1>n, <2>2, <2>3, <3>1
    <3> QED
      BY <3>2, <3>3 DEF Past
  <2>5. \A u \in InFlight' : job'[u].id < Fresh'
    BY <1>c, <1>n, <2>1, <2>2, <2>3
  <2>6. \A u, v \in InFlight' : u # v => job'[u].id # job'[v].id
    <3> SUFFICES ASSUME NEW u \in InFlight', NEW v \in InFlight', u # v PROVE job'[u].id # job'[v].id
      OBVIOUS
    <3>1. CASE u # t /\ v # t
      BY <1>c, <1>n, <2>2, <2>3, <3>1 DEF NumbersApart
    <3>2. CASE u = t
      BY <1>c, <1>n, <2>2, <2>3, <3>2
    <3>3. CASE v = t
      BY <1>c, <1>n, <2>2, <2>3, <3>3
    <3> QED
      BY <3>1, <3>2, <3>3
  <2>7. ASSUME NEW u \in Threads, job'[u].inOrder, NEW n \in Done(job'[u]) PROVE Past(n)'
    <3>1. job[u].inOrder /\ n \in Done(job[u])
      BY <1>c, <2>2, <2>7
    <3>2. Past(n) /\ n \in Int
      BY <1>a, <1>n, <1>p, <3>1 DEF NumbersApart
    <3> QED
      BY <2>4, <3>2
  <2>8. ASSUME NEW w \in whole', NEW n \in NumbersOf(w) PROVE Past(n)'
    <3>1. Past(n) /\ n \in Int
      BY <1>c, <1>w, <2>8 DEF NumbersOf
    <3> QED
      BY <2>4, <3>1
  <2> QED
    BY <2>5, <2>6, <2>7, <2>8 DEF NumbersApart, Done, NumbersOf
<1>1. ASSUME NEW t \in Threads, LookupCounter(t) PROVE NumbersApart'
  BY <1>1, <1>a, <1>b DEF LookupCounter, Step, TakeFirst, TakeNext, InFlight, history
<1>2. ASSUME NEW t \in Threads, MakeCounter(t) PROVE NumbersApart'
  BY <1>2, <1>a, <1>b DEF MakeCounter, Step, TakeFirst, TakeNext, InFlight, history
<1>3. ASSUME NEW t \in Threads, TakeFirst(t) PROVE NumbersApart'
  <2> DEFINE n == atomics[counter[t]]
             j == [job[t] EXCEPT !.init = n, !.id = n]
  <2>1. n = Fresh
    BY <1>3, FreshStep
  <2>2. job' = [job EXCEPT ![t] = j] /\ j = job'[t]
    BY <1>3, <1>a DEF TakeFirst
  <2>3. j \in Jobs /\ j.id = n /\ j.init = n /\ j.size = job[t].size /\ j.left = job[t].left
    BY <1>a, <2>2 DEF Jobs
  <2>4. job[t].left = job[t].size /\ n \in Int /\ job[t].size \in Int
    BY <1>3, <1>a, <1>n, <2>1 DEF TakeFirst, Step, JobTypes, Progress, Starting, Jobs
  <2>5. Done(j) = {}
    BY <2>3, <2>4 DEF Done
  <2>6. t \notin InFlight /\ InFlight' = InFlight \cup {t} /\ whole' = whole
    BY <1>3, <1>a DEF TakeFirst, Step, InFlight, history
  <2> HIDE DEF j
  <2> QED
    BY <1>3, <1>c, <2>1, <2>2, <2>3, <2>5, <2>6
<1>4. ASSUME NEW t \in Threads, TakeNext(t) PROVE NumbersApart'
  <2> DEFINE n == atomics[counter[t]]
             j == [job[t] EXCEPT !.id = n, !.inOrder = @ /\ n = job[t].init + Part(t) - 1]
  <2>1. n = Fresh
    BY <1>4, FreshStep
  <2>2. job' = [job EXCEPT ![t] = j] /\ j = job'[t]
    BY <1>4, <1>a DEF TakeNext
  <2>3. /\ j \in Jobs /\ j.id = n /\ j.init = job[t].init /\ j.size = job[t].size
        /\ j.left = job[t].left
    BY <1>a, <2>2 DEF Jobs
  <2>4. j.inOrder => job[t].inOrder
    BY <1>a DEF Jobs
  <2>5. Done(j) = Done(job[t])
    BY <2>3 DEF Done
  <2>6. t \notin InFlight /\ InFlight' = InFlight \cup {t} /\ whole' = whole
    BY <1>4, <1>a DEF TakeNext, Step, InFlight, history
  <2> HIDE DEF j
  <2> QED
    BY <1>4, <1>c, <2>1, <2>2, <2>3, <2>4, <2>5, <2>6
<1>5. ASSUME NEW t \in Threads, Register(t) PROVE NumbersApart'
  BY <1>5, <1>a, <1>b DEF Register, Step, TakeFirst, TakeNext, InFlight, numbers, history
<1>6. ASSUME NEW t \in Threads, Send(t) PROVE NumbersApart'
  BY <1>6, <1>a, <1>b DEF Send, Step, TakeFirst, TakeNext, InFlight, numbers, history
<1>7. ASSUME NEW t \in Threads, Keep(t) PROVE NumbersApart'
  <2> DEFINE j == [job[t] EXCEPT !.left = @ - 1]
  <2>1. job' = [job EXCEPT ![t] = j] /\ j = job'[t] /\ whole' = whole
    BY <1>7, <1>a DEF Keep, KeepAs, history
  <2>2. /\ j.init = job[t].init /\ j.size = job[t].size /\ j.left = job[t].left - 1
        /\ j.inOrder = job[t].inOrder
    BY <1>a DEF Jobs
  <2>3. /\ t \in InFlight /\ \A u \in InFlight' : u \in InFlight /\ u # t
    BY <1>7, <1>a DEF Keep, KeepAs, Step, InFlight
  <2>4. \A u \in Threads : u # t => job'[u] = job[u]
    BY <1>a, <2>1
  <2>5. Fresh' = Fresh
    BY <1>7, FreshStep DEF Keep, KeepAs, Step, numbers, Fresh
  <2>6. ASSUME NEW n, Past(n) PROVE Past(n)'
    BY <2>3, <2>4, <2>5, <2>6 DEF Past, InFlight
  <2>7. ASSUME job[t].inOrder, NEW n \in Done(j) PROVE n \in Done(job[t]) \/ n = job[t].id
    <3>1. job[t].id = job[t].init + job[t].size - job[t].left
      BY <1>7, <2>7 DEF Keep, KeepAs, Step, JobTypes, Progress
    <3>2. job[t].init \in Int /\ job[t].size \in Int /\ job[t].left \in Int
      BY <1>a DEF Jobs, Numbers
    <3>3. n \in job[t].init .. job[t].init + job[t].size - (job[t].left - 1) - 1
      BY <2>2, <2>7 DEF Done
    <3> QED
      BY <3>1, <3>2, <3>3, SMTT(30) DEF Done
  <2>8. \A u \in InFlight' : job'[u].id # job[t].id
    BY <1>n, <2>3, <2>4 DEF NumbersApart, InFlight
  <2> HIDE DEF j
  <2>10. ASSUME NEW u \in Threads, job'[u].inOrder, NEW n \in Done(job'[u]) PROVE Past(n)'
    <3>1. CASE u # t
      BY <1>n, <2>4, <2>6, <2>10, <3>1 DEF NumbersApart
    <3>2. CASE u = t
      <4>1. job[t].inOrder /\ n \in Done(j)
        BY <2>1, <2>2, <2>10, <3>2
      <4>2. CASE n \in Done(job[t])
        BY <1>n, <2>6, <4>1, <4>2 DEF NumbersApart
      <4>3. CASE n = job[t].id
        BY <1>n, <2>3, <2>5, <2>8, <4>3 DEF NumbersApart, Past
      <4> QED
        BY <2>7, <4>1, <4>2, <4>3
    <3> QED
      BY <3>1, <3>2
  <2>11. \A u \in InFlight' : job'[u].id < Fresh'
    BY <1>n, <2>3, <2>4, <2>5 DEF NumbersApart, InFlight
  <2>12. \A u, v \in InFlight' : u # v => job'[u].id # job'[v].id
    BY <1>n, <2>3, <2>4 DEF NumbersApart, InFlight
  <2>13. \A w \in whole' : \A n \in NumbersOf(w) : Past(n)'
    BY <1>w, <2>1, <2>6
  <2> QED
    BY <2>10, <2>11, <2>12, <2>13 DEF NumbersApart, Done, NumbersOf
<1>8. ASSUME NEW t \in Threads, Confirm(t) PROVE NumbersApart'
  <2> DEFINE w == [init |-> job[t].init, size |-> job[t].size]
  <2>1. whole' = whole \/ (job[t].inOrder /\ whole' = whole \cup {w})
    BY <1>8 DEF Confirm
  <2>2. NumbersOf(w) = Done(job[t])
    <3>1. job[t].left = 0 /\ job[t] \in Jobs
      BY <1>8, <1>a DEF Confirm, Step, JobTypes, Progress
    <3> QED
      BY <3>1 DEF NumbersOf, Done, Jobs, Numbers
  <2> HIDE DEF w
  <2>3. \A v \in whole' : v \in whole \/ \E u \in Threads :
                job[u].inOrder /\ NumbersOf(v) = Done(job[u])
    BY <2>1, <2>2
  <2>4. \A u \in Threads : job'[u].inOrder => Done(job'[u]) = {} \/ job'[u] = job[u]
    <3>1. Done(NoJob) = {}
      BY DEF Done, NoJob
    <3> QED
      BY <1>8, <1>a, <3>1 DEF Confirm
  <2>5. \A u \in Threads : u \in InFlight' => u \in InFlight /\ job'[u].id = job[u].id
    BY <1>8, <1>a DEF Confirm, Step, InFlight
  <2>6. \A u \in Threads : ~TakeFirst(u) /\ ~TakeNext(u)
    BY <1>8, <1>a DEF Confirm, Step, TakeFirst, TakeNext
  <2> QED
    BY <1>b, <2>3, <2>4, <2>5, <2>6
<1>9. ASSUME NEW s \in Senders, Begin(s) PROVE NumbersApart'
  <2>1. \A u \in Threads : job'[u].inOrder => Done(job'[u]) = {} \/ job'[u] = job[u]
    <3>1. PICK k : k = PacketsOf(LengthOf[s])
      OBVIOUS
    <3>2. k \in Nat
      BY <3>1, LastPiece, LengthsAssumption
    <3>3. Done(NewJob(LengthOf[s], -1)) = {}
      BY <3>1, <3>2 DEF Done, NewJob
    <3> QED
      BY <1>9, <1>a, <3>3, WorkerIsThread DEF Begin
  <2>2. \A u \in Threads : u \in InFlight' => u \in InFlight /\ job'[u].id = job[u].id
    BY <1>9, <1>a, WorkerIsThread DEF Begin, Step, InFlight
  <2>3. \A u \in Threads : ~TakeFirst(u) /\ ~TakeNext(u)
    BY <1>9, <1>a, WorkerIsThread DEF Begin, Step, TakeFirst, TakeNext
  <2>4. whole' = whole
    BY <1>9 DEF Begin
  <2> QED
    BY <1>b, <2>1, <2>2, <2>3, <2>4
<1>10. ASSUME Aside, atomics' = atomics PROVE NumbersApart'
  <2>1. \A u \in Threads : u \in InFlight' => u \in InFlight /\ job'[u].id = job[u].id
    BY <1>10 DEF Aside, InFlight, Threads, Busy, Starting, Sending
  <2>2. \A u \in Threads : job'[u].inOrder => Done(job'[u]) = {} \/ job'[u] = job[u]
    <3>1. ASSUME job'["worker"].left = job'["worker"].size, job'["worker"].init = 0
          PROVE  Done(job'["worker"]) = {}
      <4>1. job'["worker"].size \in Nat
        BY <1>a, WorkerIsThread DEF Jobs
      <4> QED
        BY <3>1, <4>1 DEF Done
    <3> QED
      BY <1>10, <3>1 DEF Aside, Threads
  <2>3. \A u \in Threads : ~TakeFirst(u) /\ ~TakeNext(u)
    <3> SUFFICES ASSUME NEW u \in Threads, TakeFirst(u) \/ TakeNext(u) PROVE FALSE
      OBVIOUS
    <3>1. Fresh' = Fresh + 1
      BY FreshStep
    <3>2. Fresh' = Fresh
      BY <1>10 DEF Fresh
    <3> QED
      BY <1>n, <3>1, <3>2
  <2> QED
    BY <1>10, <1>b, <2>1, <2>2, <2>3 DEF Aside
<1> QED
  BY <1>1, <1>2, <1>3, <1>4, <1>5, <1>6, <1>7, <1>8, <1>9, <1>10, StepKinds DEF SendData, Aside

(* The packets of a message whose end was handled are gone, or the worker   *)
(* is removing them one by one and has got as far as ending.i.              *)
Gone(e)  == \A n \in NumbersOf(e) : mapCache[n] = Null
Going(e) == /\ pc["worker"] = "remove" /\ ack = e.init /\ ending.size = e.size
            /\ \A n \in e.init .. e.init + ending.i - 1 : n \in Numbers => mapCache[n] = Null
CleanEnds ==
    Len(atomics) <= 1 =>
      \A e \in ended : e.clean => /\ [init |-> e.init, size |-> e.size] \in whole
                                  /\ Gone(e) \/ Going(e)
EndForm == ended \subseteq [init : Numbers, size : Nat, clean : BOOLEAN]

LEMMA EndFormStep ==
    ASSUME TypeInv, EndForm, [Next]_vars
    PROVE  EndForm'
<1>1. ASSUME EndKnown PROVE EndForm'
  <2> DEFINE c == [init |-> ack, size |-> mapInitSeq[ack]] \in whole
             e == [init |-> ack, size |-> mapInitSeq[ack], clean |-> c]
  <2>1. e \in [init : Numbers, size : Nat, clean : BOOLEAN]
    BY DEF TypeInv, EndTypes
  <2> QED
    BY <1>1, <2>1 DEF EndKnown, EndForm
<1>2. EndKnown \/ ended' = ended
  <2>1. ASSUME NEW t \in Threads, SendData(t) PROVE ended' = ended
    BY <2>1 DEF SendData, LookupCounter, MakeCounter, TakeFirst, TakeNext, Register, Send, Keep, KeepAs,
       Confirm, history
  <2> QED
    BY <2>1, WorkerIsThread DEF Next, Work, Begin, ReceiveEnd, ReceiveLoss, Receive, EndUnknown, RemovePacket,
       RemovesUpTo, ForgetMessage, LookupKept, LookupFile, CloseTest, CloseSet, CloseSocket, SetLogicalClose,
       SpillStart, SpillTake, SpillStore, SpillFlush, vars, history
<1> QED
  BY <1>1, <1>2 DEF EndForm

LEMMA CleanEndsStep ==
    ASSUME Inv, NumbersApart, EndForm, CleanEnds, [Next]_vars
    PROVE  CleanEnds'
<1> USE DEF Inv, TypeInv
<1> SUFFICES ASSUME Len(atomics') <= 1 PROVE CleanEnds'
  BY DEF CleanEnds
<1>a. /\ pc \in [Threads -> Places] /\ mapCache \in Kept
      /\ ack \in Numbers /\ ending \in [i : Nat, size : Nat] /\ mapInitSeq \in [Numbers -> Nat]
  BY DEF JobTypes, StoreTypes, EndTypes
<1>n. Len(atomics) <= 1
  BY FreshStep
(* Nobody kept one of its packets, and the worker did not go on removing.   *)
<1>b. ASSUME ended' = ended, whole \subseteq whole',
             \A e \in ended : e.clean => \A n \in NumbersOf(e) :
               mapCache'[n] = mapCache[n] \/ mapCache'[n] = Null,
             \A n \in Numbers : mapCache[n] = Null => mapCache'[n] = Null \/
               \A e \in ended : e.clean => n \notin NumbersOf(e),
             pc["worker"] = "remove" => UNCHANGED <<ack, ending>> /\ pc'["worker"] = "remove"
      PROVE  CleanEnds'
  <2> SUFFICES ASSUME NEW e \in ended, e.clean
               PROVE  /\ [init |-> e.init, size |-> e.size] \in whole'
                      /\ Gone(e)' \/ Going(e)'
    BY <1>b DEF CleanEnds
  <2>1. [init |-> e.init, size |-> e.size] \in whole'
    BY <1>b, <1>n DEF CleanEnds
  <2>2. CASE Gone(e)
    BY <1>b, <2>1, <2>2 DEF Gone, NumbersOf
  <2>3. CASE Going(e)
    <3>1. UNCHANGED <<ack, ending>> /\ pc'["worker"] = "remove"
      BY <1>b, <2>3 DEF Going
    <3>2. ASSUME NEW n \in e.init .. e.init + ending.i - 1, n \in Numbers PROVE mapCache'[n] = Null
      <4>1. mapCache[n] = Null
        BY <2>3, <3>2 DEF Going
      <4>2. n \in NumbersOf(e)
        <5>1. ending.i <= ending.size /\ ending.size = e.size
          BY <2>3 DEF Going, EndTypes
        <5>2. e.init \in Nat /\ e.size \in Nat /\ ending.i \in Nat
          BY <1>a DEF EndForm, Numbers
        <5> QED
          BY <3>2, <5>1, <5>2 DEF NumbersOf
      <4> QED
        BY <1>b, <4>1, <4>2
    <3>3. \A n \in e.init .. e.init + ending'.i - 1 : n \in Numbers => mapCache'[n] = Null
      BY <3>1, <3>2
    <3> QED
      BY <2>1, <2>3, <3>1, <3>3 DEF Going
  <2> QED
    BY <1>n, <2>1, <2>2, <2>3 DEF CleanEnds
<1>c. ASSUME UNCHANGED <<ended, mapCache>>, whole \subseteq whole',
             pc["worker"] = "remove" => UNCHANGED <<ack, ending>> /\ pc'["worker"] = "remove"
      PROVE  CleanEnds'
  BY <1>b, <1>c
<1>d. ASSUME NEW e \in ended, e.clean, NEW n \in NumbersOf(e) PROVE Past(n)
  <2>1. PICK w : w = [init |-> e.init, size |-> e.size]
    OBVIOUS
  <2>2. w \in whole /\ NumbersOf(w) = NumbersOf(e)
    BY <1>d, <1>n, <2>1 DEF CleanEnds, NumbersOf
  <2> QED
    BY <1>d, <1>n, <2>2 DEF NumbersApart
<1>1. ASSUME NEW t \in Threads, LookupCounter(t) \/ MakeCounter(t) \/ TakeFirst(t) \/ TakeNext(t)
      PROVE  CleanEnds'
  <2>1. UNCHANGED <<ended, mapCache, whole, ack, ending>>
    BY <1>1 DEF LookupCounter, MakeCounter, TakeFirst, TakeNext, state, acking, history
  <2>2. pc["worker"] = "remove" => pc'["worker"] = "remove"
    BY <1>1, <1>a, WorkerIsThread DEF LookupCounter, MakeCounter, TakeFirst, TakeNext, Step
  <2> QED
    BY <1>c, <2>1, <2>2
<1>2. ASSUME NEW t \in Threads, Register(t) \/ Send(t) \/ Confirm(t) PROVE CleanEnds'
  <2>1. UNCHANGED <<ended, mapCache, ack, ending>>
    BY <1>2 DEF Register, Send, Confirm, state, acking, history
  <2>2. pc["worker"] = "remove" => pc'["worker"] = "remove"
    BY <1>2, <1>a, WorkerIsThread DEF Register, Send, Confirm, Step
  <2>3. whole \subseteq whole'
    BY <1>2 DEF Register, Send, Confirm, history
  <2> QED
    BY <1>c, <2>1, <2>2, <2>3
<1>3. ASSUME NEW t \in Threads, Keep(t) PROVE CleanEnds'
  <2>1. t \in InFlight /\ UNCHANGED <<ended, whole, ack, ending>>
    BY <1>3 DEF Keep, KeepAs, Step, InFlight, acking, history
  <2>2. pc["worker"] = "remove" => pc'["worker"] = "remove"
    BY <1>3, <1>a, WorkerIsThread DEF Keep, KeepAs, Step
  <2>3. \A e \in ended : e.clean => \A n \in NumbersOf(e) : n # job[t].id
    BY <1>d, <2>1 DEF Past
  <2>4. \A n : n # job[t].id => mapCache'[n] = mapCache[n]
    <3>1. \A n \in Numbers : n # job[t].id => mapCache'[n] = mapCache[n]
      BY <1>3, <1>a DEF Keep, KeepAs, Kept
    <3>2. DOMAIN mapCache' = Numbers /\ DOMAIN mapCache = Numbers
      BY <1>3, <1>a DEF Keep, KeepAs, Kept
    <3> QED
      BY <1>3, <1>a DEF Keep, KeepAs, Kept
  <2> QED
    BY <1>b, <2>1, <2>2, <2>3, <2>4
<1>4. ASSUME NEW s \in Senders, Begin(s) PROVE CleanEnds'
  BY <1>4, <1>c, <1>a, WorkerIsThread, SendersAssumption DEF Begin, Step, state, acking
<1>5. ASSUME ReceiveEnd \/ ReceiveLoss PROVE CleanEnds'
  BY <1>5, <1>c DEF ReceiveEnd, ReceiveLoss, Receive, Step, state, history
<1>6. ASSUME EndUnknown PROVE CleanEnds'
  BY <1>6, <1>c DEF EndUnknown, Step, state, history
<1>7. ASSUME EndKnown PROVE CleanEnds'
  <2>1. PICK c : c = ([init |-> ack, size |-> mapInitSeq[ack]] \in whole)
    OBVIOUS
  <2>2. PICK d : d = [init |-> ack, size |-> mapInitSeq[ack], clean |-> c]
    OBVIOUS
  <2>3. ended' = ended \cup {d}
    BY <1>7, <2>1, <2>2, Zenon DEF EndKnown
  <2>4. d.init = ack /\ d.size = mapInitSeq[ack] /\ d.clean = c
    BY <2>2
  <2>5. /\ UNCHANGED <<mapCache, whole, ack>> /\ ending' = [i |-> 0, size |-> mapInitSeq[ack]]
        /\ pc["worker"] = "end" /\ pc'["worker"] = "remove"
    BY <1>7, <1>a, WorkerIsThread DEF EndKnown, Step, state
  <2> SUFFICES ASSUME NEW e \in ended', e.clean
               PROVE  /\ [init |-> e.init, size |-> e.size] \in whole'
                      /\ Gone(e)' \/ Going(e)'
    BY DEF CleanEnds
  <2>6. CASE e \in ended
    <3>1. [init |-> e.init, size |-> e.size] \in whole /\ (Gone(e) \/ Going(e))
      BY <1>n, <2>6 DEF CleanEnds
    <3>2. Gone(e)
      BY <2>5, <3>1 DEF Going
    <3> QED
      BY <2>5, <3>1, <3>2 DEF Gone, NumbersOf
  <2>7. CASE e = d
    <3>1. [init |-> e.init, size |-> e.size] \in whole'
      BY <2>1, <2>4, <2>5, <2>7
    <3>2. ending'.i = 0 /\ ending'.size = e.size /\ ack' = e.init
      BY <2>4, <2>5, <2>7
    <3>3. \A n : n \notin e.init .. e.init + ending'.i - 1
      BY <1>a, <2>4, <2>7, <3>2 DEF Numbers
    <3> QED
      BY <2>5, <3>1, <3>2, <3>3 DEF Going
  <2> QED
    BY <2>3, <2>6, <2>7
<1>8. ASSUME RemovePacket PROVE CleanEnds'
  <2>1. /\ \A n \in Numbers : mapCache'[n] = IF n = ack + ending.i THEN Null ELSE mapCache[n]
        /\ UNCHANGED <<ended, whole, ack>> /\ ending'.i = ending.i + 1 /\ ending'.size = ending.size
        /\ pc["worker"] = "remove"
        /\ pc'["worker"] = IF ending.i = ending.size THEN "forget" ELSE "remove"
    BY <1>8, <1>a, WorkerIsThread DEF RemovePacket, RemovesUpTo, Step, history
  <2> SUFFICES ASSUME NEW e \in ended, e.clean
               PROVE  /\ [init |-> e.init, size |-> e.size] \in whole'
                      /\ Gone(e)' \/ Going(e)'
    BY <2>1 DEF CleanEnds
  <2>2. [init |-> e.init, size |-> e.size] \in whole /\ (Gone(e) \/ Going(e))
    BY <1>n DEF CleanEnds
  <2>3. e.init \in Nat /\ e.size \in Nat /\ ending.i \in Nat /\ Fresh \in Nat
    BY <1>a, FreshStep DEF EndForm, Numbers
  <2>4. ASSUME NEW n \in NumbersOf(e) PROVE n \in Numbers
    <3>1. Covered(n)
      <4>1. PICK w : w = [init |-> e.init, size |-> e.size]
        OBVIOUS
      <4>2. w \in whole /\ n \in NumbersOf(w)
        BY <2>2, <2>4, <4>1 DEF NumbersOf
      <4> QED
        BY <4>2 DEF WholeCovered
    <3> QED
      BY <3>1 DEF Covered
  <2>5. CASE Gone(e)
    <3>1. Gone(e)'
      BY <2>1, <2>4, <2>5 DEF Gone, NumbersOf
    <3> QED
      BY <2>1, <2>2, <3>1
  <2>6. CASE Going(e)
    <3>1. ack = e.init /\ ending.size = e.size /\ ending.i <= e.size
      BY <2>6 DEF Going, EndTypes
    <3>2. ASSUME NEW n \in e.init .. e.init + ending'.i - 1, n \in Numbers PROVE mapCache'[n] = Null
      <4>1. n = ack + ending.i \/ n \in e.init .. e.init + ending.i - 1
        BY <2>1, <2>3, <3>1, <3>2
      <4> QED
        BY <2>1, <2>6, <3>2, <4>1 DEF Going
    <3>3. CASE ending.i = ending.size
      <4>1. ASSUME NEW n \in NumbersOf(e) PROVE mapCache'[n] = Null
        <5>1. n \in e.init .. e.init + ending'.i - 1
          BY <2>1, <2>3, <3>1, <3>3 DEF NumbersOf
        <5> QED
          BY <2>4, <3>2, <5>1
      <4>2. Gone(e)'
        BY <4>1 DEF Gone, NumbersOf
      <4> QED
        BY <2>1, <2>2, <4>2
    <3>4. CASE ending.i # ending.size
      <4>1. Going(e)'
        BY <2>1, <2>6, <3>1, <3>2, <3>4 DEF Going
      <4> QED
        BY <2>1, <2>2, <4>1
    <3> QED
      BY <3>3, <3>4
  <2> QED
    BY <2>2, <2>5, <2>6
<1>9. ASSUME ForgetMessage PROVE CleanEnds'
  BY <1>9, <1>c DEF ForgetMessage, Step, history
<1>10. ASSUME LookupKept \/ LookupFile PROVE CleanEnds'
  BY <1>10, <1>c DEF LookupKept, LookupFile, Step, state, history
<1>11. ASSUME CloseTest \/ CloseSet \/ CloseSocket PROVE CleanEnds'
  BY <1>11, <1>c DEF CloseTest, CloseSet, CloseSocket, Step, state, history
<1>12. ASSUME SetLogicalClose \/ SpillStart \/ SpillStore PROVE CleanEnds'
  BY <1>12, <1>c DEF SetLogicalClose, SpillStart, SpillStore, state, acking, history
<1>13. ASSUME NEW n \in Numbers, SpillTake(n) PROVE CleanEnds'
  <2>1. UNCHANGED <<ended, whole, pc, ack, ending>> /\ mapCache' = [mapCache EXCEPT ![n] = Null]
    BY <1>13 DEF SpillTake, acking, history
  <2>2. \A m : mapCache'[m] = mapCache[m] \/ mapCache'[m] = Null
    BY <1>a, <2>1 DEF Kept
  <2> QED
    BY <1>b, <2>1, <2>2
<1>14. ASSUME NEW n \in Numbers, SpillFlush(n) PROVE CleanEnds'
  BY <1>14, <1>c DEF SpillFlush, state, acking, history
<1>15. ASSUME UNCHANGED vars PROVE CleanEnds'
  BY <1>15, <1>c DEF vars, state, acking, history
<1> QED
  BY <1>1, <1>2, <1>3, <1>4, <1>5, <1>6, <1>7, <1>8, <1>9, <1>10, <1>11, <1>12, <1>13, <1>14, <1>15, WorkerIsThread DEF Next, Work, SendData

(* For any senders and lengths: once the end of a message sent completely   *)
(* under consecutive numbers has been handled, none of its packets is in    *)
(* memory, for nobody keeps one later: only a second counter could give its *)
(* numbers out again.                                                       *)
THEOREM EndsForget == Spec => []EndForgets
<1> DEFINE J == Inv /\ NumbersApart /\ EndForm /\ CleanEnds
<1>1. Init => J
  BY InitInv DEF Init, NumbersApart, CleanEnds, EndForm, InFlight, NoJob, Done
<1>2. J /\ [Next]_vars => J'
  <2> SUFFICES ASSUME J, [Next]_vars PROVE J'
    OBVIOUS
  <2>1. Inv'
    BY NumberStep, JobStep, StoreStep, EndStep, JobCoveredStep, WholeStep DEF Inv, TypeInv
  <2> QED
    BY <2>1, NumbersApartStep, EndFormStep, CleanEndsStep DEF Inv
<1>3. J => EndForgets
  BY DEF EndForgets, CleanEnds, Gone, Going, Forgetting
<1> QED
  BY <1>1, <1>2, <1>3, PTL DEF Spec

=============================================================================
