---------------------------- MODULE ServerSession ----------------------------
(***************************************************************************)
(* One Sessions.ServerSession: the ring buf of receive buffers shared by   *)
(* the listener thread (ListenerData's udpRecprocess worker, inside        *)
(* addData) and the reader thread that startThread creates on demand and   *)
(* that lets itself go when nothing is left to read.  Every access to      *)
(* shared state is a step of its own.  Sleeps are left out: the order of   *)
(* steps is arbitrary anyway.                                              *)
(***************************************************************************)
EXTENDS ReceiveBufferOps, FiniteSets, Sequences

CONSTANTS BufSize,      \* bufsize: slots of the ring (2000 in the code)
          MaxReadNull,  \* retries before a message is given up (10 in the code)
          Packets,      \* the packets the network may bring to this session
          MaxCopies     \* bound: times each packet arrives

ASSUME BufSizeAssumption == BufSize \in Nat \ {0}
ASSUME MaxReadNullAssumption == MaxReadNull \in Nat
ASSUME PacketsAssumption ==
    Packets \subseteq [type: {"data", "confirm", "close"}, InitSeq: Nat,
                       packagetNum: (Nat \ {0}) \cup {-1}, PackagetID: Nat]

VARIABLES
    buf,           \* the ring: slot -> receive buffer or Null
    bufNum,        \* count of unread buffers
    isStartData,   \* a reader thread was started
    isClose, clientClose, poolShut,
    reader,        \* where the reader thread is; "none" when there is none
    readbufIndex,  \* slot it reads (modulo BufSize)
    buffer,        \* whether its field buffer is set: the slot's receive buffer
    list,          \* chunks it has collected of the current message
    failed,        \* readAll gave up: its result is null
    readNull, readInitSeq, lastInitSeq,
    listener,      \* where the listener is inside addData; "dead" after a throw
    packet,        \* the packet it is handling
    arrived,       \* history: packet -> times it arrived
    delivered,     \* history: chunk -> times it was part of a posted result
    results,       \* history: the chunk lists posted to the application
    acked,         \* history: InitSeqs acknowledged as finished (ack type 1)
    requested      \* history: <<InitSeq, number>> asked for again (ack type 2)

shared   == <<buf, bufNum, isStartData, isClose, clientClose, poolShut>>
local    == <<readbufIndex, buffer, list, failed, readNull, readInitSeq, lastInitSeq>>
history  == <<arrived, delivered, results, acked, requested>>
vars     == <<shared, reader, local, listener, packet, history>>

(* Definitions named Slip... are spoilt copies of the definition after them; *)
(* the checks must notice them, and nothing else uses them.                *)
AppData(p) == [InitSequenceNumber |-> p.InitSeq, sequenceNumber |-> p.PackagetID]
DataPackets == {p \in Packets : p.type = "data"}
Chunks == {AppData(p) : p \in DataPackets}

(* A message announces itself the same way in all its packets. *)
ASSUME DistinctAssumption ==
    \A p, q \in DataPackets : AppData(p) = AppData(q) => p = q

(* The receive buffers of a message of n packets. *)
Lengths == {p.packagetNum : p \in Packets} \ {-1}
Buffers(n) == [size: {n}, initialSequenceNumber: Nat,
               buffer: [0 .. n - 1 -> Chunks \cup {Null}],
               readPosition: 0 .. n - 1,
               highestReadSequenceNumber: Int, numValidChunks: Int]
ASSUME NullAssumption == Null \notin Chunks /\ \A n \in Lengths : Null \notin Buffers(n)

Slot(p) == p.InitSeq % BufSize

Init ==
    /\ buf = [i \in 0 .. BufSize - 1 |-> Null]
    /\ bufNum = 0
    /\ isStartData = FALSE /\ isClose = FALSE
    /\ clientClose = FALSE /\ poolShut = FALSE
    /\ reader = "none"
    /\ readbufIndex = 0 /\ buffer = FALSE /\ list = <<>> /\ failed = FALSE
    /\ readNull = 0 /\ readInitSeq = 0 /\ lastInitSeq = -1
    /\ listener = "idle" /\ packet = Null
    /\ arrived = [p \in Packets |-> 0]
    /\ delivered = [c \in Chunks |-> 0]
    /\ results = {} /\ acked = {} /\ requested = {}

-----------------------------------------------------------------------------
(* The listener thread: addData(returnCode), step by step.                 *)

LStep(from, to) == /\ listener = from /\ listener' = to
                   /\ UNCHANGED <<local, packet, delivered, results, acked, requested>>

(* ListenerData hands the next packet of this session to addData. *)
Arrive(p) ==
    /\ listener = "idle" /\ listener' = "init"
    /\ arrived[p] < MaxCopies
    /\ packet' = p
    /\ arrived' = [arrived EXCEPT ![p] = @ + 1]
    /\ UNCHANGED <<shared, reader, local, delivered, results, acked, requested>>

(* intBuffer returns at once for a packet that announces no message. *)
IntBufferSkip ==
    /\ LStep("init", "route")
    /\ packet.packagetNum = -1
    /\ UNCHANGED <<shared, reader, arrived>>

SlipCountsAgain ==
    /\ LStep("init", "count")
    /\ packet.packagetNum # -1
    /\ buf[Slot(packet)] # Null
    /\ UNCHANGED <<shared, reader, arrived>>

IntBufferFound ==
    /\ LStep("init", "start")
    /\ packet.packagetNum # -1
    /\ buf[Slot(packet)] # Null
    /\ UNCHANGED <<shared, reader, arrived>>

IntBufferNew ==
    /\ LStep("init", "count")
    /\ packet.packagetNum # -1
    /\ buf[Slot(packet)] = Null
    /\ buf' = [buf EXCEPT ![Slot(packet)] =
                 NewBuffer(packet.packagetNum, packet.InitSeq)]
    /\ UNCHANGED <<bufNum, isStartData, isClose, clientClose, poolShut, reader, arrived>>

IntBufferCount ==
    /\ LStep("count", "start")
    /\ bufNum' = bufNum + 1
    /\ UNCHANGED <<buf, isStartData, isClose, clientClose, poolShut, reader, arrived>>

(* startThread: the flag says that a reader runs, or one is started. *)
ReaderRuns ==
    /\ LStep("start", "route")
    /\ isStartData
    /\ UNCHANGED <<shared, reader, arrived>>

StartReader ==
    /\ LStep("start", "route")
    /\ ~isStartData /\ ~poolShut
    /\ isStartData' = TRUE
    /\ reader' = "pick"
    /\ UNCHANGED <<buf, bufNum, isClose, clientClose, poolShut, arrived>>

(* execute() on the pool that the closing reader shut down throws. *)
StartRejected ==
    /\ LStep("start", "dead")
    /\ ~isStartData /\ poolShut
    /\ isStartData' = TRUE
    /\ UNCHANGED <<buf, bufNum, isClose, clientClose, poolShut, reader, arrived>>

(* addData after intBuffer: closed session, acks, then data. *)
DropClosed ==
    /\ LStep("route", "idle")
    /\ isClose
    /\ UNCHANGED <<shared, reader, arrived>>

TakeAck ==
    /\ LStep("route", "idle")
    /\ ~isClose
    /\ packet.type # "data"
    /\ clientClose' = (clientClose \/ packet.type = "close")
    /\ UNCHANGED <<buf, bufNum, isStartData, isClose, poolShut, reader, arrived>>

TakeData ==
    /\ LStep("route", "set")
    /\ ~isClose
    /\ packet.type = "data"
    /\ UNCHANGED <<shared, reader, arrived>>

(* setData reads the slot again: the reader may have emptied it since. *)
SetDataNull ==
    /\ LStep("set", "dead")
    /\ buf[Slot(packet)] = Null
    /\ UNCHANGED <<shared, reader, arrived>>

SetDataFull ==
    /\ LStep("set", "idle")
    /\ buf[Slot(packet)] # Null
    /\ LooksFull(buf[Slot(packet)])
    /\ UNCHANGED <<shared, reader, arrived>>

SetDataRoom ==
    /\ LStep("set", "offer")
    /\ buf[Slot(packet)] # Null
    /\ ~LooksFull(buf[Slot(packet)])
    /\ UNCHANGED <<shared, reader, arrived>>

(* The insertion; into a buffer the reader has let go meanwhile it is lost.*)
Offer ==
    /\ LStep("offer", "idle")
    /\ LET s == Slot(packet) IN
         buf' = IF buf[s] = Null THEN buf
                ELSE [buf EXCEPT ![s] = Insert(@, AppData(packet))]
    /\ UNCHANGED <<bufNum, isStartData, isClose, clientClose, poolShut, reader, arrived>>

Listener ==
    \/ IntBufferSkip \/ IntBufferFound \/ IntBufferNew \/ IntBufferCount
    \/ ReaderRuns \/ StartReader \/ StartRejected
    \/ DropClosed \/ TakeAck \/ TakeData
    \/ SetDataNull \/ SetDataFull \/ SetDataRoom \/ Offer

-----------------------------------------------------------------------------
(* The reader thread: run, checkRecvice, readAll and updateCurrentChunk.   *)

RStep(from, to) == /\ reader = from /\ reader' = to
                   /\ UNCHANGED <<listener, packet, arrived>>

current == buf[readbufIndex]

SlipNoRing == readbufIndex' = readbufIndex + 1

Advance == readbufIndex' = (readbufIndex + 1) % BufSize

SlipListKept ==
    /\ RStep("pick", "poll")
    /\ current # Null
    /\ bufNum' = bufNum - 1
    /\ buffer' = TRUE /\ failed' = FALSE
    /\ UNCHANGED <<buf, isStartData, isClose, clientClose, poolShut, readbufIndex, list,
                   readNull, readInitSeq, lastInitSeq, delivered, results, acked, requested>>

(* readAll finds a buffer in the slot and counts it as read. *)
PickFound ==
    /\ RStep("pick", "poll")
    /\ current # Null
    /\ bufNum' = bufNum - 1
    /\ buffer' = TRUE /\ list' = <<>> /\ failed' = FALSE
    /\ UNCHANGED <<buf, isStartData, isClose, clientClose, poolShut, readbufIndex,
                   readNull, readInitSeq, lastInitSeq, delivered, results, acked, requested>>

(* It sees the slot empty. *)
PickSeesNull ==
    /\ RStep("pick", "skip")
    /\ current = Null
    /\ UNCHANGED <<shared, local, delivered, results, acked, requested>>

SlipStaysPut ==
    /\ RStep("skip", "pick")
    /\ bufNum # 0
    /\ UNCHANGED <<shared, local, delivered, results, acked, requested>>

(* With buffers left to read it waits and moves on, without another look.  *)
PickSkips ==
    /\ RStep("skip", "pick")
    /\ bufNum # 0
    /\ Advance
    /\ UNCHANGED <<shared, buffer, list, failed, readNull, readInitSeq, lastInitSeq,
                   delivered, results, acked, requested>>

(* With none left, readAll returns null. *)
PickNone ==
    /\ RStep("skip", "post")
    /\ bufNum = 0
    /\ buffer' = FALSE /\ list' = <<>> /\ failed' = TRUE
    /\ UNCHANGED <<shared, readbufIndex, readNull, readInitSeq, lastInitSeq,
                   delivered, results, acked, requested>>

(* A poll returned a chunk: it is appended to the message. *)
TakeChunk(from) ==
    /\ RStep(from, "taken")
    /\ PollResult(current) # Null
    /\ buf' = [buf EXCEPT ![readbufIndex] = Take(@)]
    /\ list' = Append(list, PollResult(current))
    /\ readInitSeq' = PollResult(current).InitSequenceNumber
    /\ readNull' = 0
    /\ UNCHANGED <<bufNum, isStartData, isClose, clientClose, poolShut, readbufIndex, buffer,
                   failed, lastInitSeq, delivered, results, acked, requested>>

(* updateCurrentChunk(false): one poll, null is simply accepted. *)
FirstNull ==
    /\ RStep("poll", "after")
    /\ PollResult(current) = Null
    /\ UNCHANGED <<shared, local, delivered, results, acked, requested>>

(* updateCurrentChunk(true): each null of the inner loop counts and asks   *)
(* the sender for the next number.  The one poll before that loop neither  *)
(* counts nor asks: it adds no behaviour.                                  *)
BlockNull ==
    /\ RStep("block", IF readNull + 1 > MaxReadNull THEN "after" ELSE "block")
    /\ PollResult(current) = Null
    /\ readNull' = readNull + 1
    /\ requested' = requested \cup
         {<<current.initialSequenceNumber, WaitSequenceNumber(current)>>}
    /\ UNCHANGED <<shared, readbufIndex, buffer, list, failed, readInitSeq, lastInitSeq,
                   delivered, results, acked>>

(* After each chunk: stop collecting when the buffer says it is empty. *)
ChunkTaken ==
    /\ RStep("taken", IF IsEmpty(current) THEN "after" ELSE "block")
    /\ UNCHANGED <<shared, local, delivered, results, acked, requested>>

(* The tail of readAll's loop: give up, finish, or go round again. *)
GiveUp ==
    /\ RStep("after", "post")
    /\ readNull > MaxReadNull
    /\ isClose' = TRUE
    /\ list' = <<>> /\ failed' = TRUE
    /\ buf' = [buf EXCEPT ![readbufIndex] = Clear(@)]
    /\ UNCHANGED <<bufNum, isStartData, clientClose, poolShut, readbufIndex, buffer,
                   readNull, readInitSeq, lastInitSeq, delivered, results, acked, requested>>

SlipAckUnposted ==
    /\ RStep("after", "ack")
    /\ readNull <= MaxReadNull
    /\ IsEmpty(current)
    /\ UNCHANGED <<shared, local, delivered, results, acked, requested>>

Finish ==
    /\ RStep("after", "post")
    /\ readNull <= MaxReadNull
    /\ IsEmpty(current)
    /\ UNCHANGED <<shared, local, delivered, results, acked, requested>>

GoRound ==
    /\ RStep("after", "poll")
    /\ readNull <= MaxReadNull
    /\ ~IsEmpty(current)
    /\ UNCHANGED <<shared, local, delivered, results, acked, requested>>

(* checkRecvice: the result, null included, is posted to the application.  *)
Post ==
    /\ RStep("post", "ack")
    /\ results' = IF failed THEN results ELSE results \cup {list}
    /\ delivered' = [c \in Chunks |->
         delivered[c] + Cardinality({i \in DOMAIN list : list[i] = c})]
    /\ UNCHANGED <<shared, local, acked, requested>>

SlipAckForgotten ==
    /\ RStep("ack", "release")
    /\ acked' = IF lastInitSeq # readInitSeq THEN acked \cup {readInitSeq} ELSE acked
    /\ UNCHANGED <<shared, local, delivered, results, requested>>

(* Ack type 1 for the last message a chunk was read of, once per number. *)
SendEndAck ==
    /\ RStep("ack", "release")
    /\ acked' = IF lastInitSeq # readInitSeq THEN acked \cup {readInitSeq} ELSE acked
    /\ lastInitSeq' = readInitSeq
    /\ UNCHANGED <<shared, readbufIndex, buffer, list, failed, readNull, readInitSeq,
                   delivered, results, requested>>

SlipReleasesNext ==
    /\ RStep("release", "finish")
    /\ buf' = [buf EXCEPT ![(readbufIndex + 1) % BufSize] = Null]
    /\ Advance
    /\ UNCHANGED <<bufNum, isStartData, isClose, clientClose, poolShut, buffer, list, failed,
                   readNull, readInitSeq, lastInitSeq, delivered, results, acked, requested>>

(* The slot is emptied, whatever it holds by now, and the index moves on. *)
Release ==
    /\ RStep("release", "finish")
    /\ buf' = [buf EXCEPT ![readbufIndex] = Null]
    /\ Advance
    /\ UNCHANGED <<bufNum, isStartData, isClose, clientClose, poolShut, buffer, list, failed,
                   readNull, readInitSeq, lastInitSeq, delivered, results, acked, requested>>

(* With nothing unread, and then the client's close seen, the session       *)
(* closes: its count is reset, whatever it is by now, the session marked,   *)
(* the thread pool shut.  The keys it registers last are the listener's     *)
(* (module ListenerData).                                                   *)
AskUnread ==
    /\ RStep("finish", IF bufNum <= 0 THEN "asked" ELSE "loop")
    /\ UNCHANGED <<shared, local, delivered, results, acked, requested>>

AskClient ==
    /\ RStep("asked", IF clientClose THEN "closing" ELSE "loop")
    /\ UNCHANGED <<shared, local, delivered, results, acked, requested>>

ResetCount ==
    /\ RStep("closing", "marking")
    /\ bufNum' = 0
    /\ UNCHANGED <<buf, isStartData, isClose, clientClose, poolShut, local,
                   delivered, results, acked, requested>>

MarkClosed ==
    /\ RStep("marking", "shutting")
    /\ isClose' = TRUE
    /\ UNCHANGED <<buf, bufNum, isStartData, clientClose, poolShut, local,
                   delivered, results, acked, requested>>

ShutPool ==
    /\ RStep("shutting", "loop")
    /\ poolShut' = TRUE
    /\ UNCHANGED <<buf, bufNum, isStartData, isClose, clientClose, local,
                   delivered, results, acked, requested>>

(* run: back to the next message, or off when the count is zero, twice     *)
(* looked at, or when the session is closed.                               *)
Loop ==
    /\ RStep("loop", IF bufNum = 0 THEN "recheck" ELSE IF isClose THEN "exit" ELSE "pick")
    /\ UNCHANGED <<shared, local, delivered, results, acked, requested>>

SlipFlagEarly ==
    /\ RStep("recheck", IF bufNum > 0 THEN "pick" ELSE "exit")
    /\ isStartData' = FALSE
    /\ UNCHANGED <<buf, bufNum, isClose, clientClose, poolShut, local,
                   delivered, results, acked, requested>>

Recheck ==
    /\ RStep("recheck", IF bufNum > 0 THEN "pick" ELSE "exit")
    /\ UNCHANGED <<shared, local, delivered, results, acked, requested>>

Exit ==
    /\ RStep("exit", "none")
    /\ isStartData' = FALSE
    /\ UNCHANGED <<buf, bufNum, isClose, clientClose, poolShut, local,
                   delivered, results, acked, requested>>

Reader ==
    \/ PickFound \/ PickSeesNull \/ PickSkips \/ PickNone
    \/ TakeChunk("poll") \/ TakeChunk("block")
    \/ FirstNull \/ BlockNull \/ ChunkTaken \/ GiveUp \/ Finish \/ GoRound
    \/ Post \/ SendEndAck \/ Release
    \/ AskUnread \/ AskClient \/ ResetCount \/ MarkClosed \/ ShutPool
    \/ Loop \/ Recheck \/ Exit

Next == (\E p \in Packets : Arrive(p)) \/ Listener \/ Reader

(* Both threads keep running; packets arrive or do not. *)
Spec == Init /\ [][Next]_vars /\ WF_vars(Listener) /\ WF_vars(Reader)
-----------------------------------------------------------------------------
(* Types of the session's fields and of the threads' positions. *)
TypeOK ==
    /\ \A i \in 0 .. BufSize - 1 :
         buf[i] # Null =>
           /\ buf[i].size \in Nat \ {0}
           /\ buf[i].readPosition \in 0 .. buf[i].size - 1
           /\ buf[i].buffer \in [0 .. buf[i].size - 1 -> Chunks \cup {Null}]
           /\ buf[i].numValidChunks \in Nat \cup {-1}
    /\ bufNum \in Int /\ readbufIndex \in 0 .. BufSize - 1
    /\ {isStartData, isClose, clientClose, poolShut, buffer, failed} \subseteq BOOLEAN
    /\ reader \in {"none", "pick", "skip", "poll", "block", "taken", "after", "post",
                   "ack", "release", "finish", "asked", "closing", "marking", "shutting",
                   "loop", "recheck", "exit"}
    /\ listener \in {"idle", "init", "count", "start", "route", "set", "offer", "dead"}
    /\ packet \in Packets \cup {Null}
    /\ list \in Seq(Chunks)
    /\ readNull \in 0 .. MaxReadNull + 1

(* The positions at which the reader holds the buffer of its current slot. *)
Holding ==
    buffer /\ reader \in {"poll", "block", "taken", "after", "post", "ack", "release"}

(* bufNum is exactly the number of buffers in the ring that the reader has *)
(* not picked, give or take the one increment the listener still owes: the *)
(* reader may rely on it to decide between searching the ring and leaving. *)
(* A closed session is no longer read, so it ends there.                   *)
RingAccounted ==
    ~isClose =>
      bufNum = Cardinality({i \in 0 .. BufSize - 1 : buf[i] # Null})
               - (IF Holding THEN 1 ELSE 0) - (IF listener = "count" THEN 1 ELSE 0)

(* Two steps of the reader can break this account, and no other step of    *)
(* either thread: a pass that found nothing to read releases its slot all  *)
(* the same, which the listener may have filled since, and a closing       *)
(* reader resets the count, which may stand for a buffer the listener      *)
(* counted since, while the session is still open.                         *)
EmptyRelease == reader = "release" /\ ~buffer
ClosingReset == reader = "closing"
AccountKept ==
    [][RingAccounted /\ ~EmptyRelease /\ ~ClosingReset => RingAccounted']_vars

(* isStartData false means that no reader thread is left: startThread      *)
(* never sets a second reader on the same ring.                            *)
OneReader == ~isStartData => reader = "none"

(* Through both races (slot released under the listener, offer after       *)
(* release) a chunk is handed to the application at most as often as it    *)
(* arrived.                                                                *)
NoDuplicateDelivery ==
    \A p \in DataPackets : delivered[AppData(p)] <= arrived[p]

(* What the network and the sender's numbers have to keep to for the       *)
(* properties below: no packet is duplicated, two messages that are under  *)
(* way have slots of their own, every packet of a message announces the    *)
(* same size, and no two of its chunks have the same place in its buffer.  *)
MessagesApart ==
    /\ MaxCopies = 1
    /\ \A p, q \in Packets :
         p.packagetNum # -1 /\ q.packagetNum # -1 /\ Slot(p) = Slot(q)
           => p.InitSeq = q.InitSeq /\ p.packagetNum = q.packagetNum
    /\ \A p \in DataPackets : p.packagetNum # -1
    /\ \A p, q \in DataPackets :
         (p.InitSeq = q.InitSeq /\ p.PackagetID % p.packagetNum = q.PackagetID % p.packagetNum)
           => p = q

(* An end acknowledgement for a one-packet message, which lets the sender  *)
(* forget it, is only sent once the message was handed to the application. *)
SingleAckTruthful ==
    \A p \in DataPackets :
        (p.packagetNum = 1 /\ p.InitSeq \in acked) => delivered[AppData(p)] > 0

(* "control that it is sent only once": with no packet duplicated, a       *)
(* message is acknowledged as finished at most once, empty passes of the   *)
(* reader included.                                                        *)
EndAckOnce ==
    [][(reader = "ack" /\ lastInitSeq # readInitSeq) => readInitSeq \notin acked]_vars

(* As long as nothing came but one-packet messages and the confirmations   *)
(* the client sends after them, in any order, ...                          *)
OnlySingles ==
    \A p \in Packets :
        arrived[p] > 0 => p.type \in {"data", "confirm"} /\ p.packagetNum = 1

(* ... the empty pass is the one way to harm: in a behaviour without one   *)
(* (EmptyPassDiscardsNothing shows one that has it) the listener never     *)
(* meets a slot the reader has emptied under it, which would throw and end *)
(* it, ...                                                                 *)
NoEmptyPass == []~EmptyRelease
ListenerSurvives == NoEmptyPass => [](OnlySingles => listener # "dead")

(* ... and a session at rest with nothing unread has handed each message   *)
(* that reached it to the application exactly once.                        *)
DeliveredAtRest ==
    (OnlySingles /\ listener = "idle" /\ reader = "none" /\ bufNum = 0)
      => \A p \in DataPackets : delivered[AppData(p)] = arrived[p]
ExactlyOnceAtRest == NoEmptyPass => []DeliveredAtRest

(* A posted result never mixes two messages, and starts with the chunk of  *)
(* its buffer's first slot and skips none: its i-th chunk is the one of    *)
(* slot i - 1, so none comes twice.  Slots go by number modulo the size:   *)
(* only a message whose first number is a multiple of its size is posted   *)
(* in the order of its numbers.  No packet is duplicated and no two        *)
(* messages share a slot of the ring (MessagesApart).                      *)
ResultsCoherent ==
    \A r \in results : \A i, j \in DOMAIN r :
        /\ r[i].InitSequenceNumber = r[j].InitSequenceNumber
        /\ \A p \in DataPackets :
             r[i] = AppData(p) => p.PackagetID % p.packagetNum = i - 1

(* A one-packet message whose packet is stored while the reader is at work *)
(* is read: the reader cannot go round the ring for ever or leave it.      *)
Stored(i) == /\ buf[i] # Null /\ buf[i].size = 1
             /\ buf[i].buffer[0] # Null
StoredIsRead ==
    \A i \in 0 .. BufSize - 1 :
        (Stored(i) /\ reader \notin {"none", "exit"}) ~> ~Stored(i)

-----------------------------------------------------------------------------
(* What the code's comments say of the session, checked against the code.  *)

(* "read all the data" (readAll), "reading complete": a posted message is  *)
(* whole.                                                                  *)
PostedWhole ==
    \A r \in results : \A p \in DataPackets :
        (\E i \in DOMAIN r : r[i].InitSequenceNumber = p.InitSeq)
          => \E i \in DOMAIN r : r[i] = AppData(p)

(* "with no data it waits 1 second, 10 times 10 seconds"                   *)
(* (updateCurrentChunk): a retry is only counted when the buffer had       *)
(* nothing at all, after the wait.                                         *)
RetryAfterWaiting ==
    [][readNull' > readNull => PollWaits(current)]_vars

(* "everything has been read" (readAll, on returning null for a ring with  *)
(* nothing to read): such a pass throws no unread message away.            *)
EmptyPassDiscardsNothing ==
    [][EmptyRelease /\ reader' # "release" => buf[readbufIndex] = Null]_vars

(* "sender closes" (AckPackaget, type 3): a session whose client closed,   *)
(* and which has nothing unread, closes.                                   *)
CloseHonoured == (clientClose /\ bufNum = 0) ~> (isClose \/ bufNum # 0)

(* "guard against the loss of a single packet" (the sender's confirmation):*)
(* a message announced by a confirmation is received or asked for again.   *)
SingleLossRepaired ==
    \A i \in 0 .. BufSize - 1 :
        (buf[i] # Null /\ buf[i].size = 1)
          ~> (buf[i] = Null \/ \E r \in requested : r[1] = buf[i].initialSequenceNumber)
=============================================================================
