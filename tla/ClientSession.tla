---------------------------- MODULE ClientSession ----------------------------
(***************************************************************************)
(* Sessions.ClientSession: application threads that share the session send *)
(* messages cut into numbered packets and keep the packets until the       *)
(* receiver acknowledges the message; the worker of the session's own      *)
(* ListenerData handles the acknowledgements, and the memoryRemove thread  *)
(* of ClientManager moves kept packets to the file store.  The network and *)
(* the receiver are abstract: any acknowledgement the receiver could send  *)
(* for what was sent may be handled at any time.                           *)
(***************************************************************************)
EXTENDS PacketFormat, FiniteSets, Sequences

CONSTANTS Null,
          Senders,      \* application threads
          LengthOf,     \* sender -> bytes of the message it sends
          MaxLosses,    \* bound: loss requests handled
          MaxNumber,    \* bound: the largest packet number handed out
          MaxStored     \* bound: packets moved to the file store

ASSUME LengthsAssumption == LengthOf \in [Senders -> Nat]
ASSUME BoundsAssumption == MaxLosses \in Nat /\ MaxNumber \in Nat /\ MaxStored \in Nat
ASSUME SendersAssumption == "worker" \notin Senders /\ IsFiniteSet(Senders)

VARIABLES
    atomics,       \* PackagetRandom: the counters made for this session
    current,       \* the one its map holds; 0 for none
    pc,            \* thread -> where it is
    counter,       \* thread -> the counter getInstanceID holds
    job,           \* thread -> the message it sends: length, init, size, left, id, again;
                   \* history: inOrder, whether its numbers are consecutive so far
    mapInitSeq,    \* first number -> packets of the message, 0 for no entry
    mapCache,      \* number -> load of the kept packet, or Null
    initRec,       \* acknowledgements are being received
    isClose, logicalClose, socketOpen,
    ack,           \* the packagetID of the acknowledgement the worker handles
    ending,        \* its loop over the packets of an ended message: i, size
    fileDB,        \* number -> load in the store's cache or Null; Null before it exists
    flushed,       \* numbers whose packet the store has written to a file
    spilling,      \* packet between memory and file store: number, load; -1 for none
    begun,         \* history: senders that began their message
    losses,        \* history: how many loss requests were handled
    packets,       \* history: data packets sent
    whole,         \* history: messages sent completely, numbers consecutive
    ended          \* history: messages whose end was handled

numbers == <<atomics, current, counter>>
state   == <<mapInitSeq, mapCache, initRec>>
closing == <<isClose, logicalClose, socketOpen>>
acking  == <<ack, ending>>
spill   == <<fileDB, flushed, spilling>>
history == <<begun, losses, packets, whole, ended>>
vars    == <<numbers, pc, job, state, closing, acking, spill, history>>

Threads == Senders \cup {"worker"}
Numbers == 0 .. MaxNumber

(* A packet as it is kept, and the tables of kept packets.                  *)
Loads == [again : Numbers \cup {-1}, init : Numbers, part : Nat, length : Nat]
ASSUME NullAssumption == Null \notin Loads /\ Null \notin [Numbers -> Loads \cup {Null}]

NoJob   == [length |-> 0, init |-> 0, size |-> 0, left |-> 0, id |-> 0, again |-> -1,
            inOrder |-> TRUE]
NoPacket == [number |-> -1, load |-> Null]

Init ==
    /\ atomics = <<>> /\ current = 0
    /\ counter = [t \in Threads |-> 0]
    /\ pc = [t \in Threads |-> "idle"]
    /\ job = [t \in Threads |-> NoJob]
    /\ mapInitSeq = [n \in Numbers |-> 0]
    /\ mapCache = [n \in Numbers |-> Null]
    /\ initRec = FALSE /\ isClose = FALSE /\ logicalClose = FALSE /\ socketOpen = TRUE
    /\ ack = 0 /\ ending = [i |-> 0, size |-> 0]
    /\ fileDB = Null /\ flushed = {} /\ spilling = NoPacket
    /\ begun = {} /\ losses = 0 /\ packets = {} /\ whole = {} /\ ended = {}

(* The packet of its message a thread is at, from 1 on. *)
Part(t) == job[t].size - job[t].left + 1

Step(t, at, to) == pc[t] = at /\ pc' = [pc EXCEPT ![t] = to]

-----------------------------------------------------------------------------
(* PackagetRandom.getInstanceID, called for the first number of a message   *)
(* ("first") and for each further packet ("next").                          *)

LookupCounter(t) ==
    /\ \/ current # 0 /\ (Step(t, "first", "firstTake") \/ Step(t, "next", "nextTake"))
       \/ current = 0 /\ Step(t, "first", "make")
    /\ counter' = [counter EXCEPT ![t] = current]
    /\ UNCHANGED <<atomics, current, job, state, closing, acking, spill, history>>

(* Under the lock, but the map is not looked at again. *)
MakeCounter(t) ==
    /\ Step(t, "make", "firstTake")
    /\ atomics' = Append(atomics, 0)
    /\ current' = Len(atomics) + 1
    /\ counter' = [counter EXCEPT ![t] = Len(atomics) + 1]
    /\ UNCHANGED <<job, state, closing, acking, spill, history>>

SlipGet(c) == UNCHANGED atomics

GetAndIncrement(c) == atomics' = [atomics EXCEPT ![c] = @ + 1]

TakeFirst(t) ==
    LET n == atomics[counter[t]] IN
    /\ Step(t, "firstTake", "register")
    /\ n <= MaxNumber
    /\ GetAndIncrement(counter[t])
    /\ job' = [job EXCEPT ![t].init = n, ![t].id = n]
    /\ counter' = [counter EXCEPT ![t] = 0]
    /\ UNCHANGED <<current, state, closing, acking, spill, history>>

TakeNext(t) ==
    LET n == atomics[counter[t]] IN
    /\ Step(t, "nextTake", "send")
    /\ n <= MaxNumber
    /\ GetAndIncrement(counter[t])
    /\ job' = [job EXCEPT ![t].id = n, ![t].inOrder = @ /\ n = job[t].init + Part(t) - 1]
    /\ counter' = [counter EXCEPT ![t] = 0]
    /\ UNCHANGED <<current, state, closing, acking, spill, history>>

-----------------------------------------------------------------------------
(* sendData, by an application thread or by the worker for a resend.       *)

NewJob(length, again) == [length |-> length, init |-> 0, size |-> PacketsOf(length),
                          left |-> PacketsOf(length), id |-> 0, again |-> again,
                          inOrder |-> TRUE]

Begin(s) ==
    /\ Step(s, "idle", "first")
    /\ s \notin begun /\ begun' = begun \cup {s}
    /\ job' = [job EXCEPT ![s] = NewJob(LengthOf[s], -1)]
    /\ UNCHANGED <<numbers, state, closing, acking, spill, losses, packets, whole, ended>>

Register(t) ==
    /\ Step(t, "register", "send")
    /\ mapInitSeq' = [mapInitSeq EXCEPT ![job[t].init] = job[t].size]
    /\ UNCHANGED <<numbers, job, mapCache, initRec, closing, acking, spill, history>>

Load(t) == [again |-> job[t].again, init |-> job[t].init, part |-> Part(t),
            length |-> PacketLength(PieceLength(job[t].length, Part(t)))]

(* On a closed socket send fails and the failure is swallowed. *)
Send(t) ==
    /\ Step(t, "send", "keep")
    /\ packets' = IF socketOpen
                  THEN packets \cup {[id |-> job[t].id, initseq |-> job[t].init,
                                      size |-> job[t].size, load |-> Load(t)]}
                  ELSE packets
    /\ UNCHANGED <<numbers, job, state, closing, acking, spill, begun, losses, whole, ended>>

KeepAs(t, n, turns) ==
    /\ Step(t, "keep", IF job[t].left = turns THEN "confirm" ELSE "next")
    /\ mapCache' = [mapCache EXCEPT ![n] = Load(t)]
    /\ job' = [job EXCEPT ![t].left = @ - turns]
    /\ UNCHANGED <<numbers, mapInitSeq, initRec, closing, acking, spill, history>>

SlipKeptAtInit(t) == KeepAs(t, job[t].init, 1)
SlipCountsTwice(t) == KeepAs(t, job[t].id, 2)

(* Only after it was sent the packet is kept, and another number is taken   *)
(* unless it was the last.                                                  *)
Keep(t) == KeepAs(t, job[t].id, 1)

(* startThread and the confirmation (type 0), which the models of the       *)
(* receiving side take as an input of its own.                              *)
Confirm(t) ==
    /\ Step(t, "confirm", "idle")
    /\ initRec' = TRUE
    /\ whole' = IF job[t].inOrder
                THEN whole \cup {[init |-> job[t].init, size |-> job[t].size]} ELSE whole
    /\ job' = [job EXCEPT ![t] = NoJob]
    /\ UNCHANGED <<numbers, mapInitSeq, mapCache, closing, acking, spill, begun, losses, packets, ended>>

SendData(t) ==
    \/ LookupCounter(t) \/ MakeCounter(t) \/ TakeFirst(t) \/ TakeNext(t)
    \/ Register(t) \/ Send(t) \/ Keep(t) \/ Confirm(t)

-----------------------------------------------------------------------------
(* addData: the worker handles an acknowledgement.                         *)

(* What the receiver may say: a message some packet of which was sent has   *)
(* ended, or the packet after one it read, or the first, is missing.        *)
EndAck(i) == \E p \in packets : p.initseq = i
LossAck(n) == \E p \in packets : n = p.initseq \/ n = p.id + 1

Receive(type, n) ==
    /\ initRec
    /\ Step("worker", "idle", IF type = 1 THEN "end" ELSE "loss")
    /\ ack' = n
    /\ UNCHANGED <<numbers, job, state, closing, ending, spill, begun, packets, whole, ended>>

ReceiveEnd == \E i \in Numbers : EndAck(i) /\ Receive(1, i) /\ UNCHANGED losses
ReceiveLoss == \E n \in Numbers :
    LossAck(n) /\ Receive(2, n) /\ losses < MaxLosses /\ losses' = losses + 1

(* The handler's local variables are gone when it returns. *)
Handled == ack' = 0 /\ ending' = [i |-> 0, size |-> 0]

EndUnknown ==
    /\ Step("worker", "end", "idle")
    /\ mapInitSeq[ack] = 0
    /\ Handled
    /\ UNCHANGED <<numbers, job, state, closing, spill, history>>

EndKnown ==
    /\ Step("worker", "end", "remove")
    /\ mapInitSeq[ack] # 0
    /\ ending' = [i |-> 0, size |-> mapInitSeq[ack]]
    /\ ended' = ended \cup {[init |-> ack, size |-> mapInitSeq[ack],
                             clean |-> [init |-> ack, size |-> mapInitSeq[ack]] \in whole]}
    /\ UNCHANGED <<numbers, job, state, closing, ack, spill, begun, losses, packets, whole>>

RemovesUpTo(last) ==
    /\ Step("worker", "remove", IF ending.i = last THEN "forget" ELSE "remove")
    /\ mapCache' = [n \in Numbers |-> IF n = ack + ending.i THEN Null ELSE mapCache[n]]
    /\ ending' = [ending EXCEPT !.i = @ + 1]
    /\ UNCHANGED <<numbers, job, mapInitSeq, initRec, closing, ack, spill, history>>

SlipLastStays == RemovesUpTo(IF ending.size = 1 THEN 0 ELSE ending.size - 2)

(* One turn of the loop i = 0 .. size: the packet leaves the cache.  What   *)
(* is not there is queued for removal from the file store, a queue nothing  *)
(* ever reads: the loop that should is not entered.                         *)
RemovePacket == RemovesUpTo(ending.size)

(* The message is forgotten; a logically closed session without any closes. *)
ForgetMessage ==
    /\ mapInitSeq' = [mapInitSeq EXCEPT ![ack] = 0]
    /\ Step("worker", "forget", IF logicalClose /\ \A n \in Numbers : mapInitSeq'[n] = 0
                                THEN "close" ELSE "idle")
    /\ Handled
    /\ UNCHANGED <<numbers, job, mapCache, initRec, closing, spill, history>>

SlipResendNothing ==
    /\ Step("worker", "loss", IF mapCache[ack] = Null THEN "file" ELSE "idle")
    /\ UNCHANGED <<numbers, job, state, closing, acking, spill, history>>

Resend(load) == job' = [job EXCEPT !["worker"] = NewJob(load.length, ack)]

(* A kept packet, header and all, is sent as the data of a new message.     *)
LookupKept ==
    \/ /\ Step("worker", "loss", "first")
       /\ mapCache[ack] # Null
       /\ Resend(mapCache[ack])
       /\ Handled
       /\ UNCHANGED <<numbers, state, closing, spill, history>>
    \/ /\ Step("worker", "loss", "file")
       /\ mapCache[ack] = Null
       /\ UNCHANGED <<numbers, job, state, closing, acking, spill, history>>

Stored(n) == fileDB # Null /\ fileDB[n] # Null

(* ClientManager.getDBData.  From a file the store answers null, and        *)
(* nothing is sent; without a store, or for a packet it does not know, it   *)
(* throws, which ends the worker.                                           *)
LookupFile ==
    \/ /\ Step("worker", "file", "first")
       /\ Stored(ack)
       /\ Resend(fileDB[ack])
       /\ Handled
       /\ UNCHANGED <<numbers, state, closing, spill, history>>
    \/ /\ Step("worker", "file", IF ack \in flushed THEN "idle" ELSE "dead")
       /\ ~Stored(ack)
       /\ Handled
       /\ UNCHANGED <<numbers, job, state, closing, spill, history>>

-----------------------------------------------------------------------------
(* close, by the worker: test, set, tell the receiver, shut the socket.     *)

(* The expiry listener or the reference checker closes it logically. *)
SetLogicalClose ==
    /\ ~logicalClose
    /\ logicalClose' = TRUE
    /\ UNCHANGED <<numbers, pc, job, state, isClose, socketOpen, acking, spill, history>>

CloseTest ==
    /\ Step("worker", "close", IF isClose THEN "idle" ELSE "set")
    /\ UNCHANGED <<numbers, job, state, closing, acking, spill, history>>

CloseSet ==
    /\ Step("worker", "set", "shut")
    /\ isClose' = TRUE
    /\ UNCHANGED <<numbers, job, state, logicalClose, socketOpen, acking, spill, history>>

(* The close acknowledgement (type 3) and the end of the socket. *)
CloseSocket ==
    /\ Step("worker", "shut", "idle")
    /\ socketOpen' = FALSE
    /\ UNCHANGED <<numbers, job, state, isClose, logicalClose, acking, spill, history>>

-----------------------------------------------------------------------------
(* The memoryRemove thread: removeData, then fileDB.put.                   *)

SpillStart ==
    /\ fileDB = Null
    /\ fileDB' = [n \in Numbers |-> Null]
    /\ UNCHANGED <<numbers, pc, job, state, closing, acking, flushed, spilling, history>>

SpillTake(n) ==
    /\ fileDB # Null /\ spilling = NoPacket
    /\ Cardinality({m \in Numbers : Stored(m)} \cup flushed) < MaxStored
    /\ mapCache[n] # Null
    /\ mapCache' = [mapCache EXCEPT ![n] = Null]
    /\ spilling' = [number |-> n, load |-> mapCache[n]]
    /\ UNCHANGED <<numbers, pc, job, mapInitSeq, initRec, closing, acking, fileDB, flushed, history>>

SpillStore ==
    /\ spilling # NoPacket
    /\ fileDB' = [fileDB EXCEPT ![spilling.number] = spilling.load]
    /\ spilling' = NoPacket
    /\ UNCHANGED <<numbers, pc, job, state, closing, acking, flushed, history>>

(* The store's own thread writes the packet to a file (FileMemoryData).     *)
SpillFlush(n) ==
    /\ Stored(n)
    /\ fileDB' = [fileDB EXCEPT ![n] = Null]
    /\ flushed' = flushed \cup {n}
    /\ UNCHANGED <<numbers, pc, job, state, closing, acking, spilling, history>>

Work ==
    \/ SendData("worker") \/ CloseTest \/ CloseSet \/ CloseSocket
    \/ EndUnknown \/ EndKnown \/ RemovePacket \/ ForgetMessage
    \/ LookupKept \/ LookupFile

Next ==
    \/ \E s \in Senders : Begin(s) \/ SendData(s)
    \/ ReceiveEnd \/ ReceiveLoss \/ Work
    \/ SetLogicalClose
    \/ SpillStart \/ SpillStore \/ \E n \in Numbers : SpillTake(n) \/ SpillFlush(n)

(* Threads carry on with what they began. *)
Spec == /\ Init /\ [][Next]_vars
        /\ \A s \in Senders : WF_vars(SendData(s))
        /\ WF_vars(Work)
-----------------------------------------------------------------------------
(* Every variable keeps its type; the numbers handed out and the packets    *)
(* kept stay within MaxNumber.                                              *)
TypeOK ==
    /\ atomics \in Seq(0 .. MaxNumber + 1) /\ current \in 0 .. Len(atomics)
    /\ counter \in [Threads -> 0 .. Len(atomics)]
    /\ \A t \in Threads : pc[t] \in {"idle", "first", "make", "firstTake", "register", "send",
                                     "keep", "next", "nextTake", "confirm", "end", "remove", "forget",
                                     "loss", "file", "dead", "close", "set", "shut"}
    /\ job \in [Threads -> [length : Nat, init : Numbers, size : Nat, left : Nat,
                            id : Numbers, again : Numbers \cup {-1}, inOrder : BOOLEAN]]
    /\ mapInitSeq \in [Numbers -> Nat]
    /\ mapCache \in [Numbers -> Loads \cup {Null}]
    /\ initRec \in BOOLEAN /\ isClose \in BOOLEAN
    /\ logicalClose \in BOOLEAN /\ socketOpen \in BOOLEAN
    /\ ack \in Numbers
    /\ ending \in [i : Nat, size : Nat]
    /\ (fileDB # Null => fileDB \in [Numbers -> Loads \cup {Null}]) /\ flushed \subseteq Numbers
    /\ spilling \in [number : Numbers, load : Loads] \cup {NoPacket}

(* A packet number is used once per counter that was made, and no more      *)
(* counters are made than application threads race for the first number:   *)
(* concurrent senders share numbers only through that race.                 *)
ReuseBounded ==
    /\ Len(atomics) <= Cardinality(Senders)
    /\ \A n \in Numbers : Cardinality({p \in packets : p.id = n}) <= Len(atomics)

NumbersOf(e) == e.init .. e.init + e.size - 1

Forgetting(e) == pc["worker"] \in {"remove", "forget"} /\ ack = e.init

(* Once a message that was completely sent under consecutive numbers has    *)
(* ended, none of its packets stays in memory, where only its end could     *)
(* have removed it, unless the numbers were used twice.                     *)
EndForgets ==
    Len(atomics) <= 1 =>
      \A e \in ended : e.clean /\ ~Forgetting(e) =>
        \A n \in NumbersOf(e) : mapCache[n] = Null

Held(n) == mapCache[n] # Null \/ Stored(n) \/ spilling.number = n

(* A packet of a message that was sent and has not ended can still be       *)
(* resent: it is in memory, in the store's cache or on its way there.  Two  *)
(* things may have taken it: the store, which wrote it to a file, and the   *)
(* end of another message, with numbers of its own among those that end     *)
(* covers or as the one packet too many it removes.                         *)
LostOnlyToEnds ==
    \A w \in whole : (\A e \in ended : e.init # w.init) =>
      \A n \in NumbersOf(w) :
        Held(n) \/ n \in flushed \/ \E e \in ended : n \in e.init .. e.init + e.size

(* The same without the exception, as the comment on removal has it:        *)
(* finishing a message clears that message's data.                          *)
NextMessageIntact ==
    Len(atomics) <= 1 =>
      \A w \in whole : (\A e \in ended : e.init # w.init) =>
        \A n \in NumbersOf(w) : Held(n) \/ n \in flushed

(* A loss request for a packet that is in memory or in the store's cache    *)
(* when the worker takes it leads to that packet being sent again.  It may  *)
(* fail to when the packet moves on between the two look-ups, in the hand   *)
(* of the spilling thread or into a file, and on a closed socket.           *)
Asked == pc["worker"] = "loss" /\ (mapCache[ack] # Null \/ Stored(ack))
Resent == pc["worker"] = "keep" /\ job["worker"].again # -1
Moved == pc["worker"] \in {"loss", "file"} /\ (spilling.number = ack \/ ack \in flushed)
ResendAnswered == Asked ~> Resent \/ Moved \/ ~socketOpen
=============================================================================
