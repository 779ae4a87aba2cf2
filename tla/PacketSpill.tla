----------------------------- MODULE PacketSpill -----------------------------
(***************************************************************************)
(* The spilling of sent packets in Sessions.ClientManager: senders account *)
(* for every packet they keep; above a limit one of them starts the thread *)
(* memoryRemove, which moves packets from the sessions' memory to the file *)
(* store, and waits while that thread asks senders to.  Every packet is a  *)
(* message of its own; packets with consecutive numbers are of one session.*)
(***************************************************************************)
EXTENDS FileMemoryData, FiniteSetsExt

CONSTANTS OwnerOf,       \* packet -> the application thread that sends it
          Overhead,      \* bytes a packet counts besides its length (16)
          MaxMemory,     \* data kept in memory before spilling starts (400 MB)
          Slack,         \* excess that makes the senders wait (50 MB)
          LowWater,      \* amount down to which it then spills (450 kB)
          VarSize        \* amount it spills otherwise (50 MB)

ASSUME SpillAssumption == /\ Keys \subseteq Nat /\ OwnerOf \in [Keys -> Putters]
                          /\ Overhead \in Nat /\ MaxMemory \in Nat /\ Slack \in Nat
                          /\ LowWater \in Nat /\ VarSize \in Nat

VARIABLES
    mapCache,         \* packets the sessions keep in memory
    open,             \* the sessions are in ClientManager.hashMap
    sessionCacheData, \* bytes accounted for
    preCache,         \* packets to spill, in the order they were kept
    waiData,          \* senders wait while it is positive
    isStartCache,     \* a spilling thread was started
    fileDB,           \* how many file stores were made: 0, 1 or more
    sender,           \* application thread -> [at, key]
    spiller,          \* spilling thread -> [at, key, sum, all, old]
    ending,           \* packet the handler of an end is about to remove yet
    kept, acked,      \* history: packets kept, packets acknowledged
    overrun           \* history: packets removed by the end of the one before

ends == <<ending, acked, overrun>>
spillVars == <<mapCache, open, sessionCacheData, preCache, waiData, isStartCache, fileDB,
               sender, spiller, kept, ends>>
vars == <<storeVars, spillVars>>

(* A spilling thread is named for the sender that starts it, and puts to    *)
(* the store as the putter of that name.                                    *)
Senders  == Putters
SendIdle  == [at |-> "idle", key |-> None]
SpillIdle == [at |-> "idle", key |-> None, sum |-> 0, all |-> FALSE, old |-> 0]
Cost(k)   == LenOf[k] + Overhead

Init ==
    /\ StoreInit
    /\ mapCache = {} /\ open = TRUE /\ sessionCacheData = 0 /\ preCache = <<>>
    /\ waiData = 0 /\ isStartCache = FALSE /\ fileDB = 0
    /\ sender = [s \in Senders |-> SendIdle] /\ spiller = [i \in Senders |-> SpillIdle]
    /\ ending = None /\ kept = {} /\ acked = {} /\ overrun = {}

SendStep(s, from, to) == sender[s].at = from /\ sender' = [sender EXCEPT ![s].at = to]
SpillStep(i, from, to) == spiller[i].at = from /\ spiller' = [spiller EXCEPT ![i].at = to]

-----------------------------------------------------------------------------
(* ClientSession.sendData keeps a packet and calls addSessionData. *)

Keep(s, k) ==
    /\ sender[s].at = "idle" /\ OwnerOf[k] = s /\ k \notin kept
    /\ \A j \in Keys : OwnerOf[j] = s /\ j < k => j \in kept
    /\ mapCache' = mapCache \cup {k} /\ kept' = kept \cup {k}
    /\ sender' = [sender EXCEPT ![s] = [at |-> "add", key |-> k]]
    /\ UNCHANGED <<storeVars, open, sessionCacheData, preCache, waiData, isStartCache, fileDB,
                   spiller, ends>>

AddSessionData(s) ==
    /\ sender[s].at = "add"
    /\ sessionCacheData' = sessionCacheData + Cost(sender[s].key)
    /\ sender' = [sender EXCEPT ![s].at = IF sessionCacheData' > MaxMemory THEN "queueFull" ELSE "queue"]
    /\ UNCHANGED <<storeVars, mapCache, open, preCache, waiData, isStartCache, fileDB, spiller, kept, ends>>

Queue(s) ==
    /\ sender[s].at \in {"queue", "queueFull"}
    /\ preCache' = Append(preCache, sender[s].key)
    /\ sender' = [sender EXCEPT ![s] = IF @.at = "queue" THEN SendIdle ELSE [at |-> "started", key |-> None]]
    /\ UNCHANGED <<storeVars, mapCache, open, sessionCacheData, waiData, isStartCache, fileDB,
                   spiller, kept, ends>>

(* startThread: the flag is tested and set without a lock; so is the store. *)
TestStarted(s) ==
    /\ SendStep(s, "started", IF isStartCache THEN "wait" ELSE "set")
    /\ UNCHANGED <<storeVars, mapCache, open, sessionCacheData, preCache, waiData, isStartCache,
                   fileDB, spiller, kept, ends>>

SetStarted(s) ==
    /\ SendStep(s, "set", "store")
    /\ isStartCache' = TRUE
    /\ UNCHANGED <<storeVars, mapCache, open, sessionCacheData, preCache, waiData, fileDB,
                   spiller, kept, ends>>

TestStore(s) ==
    /\ SendStep(s, "store", IF fileDB = 0 THEN "make" ELSE "execute")
    /\ UNCHANGED <<storeVars, mapCache, open, sessionCacheData, preCache, waiData, isStartCache,
                   fileDB, spiller, kept, ends>>

(* A second store takes the place of the first: what that holds and the     *)
(* threads at work on it are out of reach.                                  *)
MakeStore(s) ==
    /\ SendStep(s, "make", "execute")
    /\ fileDB' = fileDB + 1
    /\ fileCache' = {} /\ findex' = [k \in Keys |-> None]
    /\ sum' = 0 /\ isRunning' = FALSE
    /\ dataFile' = IF fileDB = 0 THEN dataFile ELSE dataFile + 1
    /\ dataFile' \in Names
    /\ lostKeys' = lostKeys \cup putKeys
    /\ putter' = [p \in Putters |-> PutIdle] /\ storer' = [i \in Storers |-> StoreIdle]
    /\ deleter' = "none" /\ outdated' = {}
    /\ UNCHANGED <<disk, reader, putKeys, overlapped, mapCache, open, sessionCacheData, preCache, waiData,
                   isStartCache, spiller, kept, ends>>

(* stratFileRemove changes nothing: its loop asks for 0 > 50. *)
Execute(s) ==
    /\ spiller[s].at = "idle"
    /\ SendStep(s, "execute", "wait")
    /\ spiller' = [spiller EXCEPT ![s].at = "begin"]
    /\ UNCHANGED <<storeVars, mapCache, open, sessionCacheData, preCache, waiData, isStartCache,
                   fileDB, kept, ends>>

Resume(s) ==
    /\ waiData <= 0
    /\ SendStep(s, "wait", "idle")
    /\ UNCHANGED <<storeVars, mapCache, open, sessionCacheData, preCache, waiData, isStartCache,
                   fileDB, spiller, kept, ends>>

SenderStep(s) == \/ AddSessionData(s) \/ Queue(s) \/ TestStarted(s) \/ SetStarted(s)
                 \/ TestStore(s) \/ MakeStore(s) \/ Execute(s) \/ Resume(s)

-----------------------------------------------------------------------------
(* The spilling thread. *)

(* Far above the limit the senders are to wait: waiData++, read and write. *)
Decide(i) ==
    /\ SpillStep(i, "begin", IF sessionCacheData > MaxMemory + Slack THEN "raise" ELSE "loop")
    /\ UNCHANGED <<storeVars, mapCache, open, sessionCacheData, preCache, waiData, isStartCache,
                   fileDB, sender, kept, ends>>

RaiseRead(i) ==
    /\ spiller[i].at = "raise"
    /\ spiller' = [spiller EXCEPT ![i].at = "raised", ![i].old = waiData]
    /\ UNCHANGED <<storeVars, mapCache, open, sessionCacheData, preCache, waiData, isStartCache,
                   fileDB, sender, kept, ends>>

RaiseWrite(i) ==
    /\ spiller[i].at = "raised"
    /\ waiData' = spiller[i].old + 1
    /\ spiller' = [spiller EXCEPT ![i].at = "loop", ![i].old = 0, ![i].all = TRUE]
    /\ UNCHANGED <<storeVars, mapCache, open, sessionCacheData, preCache, isStartCache,
                   fileDB, sender, kept, ends>>

(* The loop condition, and whether everything is still to go. *)
LoopTest(i) ==
    /\ spiller[i].at = "loop"
    /\ spiller' = [spiller EXCEPT
          ![i].at  = IF spiller[i].sum < VarSize \/ spiller[i].all THEN "poll" ELSE "calm",
          ![i].all = @ /\ sessionCacheData >= LowWater]
    /\ UNCHANGED <<storeVars, mapCache, open, sessionCacheData, preCache, waiData, isStartCache,
                   fileDB, sender, kept, ends>>

PollEmpty(i) ==
    /\ preCache = <<>>
    /\ SpillStep(i, "poll", "calm")
    /\ UNCHANGED <<storeVars, mapCache, open, sessionCacheData, preCache, waiData, isStartCache,
                   fileDB, sender, kept, ends>>

Poll(i) ==
    /\ spiller[i].at = "poll" /\ preCache # <<>>
    /\ spiller' = [spiller EXCEPT ![i].at = "find", ![i].key = Head(preCache)]
    /\ preCache' = Tail(preCache)
    /\ UNCHANGED <<storeVars, mapCache, open, sessionCacheData, waiData, isStartCache,
                   fileDB, sender, kept, ends>>

(* Without its session a packet stays where it is, and accounted for. *)
FindSession(i) ==
    /\ spiller[i].at = "find"
    /\ spiller' = [spiller EXCEPT ![i].at  = IF open THEN "take" ELSE "loop",
                                  ![i].key = IF open THEN @ ELSE None]
    /\ UNCHANGED <<storeVars, mapCache, open, sessionCacheData, preCache, waiData, isStartCache,
                   fileDB, sender, kept, ends>>

SlipNullTest(i) ==
    /\ SpillStep(i, "take", IF spiller[i].key \in mapCache THEN "subtract" ELSE "subtractPut")
    /\ mapCache' = mapCache \ {spiller[i].key}
    /\ UNCHANGED <<storeVars, open, sessionCacheData, preCache, waiData, isStartCache, fileDB,
                   sender, kept, ends>>

(* removeData: the packet leaves memory, unless its end came first. *)
RemoveData(i) ==
    /\ SpillStep(i, "take", IF spiller[i].key \in mapCache THEN "subtractPut" ELSE "subtract")
    /\ mapCache' = mapCache \ {spiller[i].key}
    /\ UNCHANGED <<storeVars, open, sessionCacheData, preCache, waiData, isStartCache, fileDB,
                   sender, kept, ends>>

SubtractOf(i, bytes) ==
    /\ spiller[i].at \in {"subtract", "subtractPut"}
    /\ sessionCacheData' = sessionCacheData - bytes
    /\ spiller' = [spiller EXCEPT ![i] =
                     IF spiller[i].at = "subtractPut"
                     THEN [spiller[i] EXCEPT !.at = "put", !.sum = spiller[i].sum + LenOf[spiller[i].key]]
                     ELSE [spiller[i] EXCEPT !.at = "loop", !.key = None]]
    /\ UNCHANGED <<storeVars, mapCache, open, preCache, waiData, isStartCache, fileDB,
                   sender, kept, ends>>

SlipLengthOnly(i) == SubtractOf(i, LenOf[spiller[i].key])

Subtract(i) == SubtractOf(i, Cost(spiller[i].key))

PutToStore(i) ==
    /\ spiller[i].at = "put"
    /\ PutCache(i, spiller[i].key)
    /\ spiller' = [spiller EXCEPT ![i].at = "putting", ![i].key = None]
    /\ UNCHANGED <<mapCache, open, sessionCacheData, preCache, waiData, isStartCache, fileDB,
                   sender, kept, ends>>

PutReturns(i) ==
    /\ putter[i].at = "idle"
    /\ SpillStep(i, "putting", "loop")
    /\ UNCHANGED <<storeVars, mapCache, open, sessionCacheData, preCache, waiData, isStartCache,
                   fileDB, sender, kept, ends>>

SlipStillWaits(i) ==
    /\ SpillStep(i, "calm", "end")
    /\ waiData' = waiData
    /\ UNCHANGED <<storeVars, mapCache, open, sessionCacheData, preCache, isStartCache, fileDB,
                   sender, kept, ends>>

(* The senders may go on; only then the flag is cleared. *)
Calm(i) ==
    /\ SpillStep(i, "calm", "end")
    /\ waiData' = 0
    /\ UNCHANGED <<storeVars, mapCache, open, sessionCacheData, preCache, isStartCache, fileDB,
                   sender, kept, ends>>

EndSpill(i) ==
    /\ spiller[i].at = "end"
    /\ isStartCache' = FALSE
    /\ spiller' = [spiller EXCEPT ![i] = SpillIdle]
    /\ UNCHANGED <<storeVars, mapCache, open, sessionCacheData, preCache, waiData, fileDB,
                   sender, kept, ends>>

Spill(i) == \/ Decide(i) \/ RaiseRead(i) \/ RaiseWrite(i) \/ LoopTest(i) \/ PollEmpty(i) \/ Poll(i)
            \/ FindSession(i) \/ RemoveData(i) \/ Subtract(i) \/ PutToStore(i) \/ PutReturns(i)
            \/ Calm(i) \/ EndSpill(i)

-----------------------------------------------------------------------------
(* The rest of the client: ends, and the closing of sessions.  Loss requests *)
(* change none of this; FileMemoryData has the get they lead to.            *)

(* addData, an end: it removes the packet, and one number too many: i runs   *)
(* from 0 to the size inclusive.  One thread handles the ends.               *)
Acknowledge(k) ==
    /\ ending = None
    /\ k \in kept \ acked /\ acked' = acked \cup {k}
    /\ mapCache' = mapCache \ {k}
    /\ ending' = IF k + 1 \in Keys THEN k + 1 ELSE None
    /\ UNCHANGED <<storeVars, open, sessionCacheData, preCache, waiData, isStartCache, fileDB,
                   sender, spiller, kept, overrun>>

RemoveNext ==
    /\ ending # None /\ ending' = None
    /\ mapCache' = mapCache \ {ending}
    /\ overrun' = overrun \cup ({ending} \cap mapCache)
    /\ UNCHANGED <<storeVars, open, sessionCacheData, preCache, waiData, isStartCache, fileDB,
                   sender, spiller, kept, acked>>

LeaveTable ==
    /\ open /\ open' = FALSE
    /\ UNCHANGED <<storeVars, mapCache, sessionCacheData, preCache, waiData, isStartCache, fileDB,
                   sender, spiller, kept, ends>>

Store == StoreRuns /\ UNCHANGED spillVars

Next ==
    \/ \E s \in Senders : SenderStep(s) \/ Spill(s) \/ \E k \in Keys : Keep(s, k)
    \/ (\E k \in Keys : Acknowledge(k)) \/ RemoveNext
    \/ LeaveTable
    \/ Store

Spec == /\ Init /\ [][Next]_vars
        /\ \A s \in Senders : WF_vars(SenderStep(s)) /\ WF_vars(Spill(s))
        /\ WF_vars(Store)
-----------------------------------------------------------------------------
InHand(k) == \E i \in Senders : spiller[i].key = k /\ spiller[i].at \in {"subtractPut", "put"}

(* A packet that was kept and not acknowledged is in memory, in the hand of *)
(* a spilling thread, or findable in the store, through all moves and       *)
(* interleavings.  Excepted are what a second store, the age of files or an *)
(* overlapped entry of the index made lost (lostKeys), and what the end of  *)
(* the message before removed, which is only ever the packet right behind   *)
(* an acknowledged one.                                                     *)
NothingLost ==
    /\ \A k \in kept \ (acked \cup lostKeys \cup overrun) :
         k \in mapCache \/ InHand(k) \/ k \in fileCache \/ findex[k] # None
    /\ \A k \in overrun : k - 1 \in acked

(* The bytes accounted for are those of the packets that wait in the queue  *)
(* or are on their way in or out of it; a session that left the table takes *)
(* its share away unaccounted.                                              *)
Accounted == {preCache[n] : n \in DOMAIN preCache}
             \cup {sender[s].key : s \in {t \in Senders : sender[t].at \in {"queue", "queueFull"}}}
             \cup {spiller[i].key : i \in {t \in Senders :
                                          spiller[t].at \in {"find", "take", "subtract", "subtractPut"}}}

AccountBalanced ==
    LET bytes == MapThenSumSet(Cost, Accounted)
    IN sessionCacheData >= bytes /\ (open => sessionCacheData = bytes)

(* Every wait of a sender ends: the thread that raised waiData, by a read    *)
(* and a write that another may come between, reaches its end and clears it *)
(* for all.                                                                 *)
WaitEnds == \A s \in Senders : sender[s].at = "wait" ~> sender[s].at # "wait"
=============================================================================
