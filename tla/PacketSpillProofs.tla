-------------------------- MODULE PacketSpillProofs --------------------------
(***************************************************************************)
(* Proofs about PacketSpill for any number of senders and packets: moving  *)
(* packets from memory to the store, and from there to files, loses none,  *)
(* and the bytes accounted for are those of the packets under way.         *)
(***************************************************************************)
EXTENDS PacketSpill, FileMemoryDataProofs, FiniteSetTheorems, WellFoundedInduction

-----------------------------------------------------------------------------
(* The store under the spilling threads: what it holds was put.             *)
PutKnown ==
    /\ fileCache \subseteq putKeys
    /\ \A k \in Keys : findex[k] # None => k \in putKeys
    /\ \A i \in Storers : storer[i].at \in {"write", "copy", "index"} => storer[i].key \in putKeys

StoreInv == TypeInv /\ AgeInv /\ FindInv /\ PutKnown

LEMMA PutKnownInductive ==
    ASSUME TypeInv, PutKnown, [StoreNext]_storeVars
    PROVE  PutKnown' /\ lostKeys \subseteq lostKeys' /\ putKeys \subseteq putKeys'
<1> DEFINE Goal == PutKnown' /\ lostKeys \subseteq lostKeys' /\ putKeys \subseteq putKeys'
<1> USE DEF mem, file, ctl, del, past
<1>1. CASE UNCHANGED storeVars
  BY <1>1 DEF PutKnown, storeVars
<1>2. ASSUME NEW p \in Putters, PutStep(p) \/ \E k \in Keys : PutCache(p, k) PROVE Goal
  <2>1. CASE StartStorer(p)
    BY <2>1 DEF PutKnown, StartStorer, TypeInv, StoTypes, StorerTypes
  <2> QED
    BY <1>2, <2>1 DEF PutKnown, PutStep, PutCache, SumRead, SumWrite, TestRunning, TestSum
<1>3. ASSUME NEW i \in Storers, StoreStep(i) PROVE Goal
  <2> USE DEF TypeInv, StoTypes, StorerTypes
  <2>1. CASE PublishIndex(i)
    BY <2>1 DEF PutKnown, PublishIndex, PublishAs, MemTypes
  <2>2. ASSUME NEW k \in Keys, NextEntry(i, k) PROVE Goal
    BY <2>2 DEF PutKnown, NextEntry
  <2>3. ASSUME NEW k \in Keys, DropFromCache(i, k) PROVE Goal
    BY <2>3 DEF PutKnown, DropFromCache
  <2>4. CASE MapValue(i)
    BY <2>4 DEF PutKnown, MapValue
  <2>7. CASE CopyValue(i)
    <3>1. storer' = [storer EXCEPT ![i].at = "index", ![i].tail = 0] /\ storer[i].at = "copy"
          /\ UNCHANGED <<fileCache, findex, putKeys, lostKeys>>
      BY <2>7 DEF CopyValue
    <3> QED
      BY <3>1 DEF PutKnown
  <2>5. CASE ResetSum(i) \/ ChooseFile(i) \/ EndWalk(i)
    BY <2>5 DEF PutKnown, ResetSum, ChooseFile, EndWalk
  <2>6. CASE StoreEnds(i) \/ CountFiles(i)
    BY <2>6 DEF PutKnown, StoreEnds, CountFiles, StoreIdle
  <2> QED
    BY <1>3, <2>1, <2>2, <2>3, <2>4, <2>5, <2>6, <2>7 DEF StoreStep
<1>4. CASE DeleteStep
  <2>1. ASSUME NEW ks \in SUBSET Outdated, findex' = Without(ks),
               UNCHANGED <<fileCache, storer, putKeys, lostKeys>>
        PROVE  Goal
    BY <2>1 DEF PutKnown, Without
  <2>2. CASE DeleteEntries
    <3>1. Outdated \in SUBSET Outdated /\ findex' = Without(Outdated)
      BY <2>2 DEF DeleteEntries
    <3> QED
      BY <2>1, <2>2, <3>1 DEF DeleteEntries
  <2>3. CASE DeleterDies
    BY <2>1, <2>3 DEF DeleterDies
  <2>4. ASSUME NEW f \in Names, DeleteFile(f) PROVE Goal
    BY <2>4 DEF PutKnown, DeleteFile
  <2> QED
    BY <1>4, <2>2, <2>3, <2>4 DEF DeleteStep
<1>5. ASSUME NEW r \in Readers, ReadStep(r) \/ \E k \in Keys : GetCache(r, k) PROVE Goal
  BY <1>5 DEF PutKnown, ReadStep, GetCache, GetIndex, GetDone
<1> QED
  BY <1>1, <1>2, <1>3, <1>4, <1>5 DEF StoreNext, StoreRuns

LEMMA StoreInvInductive ==
    ASSUME StoreInv, [StoreNext]_storeVars
    PROVE  StoreInv'
BY TypesInductive, AgeInductive, FindInductive, PutKnownInductive DEF StoreInv

(* A second store begins empty: what the first one held is given up.        *)
LEMMA MakeStoreKeeps ==
    ASSUME StoreInv, NEW s \in Senders, MakeStore(s)
    PROVE  StoreInv'
<1> USE DEF StoreInv, MakeStore, StoreIdle, PutIdle
<1>0. storer' = [i \in Storers |-> StoreIdle] /\ dataFile' \in Names /\ dataFile <= dataFile'
      /\ dataFile \in Nat /\ dataFile' \in Nat
  BY StoreNumbersAssumption DEF TypeInv, DiskTypes, Names
<1>1. MemTypes' /\ DiskTypes' /\ CtlTypes' /\ ReadTypes'
  BY <1>0 DEF TypeInv, MemTypes, DiskTypes, CtlTypes, ReadTypes
<1>2. PutTypes' /\ StoTypes'
  <2>1. PutIdle \in PutterTypes /\ StoreIdle \in StorerTypes
    BY DEF PutterTypes, StorerTypes
  <2> QED
    BY <1>0, <2>1 DEF PutTypes, StoTypes
<1>3. HasKey' /\ HasFile'
  BY <1>0 DEF TypeInv, HasKey, HasFile, Contents
<1>4. AgeInv'
  BY <1>0 DEF AgeInv, TypeInv, DiskTypes, Names
<1>5. OutdatedLost' /\ ListedKnown' /\ PutKnown'
  BY <1>0 DEF OutdatedLost, ListedKnown, PutKnown
<1>6. Findable' /\ ReaderKnown' /\ ThrowsJustified'
  BY DEF TypeInv, HasKey, FindInv, PutKnown, Findable, ReaderKnown, ThrowsJustified, Known
<1> QED
  BY <1>1, <1>2, <1>3, <1>4, <1>5, <1>6 DEF TypeInv, FindInv

-----------------------------------------------------------------------------
(* Threads of the client.  A sender and a spilling thread have a packet at  *)
(* every place where they use one.                                          *)
SendPlaces  == {"idle", "add", "queue", "queueFull", "started", "set", "store", "make", "execute", "wait"}
SpillPlaces == {"idle", "begin", "raise", "raised", "loop", "poll", "find", "take", "subtract",
                "subtractPut", "put", "putting", "calm", "end"}
SpillRecords == [at : SpillPlaces, key : Keys \cup {None}, sum : Nat, all : BOOLEAN, old : Nat]

SpillTypes ==
    /\ kept \subseteq Keys /\ preCache \in Seq(Keys) /\ waiData \in Nat
    /\ sender \in [Senders -> [at : SendPlaces, key : Keys \cup {None}]]
    /\ \A s \in Senders : sender[s].at \in {"add", "queue", "queueFull"} => sender[s].key \in Keys
    /\ spiller \in [Senders -> SpillRecords]
    /\ \A i \in Senders : spiller[i].at \in {"find", "take", "subtract", "subtractPut", "put"}
                            => spiller[i].key \in Keys

(* Every kept packet is somewhere, or its sender was told that it arrived,  *)
(* or it is one of the excepted.                                            *)
Gone == acked \cup lostKeys \cup overrun
Safe(k) == k \in Gone \/ k \in mapCache \/ InHand(k) \/ k \in fileCache \/ findex[k] # None
AllSafe == \A k \in kept : Safe(k)

SpillInv == StoreInv /\ SpillTypes /\ AllSafe

LEMMA InitSpill == Init => SpillInv
<1> SUFFICES ASSUME Init PROVE SpillInv
  OBVIOUS
<1>1. TypeInv /\ AgeInv /\ FindInv
  BY InitTypes, InitAge, InitFind DEF Init
<1>2. PutKnown
  BY DEF Init, StoreInit, PutKnown, StoreIdle
<1>3. SpillTypes
  BY DEF Init, SpillTypes, SendIdle, SpillIdle, SendPlaces, SpillPlaces, SpillRecords
<1>4. AllSafe
  BY DEF Init, AllSafe
<1> QED
  BY <1>1, <1>2, <1>3, <1>4 DEF SpillInv, StoreInv

(* A sender's step leaves packets where they are, but for a second store.   *)
LEMMA SenderKeeps ==
    ASSUME SpillInv, NEW s \in Senders, SenderStep(s) \/ \E k \in Keys : Keep(s, k)
    PROVE  SpillInv'
<1> USE DEF SpillInv
<1>1. ASSUME NEW k \in Keys, Keep(s, k) PROVE SpillTypes' /\ AllSafe'
  BY <1>1 DEF Keep, SpillTypes, SendPlaces, AllSafe, Safe, Gone, ends, InHand, storeVars, mem, past
<1>2. SenderStep(s) => SpillTypes'
  <2>1. CASE AddSessionData(s)
    BY <2>1 DEF AddSessionData, SpillTypes, SendPlaces
  <2>2. CASE Queue(s)
    BY <2>2 DEF Queue, SpillTypes, SendPlaces, SendIdle
  <2>3. CASE Execute(s)
    <3>1. [spiller[s] EXCEPT !.at = "begin"] \in SpillRecords
      BY DEF SpillTypes, SpillPlaces, SpillRecords
    <3>2. spiller' \in [Senders -> SpillRecords]
      BY <2>3, <3>1 DEF Execute, SpillTypes
    <3>3. \A i \in Senders : spiller'[i].at = "begin" \/ spiller'[i] = spiller[i]
      BY <2>3 DEF Execute, SpillTypes, SpillRecords
    <3>4. \A i \in Senders : spiller'[i].at \in {"find", "take", "subtract", "subtractPut", "put"}
                               => spiller'[i].key \in Keys
      BY <3>3 DEF SpillTypes
    <3>5. /\ sender' \in [Senders -> [at : SendPlaces, key : Keys \cup {None}]]
          /\ \A t \in Senders : sender'[t].at \in {"add", "queue", "queueFull"} => sender'[t].key \in Keys
      BY <2>3 DEF Execute, SendStep, SpillTypes, SendPlaces
    <3>6. UNCHANGED <<kept, preCache, waiData>>
      BY <2>3 DEF Execute
    <3> QED
      BY <3>2, <3>4, <3>5, <3>6 DEF SpillTypes
  <2>4. CASE TestStarted(s) \/ SetStarted(s) \/ TestStore(s) \/ Resume(s)
    BY <2>4 DEF TestStarted, SetStarted, TestStore, Resume, SendStep, SpillTypes, SendPlaces
  <2>5. CASE MakeStore(s)
    BY <2>5 DEF MakeStore, SendStep, SpillTypes, SendPlaces
  <2> QED
    BY <2>1, <2>2, <2>3, <2>4, <2>5 DEF SenderStep
<1>3. CASE MakeStore(s)
  <2>1. AllSafe'
    BY <1>3 DEF MakeStore, AllSafe, Safe, Gone, ends, InHand, StoreInv, PutKnown, SpillTypes
  <2> QED
    BY <1>2, <1>3, <2>1, MakeStoreKeeps DEF SenderStep
<1>4. ASSUME SenderStep(s), ~MakeStore(s)
      PROVE  AllSafe' /\ UNCHANGED storeVars
  <2>1. UNCHANGED <<storeVars, mapCache, kept, ends>>
    BY <1>4 DEF SenderStep, AddSessionData, Queue, TestStarted, SetStarted, TestStore, Execute, Resume
  <2>2. \A k : InHand(k) => InHand(k)'
    BY <1>4 DEF SenderStep, AddSessionData, Queue, TestStarted, SetStarted, TestStore, Execute, Resume,
                InHand, SpillTypes, SpillRecords
  <2> QED
    BY <2>1, <2>2 DEF AllSafe, Safe, Gone, ends, storeVars, mem, past
<1>5. ASSUME UNCHANGED storeVars PROVE StoreInv'
  BY <1>5, StoreInvInductive
<1> QED
  BY <1>1, <1>2, <1>3, <1>4, <1>5 DEF Keep

LEMMA SpillerKeepsTypes ==
    ASSUME SpillTypes, NEW i \in Senders, NEW r \in SpillRecords, spiller' = [spiller EXCEPT ![i] = r],
           r.at \in {"find", "take", "subtract", "subtractPut", "put"} => r.key \in Keys,
           UNCHANGED <<kept, sender>>, preCache' \in Seq(Keys), waiData' \in Nat
    PROVE  SpillTypes'
BY DEF SpillTypes

(* A spilling thread's step takes a packet out of memory into its hand, and *)
(* lets go of it only when the store has it.                                *)
LEMMA SpillKeeps ==
    ASSUME SpillInv, NEW i \in Senders, Spill(i)
    PROVE  SpillInv'
<1> USE DEF SpillInv
<1>1. CASE PutToStore(i)
  <2>1. spiller[i].key \in Keys
    BY <1>1 DEF PutToStore, SpillTypes
  <2>2. StoreNext
    BY <1>1, <2>1 DEF PutToStore, StoreNext, Senders
  <2>3. StoreInv'
    BY <2>2, StoreInvInductive
  <2>4. SpillTypes'
    <3> DEFINE r == [spiller[i] EXCEPT !.at = "putting", !.key = None]
    <3>1. r \in SpillRecords /\ (r.at \in {"find", "take", "subtract", "subtractPut", "put"} => r.key \in Keys)
      BY <1>1 DEF PutToStore, SpillTypes, SpillPlaces, SpillRecords
    <3>2. spiller' = [spiller EXCEPT ![i] = r]
      BY <1>1 DEF PutToStore, SpillTypes, SpillRecords
    <3>3. UNCHANGED <<kept, sender>> /\ preCache' \in Seq(Keys) /\ waiData' \in Nat
      BY <1>1 DEF PutToStore, SpillTypes, SpillRecords
    <3> HIDE DEF r
    <3> QED
      BY <3>1, <3>2, <3>3, SpillerKeepsTypes
  <2>5. UNCHANGED <<findex, lostKeys, mapCache, kept, ends>> /\ fileCache' = fileCache \cup {spiller[i].key}
    BY <1>1 DEF PutToStore, PutCache
  <2>6. \A k : InHand(k) => InHand(k)' \/ k = spiller[i].key
    BY <1>1 DEF PutToStore, InHand, SpillTypes, SpillRecords
  <2> QED
    BY <2>3, <2>4, <2>5, <2>6 DEF AllSafe, Safe, Gone, ends
<1>2. ASSUME UNCHANGED <<storeVars, kept, ends, mapCache>>, SpillTypes', \A k : InHand(k) => InHand(k)'
      PROVE  SpillInv'
  <2>1. StoreInv'
    BY <1>2, StoreInvInductive
  <2>2. AllSafe'
    BY <1>2 DEF AllSafe, Safe, Gone, ends, storeVars, mem, past
  <2> QED
    BY <1>2, <2>1, <2>2
<1>3. CASE RemoveData(i)
  <2>1. UNCHANGED <<storeVars, kept, ends>>
    BY <1>3 DEF RemoveData
  <2>2. SpillTypes'
    <3> DEFINE r == [spiller[i] EXCEPT !.at = IF spiller[i].key \in mapCache THEN "subtractPut" ELSE "subtract"]
    <3>1. r \in SpillRecords /\ (r.at \in {"find", "take", "subtract", "subtractPut", "put"} => r.key \in Keys)
      BY <1>3 DEF RemoveData, SpillStep, SpillTypes, SpillPlaces, SpillRecords
    <3>2. spiller' = [spiller EXCEPT ![i] = r]
      BY <1>3 DEF RemoveData, SpillStep, SpillTypes, SpillRecords
    <3>3. UNCHANGED <<kept, sender>> /\ preCache' \in Seq(Keys) /\ waiData' \in Nat
      BY <1>3 DEF RemoveData, SpillStep, SpillTypes, SpillRecords
    <3> HIDE DEF r
    <3> QED
      BY <3>1, <3>2, <3>3, SpillerKeepsTypes
  <2>3. \A k : InHand(k) => InHand(k)'
    BY <1>3 DEF RemoveData, SpillStep, InHand, SpillTypes, SpillRecords
  <2>4. \A k \in mapCache : k \in mapCache' \/ InHand(k)'
    BY <1>3 DEF RemoveData, SpillStep, InHand, SpillTypes, SpillRecords
  <2>5. AllSafe'
    BY <2>1, <2>3, <2>4 DEF AllSafe, Safe, Gone, ends, storeVars, mem, past
  <2> QED
    BY <2>1, <2>2, <2>5, StoreInvInductive
<1>4. CASE Decide(i)
  <2>1. UNCHANGED <<storeVars, kept, ends, mapCache>>
    BY <1>4 DEF Decide
  <2>2. SpillTypes'
    <3> DEFINE r == [spiller[i] EXCEPT !.at = IF sessionCacheData > MaxMemory + Slack THEN "raise" ELSE "loop"]
    <3>1. r \in SpillRecords /\ (r.at \in {"find", "take", "subtract", "subtractPut", "put"} => r.key \in Keys)
      BY <1>4 DEF Decide, SpillStep, SpillTypes, SpillPlaces, SpillRecords
    <3>2. spiller' = [spiller EXCEPT ![i] = r]
      BY <1>4 DEF Decide, SpillStep, SpillTypes, SpillRecords
    <3>3. UNCHANGED <<kept, sender>> /\ preCache' \in Seq(Keys) /\ waiData' \in Nat
      BY <1>4 DEF Decide, SpillStep, SpillTypes, SpillRecords
    <3> HIDE DEF r
    <3> QED
      BY <3>1, <3>2, <3>3, SpillerKeepsTypes
  <2>3. \A k : InHand(k) => InHand(k)'
    BY <1>4 DEF Decide, SpillStep, InHand, SpillTypes, SpillRecords
  <2> QED
    BY <1>2, <2>1, <2>2, <2>3
<1>5. CASE RaiseRead(i)
  <2>1. UNCHANGED <<storeVars, kept, ends, mapCache>>
    BY <1>5 DEF RaiseRead
  <2>2. SpillTypes'
    <3> DEFINE r == [spiller[i] EXCEPT !.at = "raised", !.old = waiData]
    <3>1. r \in SpillRecords /\ (r.at \in {"find", "take", "subtract", "subtractPut", "put"} => r.key \in Keys)
      BY <1>5 DEF RaiseRead, SpillTypes, SpillPlaces, SpillRecords
    <3>2. spiller' = [spiller EXCEPT ![i] = r]
      BY <1>5 DEF RaiseRead, SpillTypes, SpillRecords
    <3>3. UNCHANGED <<kept, sender>> /\ preCache' \in Seq(Keys) /\ waiData' \in Nat
      BY <1>5 DEF RaiseRead, SpillTypes, SpillRecords
    <3> HIDE DEF r
    <3> QED
      BY <3>1, <3>2, <3>3, SpillerKeepsTypes
  <2>3. \A k : InHand(k) => InHand(k)'
    BY <1>5 DEF RaiseRead, InHand, SpillTypes, SpillRecords
  <2> QED
    BY <1>2, <2>1, <2>2, <2>3
<1>6. CASE RaiseWrite(i)
  <2>1. UNCHANGED <<storeVars, kept, ends, mapCache>>
    BY <1>6 DEF RaiseWrite
  <2>2. SpillTypes'
    <3> DEFINE r == [spiller[i] EXCEPT !.at = "loop", !.old = 0, !.all = TRUE]
    <3>1. r \in SpillRecords /\ (r.at \in {"find", "take", "subtract", "subtractPut", "put"} => r.key \in Keys)
      BY DEF SpillTypes, SpillPlaces, SpillRecords
    <3>2. UNCHANGED <<kept, sender>> /\ preCache' \in Seq(Keys) /\ waiData' \in Nat
      <4>1. spiller[i].old \in Nat /\ preCache \in Seq(Keys)
        BY DEF SpillTypes, SpillRecords
      <4>2. UNCHANGED <<kept, preCache, sender>> /\ waiData' = spiller[i].old + 1
        BY <1>6 DEF RaiseWrite
      <4> QED
        BY <4>1, <4>2
    <3>3. spiller' = [spiller EXCEPT ![i] = r]
      BY <1>6 DEF RaiseWrite, SpillTypes, SpillRecords
    <3> QED
      BY <3>1, <3>2, <3>3, SpillerKeepsTypes
  <2>3. \A k : InHand(k) => InHand(k)'
    BY <1>6 DEF RaiseWrite, InHand, SpillTypes, SpillRecords
  <2> QED
    BY <1>2, <2>1, <2>2, <2>3
<1>7. CASE LoopTest(i)
  <2>1. UNCHANGED <<storeVars, kept, ends, mapCache>>
    BY <1>7 DEF LoopTest
  <2>2. SpillTypes'
    <3> DEFINE r == [spiller[i] EXCEPT
                     !.at  = IF spiller[i].sum < VarSize \/ spiller[i].all THEN "poll" ELSE "calm",
                     !.all = spiller[i].all /\ sessionCacheData >= LowWater]
    <3>1. r \in SpillRecords /\ (r.at \in {"find", "take", "subtract", "subtractPut", "put"} => r.key \in Keys)
      BY <1>7 DEF LoopTest, SpillTypes, SpillPlaces, SpillRecords
    <3>2. spiller' = [spiller EXCEPT ![i] = r] /\ UNCHANGED <<kept, sender>> /\ preCache' \in Seq(Keys) /\ waiData' \in Nat
      BY <1>7 DEF LoopTest, SpillTypes, SpillRecords
    <3> QED
      BY <3>1, <3>2, SpillerKeepsTypes
  <2>3. \A k : InHand(k) => InHand(k)'
    BY <1>7 DEF LoopTest, InHand, SpillTypes, SpillRecords
  <2> QED
    BY <1>2, <2>1, <2>2, <2>3
<1>8. CASE PollEmpty(i)
  <2>1. UNCHANGED <<storeVars, kept, ends, mapCache>>
    BY <1>8 DEF PollEmpty
  <2>2. SpillTypes'
    <3> DEFINE r == [spiller[i] EXCEPT !.at = "calm"]
    <3>1. r \in SpillRecords /\ (r.at \in {"find", "take", "subtract", "subtractPut", "put"} => r.key \in Keys)
      BY <1>8 DEF PollEmpty, SpillStep, SpillTypes, SpillPlaces, SpillRecords
    <3>2. spiller' = [spiller EXCEPT ![i] = r] /\ UNCHANGED <<kept, sender>> /\ preCache' \in Seq(Keys) /\ waiData' \in Nat
      BY <1>8 DEF PollEmpty, SpillStep, SpillTypes, SpillRecords
    <3> QED
      BY <3>1, <3>2, SpillerKeepsTypes
  <2>3. \A k : InHand(k) => InHand(k)'
    BY <1>8 DEF PollEmpty, SpillStep, InHand, SpillTypes, SpillRecords
  <2> QED
    BY <1>2, <2>1, <2>2, <2>3
<1>9. CASE Poll(i)
  <2>0. Head(preCache) \in Keys /\ Tail(preCache) \in Seq(Keys)
    BY <1>9, HeadTailProperties DEF Poll, SpillTypes
  <2>1. UNCHANGED <<storeVars, kept, ends, mapCache>>
    BY <1>9 DEF Poll
  <2>2. SpillTypes'
    <3> DEFINE r == [spiller[i] EXCEPT !.at = "find", !.key = Head(preCache)]
    <3>1. r \in SpillRecords /\ (r.at \in {"find", "take", "subtract", "subtractPut", "put"} => r.key \in Keys)
      BY <1>9, <2>0 DEF Poll, SpillTypes, SpillPlaces, SpillRecords
    <3>2. spiller' = [spiller EXCEPT ![i] = r]
      BY <1>9, <2>0 DEF Poll, SpillTypes, SpillRecords
    <3>3. UNCHANGED <<kept, sender>> /\ preCache' \in Seq(Keys) /\ waiData' \in Nat
      BY <1>9, <2>0 DEF Poll, SpillTypes, SpillRecords
    <3> HIDE DEF r
    <3> QED
      BY <3>1, <3>2, <3>3, SpillerKeepsTypes
  <2>3. \A k : InHand(k) => InHand(k)'
    BY <1>9 DEF Poll, InHand, SpillTypes, SpillRecords
  <2> QED
    BY <1>2, <2>1, <2>2, <2>3
<1>10. CASE FindSession(i)
  <2>1. UNCHANGED <<storeVars, kept, ends, mapCache>>
    BY <1>10 DEF FindSession
  <2>2. SpillTypes'
    <3> DEFINE r == [spiller[i] EXCEPT !.at  = IF open THEN "take" ELSE "loop",
                                       !.key = IF open THEN spiller[i].key ELSE None]
    <3>1. r \in SpillRecords /\ (r.at \in {"find", "take", "subtract", "subtractPut", "put"} => r.key \in Keys)
      BY <1>10 DEF FindSession, SpillTypes, SpillPlaces, SpillRecords
    <3>2. spiller' = [spiller EXCEPT ![i] = r] /\ UNCHANGED <<kept, sender>> /\ preCache' \in Seq(Keys) /\ waiData' \in Nat
      BY <1>10 DEF FindSession, SpillTypes, SpillRecords
    <3> QED
      BY <3>1, <3>2, SpillerKeepsTypes
  <2>3. \A k : InHand(k) => InHand(k)'
    BY <1>10 DEF FindSession, InHand, SpillTypes, SpillRecords
  <2> QED
    BY <1>2, <2>1, <2>2, <2>3
<1>11. CASE Subtract(i)
  <2>1. UNCHANGED <<storeVars, kept, ends, mapCache>>
    BY <1>11 DEF Subtract, SubtractOf
  <2>2. SpillTypes'
    <3> DEFINE onward == [spiller[i] EXCEPT !.at = "put", !.sum = spiller[i].sum + LenOf[spiller[i].key]]
               back   == [spiller[i] EXCEPT !.at = "loop", !.key = None]
    <3>1. spiller[i] \in SpillRecords /\ spiller[i].key \in Keys
      BY <1>11 DEF Subtract, SubtractOf, SpillTypes
    <3>2. LenOf[spiller[i].key] \in Nat
      BY <3>1, LengthsAssumption
    <3>3. onward \in SpillRecords /\ onward.key \in Keys
      <4>1. spiller[i].sum + LenOf[spiller[i].key] \in Nat
        BY <3>1, <3>2 DEF SpillRecords
      <4> QED
        BY <3>1, <4>1 DEF SpillPlaces, SpillRecords
    <3>4. back \in SpillRecords /\ back.at = "loop"
      BY <3>1 DEF SpillPlaces, SpillRecords
    <3>5. UNCHANGED <<kept, sender>> /\ preCache' \in Seq(Keys) /\ waiData' \in Nat
      BY <1>11 DEF Subtract, SubtractOf, SpillTypes
    <3>6. spiller' = [spiller EXCEPT ![i] = onward] \/ spiller' = [spiller EXCEPT ![i] = back]
      <4>1. CASE spiller[i].at = "subtractPut"
        BY <1>11, <4>1 DEF Subtract, SubtractOf, SpillTypes
      <4>2. CASE spiller[i].at # "subtractPut"
        BY <1>11, <4>2 DEF Subtract, SubtractOf, SpillTypes
      <4> QED
        BY <4>1, <4>2
    <3> QED
      BY <3>3, <3>4, <3>5, <3>6, SpillerKeepsTypes
  <2>3. \A k : InHand(k) => InHand(k)'
    BY <1>11 DEF Subtract, SubtractOf, InHand, SpillTypes, SpillRecords
  <2> QED
    BY <1>2, <2>1, <2>2, <2>3
<1>12. CASE PutReturns(i)
  <2>1. UNCHANGED <<storeVars, kept, ends, mapCache>>
    BY <1>12 DEF PutReturns
  <2>2. SpillTypes'
    <3> DEFINE r == [spiller[i] EXCEPT !.at = "loop"]
    <3>1. r \in SpillRecords /\ (r.at \in {"find", "take", "subtract", "subtractPut", "put"} => r.key \in Keys)
      BY <1>12 DEF PutReturns, SpillStep, SpillTypes, SpillPlaces, SpillRecords
    <3>2. spiller' = [spiller EXCEPT ![i] = r] /\ UNCHANGED <<kept, sender>> /\ preCache' \in Seq(Keys) /\ waiData' \in Nat
      BY <1>12 DEF PutReturns, SpillStep, SpillTypes, SpillRecords
    <3> QED
      BY <3>1, <3>2, SpillerKeepsTypes
  <2>3. \A k : InHand(k) => InHand(k)'
    BY <1>12 DEF PutReturns, SpillStep, InHand, SpillTypes, SpillRecords
  <2> QED
    BY <1>2, <2>1, <2>2, <2>3
<1>13. CASE Calm(i)
  <2>1. UNCHANGED <<storeVars, kept, ends, mapCache>>
    BY <1>13 DEF Calm
  <2>2. SpillTypes'
    <3> DEFINE r == [spiller[i] EXCEPT !.at = "end"]
    <3>1. r \in SpillRecords /\ (r.at \in {"find", "take", "subtract", "subtractPut", "put"} => r.key \in Keys)
      BY <1>13 DEF Calm, SpillStep, SpillTypes, SpillPlaces, SpillRecords
    <3>2. spiller' = [spiller EXCEPT ![i] = r]
      BY <1>13 DEF Calm, SpillStep, SpillTypes, SpillRecords
    <3>3. UNCHANGED <<kept, sender>> /\ preCache' \in Seq(Keys) /\ waiData' \in Nat
      BY <1>13 DEF Calm, SpillStep, SpillTypes, SpillRecords
    <3> HIDE DEF r
    <3> QED
      BY <3>1, <3>2, <3>3, SpillerKeepsTypes
  <2>3. \A k : InHand(k) => InHand(k)'
    BY <1>13 DEF Calm, SpillStep, InHand, SpillTypes, SpillRecords
  <2> QED
    BY <1>2, <2>1, <2>2, <2>3
<1>14. CASE EndSpill(i)
  <2>1. UNCHANGED <<storeVars, kept, ends, mapCache>>
    BY <1>14 DEF EndSpill
  <2>2. SpillTypes'
    BY <1>14 DEF EndSpill, SpillTypes, SpillPlaces, SpillRecords, SpillIdle
  <2>3. \A k : InHand(k) => InHand(k)'
    BY <1>14 DEF EndSpill, InHand, SpillTypes, SpillRecords, SpillIdle
  <2> QED
    BY <1>2, <2>1, <2>2, <2>3
<1> QED
  BY <1>1, <1>3, <1>4, <1>5, <1>6, <1>7, <1>8, <1>9, <1>10, <1>11, <1>12, <1>13, <1>14 DEF Spill

LEMMA SpillInductive ==
    ASSUME SpillInv, [Next]_vars
    PROVE  SpillInv'
<1>1. CASE Store
  <2>1. StoreNext /\ UNCHANGED spillVars
    BY <1>1 DEF Store, StoreNext
  <2>2. StoreInv' /\ lostKeys \subseteq lostKeys' /\ putKeys \subseteq putKeys'
    BY <2>1, StoreInvInductive, PutKnownInductive DEF SpillInv, StoreInv
  <2>3. SpillTypes'
    BY <2>1 DEF SpillInv, SpillTypes, spillVars
  <2>4. \A k \in Keys : k \in fileCache \/ findex[k] # None => k \in fileCache' \/ findex'[k] # None \/ k \in lostKeys'
    BY <2>2 DEF SpillInv, StoreInv, PutKnown, FindInv, Findable
  <2>5. AllSafe'
    BY <2>1, <2>2, <2>4 DEF SpillInv, SpillTypes, AllSafe, Safe, Gone, ends, InHand, spillVars
  <2> QED
    BY <2>2, <2>3, <2>5 DEF SpillInv
<1>2. CASE LeaveTable \/ UNCHANGED vars \/ RemoveNext \/ \E k \in Keys : Acknowledge(k)
  <2>1. UNCHANGED <<storeVars, kept, sender, spiller, preCache, waiData>>
    BY <1>2 DEF LeaveTable, Acknowledge, RemoveNext, vars, spillVars
  <2>2. StoreInv'
    BY <2>1, StoreInvInductive DEF SpillInv
  <2>3. \A k \in mapCache : k \in mapCache' \/ k \in acked' \cup overrun'
    BY <1>2 DEF LeaveTable, Acknowledge, RemoveNext, vars, spillVars, ends
  <2>4. acked \subseteq acked' /\ overrun \subseteq overrun'
    BY <1>2 DEF LeaveTable, Acknowledge, RemoveNext, vars, spillVars, ends
  <2>5. AllSafe'
    BY <2>1, <2>3, <2>4 DEF SpillInv, AllSafe, Safe, Gone, ends, InHand, storeVars, mem, past
  <2> QED
    BY <2>1, <2>2, <2>5 DEF SpillInv, SpillTypes
<1> QED
  BY <1>1, <1>2, SenderKeeps, SpillKeeps DEF Next

(* An end removes only the packet behind the one it acknowledges.           *)
EndKnown == /\ ending # None => ending - 1 \in acked
            /\ \A k \in overrun : k - 1 \in acked

LEMMA EndKnownStep ==
    ASSUME SpillTypes, EndKnown, [Next]_vars
    PROVE  EndKnown'
<1> USE DEF EndKnown
<1>1. ASSUME NEW k \in Keys, Acknowledge(k) PROVE EndKnown'
  <2>1. /\ acked' = acked \cup {k} /\ overrun' = overrun
        /\ ending' # None => ending' = k + 1
    BY <1>1 DEF Acknowledge
  <2>2. (k + 1) - 1 = k
    BY SpillAssumption
  <2> QED
    BY <2>1, <2>2
<1>2. CASE RemoveNext
  BY <1>2 DEF RemoveNext
<1>3. ASSUME UNCHANGED ends PROVE EndKnown'
  BY <1>3 DEF ends
<1>4. ASSUME NEW s \in Senders, SenderStep(s) \/ Spill(s) \/ \E k \in Keys : Keep(s, k)
      PROVE  UNCHANGED ends
  <2>1. SenderStep(s) => UNCHANGED ends
    BY DEF SenderStep, AddSessionData, Queue, TestStarted, SetStarted, TestStore, MakeStore, Execute,
       Resume
  <2>2. Spill(s) => UNCHANGED ends
    BY DEF Spill, Decide, RaiseRead, RaiseWrite, LoopTest, PollEmpty, Poll, FindSession, RemoveData,
       Subtract, SubtractOf, PutToStore, PutReturns, Calm, EndSpill
  <2> QED
    BY <1>4, <2>1, <2>2 DEF Keep
<1>5. Store \/ LeaveTable \/ UNCHANGED vars => UNCHANGED ends
  BY DEF Store, LeaveTable, vars, spillVars
<1> QED
  BY <1>1, <1>2, <1>3, <1>4, <1>5 DEF Next

(* Whatever the limits, the number of senders, spilling and storing threads *)
(* and their interleaving, a packet that was kept and not acknowledged is   *)
(* in memory, in a spilling thread's hand, or in the store, unless its file *)
(* was deleted for its age, its store replaced by a second one, its index   *)
(* entry lost to an overlapping one, or it was removed by the end of the    *)
(* message right before it.                                                 *)
THEOREM SpillLosesNothing == Spec => []NothingLost
<1>1. Init => SpillInv /\ EndKnown
  BY InitSpill DEF Init, EndKnown
<1>2. SpillInv /\ EndKnown /\ [Next]_vars => SpillInv' /\ EndKnown'
  BY SpillInductive, EndKnownStep DEF SpillInv
<1>3. SpillInv /\ EndKnown => NothingLost
  BY DEF SpillInv, AllSafe, Safe, Gone, EndKnown, NothingLost
<1> QED
  BY <1>1, <1>2, <1>3, PTL DEF Spec

-----------------------------------------------------------------------------
(* Sums over finite sets, which the account of bytes is stated with.        *)

(* Induction on finite sets, for a set of sets in place of a predicate.     *)
LEMMA FiniteInduction ==
    ASSUME NEW U, IsFiniteSet(U), NEW P \in SUBSET SUBSET U,
           {} \in P, \A s \in SUBSET U : \A x \in U \ s : s \in P => s \cup {x} \in P
    PROVE  U \in P
<1> DEFINE T == FiniteSubsetsOf(U) \ P
<1>1. IsWellFoundedOn(StrictSubsetOrdering(U), FiniteSubsetsOf(U))
  BY FS_StrictSubsetOrderingWellFounded
<1>2. SUFFICES ASSUME T # {} PROVE FALSE
  BY DEF FiniteSubsetsOf
<1>3. PICK s \in T : \A y \in T : <<y, s>> \notin StrictSubsetOrdering(U)
  <2>1. T \subseteq FiniteSubsetsOf(U)
    OBVIOUS
  <2> HIDE DEF T
  <2> QED
    BY <1>1, <1>2, <2>1, WFMin
<1>4. PICK x \in s : TRUE
  BY <1>3 DEF FiniteSubsetsOf
<1>5. s \ {x} \in FiniteSubsetsOf(U)
  BY <1>3, FS_RemoveElement DEF FiniteSubsetsOf
<1>6. <<s \ {x}, s>> \in StrictSubsetOrdering(U)
  BY <1>3, <1>4, <1>5 DEF StrictSubsetOrdering, FiniteSubsetsOf
<1>7. s \ {x} \in P
  BY <1>3, <1>5, <1>6
<1>8. s = (s \ {x}) \cup {x} /\ s \in SUBSET U
  BY <1>3, <1>4 DEF FiniteSubsetsOf
<1> QED
  BY <1>3, <1>4, <1>7, <1>8

Bytes(S) == MapThenSumSet(Cost, S)
Some(s) == CHOOSE y \in s : TRUE
(* What the fold computes of a set: take some element, sum up the others.   *)
SumOf(g, s) == IF s = {} THEN 0 ELSE Cost(Some(s)) + g[s \ {Some(s)}]
Sums(S, g) == g = [s \in SUBSET S |-> SumOf(g, s)]
(* A set all of whose packets have a cost. *)
Priced(U) == IsFiniteSet(U) /\ \A x \in U : Cost(x) \in Nat

LEMMA FoldSums == ASSUME NEW S PROVE Bytes(S) = (CHOOSE g : Sums(S, g))[S]
BY DEF Bytes, MapThenSumSet, MapThenFoldSet, Sums, SumOf, Some

(* The sets of a finite set by their size. *)
Sized(U) == \A s \in SUBSET U :
    /\ IsFiniteSet(s) /\ Cardinality(s) \in Nat /\ Cardinality(s) <= Cardinality(U)
    /\ s # {} => /\ Some(s) \in s /\ s \ {Some(s)} \in SUBSET U
                 /\ Cardinality(s \ {Some(s)}) = Cardinality(s) - 1
    /\ Cardinality(s) = 0 <=> s = {}

LEMMA SmallerSets == ASSUME NEW U, IsFiniteSet(U) PROVE Sized(U)
<1> SUFFICES ASSUME NEW s \in SUBSET U
             PROVE  /\ IsFiniteSet(s) /\ Cardinality(s) \in Nat
                    /\ Cardinality(s) <= Cardinality(U)
                    /\ s # {} => /\ Some(s) \in s /\ s \ {Some(s)} \in SUBSET U
                                 /\ Cardinality(s \ {Some(s)}) = Cardinality(s) - 1
                    /\ Cardinality(s) = 0 <=> s = {}
  BY DEF Sized
<1>1. IsFiniteSet(s) /\ Cardinality(s) \in Nat /\ Cardinality(s) <= Cardinality(U)
  BY FS_Subset, FS_CardinalityType
<1>2. s # {} => Some(s) \in s
  BY DEF Some
<1>3. Cardinality(s) = 0 <=> s = {}
  BY <1>1, FS_EmptySet
<1> QED
  BY <1>1, <1>2, <1>3, FS_RemoveElement

LEMMA NoneSmaller == ASSUME NEW U, Sized(U), NEW s \in SUBSET U, Cardinality(s) <= 0 PROVE s = {}
<1>1. Cardinality(s) \in Nat /\ (Cardinality(s) = 0 <=> s = {})
  BY DEF Sized
<1> QED
  BY <1>1

(* The function the fold computes exists ... *)
LEMMA SumsExist ==
    ASSUME NEW U, Priced(U)
    PROVE  \E g \in [SUBSET U -> Nat] : Sums(U, g)
<1> USE DEF Priced
<1> DEFINE Upto(n, g) == \A s \in SUBSET U : Cardinality(s) <= n => g[s] = SumOf(g, s)
           P == {R \in SUBSET U : \E g \in [SUBSET U -> Nat] : Upto(Cardinality(R), g)}
<1>0. Sized(U)
  BY SmallerSets
<1>1. {} \in P
  <2>1. [s \in SUBSET U |-> 0] \in [SUBSET U -> Nat]
    OBVIOUS
  <2>2. Upto(0, [s \in SUBSET U |-> 0])
    <3> SUFFICES ASSUME NEW s \in SUBSET U, Cardinality(s) <= 0
                 PROVE  0 = SumOf([r \in SUBSET U |-> 0], s)
      OBVIOUS
    <3>1. s = {}
      BY <1>0, NoneSmaller
    <3> QED
      BY <3>1 DEF SumOf
  <2> QED
    BY <2>1, <2>2, FS_EmptySet
<1>2. ASSUME NEW R \in SUBSET U, NEW x \in U \ R, R \in P PROVE R \cup {x} \in P
  <2>0. IsFiniteSet(R) /\ Cardinality(R) \in Nat
    BY <1>0 DEF Sized
  <2>1. PICK n \in Nat : n = Cardinality(R) /\ Cardinality(R \cup {x}) = n + 1
    BY <2>0, FS_AddElement
  <2>2. PICK g \in [SUBSET U -> Nat] : Upto(n, g)
    BY <1>2, <2>1
  <2> DEFINE h == [s \in SUBSET U |-> IF Cardinality(s) <= n THEN g[s] ELSE SumOf(g, s)]
  <2>3. \A s \in SUBSET U : SumOf(g, s) \in Nat
    BY <1>0 DEF Sized, SumOf
  <2>4. h \in [SUBSET U -> Nat]
    BY <2>3
  <2>5. Upto(n + 1, h)
    <3> SUFFICES ASSUME NEW s \in SUBSET U, Cardinality(s) <= n + 1 PROVE h[s] = SumOf(h, s)
      OBVIOUS
    <3>1. SumOf(h, s) = SumOf(g, s)
      BY <1>0 DEF Sized, SumOf
    <3> QED
      BY <2>2, <3>1
  <2> QED
    BY <2>1, <2>4, <2>5
<1>3. U \in P
  <2>1. P \in SUBSET SUBSET U
    OBVIOUS
  <2> HIDE DEF P
  <2> QED
    BY <1>1, <1>2, <2>1, FiniteInduction
<1>4. PICK g \in [SUBSET U -> Nat] : Upto(Cardinality(U), g)
  BY <1>3
<1>5. \A s \in SUBSET U : g[s] = SumOf(g, s)
  BY <1>0, <1>4 DEF Sized
<1> QED
  BY <1>5 DEF Sums

(* ... and is the same on the sets that two such functions have in common.  *)
LEMMA SumsAgree ==
    ASSUME NEW U, IsFiniteSet(U), NEW S \in SUBSET U, NEW g, NEW h, Sums(S, g), Sums(U, h)
    PROVE  g[S] = h[S]
<1> DEFINE P == {R \in SUBSET S : \A s \in SUBSET S : Cardinality(s) <= Cardinality(R) => g[s] = h[s]}
<1>0. IsFiniteSet(S) /\ Sized(S)
  BY FS_Subset, SmallerSets
<1>1. \A s \in SUBSET S : g[s] = SumOf(g, s) /\ h[s] = SumOf(h, s)
  BY DEF Sums
<1>2. {} \in P
  <2> SUFFICES ASSUME NEW s \in SUBSET S, Cardinality(s) <= 0 PROVE g[s] = h[s]
    BY FS_EmptySet
  <2>1. s = {}
    BY <1>0, NoneSmaller
  <2> QED
    BY <1>1, <2>1 DEF SumOf
<1>3. ASSUME NEW R \in SUBSET S, NEW x \in S \ R, R \in P PROVE R \cup {x} \in P
  <2>0. IsFiniteSet(R) /\ Cardinality(R) \in Nat
    BY <1>0 DEF Sized
  <2>1. PICK n \in Nat : n = Cardinality(R) /\ Cardinality(R \cup {x}) = n + 1
    BY <2>0, FS_AddElement
  <2> SUFFICES ASSUME NEW s \in SUBSET S, Cardinality(s) <= n + 1 PROVE g[s] = h[s]
    BY <2>1
  <2>2. SumOf(g, s) = SumOf(h, s)
    BY <1>0, <1>3, <2>1 DEF Sized, SumOf
  <2> QED
    BY <1>1, <2>2
<1>4. S \in P
  <2>1. P \in SUBSET SUBSET S
    OBVIOUS
  <2> HIDE DEF P
  <2> QED
    BY <1>0, <1>2, <1>3, <2>1, FiniteInduction
<1> QED
  BY <1>0, <1>4 DEF Sized

(* One more element adds its cost, whichever element the fold takes first.  *)
LEMMA SumsAdd ==
    ASSUME NEW U, Priced(U), NEW g \in [SUBSET U -> Nat], Sums(U, g)
    PROVE  \A s \in SUBSET U : \A x \in U \ s : g[s \cup {x}] = g[s] + Cost(x)
<1> USE DEF Priced
<1> DEFINE Adds(s) == \A x \in U \ s : g[s \cup {x}] = g[s] + Cost(x)
           P == {R \in SUBSET U : \A s \in SUBSET U : Cardinality(s) <= Cardinality(R) => Adds(s)}
<1>0. Sized(U)
  BY SmallerSets
<1>1. \A s \in SUBSET U : g[s] = SumOf(g, s) /\ g[s] \in Nat
  BY DEF Sums
<1>2. {} \in P
  <2> SUFFICES ASSUME NEW x \in U PROVE g[{} \cup {x}] = g[{}] + Cost(x)
    <3>1. \A s \in SUBSET U : Cardinality(s) <= 0 => s = {}
      BY <1>0, NoneSmaller
    <3> QED
      BY <3>1, FS_EmptySet
  <2>1. Some({x}) = x /\ {x} \ {x} = {} /\ {} \cup {x} = {x}
    BY DEF Some
  <2>2. g[{x}] = Cost(x) + g[{}]
    BY <1>1, <2>1 DEF SumOf
  <2> QED
    BY <1>1, <2>1, <2>2
<1>3. ASSUME NEW R \in SUBSET U, NEW z \in U \ R, R \in P PROVE R \cup {z} \in P
  <2>0. IsFiniteSet(R) /\ Cardinality(R) \in Nat
    BY <1>0 DEF Sized
  <2>1. PICK n \in Nat : n = Cardinality(R) /\ Cardinality(R \cup {z}) = n + 1
    BY <2>0, FS_AddElement
  <2> SUFFICES ASSUME NEW s \in SUBSET U, Cardinality(s) <= n + 1, NEW x \in U \ s
               PROVE  g[s \cup {x}] = g[s] + Cost(x)
    BY <2>1
  <2>2. PICK t \in SUBSET U : t = s \cup {x}
    OBVIOUS
  <2>3. PICK y : y = Some(t)
    OBVIOUS
  <2>4. y \in t /\ t # {}
    BY <1>0, <2>2, <2>3 DEF Sized
  <2>5. g[t] = Cost(y) + g[t \ {y}]
    BY <1>1, <2>3, <2>4 DEF SumOf
  <2>6. CASE y = x
    <3>1. t \ {y} = s
      BY <2>2, <2>6
    <3>2. g[t] = Cost(x) + g[s]
      BY <2>5, <2>6, <3>1
    <3> QED
      BY <1>1, <2>2, <3>2
  <2>7. CASE y # x
    <3>1. PICK r \in SUBSET U : r = s \ {y}
      OBVIOUS
    <3>2. y \in s /\ y \in U \ r /\ x \in U \ r /\ t \ {y} = r \cup {x} /\ r \cup {y} = s
      BY <2>2, <2>4, <2>7, <3>1
    <3>3. Cardinality(r) <= n
      <4>1. Cardinality(s) \in Nat /\ IsFiniteSet(s)
        BY <1>0 DEF Sized
      <4>2. Cardinality(r) = Cardinality(s) - 1
        BY <3>1, <3>2, <4>1, FS_RemoveElement
      <4> QED
        BY <4>1, <4>2
    <3>4. g[r \cup {x}] = g[r] + Cost(x) /\ g[r \cup {y}] = g[r] + Cost(y)
      BY <1>3, <2>1, <3>2, <3>3
    <3>5. /\ g[t] = Cost(y) + (g[r] + Cost(x)) /\ g[s] = g[r] + Cost(y)
          /\ g[r] \in Nat /\ Cost(x) \in Nat /\ Cost(y) \in Nat
      <4>1. g[r] \in Nat
        BY <1>1
      <4> QED
        BY <2>5, <3>2, <3>4, <4>1
    <3> QED
      BY <2>2, <3>5
  <2> QED
    BY <2>6, <2>7
<1>4. U \in P
  <2>1. P \in SUBSET SUBSET U
    OBVIOUS
  <2> HIDE DEF P
  <2> QED
    BY <1>2, <1>3, <2>1, FiniteInduction
<1> QED
  BY <1>0, <1>4 DEF Sized

(* The bytes of a set: none of the empty set; an element's cost more with it.*)
LEMMA BytesOf ==
    ASSUME NEW U, Priced(U), NEW S \in SUBSET U
    PROVE  /\ Bytes(S) \in Nat /\ Bytes({}) = 0
           /\ \A x \in U \ S : Bytes(S \cup {x}) = Bytes(S) + Cost(x)
<1>1. PICK g \in [SUBSET U -> Nat] : Sums(U, g)
  BY SumsExist
<1>2. ASSUME NEW T \in SUBSET U PROVE Bytes(T) = g[T]
  <2>1. Priced(T)
    BY FS_Subset DEF Priced
  <2>2. \E f : Sums(T, f)
    BY <2>1, SumsExist
  <2>3. PICK f : f = CHOOSE e : Sums(T, e)
    OBVIOUS
  <2>4. Sums(T, f)
    BY <2>2, <2>3
  <2>5. f[T] = g[T]
    BY <1>1, <2>4, SumsAgree DEF Priced
  <2> QED
    BY <2>3, <2>5, FoldSums
<1>3. g[{}] = 0
  BY <1>1 DEF Sums, SumOf
<1>4. ASSUME NEW x \in U \ S PROVE Bytes(S \cup {x}) = Bytes(S) + Cost(x)
  <2>1. g[S \cup {x}] = g[S] + Cost(x)
    BY <1>1, SumsAdd
  <2> QED
    BY <1>2, <2>1
<1>5. Bytes(S) \in Nat /\ Bytes({}) = 0
  BY <1>1, <1>2, <1>3
<1> QED
  BY <1>4, <1>5

-----------------------------------------------------------------------------
(* Where a packet is on its way into the queue, in it, and out of it: at    *)
(* one of these places at a time, and each packet once.                     *)
Sending  == {s \in Senders : sender[s].at \in {"add", "queue", "queueFull"}}
Spilling == {i \in Senders : spiller[i].at \in {"find", "take", "subtract", "subtractPut"}}
Queued   == {preCache[n] : n \in DOMAIN preCache}

SentOnce == \A s \in Sending : sender[s].key \in kept /\ OwnerOf[sender[s].key] = s
QueuedOnce == \A n \in DOMAIN preCache :
    /\ preCache[n] \in kept
    /\ \A m \in DOMAIN preCache : preCache[m] = preCache[n] => m = n
SpilledOnce == \A i \in Spilling :
    /\ spiller[i].key \in kept
    /\ \A j \in Spilling : spiller[j].key = spiller[i].key => j = i
PlacesApart ==
    /\ \A s \in Sending : sender[s].key \notin Queued
    /\ \A s \in Sending : \A i \in Spilling : sender[s].key # spiller[i].key
    /\ \A i \in Spilling : spiller[i].key \notin Queued
OncePlaced == IsFiniteSet(kept) /\ SentOnce /\ QueuedOnce /\ SpilledOnce /\ PlacesApart

(* A step that moves no packet between these places. *)
Still ==
    /\ UNCHANGED <<kept, preCache, sessionCacheData>>
    /\ \A s \in Senders : /\ s \in Sending' <=> s \in Sending
                          /\ s \in Sending => /\ sender'[s].key = sender[s].key
                                              /\ sender'[s].at = "add" <=> sender[s].at = "add"
    /\ \A i \in Senders : /\ i \in Spilling' <=> i \in Spilling
                          /\ i \in Spilling => spiller'[i].key = spiller[i].key

AccountedAt(k) == \/ k \in Queued
                  \/ \E s \in Sending : sender[s].at # "add" /\ sender[s].key = k
                  \/ \E i \in Spilling : spiller[i].key = k

LEMMA AccountedIs ==
    /\ Accounted = {k \in Accounted : AccountedAt(k)} /\ \A k : AccountedAt(k) => k \in Accounted
    /\ Accounted' = {k \in Accounted' : AccountedAt(k)'} /\ \A k : AccountedAt(k)' => k \in Accounted'
<1>1. Accounted = {k \in Accounted : AccountedAt(k)} /\ \A k : AccountedAt(k) => k \in Accounted
  BY DEF Accounted, AccountedAt, Sending, Spilling, Queued
<1>2. Accounted' = {k \in Accounted' : AccountedAt(k)'} /\ \A k : AccountedAt(k)' => k \in Accounted'
  BY DEF Accounted, AccountedAt, Sending, Spilling, Queued
<1> QED
  BY <1>1, <1>2

LEMMA StillOnce ==
    ASSUME Still
    PROVE  (OncePlaced => OncePlaced') /\ Accounted' = Accounted
<1>1. \A s : s \in Sending' <=> s \in Sending
  BY DEF Still, Sending
<1>2. \A i : i \in Spilling' <=> i \in Spilling
  BY DEF Still, Spilling
<1>3. /\ \A s \in Sending : /\ s \in Senders /\ sender'[s].key = sender[s].key
                            /\ sender'[s].at = "add" <=> sender[s].at = "add"
      /\ \A i \in Spilling : i \in Senders /\ spiller'[i].key = spiller[i].key
      /\ Queued' = Queued
  BY DEF Still, Sending, Spilling, Queued
<1>4. \A k : AccountedAt(k)' <=> AccountedAt(k)
  BY <1>1, <1>2, <1>3 DEF AccountedAt
<1>5. Accounted' = Accounted
  BY <1>4, AccountedIs
<1>6. OncePlaced => OncePlaced'
  BY <1>1, <1>2, <1>3 DEF Still, OncePlaced, SentOnce, QueuedOnce, SpilledOnce, PlacesApart
<1> QED
  BY <1>5, <1>6

(* Which steps move a packet. *)
LEMMA SenderMoves ==
    ASSUME SpillTypes, NEW s \in Senders, SenderStep(s)
    PROVE  AddSessionData(s) \/ Queue(s) \/ (Still /\ open' = open)
<1> USE DEF SpillTypes, SpillRecords, Still, Sending, Spilling
<1>1. CASE TestStarted(s) \/ SetStarted(s) \/ TestStore(s) \/ MakeStore(s) \/ Resume(s)
  <2>1. /\ UNCHANGED <<kept, preCache, sessionCacheData, spiller, open>>
        /\ s \notin Sending
        /\ \E a \in {"wait", "set", "store", "make", "execute", "idle"} :
             sender' = [sender EXCEPT ![s].at = a]
    <3>1. CASE TestStarted(s) \/ SetStarted(s)
      BY <3>1 DEF TestStarted, SetStarted, SendStep
    <3>2. CASE TestStore(s) \/ Resume(s)
      BY <3>2 DEF TestStore, Resume, SendStep
    <3>3. CASE MakeStore(s)
      BY <3>3 DEF MakeStore, SendStep
    <3> QED
      BY <1>1, <3>1, <3>2, <3>3
  <2> QED
    BY <2>1
<1>2. CASE Execute(s)
  BY <1>2 DEF Execute, SendStep
<1> QED
  BY <1>1, <1>2 DEF SenderStep

Leave(i) ==
    /\ i \in Spilling /\ UNCHANGED <<kept, preCache, sender>>
    /\ \A j \in Senders : /\ j \in Spilling' <=> j \in Spilling /\ j # i
                          /\ j \in Spilling' => spiller'[j].key = spiller[j].key

LEMMA SpillMoves ==
    ASSUME SpillTypes, NEW i \in Senders, Spill(i)
    PROVE  \/ Poll(i)
           \/ (Still /\ open' = open)
           \/ (Leave(i) /\ ~open /\ ~open' /\ sessionCacheData' = sessionCacheData)
           \/ (Leave(i) /\ open' = open /\ sessionCacheData' = sessionCacheData - Cost(spiller[i].key))
<1> USE DEF SpillTypes, SpillRecords, Spilling
<1>1. CASE Decide(i) \/ PollEmpty(i) \/ RaiseRead(i)
  <2>1. UNCHANGED <<kept, preCache, sessionCacheData, sender, open>>
    BY <1>1 DEF Decide, PollEmpty, RaiseRead
  <2>2. /\ spiller[i].at \in {"begin", "poll", "raise"}
        /\ spiller'[i].at \in {"raise", "loop", "calm", "raised"}
        /\ \A j \in Senders : j # i => spiller'[j] = spiller[j]
    <3>1. CASE Decide(i)
      BY <3>1 DEF Decide, SpillStep
    <3>2. CASE PollEmpty(i)
      BY <3>2 DEF PollEmpty, SpillStep
    <3>3. CASE RaiseRead(i)
      BY <3>3 DEF RaiseRead
    <3> QED
      BY <1>1, <3>1, <3>2, <3>3
  <2> QED
    BY <2>1, <2>2 DEF Still, Sending
<1>5. CASE RaiseWrite(i)
  <2>1. UNCHANGED <<kept, preCache, sessionCacheData, sender, open>>
        /\ spiller[i].at = "raised" /\ spiller'[i].at = "loop"
        /\ \A j \in Senders : j # i => spiller'[j] = spiller[j]
    BY <1>5 DEF RaiseWrite
  <2> QED
    BY <2>1 DEF Still, Sending
<1>6. CASE LoopTest(i)
  <2>1. UNCHANGED <<kept, preCache, sessionCacheData, sender, open>>
        /\ spiller[i].at = "loop" /\ spiller'[i].at \in {"poll", "calm"}
        /\ \A j \in Senders : j # i => spiller'[j] = spiller[j]
    BY <1>6 DEF LoopTest
  <2> QED
    BY <2>1 DEF Still, Sending
<1>2. CASE RemoveData(i) \/ PutToStore(i) \/ PutReturns(i) \/ Calm(i) \/ EndSpill(i)
  BY <1>2 DEF RemoveData, PutToStore, PutReturns, Calm, EndSpill, SpillStep, SpillIdle, Still, Sending
<1>3. CASE FindSession(i)
  <2>1. CASE open
    BY <1>3, <2>1 DEF FindSession, Still, Sending
  <2>2. CASE ~open
    BY <1>3, <2>2 DEF FindSession, Leave
  <2> QED
    BY <2>1, <2>2
<1>4. CASE Subtract(i)
  BY <1>4 DEF Subtract, SubtractOf, Leave
<1> QED
  BY <1>1, <1>2, <1>3, <1>4, <1>5, <1>6 DEF Spill

LEMMA LeaveOnce ==
    ASSUME SpillTypes, OncePlaced, NEW i \in Senders, Leave(i)
    PROVE  /\ OncePlaced' /\ spiller[i].key \in Accounted
           /\ Accounted' = Accounted \ {spiller[i].key}
<1> USE DEF OncePlaced, SentOnce, QueuedOnce, SpilledOnce, PlacesApart
<1>1. \A s : s \in Sending' <=> s \in Sending
  BY DEF Leave, Sending
<1>2. \A j : j \in Spilling' <=> j \in Spilling /\ j # i
  BY DEF Leave, Spilling
<1>3. /\ \A j \in Spilling' : spiller'[j].key = spiller[j].key
      /\ Queued' = Queued /\ i \in Spilling /\ UNCHANGED <<kept, preCache, sender>>
  BY DEF Leave, Spilling, Queued
<1>4. PICK k : k = spiller[i].key
  OBVIOUS
<1>5. \A c : AccountedAt(c)' <=> AccountedAt(c) /\ c # k
  BY <1>1, <1>2, <1>3, <1>4 DEF AccountedAt
<1>6. AccountedAt(k)
  BY <1>3, <1>4 DEF AccountedAt
<1>7. Accounted' = Accounted \ {k} /\ k \in Accounted
  BY <1>5, <1>6, AccountedIs
<1>8. OncePlaced'
  BY <1>1, <1>2, <1>3
<1> QED
  BY <1>4, <1>7, <1>8

LEMMA KeepOnce ==
    ASSUME SpillTypes, OncePlaced, NEW s \in Senders, NEW k \in Keys, Keep(s, k)
    PROVE  OncePlaced' /\ Accounted' = Accounted
<1> USE DEF OncePlaced, SentOnce, QueuedOnce, SpilledOnce, PlacesApart
<1>1. /\ sender[s].at = "idle" /\ sender'[s] = [at |-> "add", key |-> k]
      /\ \A t \in Senders : t # s => sender'[t] = sender[t]
      /\ OwnerOf[k] = s /\ k \notin kept /\ kept' = kept \cup {k}
      /\ UNCHANGED <<preCache, spiller>>
  BY DEF Keep, SpillTypes
<1>2. \A t : t \in Sending' <=> t \in Sending \/ t = s
  BY <1>1 DEF Sending
<1>3. s \notin Sending /\ Queued' = Queued /\ \A t \in Sending : t \in Senders
  BY <1>1 DEF Sending, Queued
<1>4. \A i : i \in Spilling' <=> i \in Spilling
  BY <1>1 DEF Spilling
<1>5. \A c : AccountedAt(c)' <=> AccountedAt(c)
  BY <1>1, <1>2, <1>3, <1>4 DEF AccountedAt
<1>6. Accounted' = Accounted
  BY <1>5, AccountedIs
<1>7. IsFiniteSet(kept')
  BY <1>1, FS_AddElement
<1>8. \A c \in Queued : c \in kept
  BY DEF Queued
<1>9. SentOnce' /\ QueuedOnce' /\ SpilledOnce'
  BY <1>1, <1>2, <1>3, <1>4
<1>10. PlacesApart'
  BY <1>1, <1>2, <1>3, <1>4, <1>8
<1> QED
  BY <1>6, <1>7, <1>9, <1>10

LEMMA AddOnce ==
    ASSUME SpillTypes, OncePlaced, NEW s \in Senders, AddSessionData(s)
    PROVE  /\ OncePlaced' /\ sender[s].key \in kept /\ sender[s].key \notin Accounted
           /\ Accounted' = Accounted \cup {sender[s].key}
<1> USE DEF OncePlaced, SentOnce, QueuedOnce, SpilledOnce, PlacesApart
<1>1. PICK k : k = sender[s].key
  OBVIOUS
<1>2. /\ sender[s].at = "add" /\ sender'[s].at \in {"queue", "queueFull"} /\ sender'[s].key = k
      /\ \A t \in Senders : t # s => sender'[t] = sender[t]
      /\ UNCHANGED <<kept, preCache, spiller>>
  BY <1>1 DEF AddSessionData, SpillTypes
<1>3. \A t : t \in Sending' <=> t \in Sending
  BY <1>2 DEF Sending
<1>4. s \in Sending /\ Queued' = Queued /\ \A t \in Sending : t \in Senders
  BY <1>2 DEF Sending, Queued
<1>5. \A i : i \in Spilling' <=> i \in Spilling
  BY <1>2 DEF Spilling
<1>6. \A c : AccountedAt(c)' <=> AccountedAt(c) \/ c = k
  BY <1>1, <1>2, <1>3, <1>4, <1>5 DEF AccountedAt
<1>7. ~AccountedAt(k)
  BY <1>1, <1>2, <1>4 DEF AccountedAt
<1>8. Accounted' = Accounted \cup {k} /\ k \notin Accounted
  BY <1>6, <1>7, AccountedIs
<1>9. \A t \in Sending : sender'[t].key = sender[t].key
  BY <1>1, <1>2, <1>4
<1>10. OncePlaced'
  BY <1>2, <1>3, <1>4, <1>5, <1>9
<1> QED
  BY <1>1, <1>4, <1>8, <1>10

LEMMA QueueOnce ==
    ASSUME SpillTypes, OncePlaced, NEW s \in Senders, Queue(s)
    PROVE  OncePlaced' /\ Accounted' = Accounted
<1> USE DEF OncePlaced, SentOnce, QueuedOnce, SpilledOnce, PlacesApart
<1>1. PICK k : k = sender[s].key
  OBVIOUS
<1>2. /\ sender[s].at \in {"queue", "queueFull"} /\ sender'[s].at \notin {"add", "queue", "queueFull"}
      /\ \A t \in Senders : t # s => sender'[t] = sender[t]
      /\ UNCHANGED <<kept, spiller>> /\ preCache' = Append(preCache, k)
      /\ preCache \in Seq(Keys) /\ k \in Keys
  BY <1>1 DEF Queue, SendIdle, SpillTypes
<1>3. \A t : t \in Sending' <=> t \in Sending /\ t # s
  BY <1>2 DEF Sending
<1>4. s \in Sending /\ \A t \in Sending : t \in Senders
  BY <1>2 DEF Sending
<1>5. \A i : i \in Spilling' <=> i \in Spilling
  BY <1>2 DEF Spilling
<1>6. /\ Len(preCache) \in Nat /\ DOMAIN preCache = 1 .. Len(preCache)
      /\ DOMAIN preCache' = 1 .. Len(preCache) + 1
      /\ preCache'[Len(preCache) + 1] = k
      /\ \A n \in DOMAIN preCache : n \in DOMAIN preCache' /\ preCache'[n] = preCache[n]
  BY <1>2, AppendProperties, LenProperties
<1>7. \A c : c \in Queued' <=> c \in Queued \/ c = k
  BY <1>6 DEF Queued
<1>8. \A c : AccountedAt(c)' <=> AccountedAt(c)
  BY <1>1, <1>2, <1>3, <1>4, <1>5, <1>7 DEF AccountedAt
<1>9. Accounted' = Accounted
  BY <1>8, AccountedIs
<1>10. k \in kept /\ \A n \in DOMAIN preCache : preCache[n] # k
  BY <1>1, <1>4 DEF Queued
<1>11. QueuedOnce'
  BY <1>2, <1>6, <1>10
<1>12. SentOnce' /\ SpilledOnce'
  BY <1>2, <1>3, <1>4, <1>5
<1>13. PlacesApart'
  BY <1>1, <1>2, <1>3, <1>4, <1>5, <1>7
<1> QED
  BY <1>2, <1>9, <1>11, <1>12, <1>13

LEMMA PollOnce ==
    ASSUME SpillTypes, OncePlaced, NEW i \in Senders, Poll(i)
    PROVE  OncePlaced' /\ Accounted' = Accounted
<1> USE DEF OncePlaced, SentOnce, QueuedOnce, SpilledOnce, PlacesApart
<1>1. PICK k : k = Head(preCache)
  OBVIOUS
<1>2. /\ spiller[i].at = "poll" /\ spiller'[i].at = "find" /\ spiller'[i].key = k
      /\ \A j \in Senders : j # i => spiller'[j] = spiller[j]
      /\ UNCHANGED <<kept, sender>> /\ preCache' = Tail(preCache)
      /\ preCache \in Seq(Keys) /\ preCache # <<>>
  BY <1>1 DEF Poll, SpillTypes, SpillRecords
<1>3. \A t : t \in Sending' <=> t \in Sending
  BY <1>2 DEF Sending
<1>4. i \notin Spilling /\ \A j \in Spilling : j \in Senders
  BY <1>2 DEF Spilling
<1>5. \A j : j \in Spilling' <=> j \in Spilling \/ j = i
  BY <1>2 DEF Spilling
<1>6. /\ Len(preCache) \in Nat \ {0} /\ DOMAIN preCache = 1 .. Len(preCache)
      /\ DOMAIN preCache' = 1 .. Len(preCache) - 1 /\ preCache[1] = k
      /\ \A n \in 1 .. Len(preCache) - 1 : preCache'[n] = preCache[n + 1]
  BY <1>1, <1>2, HeadTailProperties, LenProperties, EmptySeq
<1>7. \A n \in DOMAIN preCache' : n + 1 \in DOMAIN preCache /\ n + 1 # 1
  BY <1>6
<1>8. \A n \in DOMAIN preCache : n # 1 => n - 1 \in DOMAIN preCache' /\ preCache'[n - 1] = preCache[n]
  BY <1>6
<1>9. \A c : c \in Queued' <=> c \in Queued /\ c # k
  <2>1. 1 \in DOMAIN preCache
    BY <1>6
  <2>2. \A n \in DOMAIN preCache : preCache[n] = k <=> n = 1
    BY <1>6, <2>1
  <2>3. ASSUME NEW n \in DOMAIN preCache' PROVE preCache'[n] \in Queued /\ preCache'[n] # k
    BY <1>6, <1>7, <2>2 DEF Queued
  <2>4. ASSUME NEW n \in DOMAIN preCache, preCache[n] # k PROVE preCache[n] \in Queued'
    BY <1>8, <2>2, <2>4 DEF Queued
  <2> QED
    BY <2>3, <2>4 DEF Queued
<1>10. k \in Queued /\ k \in kept
  BY <1>6 DEF Queued
<1>11. \A c : AccountedAt(c)' <=> AccountedAt(c)
  BY <1>2, <1>3, <1>4, <1>5, <1>9, <1>10 DEF AccountedAt
<1>12. Accounted' = Accounted
  BY <1>11, AccountedIs
<1>13. QueuedOnce'
  BY <1>2, <1>6, <1>7
<1>14. SentOnce' /\ SpilledOnce'
  BY <1>2, <1>3, <1>4, <1>5, <1>10
<1>15. PlacesApart'
  BY <1>2, <1>3, <1>4, <1>5, <1>9, <1>10
<1> QED
  BY <1>2, <1>12, <1>13, <1>14, <1>15

-----------------------------------------------------------------------------
(* The account.                                                             *)

BalanceInv ==
    /\ SpillTypes /\ OncePlaced /\ sessionCacheData \in Int
    /\ Accounted \subseteq kept
    /\ sessionCacheData >= Bytes(Accounted) /\ (open => sessionCacheData = Bytes(Accounted))

LEMMA KeptPriced == ASSUME SpillTypes, OncePlaced PROVE Priced(kept)
<1>1. ASSUME NEW k \in kept PROVE Cost(k) \in Nat
  BY LengthsAssumption, SpillAssumption DEF SpillTypes, Cost
<1> QED
  BY <1>1 DEF Priced, OncePlaced

LEMMA AccountedKept == ASSUME OncePlaced PROVE Accounted \subseteq kept
<1>1. \A k : AccountedAt(k) => k \in kept
  BY DEF AccountedAt, OncePlaced, SentOnce, QueuedOnce, SpilledOnce, Queued
<1> QED
  BY <1>1, AccountedIs

LEMMA BalanceStep ==
    ASSUME BalanceInv, SpillTypes', [Next]_vars
    PROVE  BalanceInv'
<1> DEFINE A == Accounted
<1>0. /\ SpillTypes /\ OncePlaced /\ sessionCacheData \in Int /\ A \subseteq kept
      /\ sessionCacheData >= Bytes(A) /\ (open => sessionCacheData = Bytes(A))
  BY DEF BalanceInv
<1>1. Priced(kept) /\ Bytes(A) \in Nat
  BY <1>0, KeptPriced, BytesOf
<1>2. ASSUME OncePlaced', Accounted' = A, sessionCacheData' = sessionCacheData, open' => open,
             kept \subseteq kept'
      PROVE  BalanceInv'
  <2>1. PICK a : a = Accounted' /\ a = A
    BY <1>2
  <2>2. Bytes(Accounted)' = Bytes(A)
    BY <2>1 DEF Bytes
  <2> QED
    BY <1>0, <1>2, <2>1, <2>2 DEF BalanceInv
<1>3. ASSUME Still, open' => open PROVE BalanceInv'
  BY <1>0, <1>2, <1>3, StillOnce DEF Still
<1>4. ASSUME NEW s \in Senders, SenderStep(s) PROVE BalanceInv'
  <2>1. CASE AddSessionData(s)
    <3>1. PICK k : k = sender[s].key
      OBVIOUS
    <3>2. OncePlaced' /\ k \in kept /\ k \notin A /\ Accounted' = A \cup {k}
      BY <1>0, <2>1, <3>1, AddOnce
    <3>3. sessionCacheData' = sessionCacheData + Cost(k) /\ kept' = kept /\ open' = open
      BY <2>1, <3>1 DEF AddSessionData
    <3>4. Cost(k) \in Nat
      BY <1>1, <3>2 DEF Priced
    <3>5. Bytes(A \cup {k}) = Bytes(A) + Cost(k)
      BY <1>0, <1>1, <3>2, BytesOf
    <3>6. Bytes(Accounted)' = Bytes(A) + Cost(k)
      BY <3>2, <3>5 DEF Bytes
    <3> HIDE DEF A
    <3> QED
      BY <1>0, <1>1, <3>2, <3>3, <3>4, <3>6 DEF BalanceInv
  <2>2. CASE Queue(s)
    BY <1>0, <1>2, <2>2, QueueOnce DEF Queue
  <2> QED
    BY <1>0, <1>3, <1>4, <2>1, <2>2, SenderMoves
<1>5. ASSUME NEW i \in Senders, Spill(i) PROVE BalanceInv'
  <2>1. CASE Poll(i)
    BY <1>0, <1>2, <2>1, PollOnce DEF Poll
  <2>2. ASSUME Leave(i),
               \/ ~open' /\ sessionCacheData' = sessionCacheData
               \/ open' = open /\ sessionCacheData' = sessionCacheData - Cost(spiller[i].key)
        PROVE  BalanceInv'
    <3>1. PICK k : k = spiller[i].key
      OBVIOUS
    <3>2. OncePlaced' /\ k \in A /\ Accounted' = A \ {k} /\ kept' = kept
      BY <1>0, <2>2, <3>1, LeaveOnce DEF Leave
    <3>3. k \in kept /\ Cost(k) \in Nat
      BY <1>0, <1>1, <3>2 DEF Priced
    <3>4. Bytes(A) = Bytes(A \ {k}) + Cost(k) /\ Bytes(A \ {k}) \in Nat
      <4>1. PICK b \in SUBSET kept : b = A \ {k}
        BY <1>0
      <4>2. k \in kept \ b /\ b \cup {k} = A
        BY <3>2, <3>3, <4>1
      <4>3. Bytes(b) \in Nat /\ Bytes(b \cup {k}) = Bytes(b) + Cost(k)
        BY <1>1, <4>2, BytesOf
      <4> QED
        BY <4>1, <4>2, <4>3
    <3>5. Bytes(Accounted)' = Bytes(A \ {k})
      BY <3>2 DEF Bytes
    <3> HIDE DEF A
    <3> QED
      BY <1>0, <2>2, <3>1, <3>2, <3>3, <3>4, <3>5 DEF BalanceInv
  <2> QED
    BY <1>0, <1>3, <1>5, <2>1, <2>2, SpillMoves
<1>6. ASSUME NEW s \in Senders, NEW k \in Keys, Keep(s, k) PROVE BalanceInv'
  BY <1>0, <1>2, <1>6, KeepOnce DEF Keep
<1>7. CASE Store \/ LeaveTable \/ UNCHANGED vars \/ RemoveNext \/ \E k \in Keys : Acknowledge(k)
  <2>1. UNCHANGED <<kept, preCache, sessionCacheData, sender, spiller>> /\ (open' => open)
    BY <1>7 DEF Store, LeaveTable, Acknowledge, RemoveNext, vars, spillVars
  <2>2. Still
    BY <2>1 DEF Still, Sending, Spilling
  <2> QED
    BY <1>3, <2>1, <2>2
<1> QED
  BY <1>4, <1>5, <1>6, <1>7 DEF Next

(* Whatever the interleaving of senders and spilling threads, with raised    *)
(* limits, ends that come first, and sessions that leave: the bytes          *)
(* accounted for are exactly those of the packets in the queue and on their  *)
(* way in or out of it, as long as the sessions are in the table, and no     *)
(* fewer after that.                                                         *)
THEOREM AccountIsBalanced == Spec => []AccountBalanced
<1> DEFINE IInv == SpillInv /\ BalanceInv
<1>1. Init => IInv
  <2> SUFFICES ASSUME Init PROVE IInv
    OBVIOUS
  <2>1. SpillInv /\ SpillTypes
    BY InitSpill DEF SpillInv
  <2>2. OncePlaced
    BY FS_EmptySet DEF Init, SendIdle, SpillIdle, OncePlaced, SentOnce, QueuedOnce, SpilledOnce,
       PlacesApart, Sending, Spilling
  <2>3. Accounted = {}
    BY DEF Init, SendIdle, SpillIdle, Accounted
  <2>4. Priced({})
    BY FS_EmptySet DEF Priced
  <2>5. Bytes({}) = 0
    BY <2>4, BytesOf
  <2> QED
    BY <2>1, <2>2, <2>3, <2>5 DEF BalanceInv, Init
<1>2. IInv /\ [Next]_vars => IInv'
  BY SpillInductive, BalanceStep DEF SpillInv
<1>3. IInv => AccountBalanced
  BY DEF BalanceInv, AccountBalanced, Bytes
<1> QED
  BY <1>1, <1>2, <1>3, PTL DEF Spec
=============================================================================
