------------------------ MODULE FileMemoryDataProofs ------------------------
(***************************************************************************)
(* Proofs about FileMemoryData for any number of putting and reading       *)
(* threads, keys and files: what a storing thread and the deleting thread  *)
(* do to the index never hides a value from the readers, and while one     *)
(* thread stores at a time each entry points at its value's bytes.         *)
(***************************************************************************)
EXTENDS FileMemoryData, SequenceTheorems, TLAPS

LEMMA FunctionIsSeq ==
    ASSUME NEW S, NEW n \in Nat, NEW f \in [1 .. n -> S]
    PROVE  f \in Seq(S) /\ Len(f) = n
<1>1. f = [m \in 1 .. n |-> f[m]]
  OBVIOUS
<1>2. f \in Seq(S)
  BY <1>1, Z3
<1> QED
  BY <1>2, LenProperties

PutterTypes == [at : {"idle", "sum", "add", "running", "enough", "start"},
                key : Keys \cup {None}, old : Nat]
StorerTypes == [at : {"idle", "begin", "file", "walk", "write", "copy", "index", "drop", "count"},
                todo : SUBSET Keys, key : Keys \cup {None}, name : Names \cup {0},
                position : Nat, tail : Nat, list : SUBSET Keys]
ReaderTypes == [at : {"idle", "index", "done"}, key : Keys \cup {None},
                answer : {"none", "value", "null", "undecodable", "throws"},
                was : BOOLEAN, raced : BOOLEAN]

(* The parts of StoreTypeOK that the threads' own steps disturb together.   *)
MemTypes  == fileCache \subseteq Keys /\ findex \in [Keys -> IndexEntries \cup {None}]
DiskTypes == /\ \A q \in DOMAIN disk : q \in {Path(DataDir, f) : f \in Names} /\ disk[q] \in Seq(Keys)
             /\ dataFile \in Names
CtlTypes  == sum \in Nat /\ isRunning \in BOOLEAN /\ deleter \in {"none", "runs", "dead"}
             /\ outdated \subseteq Names /\ putKeys \subseteq Keys /\ lostKeys \subseteq Keys
             /\ overlapped \in BOOLEAN
PutTypes  == putter \in [Putters -> PutterTypes]
StoTypes  == storer \in [Storers -> StorerTypes]
ReadTypes == reader \in [Readers -> ReaderTypes]

(* A thread that is past the choice of its key has one.                     *)
HasKey == /\ \A p \in Putters : putter[p].at \in {"sum", "add"} => putter[p].key \in Keys
          /\ \A i \in Storers : storer[i].at \in {"write", "copy", "index"} => storer[i].key \in Keys
          /\ \A r \in Readers : reader[r].at = "index" => reader[r].key \in Keys

(* A storing thread that writes has a file, and maps a part of it: between  *)
(* the mapping and the copy the file does not shrink.                       *)
HasFile == \A i \in Storers :
    /\ storer[i].at \in {"walk", "write", "copy", "index", "drop"} => storer[i].name \in Names
    /\ storer[i].at = "copy" => storer[i].tail <= Len(Contents(Path(DataDir, storer[i].name)))

TypeInv == /\ MemTypes /\ DiskTypes /\ CtlTypes
           /\ PutTypes /\ StoTypes /\ ReadTypes /\ HasKey /\ HasFile

LEMMA PartsMakeTypes == TypeInv <=> StoreTypeOK /\ HasKey /\ HasFile
BY DEF TypeInv, StoreTypeOK, MemTypes, DiskTypes, CtlTypes, PutTypes, StoTypes, ReadTypes,
       PutterTypes, StorerTypes, ReaderTypes

LEMMA InitTypes == StoreInit => TypeInv
<1> SUFFICES ASSUME StoreInit PROVE TypeInv
  OBVIOUS
<1> USE StoreNumbersAssumption
    DEF StoreInit, PutIdle, StoreIdle, ReadIdle, PutterTypes, StorerTypes, ReaderTypes, Names
<1>1. MemTypes /\ CtlTypes /\ DiskTypes
  <2>1. disk \in Seq(Keys) /\ Len(disk) = 0
    OBVIOUS
  <2>2. DOMAIN disk = {}
    BY <2>1, LenProperties
  <2>3. MemTypes /\ CtlTypes
    BY DEF MemTypes, CtlTypes
  <2>4. dataFile \in Names
    OBVIOUS
  <2> QED
    BY <2>2, <2>3, <2>4 DEF DiskTypes
<1>2. PutTypes /\ StoTypes /\ ReadTypes
  <2>1. PutIdle \in PutterTypes /\ ReadIdle \in ReaderTypes
    OBVIOUS
  <2>2. StoreIdle \in StorerTypes
    OBVIOUS
  <2> QED
    BY <2>1, <2>2 DEF PutTypes, StoTypes, ReadTypes
<1>3. HasKey /\ HasFile
  BY DEF HasKey, HasFile
<1> QED
  BY <1>1, <1>2, <1>3 DEF TypeInv

-----------------------------------------------------------------------------
(* A putting thread's steps.                                                *)
LEMMA BegunIsRecord ==
    ASSUME StoTypes, NEW i \in Storers
    PROVE  [storer[i] EXCEPT !.at = "begin"] \in StorerTypes
BY DEF StoTypes, StorerTypes

LEMMA PutKeepsTypes ==
    ASSUME TypeInv, NEW p \in Putters, PutStep(p) \/ \E k \in Keys : PutCache(p, k)
    PROVE  TypeInv'
<1> USE DEF TypeInv, MemTypes, DiskTypes, CtlTypes, PutTypes, StoTypes, ReadTypes, HasKey, HasFile,
            PutterTypes, mem, file, ctl, del, past, Contents
<1>1. ASSUME NEW k \in Keys, PutCache(p, k) PROVE TypeInv'
  BY <1>1 DEF PutCache
<1>2. CASE SumRead(p)
  BY <1>2 DEF SumRead
<1>3. CASE SumWrite(p)
  BY <1>3, LengthsAssumption DEF SumWrite, PutIdle
<1>4. CASE TestRunning(p)
  BY <1>4 DEF TestRunning
<1>5. CASE TestSum(p)
  BY <1>5 DEF TestSum
<1>6. CASE StartStorer(p)
  <2>1. PutTypes'
    BY <1>6 DEF StartStorer, PutIdle
  <2>2. [storer[p] EXCEPT !.at = "begin"] \in StorerTypes
    BY BegunIsRecord DEF Storers
  <2>3. StoTypes'
    BY <1>6, <2>2 DEF StartStorer, Storers
  <2>4. \A q \in Putters : putter'[q].at \in {"sum", "add"} => putter'[q] = putter[q]
    BY <1>6 DEF StartStorer, PutIdle
  <2>5. \A i \in Storers :
           storer'[i].at = "begin" \/ storer'[i] = storer[i]
    BY <1>6 DEF StartStorer, StorerTypes, Storers
  <2>6. HasKey'
    BY <1>6, <2>4, <2>5 DEF StartStorer
  <2>7. HasFile'
    BY <1>6, <2>5 DEF StartStorer
  <2>8. MemTypes' /\ DiskTypes' /\ CtlTypes' /\ ReadTypes'
    BY <1>6 DEF StartStorer
  <2> QED
    BY <2>1, <2>3, <2>6, <2>7, <2>8
<1> QED
  BY <1>1, <1>2, <1>3, <1>4, <1>5, <1>6 DEF PutStep
-----------------------------------------------------------------------------
(* A storing thread's steps.                                                *)

LEMMA StorerKeepsTypes ==
    ASSUME StoTypes, NEW i \in Storers, NEW s \in StorerTypes, storer' = [storer EXCEPT ![i] = s]
    PROVE  StoTypes' /\ \A j \in Storers : storer'[j] = IF j = i THEN s ELSE storer[j]
BY DEF StoTypes

LEMMA ContentsAreSeq ==
    ASSUME DiskTypes, NEW q
    PROVE  Contents(q) \in Seq(Keys) /\ Len(Contents(q)) \in Nat
<1>1. Contents(q) \in Seq(Keys)
  BY DEF DiskTypes, Contents
<1> QED
  BY <1>1

(* A thread that changes no file keeps HasKey and HasFile if its new record *)
(* does.                                                                    *)
LEMMA StorerKeepsKeys ==
    ASSUME TypeInv, NEW i \in Storers, NEW s \in StorerTypes, storer' = [storer EXCEPT ![i] = s],
           UNCHANGED <<putter, reader, disk>>,
           s.at \in {"write", "copy", "index"} => s.key \in Keys,
           s.at \in {"walk", "write", "copy", "index", "drop"} => s.name \in Names,
           s.at = "copy" => s.tail <= Len(Contents(Path(DataDir, s.name)))
    PROVE  HasKey' /\ HasFile'
<1>1. \A j \in Storers : storer'[j] = IF j = i THEN s ELSE storer[j]
  BY StorerKeepsTypes DEF TypeInv
<1>2. HasKey'
  BY <1>1 DEF TypeInv, HasKey
<1>3. \A q : Contents(q)' = Contents(q)
  BY DEF Contents
<1>4. \A j \in Storers :
         /\ storer'[j].at \in {"walk", "write", "copy", "index", "drop"} => storer'[j].name \in Names
         /\ storer'[j].at = "copy" => storer'[j].tail <= Len(Contents(Path(DataDir, storer'[j].name)))
  BY <1>1 DEF TypeInv, HasFile
<1> QED
  BY <1>2, <1>3, <1>4 DEF HasFile

(* Writing a value lengthens its file, or leaves its length, and no other.  *)
LEMMA CopyGrows ==
    ASSUME TypeInv, NEW i \in Storers, CopyValue(i)
    PROVE  /\ DiskTypes'
           /\ \A q : Len(Contents(q)) <= Len(Contents(q)')
<1> DEFINE path == Path(DataDir, storer[i].name)
           k    == storer[i].key
           old  == Contents(path)
           tail == storer[i].tail
           more == [n \in DOMAIN old \cup (tail + 1 .. tail + LenOf[k])
                      |-> IF n \in tail + 1 .. tail + LenOf[k] THEN k ELSE old[n]]
<1>1. storer[i].name \in Names /\ k \in Keys /\ tail \in Nat /\ tail <= Len(old) /\ LenOf[k] \in Nat
  BY LengthsAssumption DEF TypeInv, HasKey, HasFile, StoTypes, StorerTypes, CopyValue
<1>2. old \in Seq(Keys)
  BY DEF TypeInv, DiskTypes, Contents
<1>3. PICK n \in Nat : n >= Len(old) /\ DOMAIN old \cup (tail + 1 .. tail + LenOf[k]) = 1 .. n
  <2>1. CASE tail + LenOf[k] <= Len(old)
    BY <1>1, <1>2, <2>1
  <2>2. CASE tail + LenOf[k] > Len(old)
    <3>1. (1 .. Len(old)) \cup (tail + 1 .. tail + LenOf[k]) = 1 .. tail + LenOf[k]
      BY <1>1, <1>2, <2>2
    <3>2. DOMAIN old = 1 .. Len(old) /\ tail + LenOf[k] \in Nat /\ tail + LenOf[k] >= Len(old)
      BY <1>1, <1>2, <2>2
    <3> HIDE DEF old, tail, k
    <3> QED
      BY <3>1, <3>2
  <2>3. tail + LenOf[k] <= Len(old) \/ tail + LenOf[k] > Len(old)
    BY <1>1, <1>2
  <2> QED
    BY <2>1, <2>2, <2>3
<1>4. more \in Seq(Keys) /\ Len(more) = n
  <2>1. \A m \in 1 .. n : (IF m \in tail + 1 .. tail + LenOf[k] THEN k ELSE old[m]) \in Keys
    BY <1>1, <1>2, <1>3
  <2>2. more \in [1 .. n -> Keys]
    BY <1>3, <2>1
  <2> QED
    BY <2>2, FunctionIsSeq
<1>5. disk' = [q \in DOMAIN disk \cup {path} |-> IF q = path THEN more ELSE disk[q]]
  BY DEF CopyValue
<1>6. DiskTypes'
  BY <1>1, <1>4, <1>5 DEF TypeInv, DiskTypes, CopyValue
<1>7. \A q : Len(Contents(q)) <= Len(Contents(q)')
  BY <1>1, <1>2, <1>3, <1>4, <1>5 DEF TypeInv, DiskTypes, Contents
<1> QED
  BY <1>6, <1>7

LEMMA StoreKeepsTypes ==
    ASSUME TypeInv, NEW i \in Storers, StoreStep(i)
    PROVE  TypeInv'
<1> USE DEF TypeInv, MemTypes, DiskTypes, CtlTypes, PutTypes, StoTypes, ReadTypes, HasKey, HasFile,
            mem, file, ctl, del, past
<1>0. \A q : Contents(q) \in Seq(Keys) /\ Len(Contents(q)) \in Nat
  BY ContentsAreSeq
<1>1. CASE ResetSum(i)
  <2> DEFINE s == [storer[i] EXCEPT !.at = "file"]
  <2>1. s \in StorerTypes /\ storer' = [storer EXCEPT ![i] = s]
    BY <1>1 DEF ResetSum, StorerTypes
  <2>2. StoTypes' /\ \A j \in Storers : storer'[j] = IF j = i THEN s ELSE storer[j]
    BY <2>1, StorerKeepsTypes DEF TypeInv
  <2>3. HasKey' /\ HasFile'
    <3>1. /\ s.at \in {"write", "copy", "index"} => s.key \in Keys
          /\ s.at \in {"walk", "write", "copy", "index", "drop"} => s.name \in Names
          /\ s.at = "copy" => s.tail <= Len(Contents(Path(DataDir, s.name)))
      BY <1>1, <1>0, <2>1 DEF ResetSum, StorerTypes
    <3>2. UNCHANGED <<putter, reader, disk>>
      BY <1>1 DEF ResetSum
    <3> HIDE DEF s
    <3> QED
      BY <2>1, <3>1, <3>2, StorerKeepsKeys
  <2> QED
    BY <1>1, <2>2, <2>3 DEF ResetSum
<1>2. CASE ChooseFile(i)
  <2> DEFINE s == [storer[i] EXCEPT !.at = "walk", !.todo = fileCache, !.name = dataFile',
                                        !.position = Len(Contents(Path(DataDir, dataFile')))]
  <2>1. dataFile' \in Names /\ Len(Contents(Path(DataDir, dataFile'))) \in Nat
    BY <1>0, <1>2 DEF ChooseFile
  <2>2. s \in StorerTypes
    BY <2>1 DEF StorerTypes
  <2>3. s \in StorerTypes /\ storer' = [storer EXCEPT ![i] = s]
    BY <1>2, <2>2 DEF ChooseFile, StorerTypes
  <2>4. StoTypes' /\ \A j \in Storers : storer'[j] = IF j = i THEN s ELSE storer[j]
    BY <2>3, StorerKeepsTypes DEF TypeInv
  <2>5. HasKey' /\ HasFile'
    <3>1. /\ s.at \in {"write", "copy", "index"} => s.key \in Keys
          /\ s.at \in {"walk", "write", "copy", "index", "drop"} => s.name \in Names
          /\ s.at = "copy" => s.tail <= Len(Contents(Path(DataDir, s.name)))
      BY <1>2, <1>0, <2>3 DEF ChooseFile, StorerTypes
    <3>2. UNCHANGED <<putter, reader, disk>>
      BY <1>2 DEF ChooseFile
    <3> HIDE DEF s
    <3> QED
      BY <2>3, <3>1, <3>2, StorerKeepsKeys
  <2> QED
    BY <1>2, <2>4, <2>5 DEF ChooseFile
<1>3. ASSUME NEW k \in Keys, NextEntry(i, k) PROVE TypeInv'
  <2> DEFINE s == [storer[i] EXCEPT !.at = "write", !.key = k]
  <2>1. s \in StorerTypes /\ storer' = [storer EXCEPT ![i] = s]
    BY <1>3 DEF NextEntry, StorerTypes
  <2>2. StoTypes' /\ \A j \in Storers : storer'[j] = IF j = i THEN s ELSE storer[j]
    BY <2>1, StorerKeepsTypes DEF TypeInv
  <2>3. HasKey' /\ HasFile'
    <3>1. /\ s.at \in {"write", "copy", "index"} => s.key \in Keys
          /\ s.at \in {"walk", "write", "copy", "index", "drop"} => s.name \in Names
          /\ s.at = "copy" => s.tail <= Len(Contents(Path(DataDir, s.name)))
      BY <1>3, <1>0, <2>1 DEF NextEntry, StorerTypes
    <3>2. UNCHANGED <<putter, reader, disk>>
      BY <1>3 DEF NextEntry
    <3> HIDE DEF s
    <3> QED
      BY <2>1, <3>1, <3>2, StorerKeepsKeys
  <2> QED
    BY <1>3, <2>2, <2>3 DEF NextEntry
<1>4. CASE MapValue(i)
  <2> DEFINE s == [storer[i] EXCEPT !.at = "copy",
                                        !.tail = Len(Contents(Path(DataDir, storer[i].name)))]
  <2>1. s \in StorerTypes /\ storer' = [storer EXCEPT ![i] = s]
    BY <1>0, <1>4 DEF MapValue, StorerTypes
  <2>2. StoTypes' /\ \A j \in Storers : storer'[j] = IF j = i THEN s ELSE storer[j]
    BY <2>1, StorerKeepsTypes DEF TypeInv
  <2>3. HasKey' /\ HasFile'
    <3>1. /\ s.at \in {"write", "copy", "index"} => s.key \in Keys
          /\ s.at \in {"walk", "write", "copy", "index", "drop"} => s.name \in Names
          /\ s.at = "copy" => s.tail <= Len(Contents(Path(DataDir, s.name)))
      BY <1>4, <1>0, <2>1 DEF MapValue, StorerTypes
    <3>2. UNCHANGED <<putter, reader, disk>>
      BY <1>4 DEF MapValue
    <3> HIDE DEF s
    <3> QED
      BY <2>1, <3>1, <3>2, StorerKeepsKeys
  <2> QED
    BY <1>4, <2>2, <2>3 DEF MapValue
<1>5. CASE CopyValue(i)
  <2> DEFINE s == [storer[i] EXCEPT !.at = "index", !.tail = 0]
  <2>1. s \in StorerTypes /\ storer' = [storer EXCEPT ![i] = s]
    BY <1>5 DEF CopyValue, StorerTypes
  <2>2. StoTypes' /\ \A j \in Storers : storer'[j] = IF j = i THEN s ELSE storer[j]
    BY <2>1, StorerKeepsTypes DEF TypeInv
  <2>3. DiskTypes' /\ \A q : Len(Contents(q)) <= Len(Contents(q)')
    BY <1>5, CopyGrows
  <2>4. HasKey'
    BY <1>5, <2>1, <2>2 DEF CopyValue, StorerTypes
  <2>5. ASSUME NEW j \in Storers, (storer[j].at = "copy")'
        PROVE  (storer[j].tail <= Len(Contents(Path(DataDir, storer[j].name))))'
    <3>1. storer'[j] = storer[j]
      BY <2>1, <2>2, <2>5
    <3>2. PICK q : q = Path(DataDir, storer[j].name)
      OBVIOUS
    <3>3. storer[j].tail \in Nat /\ storer[j].tail <= Len(Contents(q))
      BY <2>5, <3>1, <3>2 DEF StorerTypes
    <3>4. Len(Contents(q)) <= Len(Contents(q)') /\ Len(Contents(q)') \in Nat
      BY <2>3 DEF Contents
    <3>5. Contents(Path(DataDir, storer[j].name))' = Contents(q)'
      BY <3>1, <3>2 DEF Contents
    <3> QED
      BY <1>0, <3>1, <3>3, <3>4, <3>5
  <2>6. HasFile'
    BY <1>5, <2>1, <2>2, <2>5 DEF CopyValue, StorerTypes
  <2> QED
    BY <1>5, <2>2, <2>3, <2>4, <2>6 DEF CopyValue
<1>6. CASE PublishIndex(i)
  <2> DEFINE s == [storer[i] EXCEPT !.at = "walk", !.key = None,
                                    !.position = storer[i].position + LenOf[storer[i].key],
                                    !.list = storer[i].list \cup {storer[i].key}]
  <2>1. s \in StorerTypes /\ storer' = [storer EXCEPT ![i] = s]
    BY <1>6, LengthsAssumption DEF PublishIndex, PublishAs, StorerTypes
  <2>2. StoTypes' /\ \A j \in Storers : storer'[j] = IF j = i THEN s ELSE storer[j]
    BY <2>1, StorerKeepsTypes DEF TypeInv
  <2>3. HasKey' /\ HasFile'
    <3>1. /\ s.at \in {"write", "copy", "index"} => s.key \in Keys
          /\ s.at \in {"walk", "write", "copy", "index", "drop"} => s.name \in Names
          /\ s.at = "copy" => s.tail <= Len(Contents(Path(DataDir, s.name)))
      BY <1>6, <1>0, <2>1 DEF PublishIndex, PublishAs, StorerTypes
    <3>2. UNCHANGED <<putter, reader, disk>>
      BY <1>6 DEF PublishIndex, PublishAs
    <3> HIDE DEF s
    <3> QED
      BY <2>1, <3>1, <3>2, StorerKeepsKeys
  <2>4. MemTypes' /\ CtlTypes'
    BY <1>6, LengthsAssumption DEF PublishIndex, PublishAs, StorerTypes, IndexEntries
  <2> QED
    BY <1>6, <2>2, <2>3, <2>4 DEF PublishIndex, PublishAs
<1>7. CASE EndWalk(i)
  <2> DEFINE s == [storer[i] EXCEPT !.at = "drop", !.todo = {}]
  <2>1. s \in StorerTypes /\ storer' = [storer EXCEPT ![i] = s]
    BY <1>7 DEF EndWalk, StorerTypes
  <2>2. StoTypes' /\ \A j \in Storers : storer'[j] = IF j = i THEN s ELSE storer[j]
    BY <2>1, StorerKeepsTypes DEF TypeInv
  <2>3. HasKey' /\ HasFile'
    <3>1. /\ s.at \in {"write", "copy", "index"} => s.key \in Keys
          /\ s.at \in {"walk", "write", "copy", "index", "drop"} => s.name \in Names
          /\ s.at = "copy" => s.tail <= Len(Contents(Path(DataDir, s.name)))
      BY <1>7, <1>0, <2>1 DEF EndWalk, StorerTypes
    <3>2. UNCHANGED <<putter, reader, disk>>
      BY <1>7 DEF EndWalk
    <3> HIDE DEF s
    <3> QED
      BY <2>1, <3>1, <3>2, StorerKeepsKeys
  <2> QED
    BY <1>7, <2>2, <2>3 DEF EndWalk
<1>8. CASE StoreEnds(i)
  <2> DEFINE s == [StoreIdle EXCEPT !.at = "count"]
  <2>1. s \in StorerTypes /\ storer' = [storer EXCEPT ![i] = s]
    BY <1>8 DEF StoreEnds, StorerTypes, StoreIdle
  <2>2. StoTypes' /\ \A j \in Storers : storer'[j] = IF j = i THEN s ELSE storer[j]
    BY <2>1, StorerKeepsTypes DEF TypeInv
  <2>3. HasKey' /\ HasFile'
    <3>1. /\ s.at \in {"write", "copy", "index"} => s.key \in Keys
          /\ s.at \in {"walk", "write", "copy", "index", "drop"} => s.name \in Names
          /\ s.at = "copy" => s.tail <= Len(Contents(Path(DataDir, s.name)))
      BY <1>8, <1>0, <2>1 DEF StoreEnds, StorerTypes, StoreIdle
    <3>2. UNCHANGED <<putter, reader, disk>>
      BY <1>8 DEF StoreEnds
    <3> HIDE DEF s
    <3> QED
      BY <2>1, <3>1, <3>2, StorerKeepsKeys
  <2> QED
    BY <1>8, <2>2, <2>3 DEF StoreEnds
<1>9. CASE CountFiles(i)
  <2> DEFINE s == StoreIdle
  <2>1. s \in StorerTypes /\ storer' = [storer EXCEPT ![i] = s]
    BY <1>9 DEF CountFiles, StorerTypes, StoreIdle
  <2>2. StoTypes' /\ \A j \in Storers : storer'[j] = IF j = i THEN s ELSE storer[j]
    BY <2>1, StorerKeepsTypes DEF TypeInv
  <2>3. HasKey' /\ HasFile'
    <3>1. /\ s.at \in {"write", "copy", "index"} => s.key \in Keys
          /\ s.at \in {"walk", "write", "copy", "index", "drop"} => s.name \in Names
          /\ s.at = "copy" => s.tail <= Len(Contents(Path(DataDir, s.name)))
      BY <1>9, <1>0, <2>1 DEF CountFiles, StorerTypes, StoreIdle
    <3>2. UNCHANGED <<putter, reader, disk>>
      BY <1>9 DEF CountFiles
    <3> HIDE DEF s
    <3> QED
      BY <2>1, <3>1, <3>2, StorerKeepsKeys
  <2> QED
    BY <1>9, <2>2, <2>3 DEF CountFiles
<1>10. ASSUME NEW k \in Keys, DropFromCache(i, k) PROVE TypeInv'
  <2> DEFINE s == [storer[i] EXCEPT !.list = storer[i].list \ {k}]
  <2>1. s \in StorerTypes /\ storer' = [storer EXCEPT ![i] = s]
    BY <1>10 DEF DropFromCache, StorerTypes
  <2>2. StoTypes' /\ \A j \in Storers : storer'[j] = IF j = i THEN s ELSE storer[j]
    BY <2>1, StorerKeepsTypes DEF TypeInv
  <2>3. HasKey' /\ HasFile'
    <3>1. /\ s.at \in {"write", "copy", "index"} => s.key \in Keys
          /\ s.at \in {"walk", "write", "copy", "index", "drop"} => s.name \in Names
          /\ s.at = "copy" => s.tail <= Len(Contents(Path(DataDir, s.name)))
      BY <1>10, <1>0, <2>1 DEF DropFromCache, StorerTypes
    <3>2. UNCHANGED <<putter, reader, disk>>
      BY <1>10 DEF DropFromCache
    <3> HIDE DEF s
    <3> QED
      BY <2>1, <3>1, <3>2, StorerKeepsKeys
  <2> QED
    BY <1>10, <2>2, <2>3 DEF DropFromCache
<1> QED
  BY <1>1, <1>2, <1>3, <1>4, <1>5, <1>6, <1>7, <1>8, <1>9, <1>10 DEF StoreStep

-----------------------------------------------------------------------------
(* The deleting thread's steps.  A deleted file is none that is written.    *)
LEMMA DeleteKeepsTypes ==
    ASSUME TypeInv, DeleteStep
    PROVE  TypeInv'
<1> USE DEF TypeInv, MemTypes, CtlTypes, PutTypes, StoTypes, ReadTypes, HasKey, mem, file, ctl, del
<1>1. ASSUME NEW f \in Names, DeleteFile(f) PROVE TypeInv'
  <2>1. disk' = [q \in DOMAIN disk \ {Path(DataDir, f)} |-> disk[q]]
    BY <1>1 DEF DeleteFile, Restrict
  <2>2. DiskTypes'
    BY <1>1, <2>1 DEF DeleteFile, DiskTypes
  <2>3. \A j \in Storers : Path(DataDir, storer[j].name) # Path(DataDir, f)
    BY <1>1 DEF DeleteFile, Path
  <2>4. \A j \in Storers : Contents(Path(DataDir, storer[j].name))' = Contents(Path(DataDir, storer[j].name))
    BY <1>1, <2>1, <2>3 DEF DeleteFile, Contents
  <2>5. HasFile'
    BY <1>1, <2>4 DEF DeleteFile, HasFile
  <2> QED
    BY <1>1, <2>2, <2>5 DEF DeleteFile
<1>2. ASSUME NEW ks \in SUBSET Outdated PROVE Without(ks) \in [Keys -> IndexEntries \cup {None}]
  BY DEF Without
<1>3. CASE DeleteEntries
  <2>1. findex' \in [Keys -> IndexEntries \cup {None}]
    BY <1>2, <1>3 DEF DeleteEntries
  <2>2. MemTypes' /\ CtlTypes'
    BY <1>3, <2>1 DEF DeleteEntries, past
  <2>3. DiskTypes' /\ HasFile'
    BY <1>3 DEF DeleteEntries, DiskTypes, HasFile, Contents
  <2> QED
    BY <1>3, <2>2, <2>3 DEF DeleteEntries
<1>4. CASE DeleterDies
  <2>1. findex' \in [Keys -> IndexEntries \cup {None}]
    BY <1>2, <1>4 DEF DeleterDies
  <2>2. MemTypes' /\ CtlTypes'
    BY <1>4, <2>1 DEF DeleterDies, past
  <2>3. DiskTypes' /\ HasFile'
    BY <1>4 DEF DeleterDies, DiskTypes, HasFile, Contents
  <2> QED
    BY <1>4, <2>2, <2>3 DEF DeleterDies
<1> QED
  BY <1>1, <1>3, <1>4 DEF DeleteStep

(* A reading thread's steps.                                                *)
LEMMA ReadKeepsTypes ==
    ASSUME TypeInv, NEW r \in Readers, ReadStep(r) \/ \E k \in Keys : GetCache(r, k)
    PROVE  TypeInv'
<1> USE DEF TypeInv, MemTypes, DiskTypes, CtlTypes, PutTypes, StoTypes, ReadTypes, HasKey, HasFile,
            ReaderTypes, mem, file, ctl, del, past, Contents
<1>1. ASSUME NEW k \in Keys, GetCache(r, k) PROVE TypeInv'
  BY <1>1 DEF GetCache
<1>2. CASE GetIndex(r)
  BY <1>2 DEF GetIndex, Answer, ReadFile
<1>3. CASE GetDone(r)
  BY <1>3 DEF GetDone, ReadIdle
<1> QED
  BY <1>1, <1>2, <1>3 DEF ReadStep

LEMMA TypesInductive ==
    ASSUME TypeInv, [StoreNext]_storeVars
    PROVE  TypeInv'
<1>1. CASE UNCHANGED storeVars
  BY <1>1 DEF TypeInv, MemTypes, DiskTypes, CtlTypes, PutTypes, StoTypes, ReadTypes, HasKey, HasFile,
              storeVars, mem, file, ctl, del, past, Contents
<1>2. CASE StoreNext
  BY <1>2, PutKeepsTypes, StoreKeepsTypes, DeleteKeepsTypes, ReadKeepsTypes DEF StoreNext, StoreRuns
<1> QED
  BY <1>1, <1>2

(* Cache, index, files and every thread keep their types, for any number of *)
(* threads, keys and files; a storing thread always has its file and key.   *)
THEOREM StoreTypes == StoreSpec => []StoreTypeOK
<1>1. TypeInv => StoreTypeOK
  BY PartsMakeTypes
<1>2. StoreSpec => []TypeInv
  BY InitTypes, TypesInductive, PTL DEF StoreSpec
<1> QED
  BY <1>1, <1>2, PTL

-----------------------------------------------------------------------------
(* Files are numbered upwards: what exists, and what a thread writes, is no *)
(* younger than the current file, and what was deleted is older.            *)
AgeInv ==
    /\ \A f \in Names : Path(DataDir, f) \in DOMAIN disk => f <= dataFile
    /\ \A i \in Storers : storer[i].name <= dataFile
    /\ \A f \in outdated : f < dataFile

LEMMA InitAge == StoreInit => AgeInv
<1> SUFFICES ASSUME StoreInit PROVE AgeInv
  OBVIOUS
<1>1. disk \in Seq(Keys) /\ Len(disk) = 0
  BY DEF StoreInit
<1>2. DOMAIN disk = {}
  BY <1>1, LenProperties
<1> QED
  BY <1>2 DEF StoreInit, AgeInv, StoreIdle

LEMMA AgeInductive ==
    ASSUME TypeInv, AgeInv, [StoreNext]_storeVars
    PROVE  AgeInv'
<1> USE DEF AgeInv, file, ctl, del, mem, past
<1>0. dataFile \in Nat /\ (\A i \in Storers : storer[i] \in StorerTypes) /\ outdated \subseteq Nat /\ Names \subseteq Nat
  BY StoreNumbersAssumption DEF TypeInv, DiskTypes, StoTypes, CtlTypes, Names
<1>1. CASE UNCHANGED storeVars
  BY <1>1 DEF storeVars
<1>2. ASSUME NEW p \in Putters, PutStep(p) \/ \E k \in Keys : PutCache(p, k) PROVE AgeInv'
  <2>1. CASE StartStorer(p)
    BY <2>1, <1>0 DEF StartStorer, Storers, StorerTypes, TypeInv, StoTypes
  <2> QED
    BY <1>2, <2>1 DEF PutStep, PutCache, SumRead, SumWrite, TestRunning, TestSum
<1>3. ASSUME NEW i \in Storers, StoreStep(i) PROVE AgeInv'
  <2> USE DEF TypeInv, StoTypes, StorerTypes
  <2>1. CASE ChooseFile(i)
    <3>1. dataFile' \in Nat /\ dataFile <= dataFile'
      BY <1>0, <2>1 DEF ChooseFile
    <3>2. \A j \in Storers : storer'[j].name = IF j = i THEN dataFile' ELSE storer[j].name
      BY <2>1 DEF ChooseFile
    <3> QED
      BY <1>0, <2>1, <3>1, <3>2 DEF ChooseFile, Names
  <2>2. CASE CopyValue(i)
    <3>1. DOMAIN disk' = DOMAIN disk \cup {Path(DataDir, storer[i].name)}
      BY <2>2 DEF CopyValue
    <3>2. \A f \in Names : Path(DataDir, f) = Path(DataDir, storer[i].name) => f = storer[i].name
      BY DEF Path
    <3>3. \A j \in Storers : storer'[j].name = storer[j].name
      BY <2>2 DEF CopyValue
    <3> QED
      BY <1>0, <2>2, <3>1, <3>2, <3>3 DEF CopyValue
  <2>3. CASE StoreEnds(i) \/ CountFiles(i)
    <3>1. \A j \in Storers : storer'[j].name \in {0, storer[j].name}
      BY <2>3 DEF StoreEnds, CountFiles, StoreIdle
    <3> QED
      BY <1>0, <2>3, <3>1 DEF StoreEnds, CountFiles
  <2>4. CASE ResetSum(i) \/ MapValue(i) \/ PublishIndex(i) \/ EndWalk(i)
             \/ \E k \in Keys : NextEntry(i, k) \/ DropFromCache(i, k)
    <3>1. \A j \in Storers : storer'[j].name = storer[j].name
      <4>1. CASE ResetSum(i)
        BY <4>1 DEF ResetSum
      <4>2. CASE MapValue(i)
        BY <4>2 DEF MapValue
      <4>3. CASE PublishIndex(i)
        BY <4>3 DEF PublishIndex, PublishAs
      <4>4. CASE EndWalk(i)
        BY <4>4 DEF EndWalk
      <4>5. ASSUME NEW k \in Keys, NextEntry(i, k) \/ DropFromCache(i, k)
            PROVE  \A j \in Storers : storer'[j].name = storer[j].name
        BY <4>5 DEF NextEntry, DropFromCache
      <4> QED
        BY <2>4, <4>1, <4>2, <4>3, <4>4, <4>5
    <3> QED
      BY <2>4, <3>1 DEF ResetSum, MapValue, PublishIndex, PublishAs, EndWalk, NextEntry, DropFromCache
  <2> QED
    BY <1>3, <2>1, <2>2, <2>3, <2>4 DEF StoreStep
<1>4. CASE DeleteStep
  <2>1. ASSUME NEW f \in Names, DeleteFile(f) PROVE AgeInv'
    <3>1. DOMAIN disk' \subseteq DOMAIN disk
      BY <2>1 DEF DeleteFile, Restrict
    <3>2. f < dataFile
      BY <1>0, <2>1 DEF DeleteFile
    <3> QED
      BY <2>1, <3>1, <3>2 DEF DeleteFile
  <2> QED
    BY <1>4, <2>1 DEF DeleteStep, DeleteEntries, DeleterDies
<1>5. ASSUME NEW r \in Readers, ReadStep(r) \/ \E k \in Keys : GetCache(r, k) PROVE AgeInv'
  BY <1>5 DEF ReadStep, GetCache, GetIndex, GetDone
<1> QED
  BY <1>1, <1>2, <1>3, <1>4, <1>5 DEF StoreNext, StoreRuns

-----------------------------------------------------------------------------
(* Why a value is always found.  A key is listed for removal from the cache *)
(* only with its index entry published (or that lost to another one), an    *)
(* entry into a deleted file is of a key that is already given up, and a    *)
(* reader that did not find its key in the cache will find it in the index. *)
Known(k) == findex[k] # None \/ k \in lostKeys

OutdatedLost == \A k \in Keys : findex[k] # None /\ findex[k].fileid \in outdated => k \in lostKeys
ListedKnown  == \A i \in Storers : \A k \in storer[i].list : Known(k)
ReaderKnown  == \A r \in Readers : reader[r].at = "index" /\ reader[r].was => Known(reader[r].key)
FindInv      == OutdatedLost /\ ListedKnown /\ Findable /\ ReaderKnown /\ ThrowsJustified

LEMMA InitFind == StoreInit => FindInv
BY DEF StoreInit, FindInv, OutdatedLost, ListedKnown, Findable, ReaderKnown, ThrowsJustified,
       Known, StoreIdle, ReadIdle, Storers

(* As long as only threads' positions change and known keys stay known,     *)
(* what FindInv says of cache and readers is kept.                          *)
LEMMA KnownKept ==
    ASSUME FindInv, UNCHANGED <<fileCache, putKeys, reader>>, lostKeys \subseteq lostKeys',
           \A k \in Keys : Known(k) => Known(k)', TypeInv
    PROVE  Findable' /\ ReaderKnown' /\ ThrowsJustified'
<1>1. Findable'
  BY DEF FindInv, Findable, Known, TypeInv, CtlTypes
<1>2. ReaderKnown'
  BY DEF FindInv, ReaderKnown, Known, TypeInv, HasKey
<1>3. ThrowsJustified'
  BY DEF FindInv, ThrowsJustified
<1> QED
  BY <1>1, <1>2, <1>3

LEMMA PutKeepsFind ==
    ASSUME TypeInv, FindInv, NEW p \in Putters, PutStep(p) \/ \E k \in Keys : PutCache(p, k)
    PROVE  FindInv'
<1> USE DEF mem, file, ctl, del, past, Known
<1>1. ASSUME NEW k \in Keys, PutCache(p, k) PROVE FindInv'
  BY <1>1 DEF PutCache, FindInv, OutdatedLost, ListedKnown, Findable, ReaderKnown, ThrowsJustified
<1>2. CASE PutStep(p)
  <2>1. UNCHANGED <<fileCache, findex, outdated, lostKeys, putKeys, reader>>
    BY <1>2 DEF PutStep, SumRead, SumWrite, TestRunning, TestSum, StartStorer
  <2>2. \A i \in Storers : storer'[i].list = storer[i].list
    BY <1>2 DEF PutStep, SumRead, SumWrite, TestRunning, TestSum, StartStorer, TypeInv, StoTypes, StorerTypes
  <2> QED
    BY <2>1, <2>2 DEF FindInv, OutdatedLost, ListedKnown, Findable, ReaderKnown, ThrowsJustified
<1> QED
  BY <1>1, <1>2

LEMMA StoreKeepsFind ==
    ASSUME TypeInv, AgeInv, FindInv, NEW i \in Storers, StoreStep(i)
    PROVE  FindInv'
<1> USE DEF mem, file, ctl, del, past
<1>1. CASE PublishIndex(i)
  <2>0. PICK k : k = storer[i].key
    OBVIOUS
  <2>1. k \in Keys /\ dataFile \notin outdated /\ dataFile \in Nat
    BY <1>1, <2>0, StoreNumbersAssumption
       DEF TypeInv, HasKey, DiskTypes, AgeInv, PublishIndex, PublishAs, Names
  <2>2. \A n, m \in Nat : [fileid |-> dataFile, position |-> n, len |-> m] # None
    BY <2>1, NoneAssumption
  <2>3. Known(k)' /\ \A q \in Keys \ {k} : findex'[q] = findex[q]
    BY <1>1, <2>0, <2>1, <2>2, LengthsAssumption
       DEF PublishIndex, PublishAs, Known, TypeInv, MemTypes, StoTypes, StorerTypes
  <2>4. UNCHANGED <<fileCache, putKeys, reader, outdated>> /\ lostKeys \subseteq lostKeys'
    BY <1>1 DEF PublishIndex, PublishAs
  <2>5. \A q \in Keys : Known(q) => Known(q)'
    BY <2>3, <2>4 DEF Known
  <2>6. OutdatedLost'
    <3>1. findex'[k] = findex[k] \/ findex'[k].fileid = dataFile
      BY <1>1, <2>0, <2>1 DEF PublishIndex, PublishAs, TypeInv, MemTypes
    <3> QED
      BY <2>1, <2>3, <2>4, <3>1 DEF FindInv, OutdatedLost
  <2>7. \A j \in Storers : storer'[j].list \subseteq storer[j].list \cup {k}
    BY <1>1, <2>0 DEF PublishIndex, PublishAs, TypeInv, StoTypes, StorerTypes
  <2>8. ListedKnown'
    BY <2>3, <2>5, <2>7 DEF FindInv, ListedKnown, TypeInv, StoTypes, StorerTypes
  <2> QED
    BY <2>4, <2>5, <2>6, <2>8, KnownKept DEF FindInv
<1>2. ASSUME NEW k \in Keys, DropFromCache(i, k) PROVE FindInv'
  <2>1. UNCHANGED <<findex, putKeys, reader, outdated, lostKeys>> /\ fileCache' = fileCache \ {k} /\ Known(k)
    BY <1>2 DEF DropFromCache, FindInv, ListedKnown
  <2>2. \A j \in Storers : storer'[j].list \subseteq storer[j].list
    BY <1>2 DEF DropFromCache, TypeInv, StoTypes, StorerTypes
  <2> QED
    BY <2>1, <2>2 DEF FindInv, OutdatedLost, ListedKnown, Findable, ReaderKnown, ThrowsJustified, Known
<1>3. ASSUME UNCHANGED <<fileCache, findex, putKeys, reader, outdated, lostKeys>>,
             \A j \in Storers : storer'[j].list \subseteq storer[j].list
      PROVE  FindInv'
  BY <1>3 DEF FindInv, OutdatedLost, ListedKnown, Findable, ReaderKnown, ThrowsJustified, Known
<1>4. CASE ResetSum(i) \/ ChooseFile(i) \/ MapValue(i) \/ CopyValue(i) \/ EndWalk(i)
           \/ StoreEnds(i) \/ CountFiles(i) \/ \E k \in Keys : NextEntry(i, k)
  <2> USE DEF TypeInv, StoTypes, StorerTypes
  <2>1. CASE ResetSum(i)
    BY <1>3, <2>1 DEF ResetSum
  <2>2. CASE ChooseFile(i)
    BY <1>3, <2>2 DEF ChooseFile
  <2>3. CASE MapValue(i)
    BY <1>3, <2>3 DEF MapValue
  <2>4. CASE CopyValue(i)
    BY <1>3, <2>4 DEF CopyValue
  <2>5. CASE EndWalk(i)
    BY <1>3, <2>5 DEF EndWalk
  <2>6. CASE StoreEnds(i)
    BY <1>3, <2>6 DEF StoreEnds, StoreIdle
  <2>7. CASE CountFiles(i)
    BY <1>3, <2>7 DEF CountFiles, StoreIdle
  <2>8. ASSUME NEW k \in Keys, NextEntry(i, k) PROVE FindInv'
    BY <1>3, <2>8 DEF NextEntry
  <2> QED
    BY <1>4, <2>1, <2>2, <2>3, <2>4, <2>5, <2>6, <2>7, <2>8
<1> QED
  BY <1>1, <1>2, <1>4 DEF StoreStep

LEMMA DeleteKeepsFind ==
    ASSUME TypeInv, FindInv, DeleteStep
    PROVE  FindInv'
<1> USE DEF mem, file, ctl, del, past
<1>1. ASSUME NEW f \in Names, DeleteFile(f) PROVE FindInv'
  <2>1. UNCHANGED <<findex, fileCache, storer, putKeys, reader>> /\ lostKeys \subseteq lostKeys'
    BY <1>1 DEF DeleteFile
  <2>2. \A k \in Keys : findex[k] # None /\ findex[k].fileid = f => k \in lostKeys'
    BY <1>1 DEF DeleteFile, In
  <2>3. OutdatedLost' /\ ListedKnown'
    BY <1>1, <2>1, <2>2 DEF DeleteFile, FindInv, OutdatedLost, ListedKnown, Known
  <2> QED
    BY <2>1, <2>3, KnownKept DEF FindInv, Known
<1>2. ASSUME NEW ks \in SUBSET Outdated, findex' = Without(ks), outdated' \subseteq outdated,
             UNCHANGED <<fileCache, storer, putKeys, reader, lostKeys>>
      PROVE  FindInv'
  <2>1. \A k \in Keys : k \in ks => k \in lostKeys
    BY DEF Outdated, FindInv, OutdatedLost
  <2>2. \A k \in Keys : findex'[k] = IF k \in ks THEN None ELSE findex[k]
    BY <1>2 DEF Without
  <2>3. \A k \in Keys : Known(k) => Known(k)'
    BY <1>2, <2>1, <2>2 DEF Known
  <2>4. OutdatedLost'
    BY <1>2, <2>2 DEF FindInv, OutdatedLost
  <2>5. ListedKnown'
    BY <1>2, <2>3 DEF FindInv, ListedKnown, TypeInv, StoTypes, StorerTypes
  <2> QED
    BY <1>2, <2>3, <2>4, <2>5, KnownKept DEF FindInv
<1>3. CASE DeleteEntries
  <2>1. Outdated \in SUBSET Outdated /\ findex' = Without(Outdated) /\ outdated' \subseteq outdated
    BY <1>3 DEF DeleteEntries
  <2> QED
    BY <1>2, <1>3, <2>1 DEF DeleteEntries
<1>4. CASE DeleterDies
  BY <1>2, <1>4 DEF DeleterDies
<1> QED
  BY <1>1, <1>3, <1>4 DEF DeleteStep

LEMMA ReadKeepsFind ==
    ASSUME TypeInv, FindInv, NEW r \in Readers, ReadStep(r) \/ \E k \in Keys : GetCache(r, k)
    PROVE  FindInv'
<1> USE DEF mem, file, ctl, del, past, TypeInv, ReadTypes, ReaderTypes
<1>1. OutdatedLost' /\ ListedKnown' /\ Findable'
  BY DEF ReadStep, GetCache, GetIndex, GetDone, FindInv, OutdatedLost, ListedKnown, Findable, Known
<1>2. ASSUME NEW k \in Keys, GetCache(r, k) PROVE ReaderKnown' /\ ThrowsJustified'
  <2>1. \A q \in Readers \ {r} : reader'[q] = reader[q]
    BY <1>2 DEF GetCache
  <2>2. /\ reader'[r].at = "index" => k \notin fileCache
        /\ reader'[r].key = k /\ reader'[r].was = (k \in putKeys) /\ reader'[r].answer # "throws"
    BY <1>2 DEF GetCache
  <2>3. UNCHANGED <<findex, lostKeys>>
    BY <1>2 DEF GetCache
  <2>4. \A q \in Readers : reader'[q].at = "index" /\ reader'[q].was => Known(reader'[q].key)
    BY <2>1, <2>2 DEF FindInv, ReaderKnown, Findable, Known
  <2>5. ReaderKnown'
    BY <2>3, <2>4 DEF ReaderKnown, Known
  <2>6. ThrowsJustified'
    BY <2>1, <2>2, <2>3 DEF FindInv, ThrowsJustified
  <2> QED
    BY <2>5, <2>6
<1>3. ASSUME GetIndex(r) PROVE ReaderKnown' /\ ThrowsJustified'
  <2>1. \A q \in Readers \ {r} : reader'[q] = reader[q]
    BY <1>3 DEF GetIndex
  <2>2. /\ reader'[r].at = "done" /\ reader'[r].key = reader[r].key /\ reader'[r].was = reader[r].was
        /\ reader'[r].answer = "throws" => reader'[r].raced \/ findex[reader[r].key] = None
    BY <1>3 DEF GetIndex, Answer, ReadFile
  <2>3. reader[r].at = "index" /\ UNCHANGED <<findex, lostKeys>>
    BY <1>3 DEF GetIndex
  <2>4. ReaderKnown'
    BY <2>1, <2>2, <2>3 DEF FindInv, ReaderKnown, Known
  <2>5. reader'[r].answer = "throws" => ~reader'[r].was \/ reader'[r].raced \/ reader'[r].key \in lostKeys'
    BY <2>2, <2>3 DEF FindInv, ReaderKnown, Known
  <2>6. ThrowsJustified'
    BY <2>1, <2>3, <2>5 DEF FindInv, ThrowsJustified
  <2> QED
    BY <2>4, <2>6
<1>4. ASSUME GetDone(r) PROVE ReaderKnown' /\ ThrowsJustified'
  BY <1>4 DEF GetDone, ReadIdle, FindInv, ReaderKnown, ThrowsJustified, Known
<1> QED
  BY <1>1, <1>2, <1>3, <1>4 DEF ReadStep, FindInv

LEMMA FindInductive ==
    ASSUME TypeInv, AgeInv, FindInv, [StoreNext]_storeVars
    PROVE  FindInv'
<1>1. CASE UNCHANGED storeVars
  BY <1>1 DEF FindInv, OutdatedLost, ListedKnown, Findable, ReaderKnown, ThrowsJustified, Known,
              storeVars, mem, file, ctl, del, past
<1>2. CASE StoreNext
  BY <1>2, PutKeepsFind, StoreKeepsFind, DeleteKeepsFind, ReadKeepsFind DEF StoreNext, StoreRuns
<1> QED
  BY <1>1, <1>2

LEMMA FindHolds == StoreSpec => []FindInv
BY InitTypes, TypesInductive, InitAge, AgeInductive, InitFind, FindInductive, PTL DEF StoreSpec

(* However many threads put, store, delete and read at once, a key that was *)
(* put is in the cache or in the index until its file is deleted or a race  *)
(* between two storing threads loses its entry: the entry is published      *)
(* before the value leaves the cache.                                       *)
THEOREM AlwaysFindable == StoreSpec => []Findable
<1>1. FindInv => Findable
  BY DEF FindInv
<1> QED
  BY <1>1, FindHolds, PTL

(* get throws only for keys that were not there, were given up, or were     *)
(* overlooked in the map while it was written, for any number of readers.   *)
THEOREM ThrowsOnlyJustified == StoreSpec => []ThrowsJustified
<1>1. FindInv => ThrowsJustified
  BY DEF FindInv
<1> QED
  BY <1>1, FindHolds, PTL

-----------------------------------------------------------------------------
(* Why an entry points at its value.  While storing threads do not overlap, *)
(* the one that stores writes to the current file, and the position it      *)
(* carries along is that file's end, or the beginning of the value it has   *)
(* just written there.                                                      *)
Written == Contents(Current)
Appends(s) ==
    /\ s.at \in {"walk", "write", "copy", "index", "drop"} => s.name = dataFile
    /\ s.at \in {"walk", "write", "copy"} => s.position = Len(Written)
    /\ s.at = "copy" => s.tail = s.position
    /\ s.at = "index" =>
         /\ s.position + LenOf[s.key] = Len(Written)
         /\ \A n \in s.position + 1 .. Len(Written) : Written[n] = s.key
StoresAlone == ~overlapped => OneStorer /\ \A i \in Storers : Appends(storer[i])

LEMMA InitAlone == StoreInit => StoresAlone /\ IndexTruthful
BY DEF StoreInit, StoresAlone, OneStorer, Storing, Appends, StoreIdle, IndexTruthful

(* A step of a storing thread that leaves the files alone.                  *)
LEMMA AloneStep ==
    ASSUME TypeInv, StoresAlone, NEW i \in Storers, NEW s, UNCHANGED <<disk, dataFile, overlapped>>,
           storer' = [storer EXCEPT ![i] = s], Storing(i), ~overlapped => Appends(s)
    PROVE  StoresAlone'
<1>1. \A j \in Storers : storer'[j] = IF j = i THEN s ELSE storer[j]
  BY DEF TypeInv, StoTypes
<1>2. Written' = Written
  BY DEF Written, Contents, Current
<1>3. ~overlapped' => OneStorer'
  BY <1>1 DEF StoresAlone, OneStorer, Storing
<1>4. ASSUME ~overlapped', NEW j \in Storers PROVE Appends(storer[j])'
  BY <1>1, <1>2, <1>4 DEF StoresAlone, Appends
<1> QED
  BY <1>3, <1>4 DEF StoresAlone

(* A value that is copied to the end of its file lengthens that file by     *)
(* itself and leaves the rest, and other files, as they were.               *)
LEMMA CopyAppends ==
    ASSUME TypeInv, NEW i \in Storers, CopyValue(i),
           NEW path, path = Path(DataDir, storer[i].name), NEW k, k = storer[i].key,
           storer[i].tail = Len(Contents(path))
    PROVE  /\ Len(Contents(path)') = Len(Contents(path)) + LenOf[k]
           /\ \A n \in 1 .. Len(Contents(path)) : Contents(path)'[n] = Contents(path)[n]
           /\ \A n \in Len(Contents(path)) + 1 .. Len(Contents(path)') : Contents(path)'[n] = k
           /\ \A q : q # path => Contents(q)' = Contents(q)
<1>1. PICK old : old = Contents(path)
  OBVIOUS
<1>2. PICK m : m = Len(old)
  OBVIOUS
<1>3. PICK l : l = LenOf[k]
  OBVIOUS
<1>4. k \in Keys /\ l \in Nat /\ old \in Seq(Keys) /\ m \in Nat
  BY <1>1, <1>2, <1>3, ContentsAreSeq, LengthsAssumption DEF TypeInv, HasKey, CopyValue
<1>5. PICK more : more = [n \in 1 .. m + l |-> IF n \in m + 1 .. m + l THEN k ELSE old[n]]
  OBVIOUS
<1>6. DOMAIN old \cup (m + 1 .. m + l) = 1 .. m + l
  <2>1. DOMAIN old = 1 .. m
    BY <1>2, <1>4
  <2>2. (1 .. m) \cup (m + 1 .. m + l) = 1 .. m + l
    BY <1>4
  <2> QED
    BY <2>1, <2>2
<1>7. disk' = [q \in DOMAIN disk \cup {path} |-> IF q = path THEN more ELSE disk[q]]
  BY <1>1, <1>2, <1>3, <1>5, <1>6 DEF CopyValue
<1>8. more \in [1 .. m + l -> Keys]
  <2>1. \A n \in 1 .. m + l : n \in m + 1 .. m + l \/ (n \in 1 .. m /\ old[n] \in Keys)
    BY <1>2, <1>4
  <2> QED
    BY <1>4, <1>5, <2>1
<1>9. Len(more) = m + l
  BY <1>4, <1>8, FunctionIsSeq
<1>10. Contents(path)' = more /\ \A q : q # path => Contents(q)' = Contents(q)
  BY <1>7 DEF Contents
<1>11. \A n \in 1 .. m : more[n] = old[n]
  BY <1>4, <1>5
<1>12. \A n \in m + 1 .. m + l : more[n] = k
  BY <1>4, <1>5
<1> QED
  BY <1>1, <1>2, <1>3, <1>9, <1>10, <1>11, <1>12

(* What a storing thread's steps other than the copy and the publishing do. *)
LEMMA StoreKeepsAlone ==
    ASSUME TypeInv, StoresAlone, NEW i \in Storers, StoreStep(i), ~CopyValue(i)
    PROVE  StoresAlone'
<1> USE DEF mem, file, ctl, del, past
<1>0. storer[i] \in StorerTypes
  BY DEF TypeInv, StoTypes
<1>1. CASE ResetSum(i)
  <2>1. PICK s : s = [storer[i] EXCEPT !.at = "file"]
    OBVIOUS
  <2>2. s.at = "file"
    BY <1>0, <2>1 DEF StorerTypes
  <2> QED
    BY <1>1, <2>1, <2>2, AloneStep DEF ResetSum, Storing, Appends
<1>2. CASE ChooseFile(i)
  <2>1. PICK s : s = [storer[i] EXCEPT !.at = "walk", !.todo = fileCache, !.name = dataFile',
                                       !.position = Len(Contents(Path(DataDir, dataFile')))]
    OBVIOUS
  <2>2. s.at = "walk" /\ s.name = dataFile' /\ s.position = Len(Contents(Path(DataDir, dataFile')))
    BY <1>0, <2>1 DEF StorerTypes
  <2>3. storer' = [storer EXCEPT ![i] = s] /\ UNCHANGED <<disk, overlapped>> /\ storer[i].at = "file"
    BY <1>2, <2>1 DEF ChooseFile
  <2>4. \A j \in Storers : storer'[j] = IF j = i THEN s ELSE storer[j]
    BY <2>3 DEF TypeInv, StoTypes
  <2>5. s.position = Len(Written')
    BY <2>2, <2>3 DEF Written, Contents, Current
  <2>6. ~overlapped' => OneStorer'
    BY <2>3, <2>4 DEF StoresAlone, OneStorer, Storing
  <2>7. ASSUME ~overlapped', NEW j \in Storers PROVE Appends(storer[j])'
    <3>1. CASE j = i
      BY <2>2, <2>4, <2>5, <3>1 DEF Appends
    <3>2. CASE j # i
      <4>1. storer[j].at \in {"idle", "count"}
        BY <2>3, <2>7, <3>2 DEF StoresAlone, OneStorer, Storing
      <4> QED
        BY <2>4, <3>2, <4>1 DEF Appends
    <3> QED
      BY <3>1, <3>2
  <2> QED
    BY <2>6, <2>7 DEF StoresAlone
<1>3. CASE MapValue(i)
  <2>1. PICK s : s = [storer[i] EXCEPT !.at = "copy", !.tail = Len(Contents(Path(DataDir, storer[i].name)))]
    OBVIOUS
  <2>2. /\ s.at = "copy" /\ s.name = storer[i].name /\ s.position = storer[i].position
        /\ s.tail = Len(Contents(Path(DataDir, storer[i].name)))
    BY <1>0, <2>1 DEF StorerTypes
  <2>3. storer' = [storer EXCEPT ![i] = s] /\ storer[i].at = "write"
    BY <1>3, <2>1 DEF MapValue
  <2>4. ~overlapped => Appends(s)
    BY <2>2, <2>3 DEF StoresAlone, Appends, Written, Current
  <2> QED
    BY <1>3, <2>3, <2>4, AloneStep DEF MapValue, Storing
<1>4. CASE PublishIndex(i)
  <2>0. PICK k : k = storer[i].key
    OBVIOUS
  <2>1. PICK s : s = [storer[i] EXCEPT !.at = "walk", !.key = None, !.position = @ + LenOf[k],
                                       !.list = @ \cup {k}]
    OBVIOUS
  <2>2. s.at = "walk" /\ s.name = storer[i].name /\ s.position = storer[i].position + LenOf[k]
    BY <1>0, <2>1 DEF StorerTypes
  <2>3. storer' = [storer EXCEPT ![i] = s] /\ storer[i].at = "index"
    BY <1>4, <2>0, <2>1 DEF PublishIndex, PublishAs
  <2>4. ~overlapped => Appends(s)
    BY <2>0, <2>2, <2>3 DEF StoresAlone, Appends
  <2> QED
    BY <1>4, <2>3, <2>4, AloneStep DEF PublishIndex, PublishAs, Storing
<1>5. CASE EndWalk(i)
  <2>1. PICK s : s = [storer[i] EXCEPT !.at = "drop", !.todo = {}]
    OBVIOUS
  <2>2. s.at = "drop" /\ s.name = storer[i].name
    BY <1>0, <2>1 DEF StorerTypes
  <2>3. storer' = [storer EXCEPT ![i] = s] /\ storer[i].at = "walk"
    BY <1>5, <2>1 DEF EndWalk
  <2>4. ~overlapped => Appends(s)
    BY <2>2, <2>3 DEF StoresAlone, Appends
  <2> QED
    BY <1>5, <2>3, <2>4, AloneStep DEF EndWalk, Storing
<1>6. ASSUME NEW k \in Keys, NextEntry(i, k) PROVE StoresAlone'
  <2>1. PICK s : s = [storer[i] EXCEPT !.at = "write", !.key = k]
    OBVIOUS
  <2>2. s.at = "write" /\ s.name = storer[i].name /\ s.position = storer[i].position
    BY <1>0, <2>1 DEF StorerTypes
  <2>3. storer' = [storer EXCEPT ![i] = s] /\ storer[i].at = "walk"
    BY <1>6, <2>1 DEF NextEntry
  <2>4. ~overlapped => Appends(s)
    BY <2>2, <2>3 DEF StoresAlone, Appends
  <2> QED
    BY <1>6, <2>3, <2>4, AloneStep DEF NextEntry, Storing
<1>7. ASSUME NEW k \in Keys, DropFromCache(i, k) PROVE StoresAlone'
  <2>1. PICK s : s = [storer[i] EXCEPT !.list = @ \ {k}]
    OBVIOUS
  <2>2. s.at = storer[i].at /\ s.name = storer[i].name
    BY <1>0, <2>1 DEF StorerTypes
  <2>3. storer' = [storer EXCEPT ![i] = s] /\ storer[i].at = "drop"
    BY <1>7, <2>1 DEF DropFromCache
  <2>4. ~overlapped => Appends(s)
    BY <2>2, <2>3 DEF StoresAlone, Appends
  <2> QED
    BY <1>7, <2>3, <2>4, AloneStep DEF DropFromCache, Storing
<1>8. CASE StoreEnds(i)
  BY <1>8, AloneStep DEF StoreEnds, StoreIdle, Storing, Appends
<1>9. CASE CountFiles(i)
  <2>1. \A j \in Storers : storer'[j] = IF j = i THEN StoreIdle ELSE storer[j]
    BY <1>9 DEF CountFiles, TypeInv, StoTypes
  <2>2. UNCHANGED <<disk, dataFile, overlapped>> /\ Written' = Written
    BY <1>9 DEF CountFiles, Written, Contents, Current
  <2>3. ~overlapped' => OneStorer'
    BY <2>1, <2>2 DEF StoresAlone, OneStorer, Storing, StoreIdle
  <2>4. ASSUME ~overlapped', NEW j \in Storers PROVE Appends(storer[j])'
    BY <2>1, <2>2, <2>4 DEF StoresAlone, Appends, StoreIdle
  <2> QED
    BY <2>3, <2>4 DEF StoresAlone
<1> QED
  BY <1>1, <1>2, <1>3, <1>4, <1>5, <1>6, <1>7, <1>8, <1>9 DEF StoreStep

LEMMA CopyKeepsAlone ==
    ASSUME TypeInv, StoresAlone, IndexTruthful, NEW i \in Storers, CopyValue(i)
    PROVE  StoresAlone' /\ IndexTruthful'
<1>0. storer[i] \in StorerTypes
  BY DEF TypeInv, StoTypes
<1>1. UNCHANGED <<findex, dataFile, overlapped, outdated>> /\ storer[i].at = "copy"
  BY DEF CopyValue, mem, ctl, del, past
<1> SUFFICES ASSUME ~overlapped PROVE StoresAlone' /\ IndexTruthful'
  BY <1>1 DEF StoresAlone, IndexTruthful
<1>2. PICK path : path = Current
  OBVIOUS
<1>3. PICK k : k = storer[i].key
  OBVIOUS
<1>4. /\ path = Path(DataDir, storer[i].name) /\ storer[i].tail = Len(Contents(path))
      /\ storer[i].position = Len(Contents(path)) /\ storer[i].name = dataFile
  BY <1>1, <1>2 DEF StoresAlone, Appends, Written, Current
<1>5. /\ Len(Contents(path)') = Len(Contents(path)) + LenOf[k]
      /\ \A n \in 1 .. Len(Contents(path)) : Contents(path)'[n] = Contents(path)[n]
      /\ \A n \in Len(Contents(path)) + 1 .. Len(Contents(path)') : Contents(path)'[n] = k
      /\ \A q : q # path => Contents(q)' = Contents(q)
  BY <1>3, <1>4, CopyAppends
<1>6. Written' = Contents(path)' /\ Written = Contents(path)
  BY <1>1, <1>2 DEF Written, Current, Contents
<1>7. \A q : Contents(q) \in Seq(Keys) /\ Contents(q)' \in Seq(Keys)
  <2>1. DiskTypes /\ DiskTypes'
    BY CopyGrows DEF TypeInv
  <2>2. \A q : Contents(q) \in Seq(Keys)
    BY <2>1, ContentsAreSeq
  <2>3. \A q : Contents(q)' \in Seq(Keys)
    BY <2>1 DEF DiskTypes, Contents
  <2> QED
    BY <2>2, <2>3
<1>8. \A q : \A n \in DOMAIN Contents(q) :
        n \in DOMAIN Contents(q)' /\ Contents(q)'[n] = Contents(q)[n]
  <2> SUFFICES ASSUME NEW q, NEW n \in DOMAIN Contents(q)
               PROVE  n \in DOMAIN Contents(q)' /\ Contents(q)'[n] = Contents(q)[n]
    OBVIOUS
  <2>1. CASE q # path
    BY <1>5, <2>1
  <2>2. CASE q = path
    <3>1. n \in 1 .. Len(Contents(path)) /\ LenOf[k] \in Nat
      BY <1>0, <1>1, <1>3, <1>7, <2>2, LengthsAssumption DEF TypeInv, HasKey
    <3>2. n \in 1 .. Len(Contents(path)')
      BY <1>5, <1>7, <3>1
    <3> QED
      BY <1>5, <1>7, <2>2, <3>1, <3>2
  <2> QED
    BY <2>1, <2>2
<1>9. PICK s : s = [storer[i] EXCEPT !.at = "index", !.tail = 0]
  OBVIOUS
<1>10. /\ s.at = "index" /\ s.name = storer[i].name /\ s.position = storer[i].position
       /\ s.key = storer[i].key
  BY <1>0, <1>9 DEF StorerTypes
<1>11. \A j \in Storers : storer'[j] = IF j = i THEN s ELSE storer[j]
  BY <1>9 DEF CopyValue, TypeInv, StoTypes
<1>12. OneStorer'
  BY <1>1, <1>11 DEF StoresAlone, OneStorer, Storing
<1>13. ASSUME NEW j \in Storers PROVE Appends(storer[j])'
  <2>1. CASE j = i
    BY <1>1, <1>3, <1>4, <1>5, <1>6, <1>10, <1>11, <2>1 DEF Appends
  <2>2. CASE j # i
    <3>1. storer[j].at \in {"idle", "count"}
      BY <1>1, <2>2 DEF StoresAlone, OneStorer, Storing
    <3> QED
      BY <1>11, <2>2, <3>1 DEF Appends
  <2> QED
    BY <2>1, <2>2
<1>14. IndexTruthful'
  <2> SUFFICES ASSUME NEW j \in Keys, findex[j] # None, findex[j].fileid \notin outdated
               PROVE  findex[j].len = LenOf[j] /\ PointsAt(findex[j], j)'
    BY <1>1 DEF IndexTruthful, PointsAt
  <2>1. PICK e : e = findex[j]
    OBVIOUS
  <2>2. e.len = LenOf[j] /\ PointsAt(e, j)
    BY <2>1 DEF IndexTruthful
  <2>3. PointsAt(e, j)'
    BY <1>8, <2>2 DEF PointsAt
  <2>4. findex' = findex
    BY <1>1
  <2> QED
    BY <2>1, <2>2, <2>3, <2>4 DEF PointsAt
<1> QED
  BY <1>12, <1>13, <1>14 DEF StoresAlone

LEMMA IndexStep ==
    ASSUME TypeInv, StoresAlone, IndexTruthful, [StoreNext]_storeVars
    PROVE  StoresAlone' /\ IndexTruthful'
<1> USE DEF mem, file, ctl, del, past
<1>0. storer \in [Storers -> StorerTypes] /\ findex \in [Keys -> IndexEntries \cup {None}]
  BY DEF TypeInv, StoTypes, MemTypes
<1>a. ASSUME UNCHANGED <<storer, disk, dataFile, overlapped>> PROVE StoresAlone'
  BY <1>a DEF StoresAlone, OneStorer, Storing, Appends, Written, Contents, Current
<1>b. ASSUME UNCHANGED <<findex, disk, outdated, overlapped>> PROVE IndexTruthful'
  BY <1>b DEF IndexTruthful, PointsAt, Contents
(* Entries that are taken out.                                              *)
<1>c. ASSUME UNCHANGED <<disk, overlapped>>, NEW ks, findex' = Without(ks),
             \A k \in Keys \ ks : findex[k] # None /\ findex[k].fileid \notin outdated' =>
               findex[k].fileid \notin outdated
      PROVE  IndexTruthful'
  <2> SUFFICES ASSUME ~overlapped, NEW k \in Keys, findex'[k] # None, findex'[k].fileid \notin outdated'
               PROVE  findex'[k].len = LenOf[k] /\ PointsAt(findex[k], k)'
    BY <1>c DEF IndexTruthful
  <2>1. PICK e : e = findex[k]
    OBVIOUS
  <2>2. k \notin ks /\ findex'[k] = e
    BY <1>c, <2>1 DEF Without
  <2>3. e.len = LenOf[k] /\ PointsAt(e, k)
    BY <1>c, <2>1, <2>2 DEF IndexTruthful
  <2> QED
    BY <1>c, <2>2, <2>3 DEF PointsAt, Contents
<1>1. ASSUME NEW p \in Putters, PutStep(p) PROVE StoresAlone' /\ IndexTruthful'
  <2>1. CASE SumRead(p) \/ SumWrite(p) \/ TestRunning(p) \/ TestSum(p)
    BY <2>1, <1>a, <1>b DEF SumRead, SumWrite, TestRunning, TestSum
  <2>2. CASE StartStorer(p)
    <3>1. PICK s : s = [storer[p] EXCEPT !.at = "begin"]
      OBVIOUS
    <3>2. s.at = "begin"
      BY <1>0, <3>1 DEF StorerTypes, Storers
    <3>3. \A j \in Storers : storer'[j] = IF j = p THEN s ELSE storer[j]
      BY <1>0, <2>2, <3>1 DEF StartStorer, Storers
    <3>4. /\ UNCHANGED <<disk, dataFile, findex, outdated>> /\ Written' = Written
          /\ overlapped' = (overlapped \/ \E i \in Storers : Storing(i))
      BY <2>2 DEF StartStorer, Written, Contents, Current
    <3>5. ~overlapped' => OneStorer'
      BY <3>3, <3>4 DEF OneStorer, Storing
    <3>6. ASSUME ~overlapped', NEW j \in Storers PROVE Appends(storer[j])'
      BY <3>2, <3>3, <3>4, <3>6 DEF StoresAlone, Appends
    <3>7. IndexTruthful'
      BY <3>4 DEF IndexTruthful, PointsAt, Contents
    <3> QED
      BY <3>5, <3>6, <3>7 DEF StoresAlone
  <2> QED
    BY <1>1, <2>1, <2>2 DEF PutStep
<1>2. ASSUME NEW i \in Storers, StoreStep(i) PROVE StoresAlone' /\ IndexTruthful'
  <2>1. CASE CopyValue(i)
    BY <2>1, CopyKeepsAlone
  <2>2. CASE ~CopyValue(i)
    <3>1. StoresAlone'
      BY <1>2, <2>2, StoreKeepsAlone
    <3>2. CASE PublishIndex(i)
      <4>1. UNCHANGED <<disk, dataFile, outdated, overlapped>>
        BY <3>2 DEF PublishIndex, PublishAs
      <4> SUFFICES ASSUME ~overlapped, NEW k \in Keys, findex'[k] # None, findex'[k].fileid \notin outdated
                   PROVE  findex'[k].len = LenOf[k] /\ PointsAt(findex[k], k)'
        BY <3>1, <4>1 DEF IndexTruthful
      <4>2. PICK e : e = findex'[k]
        OBVIOUS
      <4>3. CASE findex'[k] = findex[k]
        <5>1. e.len = LenOf[k] /\ PointsAt(e, k)
          BY <4>2, <4>3 DEF IndexTruthful
        <5> QED
          BY <4>1, <4>2, <5>1 DEF PointsAt, Contents
      <4>4. CASE findex'[k] # findex[k]
        <5>1. k = storer[i].key
          BY <1>0, <3>2, <4>4 DEF PublishIndex, PublishAs
        <5>2. e = [fileid |-> dataFile, position |-> storer[i].position, len |-> LenOf[k]]
          BY <1>0, <3>2, <4>2, <4>4, <5>1 DEF PublishIndex, PublishAs
        <5>3. e.fileid = dataFile /\ e.position = storer[i].position /\ e.len = LenOf[k]
          BY <5>2
        <5>4. /\ storer[i].position + LenOf[k] = Len(Written)
              /\ \A n \in storer[i].position + 1 .. Len(Written) : Written[n] = k
          BY <3>2, <5>1 DEF PublishIndex, PublishAs, StoresAlone, Appends
        <5>5. Written = Contents(Path(DataDir, e.fileid)) /\ Written \in Seq(Keys) /\ storer[i].position \in Nat
          BY <1>0, <5>3, ContentsAreSeq DEF Written, Current, TypeInv, StorerTypes
        <5>6. \A n \in e.position + 1 .. e.position + e.len : n \in DOMAIN Written /\ Written[n] = k
          BY <5>3, <5>4, <5>5
        <5>7. PointsAt(e, k)
          BY <5>5, <5>6 DEF PointsAt
        <5> QED
          BY <4>1, <4>2, <5>3, <5>7 DEF PointsAt, Contents
      <4> QED
        BY <4>3, <4>4
    <3>3. CASE ~PublishIndex(i)
      BY <1>2, <2>2, <3>1, <3>3, <1>b DEF StoreStep, ResetSum, ChooseFile, MapValue, EndWalk, StoreEnds,
         CountFiles, NextEntry, DropFromCache
    <3> QED
      BY <3>1, <3>2, <3>3
  <2> QED
    BY <2>1, <2>2
<1>3. CASE DeleteEntries
  <2>1. StoresAlone'
    BY <1>3, <1>a DEF DeleteEntries
  <2>2. IndexTruthful'
    BY <1>3, <1>c DEF DeleteEntries, Outdated
  <2> QED
    BY <2>1, <2>2
<1>4. CASE DeleterDies
  <2>1. StoresAlone'
    BY <1>4, <1>a DEF DeleterDies
  <2>2. IndexTruthful'
    BY <1>4, <1>c DEF DeleterDies
  <2> QED
    BY <2>1, <2>2
<1>5. ASSUME NEW f \in Names, DeleteFile(f) PROVE StoresAlone' /\ IndexTruthful'
  <2>1. UNCHANGED <<findex, storer, dataFile, overlapped>> /\ outdated' = outdated \cup {f} /\ f # dataFile
    BY <1>5 DEF DeleteFile
  <2>2. \A q : q # Path(DataDir, f) => Contents(q)' = Contents(q)
    BY <1>5 DEF DeleteFile, Contents, Restrict
  <2>3. Written' = Written
    BY <2>1, <2>2 DEF Written, Current, Path
  <2>4. StoresAlone'
    BY <2>1, <2>3 DEF StoresAlone, OneStorer, Storing, Appends
  <2>5. ASSUME ~overlapped, NEW k \in Keys, findex[k] # None, findex[k].fileid \notin outdated'
        PROVE  findex[k].len = LenOf[k] /\ PointsAt(findex[k], k)'
    <3>1. PICK e : e = findex[k]
      OBVIOUS
    <3>2. e.len = LenOf[k] /\ PointsAt(e, k) /\ e.fileid # f /\ findex'[k] = e
      BY <2>1, <2>5, <3>1 DEF IndexTruthful
    <3>3. Contents(Path(DataDir, e.fileid))' = Contents(Path(DataDir, e.fileid))
      BY <2>2, <3>2 DEF Path
    <3> QED
      BY <3>1, <3>2, <3>3 DEF PointsAt
  <2> QED
    BY <2>1, <2>4, <2>5 DEF IndexTruthful
<1>6. ASSUME NEW r \in Readers, ReadStep(r) PROVE StoresAlone' /\ IndexTruthful'
  BY <1>6, <1>a, <1>b DEF ReadStep, GetIndex, GetDone
<1>7. ASSUME NEW k \in Keys, NEW p \in Putters, PutCache(p, k) PROVE StoresAlone' /\ IndexTruthful'
  BY <1>7, <1>a, <1>b DEF PutCache
<1>8. ASSUME NEW k \in Keys, NEW r \in Readers, GetCache(r, k) PROVE StoresAlone' /\ IndexTruthful'
  BY <1>8, <1>a, <1>b DEF GetCache
<1>9. CASE UNCHANGED storeVars
  BY <1>9, <1>a, <1>b DEF storeVars
<1> QED
  BY <1>1, <1>2, <1>3, <1>4, <1>5, <1>6, <1>7, <1>8, <1>9 DEF StoreNext, StoreRuns, DeleteStep

(* Through any number of puts, files begun and files deleted, every entry   *)
(* of the index points to exactly the bytes of its key, as long as no two   *)
(* storing threads ran at once: the position each carries along by adding   *)
(* lengths is where the value was mapped.                                   *)
THEOREM IndexIsTruthful == StoreSpec => []IndexTruthful
BY InitTypes, TypesInductive, InitAlone, IndexStep, PTL DEF StoreSpec
=============================================================================
