--------------------------- MODULE FileMemoryData ---------------------------
(***************************************************************************)
(* FileStore.FileMemoryData, the write-behind store of packets that left   *)
(* memory: put fills a cache, and once enough has come a storing thread    *)
(* appends the cached values to a file, publishes where each of them lies  *)
(* in an index and only then drops them from the cache; old files are      *)
(* deleted.  A get looks in the cache, then in the index, then in the      *)
(* file.  Values are byte arrays, as ClientManager stores them, and each   *)
(* key is put once: a file is a sequence of cells that name their key.     *)
(***************************************************************************)
EXTENDS Integers, Sequences, FiniteSets, Functions

CONSTANTS Keys,
          LenOf,      \* key -> length of its value, in cells
          Putters, Readers,
          StoreAt,    \* cached data that starts a storing thread (10 MB)
          FileMax,    \* length at which another file is begun (1 GB)
          KeepFiles,  \* files beyond which old ones are deleted (10)
          MaxFiles,   \* bound: files begun
          DataDir, WorkDir,  \* where files are written, and where get looks
          None        \* no index entry, no key, no answer

ASSUME LengthsAssumption == LenOf \in [Keys -> Nat \ {0}]
ASSUME StoreNumbersAssumption == StoreAt \in Nat /\ FileMax \in Nat /\ KeepFiles \in Nat /\ MaxFiles \in Nat \ {0}
ASSUME NoneAssumption == None \notin Keys \cup [fileid : Nat, position : Nat, len : Nat]
ASSUME PathsAssumption == DataDir # WorkDir

VARIABLES
    fileCache,     \* FileMemoryData.cache: keys whose value is in memory
    findex,        \* key -> [fileid, position, len], or None
    disk,          \* path -> cells, for the files that exist
    dataFile,      \* the file that is written
    sum,           \* data put since a storing thread started
    isRunning,     \* a storing thread is at work
    putter,        \* putting thread -> [at, key, old]
    storer,        \* storing thread -> [at, todo, key, name, position, tail, list]
    deleter,       \* the deleting thread: "none", "runs" or "dead"
    outdated,      \* names of deleted files whose entries are to go
    reader,        \* reading thread -> [at, key, answer]
    putKeys,       \* history: keys that were put
    lostKeys,      \* history: keys whose file was deleted, or whose index entry lost a race
    overlapped     \* history: a storing thread started while another was storing

mem    == <<fileCache, findex>>
file   == <<disk, dataFile>>
ctl    == <<sum, isRunning>>
del    == <<deleter, outdated>>
past   == <<putKeys, lostKeys, overlapped>>
storeVars == <<mem, file, ctl, putter, storer, del, reader, past>>

(* A storing thread is named for the putter that starts it. *)
Storers == Putters
Names   == 1 .. MaxFiles
Path(dir, name) == <<dir, name>>
PutIdle   == [at |-> "idle", key |-> None, old |-> 0]
StoreIdle == [at |-> "idle", todo |-> {}, key |-> None, name |-> 0, position |-> 0,
              tail |-> 0, list |-> {}]
ReadIdle  == [at |-> "idle", key |-> None, answer |-> "none", was |-> FALSE, raced |-> FALSE]

StoreInit ==
    /\ fileCache = {} /\ findex = [k \in Keys |-> None]
    /\ disk = << >> /\ dataFile = 1
    /\ sum = 0 /\ isRunning = FALSE
    /\ putter = [p \in Putters |-> PutIdle] /\ storer = [i \in Storers |-> StoreIdle]
    /\ deleter = "none" /\ outdated = {}
    /\ reader = [r \in Readers |-> ReadIdle]
    /\ putKeys = {} /\ lostKeys = {} /\ overlapped = FALSE

Contents(path) == IF path \in DOMAIN disk THEN disk[path] ELSE <<>>
Current == Path(DataDir, dataFile)

-----------------------------------------------------------------------------
(* put: the cache, the running sum (a volatile that is read and written),   *)
(* and the start of a storing thread if none runs and enough has come.      *)

PutCache(p, k) ==
    /\ putter[p].at = "idle" /\ k \notin putKeys
    /\ fileCache' = fileCache \cup {k}
    /\ putKeys' = putKeys \cup {k}
    /\ putter' = [putter EXCEPT ![p] = [at |-> "sum", key |-> k, old |-> 0]]
    /\ UNCHANGED <<findex, file, ctl, storer, del, reader, lostKeys, overlapped>>

SumRead(p) ==
    /\ putter[p].at = "sum"
    /\ putter' = [putter EXCEPT ![p].at = "add", ![p].old = sum]
    /\ UNCHANGED <<mem, file, ctl, storer, del, reader, past>>

SumWrite(p) ==
    /\ putter[p].at = "add"
    /\ sum' = putter[p].old + LenOf[putter[p].key]
    /\ putter' = [putter EXCEPT ![p] = [PutIdle EXCEPT !.at = "running"]]
    /\ UNCHANGED <<mem, file, isRunning, storer, del, reader, past>>

TestRunning(p) ==
    /\ putter[p].at = "running"
    /\ putter' = [putter EXCEPT ![p].at = IF isRunning THEN "idle" ELSE "enough"]
    /\ UNCHANGED <<mem, file, ctl, storer, del, reader, past>>

TestSum(p) ==
    /\ putter[p].at = "enough"
    /\ putter' = [putter EXCEPT ![p].at = IF sum < StoreAt THEN "idle" ELSE "start"]
    /\ UNCHANGED <<mem, file, ctl, storer, del, reader, past>>

Storing(i) == storer[i].at \notin {"idle", "count"}

StartStorer(p) ==
    /\ putter[p].at = "start" /\ storer[p].at = "idle"
    /\ isRunning' = TRUE
    /\ putter' = [putter EXCEPT ![p] = PutIdle]
    /\ storer' = [storer EXCEPT ![p].at = "begin"]
    /\ overlapped' = (overlapped \/ \E i \in Storers : Storing(i))
    /\ UNCHANGED <<mem, file, sum, del, reader, putKeys, lostKeys>>

-----------------------------------------------------------------------------
(* The storing thread.  Compaction never marks a file as being modified,    *)
(* since isModifyFile stays false.                                          *)

SlipSubtracts(i) ==
    /\ storer[i].at = "begin"
    /\ sum' = sum - StoreAt
    /\ storer' = [storer EXCEPT ![i].at = "file"]
    /\ UNCHANGED <<mem, file, isRunning, putter, del, reader, past>>

ResetSum(i) ==
    /\ storer[i].at = "begin"
    /\ sum' = 0
    /\ storer' = [storer EXCEPT ![i].at = "file"]
    /\ UNCHANGED <<mem, file, isRunning, putter, del, reader, past>>

(* A full file gives way to another before the thread writes to it. *)
ChooseFile(i) ==
    /\ storer[i].at = "file"
    /\ dataFile' = IF Len(Contents(Current)) >= FileMax THEN dataFile + 1 ELSE dataFile
    /\ dataFile' \in Names
    /\ storer' = [storer EXCEPT ![i].at = "walk", ![i].todo = fileCache, ![i].name = dataFile',
                                ![i].position = Len(Contents(Path(DataDir, dataFile')))]
    /\ UNCHANGED <<mem, disk, ctl, putter, del, reader, past>>

(* The walk over the cache meets what was there at its start, and perhaps   *)
(* what came since.                                                         *)
NextEntry(i, k) ==
    /\ storer[i].at = "walk"
    /\ k \in fileCache \ storer[i].list
    /\ storer' = [storer EXCEPT ![i].at = "write", ![i].key = k]
    /\ UNCHANGED <<mem, file, ctl, putter, del, reader, past>>

(* The value is mapped to what is the end of the file when that is asked    *)
(* for, and copied there.                                                   *)
MapValue(i) ==
    /\ storer[i].at = "write"
    /\ storer' = [storer EXCEPT ![i].at = "copy", ![i].tail = Len(Contents(Path(DataDir, storer[i].name)))]
    /\ UNCHANGED <<mem, file, ctl, putter, del, reader, past>>

CopyValue(i) ==
    LET path == Path(DataDir, storer[i].name)
        k    == storer[i].key
        old  == Contents(path)
        new  == storer[i].tail + 1 .. storer[i].tail + LenOf[k]
    IN /\ storer[i].at = "copy"
       /\ disk' = [q \in DOMAIN disk \cup {path} |->
                     IF q = path THEN [n \in DOMAIN old \cup new |-> IF n \in new THEN k ELSE old[n]]
                     ELSE disk[q]]
       /\ storer' = [storer EXCEPT ![i].at = "index", ![i].tail = 0]
       /\ UNCHANGED <<mem, dataFile, ctl, putter, del, reader, past>>

PublishAs(i, position) ==
    LET k == storer[i].key IN
    /\ storer[i].at = "index"
    /\ \/ /\ findex' = [findex EXCEPT ![k] = [fileid |-> dataFile, position |-> position, len |-> LenOf[k]]]
          /\ UNCHANGED lostKeys
       \/ /\ \E j \in Storers \ {i} : storer[j].at = "index"
          /\ lostKeys' = lostKeys \cup {k}
          /\ UNCHANGED findex
    /\ storer' = [storer EXCEPT ![i].at = "walk", ![i].key = None, ![i].position = @ + LenOf[k],
                                ![i].list = @ \cup {k}]
    /\ UNCHANGED <<fileCache, file, ctl, putter, del, reader, putKeys, overlapped>>

SlipPositionAfter(i) == PublishAs(i, storer[i].position + LenOf[storer[i].key])

(* findex is a HashMap without a lock: of two puts at once one may be lost. *)
PublishIndex(i) == PublishAs(i, storer[i].position)

SlipDropsAll(i) ==
    /\ storer[i].at = "walk" /\ storer[i].todo \cap fileCache \subseteq storer[i].list
    /\ storer' = [storer EXCEPT ![i].at = "drop", ![i].todo = {}, ![i].list = fileCache]
    /\ UNCHANGED <<mem, file, ctl, putter, del, reader, past>>

EndWalk(i) ==
    /\ storer[i].at = "walk" /\ storer[i].todo \cap fileCache \subseteq storer[i].list
    /\ storer' = [storer EXCEPT ![i].at = "drop", ![i].todo = {}]
    /\ UNCHANGED <<mem, file, ctl, putter, del, reader, past>>

(* The values that were written leave the cache one by one. *)
DropFromCache(i, k) ==
    /\ storer[i].at = "drop" /\ k \in storer[i].list
    /\ fileCache' = fileCache \ {k}
    /\ storer' = [storer EXCEPT ![i].list = @ \ {k}]
    /\ UNCHANGED <<findex, file, ctl, putter, del, reader, past>>

StoreEnds(i) ==
    /\ storer[i].at = "drop" /\ storer[i].list = {}
    /\ isRunning' = FALSE
    /\ storer' = [storer EXCEPT ![i] = [StoreIdle EXCEPT !.at = "count"]]
    /\ UNCHANGED <<mem, file, sum, putter, del, reader, past>>

(* With more than ten files a deleting thread is started, if none runs. *)
CountFiles(i) ==
    /\ storer[i].at = "count"
    /\ storer' = [storer EXCEPT ![i] = StoreIdle]
    /\ deleter' = IF deleter = "none" /\ Cardinality(DOMAIN disk) > KeepFiles THEN "runs" ELSE deleter
    /\ UNCHANGED <<mem, file, ctl, putter, outdated, reader, past>>

-----------------------------------------------------------------------------
(* fileDelete: files made and last written over ten minutes ago, which the  *)
(* current one is not; then the entries that point into them.               *)

In(f, k) == \/ \E n \in DOMAIN Contents(Path(DataDir, f)) : Contents(Path(DataDir, f))[n] = k
            \/ findex[k] # None /\ findex[k].fileid = f

DeleteFile(f) ==
    /\ deleter = "runs"
    /\ f # dataFile /\ Path(DataDir, f) \in DOMAIN disk
    /\ \A i \in Storers : storer[i].name # f
    /\ lostKeys' = lostKeys \cup {k \in Keys : In(f, k)}
    /\ disk' = Restrict(disk, DOMAIN disk \ {Path(DataDir, f)})
    /\ outdated' = outdated \cup {f}
    /\ UNCHANGED <<mem, dataFile, ctl, putter, storer, deleter, reader, putKeys, overlapped>>

Outdated == {k \in Keys : findex[k] # None /\ findex[k].fileid \in outdated}
Without(ks) == [k \in Keys |-> IF k \in ks THEN None ELSE findex[k]]

DeleteEntries ==
    /\ deleter = "runs"
    /\ findex' = Without(Outdated)
    /\ deleter' = "none" /\ outdated' = {}
    /\ UNCHANGED <<fileCache, file, ctl, putter, storer, reader, past>>

(* A put during the walk over the index ends the thread with an exception,  *)
(* and isDeleteRunning stays true: no file is deleted any more.             *)
DeleterDies ==
    /\ deleter = "runs" /\ outdated # {}
    /\ \E i \in Storers : storer[i].at = "index"
    /\ \E ks \in SUBSET Outdated : findex' = Without(ks)
    /\ deleter' = "dead"
    /\ UNCHANGED <<fileCache, file, ctl, putter, storer, outdated, reader, past>>

-----------------------------------------------------------------------------
(* get.  The path lacks the directory, so no file is found; and a value     *)
(* that was read would be deserialised, which the bytes of a packet do not  *)
(* stand: from the file get answers null.                                   *)

ReadFile(path) == IF path \in DOMAIN disk THEN "undecodable" ELSE "null"

GetCache(r, k) ==
    /\ reader[r].at = "idle"
    /\ reader' = [reader EXCEPT ![r] =
                    [at |-> IF k \in fileCache THEN "done" ELSE "index", key |-> k,
                     answer |-> IF k \in fileCache THEN "value" ELSE "none", was |-> k \in putKeys,
                     raced |-> FALSE]]
    /\ UNCHANGED <<mem, file, ctl, putter, storer, del, past>>

Answer(e) == IF e = None THEN "throws" ELSE ReadFile(Path(WorkDir, e.fileid))

(* While an entry is put into the unsynchronised map, and moves the others, *)
(* any other may be overlooked.                                             *)
GetIndex(r) ==
    LET e == findex[reader[r].key] IN
    /\ reader[r].at = "index"
    /\ \/ reader' = [reader EXCEPT ![r].at = "done", ![r].answer = Answer(e)]
       \/ /\ e # None /\ \E i \in Storers : storer[i].at = "index"
          /\ reader' = [reader EXCEPT ![r].at = "done", ![r].answer = Answer(None), ![r].raced = TRUE]
    /\ UNCHANGED <<mem, file, ctl, putter, storer, del, past>>

GetDone(r) ==
    /\ reader[r].at = "done"
    /\ reader' = [reader EXCEPT ![r] = ReadIdle]
    /\ UNCHANGED <<mem, file, ctl, putter, storer, del, past>>

PutStep(p)   == SumRead(p) \/ SumWrite(p) \/ TestRunning(p) \/ TestSum(p) \/ StartStorer(p)
StoreStep(i) == \/ ResetSum(i) \/ ChooseFile(i) \/ MapValue(i) \/ CopyValue(i) \/ PublishIndex(i) \/ EndWalk(i)
                \/ StoreEnds(i) \/ CountFiles(i)
                \/ \E k \in Keys : NextEntry(i, k) \/ DropFromCache(i, k)
DeleteStep   == DeleteEntries \/ DeleterDies \/ \E f \in Names : DeleteFile(f)
ReadStep(r)  == GetIndex(r) \/ GetDone(r)

(* What the store does by itself; put and get are called from outside. *)
StoreRuns == \/ \E p \in Putters : PutStep(p)
             \/ \E i \in Storers : StoreStep(i)
             \/ DeleteStep
             \/ \E r \in Readers : ReadStep(r)

StoreNext == \/ StoreRuns
             \/ \E p \in Putters, k \in Keys : PutCache(p, k)
             \/ \E r \in Readers, k \in Keys : GetCache(r, k)

StoreSpec == StoreInit /\ [][StoreNext]_storeVars
-----------------------------------------------------------------------------
IndexEntries == [fileid : Names, position : Nat, len : Nat]

StoreTypeOK ==
    /\ fileCache \subseteq Keys /\ findex \in [Keys -> IndexEntries \cup {None}]
    /\ \A q \in DOMAIN disk : q \in {Path(DataDir, f) : f \in Names} /\ disk[q] \in Seq(Keys)
    /\ dataFile \in Names /\ sum \in Nat /\ isRunning \in BOOLEAN
    /\ putter \in [Putters -> [at : {"idle", "sum", "add", "running", "enough", "start"},
                               key : Keys \cup {None}, old : Nat]]
    /\ storer \in [Storers -> [at : {"idle", "begin", "file", "walk", "write", "copy", "index",
                                     "drop", "count"},
                               todo : SUBSET Keys, key : Keys \cup {None}, name : Names \cup {0},
                               position : Nat, tail : Nat, list : SUBSET Keys]]
    /\ deleter \in {"none", "runs", "dead"} /\ outdated \subseteq Names
    /\ reader \in [Readers -> [at : {"idle", "index", "done"}, key : Keys \cup {None},
                               answer : {"none", "value", "null", "undecodable", "throws"},
                               was : BOOLEAN, raced : BOOLEAN]]
    /\ putKeys \subseteq Keys /\ lostKeys \subseteq Keys /\ overlapped \in BOOLEAN

OneStorer == \A i, j \in Storers : i # j => ~Storing(i) \/ ~Storing(j)

(* A key that was put is in the cache or in the index until the file it was *)
(* written to is deleted for its age: between the storing thread and the    *)
(* readers there is no moment at which a value is in neither.               *)
Findable == \A k \in putKeys \ lostKeys : k \in fileCache \/ findex[k] # None

(* The call of get under way throws only for a key that was not put when it *)
(* began, or whose file was deleted, or that it overlooked in the index     *)
(* while that was written to.                                               *)
ThrowsJustified == \A r \in Readers :
    reader[r].answer = "throws" => ~reader[r].was \/ reader[r].raced \/ reader[r].key \in lostKeys

PointsAt(e, k) ==
    LET cells == Contents(Path(DataDir, e.fileid)) IN
    \A n \in e.position + 1 .. e.position + e.len : n \in DOMAIN cells /\ cells[n] = k

(* The index points to exactly the bytes of its key, through changes of the *)
(* file, files deleted and values put while others are stored, as long as   *)
(* the unlocked test of isRunning has let no two threads store at once.     *)
IndexTruthful ==
    ~overlapped => \A k \in Keys : findex[k] # None /\ findex[k].fileid \notin outdated =>
                   findex[k].len = LenOf[k] /\ PointsAt(findex[k], k)

(* What a store promises, and its comment on get (go on reading the file):  *)
(* a key that was put and not deleted is answered with its value.           *)
GetReturnsPut == \A r \in Readers :
    reader[r].at = "done" /\ reader[r].was /\ reader[r].key \notin lostKeys => reader[r].answer = "value"
=============================================================================
