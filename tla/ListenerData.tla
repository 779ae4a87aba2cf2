---------------------------- MODULE ListenerData ----------------------------
(***************************************************************************)
(* NetProtocol.ListenerData on the server side: socket threads (receivers) *)
(* queue datagrams in monitorServer and start a worker thread on demand,   *)
(* which parses them, looks up or creates the session and hands them over. *)
(* One judpServer means one receiver; every further judpServer of the      *)
(* process posts to the same bus, so its socket thread is one more.        *)
(* Before each hand-over the worker sweeps the keys that closing sessions  *)
(* registered in ServerManager, an ArrayList without a lock which a        *)
(* removeSessionMap thread of each sweep prunes as well.  A list operation *)
(* takes two steps here: finding the index, and cutting at it.             *)
(***************************************************************************)
EXTENDS Integers, FiniteSets, Sequences

CONSTANTS Null,
          Receivers,    \* socket threads that deliver to this listener
          Workers,      \* bound: worker threads alive or dead at one time
          Datagrams,    \* what may arrive: source key, kind and session id
          MaxArrivals,  \* bound: datagrams in one behaviour
          MaxClosings   \* bound: sessions that close in one behaviour

ASSUME DatagramsAssumption ==
    \A d \in Datagrams : /\ DOMAIN d = {"key", "isAck", "id"}
                         /\ d.isAck \in BOOLEAN /\ d.id \in Nat
ASSUME MaxArrivalsAssumption == MaxArrivals \in Nat
ASSUME MaxClosingsAssumption == MaxClosings \in Nat

VARIABLES
    queue,       \* numbers of the datagrams that wait
    isStart,     \* a worker was started
    receiver,    \* receiver -> where it is in monitorServer
    worker,      \* worker -> where it is in run; "dead" after an exception
    data,        \* worker -> number of the datagram it handles, 0 for none
    keys,        \* worker -> keys copied from the hand queue, still to sweep
    size,        \* worker -> how many keys it set out to copy
    found,       \* worker -> index its removeKey found
    hashOffer,   \* source key -> its sessions by id, or Null
    handQueue,   \* ServerManager's list: its size field and its elements
    remover,     \* datagram number -> removeSessionMap thread of its sweep
    arrived,     \* history: the datagrams in order of arrival
    from,        \* history: the receivers that delivered something
    handled,     \* history: numbers in the order they were handed over
    created      \* history: <<key, id>> -> sessions created for it

queued   == <<queue, isStart, receiver, arrived, from>>
sweeping == <<keys, size, found, handQueue, remover>>
sessions == <<hashOffer, created, handled>>
vars     == <<queued, worker, data, sweeping, sessions>>

Keys == {d.key : d \in Datagrams}
Ids  == {d.id : d \in Datagrams} \cup {0}
Numbers == 1 .. MaxArrivals

(* What a source has sessions of, and no session at all, are told apart.    *)
SessionState == {Null, "open", "closed", "registered"}
ASSUME NullAssumption ==
    /\ Null \notin {"open", "closed", "registered"}
    /\ Null \notin [Ids -> SessionState]

(* Parsing keeps the session id of an acknowledgement apart: the SessionID  *)
(* of the ReturnCode, under which a session is created, stays 0.            *)
Key(n) == arrived[n].key
LookupId(n) == arrived[n].id
CreateId(n) == IF arrived[n].isAck THEN 0 ELSE arrived[n].id

NoRemover == [keys |-> <<>>, found |-> 0]

Init ==
    /\ queue = <<>> /\ isStart = FALSE
    /\ receiver = [r \in Receivers |-> "idle"]
    /\ worker = [w \in Workers |-> "none"]
    /\ data = [w \in Workers |-> 0]
    /\ keys = [w \in Workers |-> <<>>]
    /\ size = [w \in Workers |-> 0]
    /\ found = [w \in Workers |-> 0]
    /\ hashOffer = [k \in Keys |-> Null]
    /\ handQueue = [size |-> 0, elems |-> <<>>]
    /\ remover = [n \in Numbers |-> NoRemover]
    /\ arrived = <<>> /\ from = {} /\ handled = <<>>
    /\ created = [p \in Keys \X Ids |-> 0]

-----------------------------------------------------------------------------
(* java.util.ArrayList without synchronisation.                            *)

(* indexOf: position of the first occurrence, 0 for none. *)
IndexOf(l, k) ==
    LET first == {i \in 1 .. l.size : /\ l.elems[i] = k
                                      /\ \A j \in 1 .. i - 1 : l.elems[j] # k}
    IN IF first = {} THEN 0 ELSE CHOOSE i \in first : TRUE

SlipSizeOnly(l, i) == [l EXCEPT !.size = @ - 1]

(* fastRemove at an index that may be stale by now: the elements behind it  *)
(* move up, and the size falls in any case, even below zero.                *)
Cut(l, i) ==
    [size |-> l.size - 1,
     elems |-> IF l.size <= 0 THEN <<>>
               ELSE [j \in 1 .. l.size - 1 |->
                       IF j < i THEN l.elems[j] ELSE l.elems[j + 1]]]

(* add: on a negative size the store throws, but the size has gone up.      *)
ListAdd(l, k) ==
    [size |-> l.size + 1,
     elems |-> IF l.size < 0 THEN <<>> ELSE Append(l.elems, k)]

-----------------------------------------------------------------------------
(* monitorServer, on a receiver's thread.                                  *)

Offer(r, d) ==
    /\ receiver[r] = "idle" /\ Len(arrived) < MaxArrivals
    /\ arrived' = Append(arrived, d)
    /\ queue' = Append(queue, Len(arrived) + 1)
    /\ receiver' = [receiver EXCEPT ![r] = "check"]
    /\ from' = from \cup {r}
    /\ UNCHANGED <<isStart, worker, data, sweeping, sessions>>

(* startThread finds a worker started. *)
SeesStarted(r) ==
    /\ receiver[r] = "check" /\ isStart
    /\ receiver' = [receiver EXCEPT ![r] = "idle"]
    /\ UNCHANGED <<queue, isStart, arrived, from, worker, data, sweeping, sessions>>

(* startThread finds none ... *)
SeesNone(r) ==
    /\ receiver[r] = "check" /\ ~isStart
    /\ receiver' = [receiver EXCEPT ![r] = "start"]
    /\ UNCHANGED <<queue, isStart, arrived, from, worker, data, sweeping, sessions>>

(* ... and starts one. *)
Start(r) == \E w \in Workers :
    /\ receiver[r] = "start"
    /\ worker[w] = "none" /\ w = CHOOSE v \in Workers : worker[v] = "none"
    /\ receiver' = [receiver EXCEPT ![r] = "idle"]
    /\ isStart' = TRUE
    /\ worker' = [worker EXCEPT ![w] = "poll"]
    /\ UNCHANGED <<queue, arrived, from, data, sweeping, sessions>>

-----------------------------------------------------------------------------
(* The worker: run.                                                        *)

WStep(w, at, to) == worker[w] = at /\ worker' = [worker EXCEPT ![w] = to]

(* An exception ends the worker, its local variables with it. *)
Dies(w, at) ==
    /\ WStep(w, at, "dead")
    /\ data' = [data EXCEPT ![w] = 0]
    /\ keys' = [keys EXCEPT ![w] = <<>>]
    /\ size' = [size EXCEPT ![w] = 0]
    /\ found' = [found EXCEPT ![w] = 0]

SlipPeek(w) ==
    /\ WStep(w, "poll", "size")
    /\ queue # <<>>
    /\ data' = [data EXCEPT ![w] = Head(queue)]
    /\ UNCHANGED <<queued, sweeping, sessions>>

PollSome(w) ==
    /\ WStep(w, "poll", "size")
    /\ queue # <<>>
    /\ data' = [data EXCEPT ![w] = Head(queue)]
    /\ queue' = Tail(queue)
    /\ UNCHANGED <<isStart, receiver, arrived, from, sweeping, sessions>>

PollNothing(w) ==
    /\ WStep(w, "poll", "empty")
    /\ queue = <<>>
    /\ UNCHANGED <<queued, data, sweeping, sessions>>

SlipLeavesAnyway(w) ==
    /\ WStep(w, "empty", "exit")
    /\ UNCHANGED <<queued, data, sweeping, sessions>>

SlipFlagEarly(w) ==
    /\ WStep(w, "empty", IF queue = <<>> THEN "exit" ELSE "poll")
    /\ isStart' = FALSE
    /\ UNCHANGED <<queue, receiver, arrived, from, data, sweeping, sessions>>

(* After a second it looks again: on an empty queue it leaves the loop. *)
LookAgain(w) ==
    /\ WStep(w, "empty", IF queue = <<>> THEN "exit" ELSE "poll")
    /\ UNCHANGED <<queued, data, sweeping, sessions>>

SlipFlagKept(w) ==
    /\ WStep(w, "exit", "none")
    /\ UNCHANGED <<queued, data, sweeping, sessions>>

Exit(w) ==
    /\ WStep(w, "exit", "none")
    /\ isStart' = FALSE
    /\ UNCHANGED <<queue, receiver, arrived, from, data, sweeping, sessions>>

-----------------------------------------------------------------------------
(* The worker: processData.  Sweeping the closed sessions comes first.     *)

NothingToSweep(w) ==
    /\ WStep(w, "size", "lookup")
    /\ handQueue.size = 0
    /\ UNCHANGED <<queued, data, sweeping, sessions>>

(* An array of handQueue.size() keys is made; a negative size throws. *)
SizeThrows(w) ==
    /\ handQueue.size < 0
    /\ Dies(w, "size")
    /\ UNCHANGED <<queued, handQueue, remover, sessions>>

SizeRead(w) ==
    /\ handQueue.size > 0
    /\ WStep(w, "size", "copy")
    /\ size' = [size EXCEPT ![w] = handQueue.size]
    /\ UNCHANGED <<queued, data, keys, found, handQueue, remover, sessions>>

(* The keys are copied by index; one that is gone by now throws.  After the *)
(* last a thread is set to remove the copied keys from the list.            *)
CopyKey(w) ==
    LET i == Len(keys[w]) + 1 IN
    /\ i <= handQueue.size
    /\ keys' = [keys EXCEPT ![w] = Append(@, handQueue.elems[i])]
    /\ WStep(w, "copy", IF i = size[w] THEN "sweep" ELSE "copy")
    /\ remover' = IF i = size[w]
                  THEN [remover EXCEPT ![data[w]] = [keys |-> keys'[w], found |-> 0]]
                  ELSE remover
    /\ size' = IF i = size[w] THEN [size EXCEPT ![w] = 0] ELSE size
    /\ UNCHANGED <<queued, data, found, handQueue, sessions>>

CopyThrows(w) ==
    /\ Len(keys[w]) + 1 > handQueue.size
    /\ Dies(w, "copy")
    /\ UNCHANGED <<queued, handQueue, remover, sessions>>

(* ServerManager.getSessions reads the ids registered for the key, sets a   *)
(* thread to remove them from its own list, and answers null either way.    *)
GetSessions(key) == Null

SlipDropsLive(w) ==
    /\ WStep(w, "sweep", "find")
    /\ keys[w] # <<>>
    /\ hashOffer' = [hashOffer EXCEPT ![Head(keys[w])] = Null]
    /\ UNCHANGED <<queued, data, sweeping, created, handled>>

(* The ids answered are dropped, and the whole map of a key when it is      *)
(* empty.  A key without a map would throw a null pointer exception, which  *)
(* SweptHasMap shows never to happen to a key of this listener's sessions.  *)
Sweep(w) ==
    LET k == Head(keys[w])
        gone == IF GetSessions(k) = Null THEN {} ELSE GetSessions(k)
        rest == [i \in Ids |-> IF i \in gone THEN Null ELSE hashOffer[k][i]]
    IN
    /\ keys[w] # <<>>
    /\ hashOffer[k] # Null
    /\ WStep(w, "sweep", "find")
    /\ hashOffer' = [hashOffer EXCEPT ![k] =
                       IF \A i \in Ids : rest[i] = Null THEN Null ELSE rest]
    /\ UNCHANGED <<queued, data, sweeping, created, handled>>

(* removeKey: handQueue.remove(key) by the worker, then the next key, ... *)
AfterKey(w) == IF Len(keys[w]) = 1 THEN "lookup" ELSE "sweep"
DropKey(w) == keys' = [keys EXCEPT ![w] = Tail(@)]

FindKey(w) ==
    /\ WStep(w, "find", "cut")
    /\ IndexOf(handQueue, Head(keys[w])) # 0
    /\ found' = [found EXCEPT ![w] = IndexOf(handQueue, Head(keys[w]))]
    /\ UNCHANGED <<queued, data, keys, size, handQueue, remover, sessions>>

NoKeyFound(w) ==
    /\ WStep(w, "find", AfterKey(w))
    /\ IndexOf(handQueue, Head(keys[w])) = 0
    /\ DropKey(w)
    /\ UNCHANGED <<queued, data, size, found, handQueue, remover, sessions>>

CutThrows(w) ==
    /\ handQueue.size <= 0
    /\ Dies(w, "cut")
    /\ handQueue' = Cut(handQueue, found[w])
    /\ UNCHANGED <<queued, remover, sessions>>

CutKey(w) ==
    /\ handQueue.size > 0
    /\ WStep(w, "cut", AfterKey(w))
    /\ DropKey(w)
    /\ handQueue' = Cut(handQueue, found[w])
    /\ found' = [found EXCEPT ![w] = 0]
    /\ UNCHANGED <<queued, data, size, remover, sessions>>

(* ... and by the removeSessionMap thread of sweep n, which ends when its   *)
(* keys are through or its cut throws.                                      *)
RemoverFinds(n) ==
    /\ remover[n].keys # <<>> /\ remover[n].found = 0
    /\ LET at == IndexOf(handQueue, Head(remover[n].keys)) IN
         remover' = [remover EXCEPT ![n] =
           IF at = 0 THEN [keys |-> Tail(@.keys), found |-> 0] ELSE [keys |-> @.keys, found |-> at]]
    /\ UNCHANGED <<queued, worker, data, keys, size, found, handQueue, sessions>>

RemoverCuts(n) ==
    /\ remover[n].found # 0
    /\ handQueue' = Cut(handQueue, remover[n].found)
    /\ remover' = [remover EXCEPT ![n] =
         IF handQueue.size <= 0 THEN NoRemover ELSE [keys |-> Tail(@.keys), found |-> 0]]
    /\ UNCHANGED <<queued, worker, data, keys, size, found, sessions>>

-----------------------------------------------------------------------------
(* The worker: processData, from the look-up of the session on.            *)

FindMap(w) ==
    /\ WStep(w, "lookup", IF hashOffer[Key(data[w])] = Null THEN "map" ELSE "session")
    /\ UNCHANGED <<queued, data, sweeping, sessions>>

(* createcreateSessionMap, synchronized: looks again, then creates. *)
CreateMap(w) ==
    /\ WStep(w, "map", "session")
    /\ hashOffer' = IF hashOffer[Key(data[w])] = Null
                    THEN [hashOffer EXCEPT ![Key(data[w])] = [i \in Ids |-> Null]]
                    ELSE hashOffer
    /\ UNCHANGED <<queued, data, sweeping, created, handled>>

FindSession(w) ==
    /\ WStep(w, "session", IF hashOffer[Key(data[w])][LookupId(data[w])] = "open"
                           THEN "add" ELSE "create")
    /\ UNCHANGED <<queued, data, sweeping, sessions>>

SlipNoSecondLook(w) ==
    LET k == Key(data[w])  i == CreateId(data[w]) IN
    /\ WStep(w, "create", "add")
    /\ hashOffer' = [hashOffer EXCEPT ![k][i] = "open"]
    /\ created' = [created EXCEPT ![<<k, i>>] = @ + 1]
    /\ UNCHANGED <<queued, data, sweeping, handled>>

(* createSession, synchronized: looks again, then creates; a closed session *)
(* is found and kept.                                                       *)
CreateSession(w) ==
    LET k == Key(data[w])  i == CreateId(data[w]) IN
    /\ WStep(w, "create", "add")
    /\ IF hashOffer[k][i] = Null
       THEN /\ hashOffer' = [hashOffer EXCEPT ![k][i] = "open"]
            /\ created' = [created EXCEPT ![<<k, i>>] = @ + 1]
       ELSE UNCHANGED <<hashOffer, created>>
    /\ UNCHANGED <<queued, data, sweeping, handled>>

(* session.addData: done with the datagram, or an exception ends the worker *)
(* (module ServerSession shows when it throws).                             *)
AddData(w) ==
    /\ WStep(w, "add", "poll")
    /\ handled' = Append(handled, data[w])
    /\ data' = [data EXCEPT ![w] = 0]
    /\ UNCHANGED <<queued, sweeping, hashOffer, created>>

AddDataThrows(w) ==
    /\ Dies(w, "add")
    /\ handled' = Append(handled, data[w])
    /\ UNCHANGED <<queued, handQueue, remover, hashOffer, created>>

-----------------------------------------------------------------------------
(* A session that closes: setClose, then, unless it gave up on a message,   *)
(* ServerManager.addSessionMap.                                             *)
SessionCloses(k, i) ==
    /\ hashOffer[k] # Null /\ hashOffer[k][i] = "open"
    /\ Cardinality({p \in Keys \X Ids : /\ hashOffer[p[1]] # Null
                                       /\ hashOffer[p[1]][p[2]] \in {"closed", "registered"}})
         < MaxClosings
    /\ hashOffer' = [hashOffer EXCEPT ![k][i] = "closed"]
    /\ UNCHANGED <<queued, worker, data, sweeping, created, handled>>

SessionRegisters(k, i) ==
    /\ hashOffer[k] # Null /\ hashOffer[k][i] = "closed"
    /\ hashOffer' = [hashOffer EXCEPT ![k][i] = "registered"]
    /\ handQueue' = ListAdd(handQueue, k)
    /\ UNCHANGED <<queued, worker, data, keys, size, found, remover, created, handled>>

Receive(r) == SeesStarted(r) \/ SeesNone(r) \/ Start(r)

Work(w) ==
    \/ PollSome(w) \/ PollNothing(w) \/ LookAgain(w) \/ Exit(w)
    \/ NothingToSweep(w) \/ SizeThrows(w) \/ SizeRead(w) \/ CopyKey(w) \/ CopyThrows(w)
    \/ Sweep(w) \/ FindKey(w) \/ NoKeyFound(w) \/ CutThrows(w) \/ CutKey(w)
    \/ FindMap(w) \/ CreateMap(w) \/ FindSession(w) \/ CreateSession(w)
    \/ AddData(w) \/ AddDataThrows(w)

Next ==
    \/ \E r \in Receivers : Receive(r) \/ \E d \in Datagrams : Offer(r, d)
    \/ \E w \in Workers : Work(w)
    \/ \E n \in Numbers : RemoverFinds(n) \/ RemoverCuts(n)
    \/ \E k \in Keys, i \in Ids : SessionCloses(k, i) \/ SessionRegisters(k, i)

(* Started threads keep running; datagrams and closings come or do not. *)
Spec == /\ Init /\ [][Next]_vars
        /\ \A r \in Receivers : WF_vars(Receive(r))
        /\ \A w \in Workers : WF_vars(Work(w))

-----------------------------------------------------------------------------
(* Types of the queues, the tables and the threads' positions. *)
TypeOK ==
    /\ queue \in Seq(Numbers) /\ isStart \in BOOLEAN
    /\ receiver \in [Receivers -> {"idle", "check", "start"}]
    /\ worker \in [Workers -> {"none", "poll", "empty", "exit", "size", "copy", "sweep",
                               "find", "cut", "lookup", "map", "session",
                               "create", "add", "dead"}]
    /\ data \in [Workers -> Numbers \cup {0}]
    /\ keys \in [Workers -> Seq(Keys)]
    /\ size \in [Workers -> Int] /\ found \in [Workers -> Nat]
    /\ hashOffer \in [Keys -> [Ids -> SessionState] \cup {Null}]
    /\ handQueue.size \in Int
    /\ handQueue.elems \in Seq(Keys)
    /\ Len(handQueue.elems) = (IF handQueue.size < 0 THEN 0 ELSE handQueue.size)
    /\ \A n \in Numbers : remover[n].keys \in Seq(Keys) /\ remover[n].found \in Nat
    /\ arrived \in Seq(Datagrams) /\ from \subseteq Receivers
    /\ handled \in Seq(Numbers)
    /\ created \in [Keys \X Ids -> Nat]

Alive(w) == worker[w] \notin {"none", "dead"}
SomeoneDied == \E w \in Workers : worker[w] = "dead"

(* isStart never outlives the workers: unless one of them was ended by an   *)
(* exception, a set flag means that a worker runs, so the next datagram     *)
(* either meets a worker or starts one.                                     *)
FlagMeansWorker == isStart /\ ~SomeoneDied => \E w \in Workers : Alive(w)

OneReceiver == \A q, r \in from : q = r

(* The flag is tested and set without a lock; with the one receiver of one  *)
(* judpServer that suffices: there are never two workers on the queue.      *)
AloneOnQueue ==
    OneReceiver => \A v, w \in Workers : Alive(v) /\ Alive(w) => v = w

(* With one receiver the sessions get the datagrams in order of arrival,    *)
(* none twice.                                                              *)
InOrder ==
    OneReceiver =>
      \A i, j \in DOMAIN handled : i < j => handled[i] < handled[j]

(* However many workers look for it at once, at most one session is ever    *)
(* created for a source and id: chunks of a message never go to two.        *)
OneSession == \A p \in Keys \X Ids : created[p] <= 1

(* Whoever sweeps a key finds a map under it, which isEmpty is called on:   *)
(* although keys stay in the list twice, are copied by several workers and  *)
(* cut at stale indexes, no sweep ever drops the map that another worker    *)
(* still has to sweep, or that a session is being created in.               *)
SweptHasMap ==
    \A w \in Workers :
        worker[w] = "sweep" => keys[w] # <<>> /\ hashOffer[Head(keys[w])] # Null

(* A datagram queued while a worker is in its loop is handled: the second   *)
(* look at the queue covers what arrives during the pause.                  *)
Drained ==
    \A n \in Numbers :
        ((\E i \in DOMAIN queue : queue[i] = n) /\ (\E w \in Workers : Alive(w) /\ worker[w] # "exit"))
          ~> (SomeoneDied \/ \E i \in DOMAIN handled : handled[i] = n)

-----------------------------------------------------------------------------
(* "listens for all received data" (ListenerData): as long as no exception  *)
(* ends a worker, every datagram queued is handed to its session, the last  *)
(* one too.                                                                 *)
AllHandled ==
    \A n \in Numbers :
        (\E i \in DOMAIN queue : queue[i] = n)
          ~> (SomeoneDied \/ \E i \in DOMAIN handled : handled[i] = n)

(* "trigger the clearing first" (ListenerData.processData): what a worker   *)
(* has swept holds no session any more that closed and registered for it.   *)
SweptAreCleared ==
    [][\A w \in Workers : worker[w] = "sweep" /\ worker'[w] = "find" =>
         LET k == Head(keys[w]) IN
         hashOffer'[k] # Null => \A i \in Ids : hashOffer'[k][i] # "registered"]_vars

(* A datagram whose session is closed has createSession called, "create     *)
(* session", and is handed to what that returns: an open session.           *)
CreatedIsOpen ==
    [][\A w \in Workers : worker[w] = "create" /\ worker'[w] = "add" =>
         hashOffer'[Key(data[w])][CreateId(data[w])] = "open"]_vars
=============================================================================
