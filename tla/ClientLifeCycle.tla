--------------------------- MODULE ClientLifeCycle ---------------------------
(***************************************************************************)
(* The life of client sessions: ClientSessionsPools shares one between the *)
(* clients of an address, ClientManager keeps a table of sessions, a cache *)
(* whose entries expire after 30 s and weak references to the clients.     *)
(* Three kinds of thread may close a session: the application's, on which  *)
(* the cache calls CacheListener.onRemoval, the checker, which polls the   *)
(* references of collected clients, and the worker of the session, on the  *)
(* end of its last message.  The calls of a thread nest, so a thread is a  *)
(* stack of frames, the innermost first.                                   *)
(***************************************************************************)
EXTENDS Integers, Sequences, FiniteSets

CONSTANTS Clients,      \* judpClient objects, each used by a thread of its own
          Address,      \* client -> the address it sends to
          NullKey,      \* the key "null0"
          None,         \* no pool entry
          MaxShares,    \* ClientSessionsPools.maxClientNum
          MaxSessions,  \* bound: sessions made
          MaxSends,     \* bound: client -> messages it sends
          MaxCloses,    \* bound: calls of close on a client
          MaxDepth      \* frames of a stack before it overflows

ASSUME SharesAssumption == MaxShares \in Nat \ {0}
ASSUME KeysAssumption == \A c \in Clients : Address[c] # NullKey
ASSUME LifeBoundsAssumption == /\ MaxSessions \in Nat /\ MaxCloses \in Nat
                           /\ MaxSends \in [Clients -> Nat] /\ MaxDepth \in Nat

VARIABLES
    pool,          \* ClientSessionsPools.map: key -> [session, left] or None
    made,          \* sessions made so far, numbered from 1
    hashMap,       \* ClientManager.hashMap: the sessions in the table
    cache,         \* the sessions in the expiring cache
    notices,       \* sessions whose removal the cache has still to report
    young,         \* sessions made less than 30 s ago
    clientNum,     \* session -> its count of users
    isClose,       \* sessions closed
    logicalClose,  \* sessions closed logically
    mapInitSeq,    \* session -> messages sent whose end has not come
    clientSession, \* client -> its session, 0 for none
    gcQueue,       \* collected clients whose reference is queued
    isStart,       \* a checker was started
    stack,         \* thread -> its frames
    checkers,      \* threads of the checker that run
    gone,          \* clients the application dropped
    sends, closes, \* client -> calls made
    stale          \* history: sessions handed out though found closed

sessions == <<clientNum, isClose, logicalClose, mapInitSeq, young>>
tables   == <<hashMap, cache, notices>>
clients  == <<clientSession, gone, sends, closes>>
checking == <<gcQueue, isStart, checkers>>
pooling  == <<pool, made, stale>>
vars     == <<sessions, tables, clients, checking, pooling, stack>>

Sessions == 1 .. MaxSessions
Keys     == {Address[c] : c \in Clients} \cup {NullKey}
App(c)   == <<"app", c>>
Check(c) == <<"check", c>>        \* the checker that client c's thread started
Worker(s) == <<"work", s>>
Threads  == {App(c) : c \in Clients} \cup {Check(c) : c \in Clients} \cup {Worker(s) : s \in Sessions}

Frame(at, s) == [at |-> at, s |-> s, key |-> NullKey]
At(t, at)    == stack[t] # <<>> /\ Head(stack[t]).at = at
Top(t)       == Head(stack[t]).s

(* The innermost frame gives way to frames fs. *)
Continue(t, fs) == stack' = [stack EXCEPT ![t] = fs \o Tail(@)]
Return(t)       == Continue(t, <<>>)

Init ==
    /\ pool = [k \in Keys |-> None] /\ made = 0 /\ stale = {}
    /\ hashMap = {} /\ cache = {} /\ notices = <<>>
    /\ young = {} /\ isClose = {} /\ logicalClose = {}
    /\ clientNum = [s \in Sessions |-> 0] /\ mapInitSeq = [s \in Sessions |-> 0]
    /\ clientSession = [c \in Clients |-> 0]
    /\ gcQueue = {} /\ isStart = FALSE /\ checkers = {}
    /\ stack = [t \in Threads |-> <<>>]
    /\ gone = {} /\ sends = [c \in Clients |-> 0] /\ closes = [c \in Clients |-> 0]

-----------------------------------------------------------------------------
(* ClientSessionsPools.getSession, synchronized: the look-up and the count *)
(* of the user are two steps under one lock.                               *)

Locked == \E t \in Threads : At(t, "grant")

Make(s) == /\ s <= MaxSessions
           /\ made' = s
           /\ hashMap' = hashMap \cup {s}
           /\ young' = young \cup {s}

Fresh(s) == [session |-> s, left |-> MaxShares]

SlipLastStays(k, e) == [pool EXCEPT ![k] = [e EXCEPT !.left = @ - 1]]

(* getNum takes a share; the entry that gave its last one leaves the pool. *)
TakeShare(k, e) == [pool EXCEPT ![k] = IF e.left = 1 THEN None ELSE [e EXCEPT !.left = @ - 1]]

(* A closed session is replaced in the pool, and handed out all the same. *)
Replace(k, e) == IF e.session \in isClose THEN [pool EXCEPT ![k] = Fresh(made + 1)]
                                          ELSE TakeShare(k, e)

Lookup(t) ==
    LET k == Head(stack[t]).key
        e == IF pool[k] = None THEN Fresh(made + 1) ELSE pool[k]
        closed == e.session \in isClose
    IN /\ At(t, "lookup") /\ ~Locked
       /\ IF pool[k] = None \/ closed THEN Make(made + 1)
                                      ELSE UNCHANGED <<made, hashMap, young>>
       /\ pool' = Replace(k, e)
       /\ stale' = IF closed THEN stale \cup {e.session} ELSE stale
       /\ Continue(t, <<[at |-> "grant", s |-> e.session, key |-> k]>>)
       /\ UNCHANGED <<clientNum, isClose, logicalClose, mapInitSeq, cache, notices, clients, checking>>

GrantTo(c) ==
    /\ At(App(c), "grant") /\ Head(stack[App(c)]).key # NullKey
    /\ clientNum' = [clientNum EXCEPT ![Top(App(c))] = @ + 1]
    /\ clientSession' = [clientSession EXCEPT ![c] = Top(App(c))]
    /\ Continue(App(c), <<Frame("cacheGet", Top(App(c)))>>)
    /\ UNCHANGED <<isClose, logicalClose, mapInitSeq, young, tables, gone, sends, closes, checking, pooling>>

(* removeSessionByKey asks for the session of "null0", since nobody sets    *)
(* the address it asks with: that session gains a user that never leaves,   *)
(* and as it is never the closed one, the pool's entry stays.               *)
GrantNull(t) ==
    LET found == Top(t)
        closed == stack[t][2].s
    IN /\ At(t, "grant") /\ Head(stack[t]).key = NullKey
       /\ clientNum' = [clientNum EXCEPT ![found] = @ + 1]
       /\ pool' = [pool EXCEPT ![NullKey] = IF found = closed THEN None ELSE @]
       /\ stack' = [stack EXCEPT ![t] = Tail(Tail(@))]
       /\ UNCHANGED <<isClose, logicalClose, mapInitSeq, young, tables, clients, checking, made, stale>>

-----------------------------------------------------------------------------
(* The cache (Guava): a thread that writes to it may find an entry expired, *)
(* which is dropped as well, and reports the removals itself, one by one.   *)

Expiring(s) == {<<>>} \cup {<<e>> : e \in cache \ (young \cup {s})}

(* Entry s is written or invalidated; if it was there its removal is        *)
(* reported even when it is written again.                                  *)
Write(t, s, kept) ==
    \E old \in Expiring(s) :
        /\ cache' = (cache \ ({s} \cup {old[i] : i \in DOMAIN old})) \cup kept
        /\ notices' = notices \o old \o (IF s \in cache THEN <<s>> ELSE <<>>)
        /\ Continue(t, <<Frame("notify", s)>>)

(* addClient and addCache: hashMap.get, and cache.put of what was found. *)
CacheGet(t) ==
    /\ At(t, "cacheGet")
    /\ Continue(t, IF Top(t) \in hashMap THEN <<Frame("cachePut", Top(t))>> ELSE <<>>)
    /\ UNCHANGED <<sessions, tables, clients, checking, pooling>>

CachePut(t) ==
    /\ At(t, "cachePut") /\ Len(stack[t]) < MaxDepth
    /\ Write(t, Top(t), {Top(t)})
    /\ UNCHANGED <<sessions, hashMap, clients, checking, pooling>>

(* A listener that writes the entry it is told of is told of it again: the  *)
(* stack overflows and the loop that called the listener catches it.        *)
Overflow(t) ==
    /\ At(t, "cachePut") /\ Len(stack[t]) >= MaxDepth
    /\ Return(t)
    /\ UNCHANGED <<sessions, tables, clients, checking, pooling>>

Notify(t) ==
    /\ At(t, "notify")
    /\ IF notices = <<>> THEN Return(t) /\ UNCHANGED notices
       ELSE /\ notices' = Tail(notices)
            /\ stack' = [stack EXCEPT ![t] = <<Frame("removed", Head(notices))>> \o @]
    /\ UNCHANGED <<sessions, hashMap, cache, clients, checking, pooling>>

-----------------------------------------------------------------------------
(* CacheListener.onRemoval.  The removed value is never null: a session     *)
(* that is in the table is referenced from there, and of one that is not    *)
(* the listener finds nothing to close.                                     *)

SlipAgeForgotten(t) ==
    /\ At(t, "removed")
    /\ logicalClose' = logicalClose \cup {Top(t)}
    /\ Continue(t, <<Frame("count", Top(t))>>)
    /\ UNCHANGED <<clientNum, isClose, mapInitSeq, young, tables, clients, checking, pooling>>

(* A young session goes back to the cache, another is closed logically. *)
Removed(t) ==
    /\ At(t, "removed")
    /\ IF Top(t) \in young
       THEN Continue(t, <<Frame("cacheGet", Top(t))>>) /\ UNCHANGED logicalClose
       ELSE /\ logicalClose' = logicalClose \cup {Top(t)}
            /\ Continue(t, <<Frame("count", Top(t))>>)
    /\ UNCHANGED <<clientNum, isClose, mapInitSeq, young, tables, clients, checking, pooling>>

(* Without users it is taken from cache and table (ClientManager.getSession), *)
(* to be closed.                                                             *)
Count(t) ==
    /\ At(t, "count")
    /\ Continue(t, IF clientNum[Top(t)] = 0
                   THEN <<Frame("drop", Top(t)), Frame("take", Top(t))>> ELSE <<>>)
    /\ UNCHANGED <<sessions, tables, clients, checking, pooling>>

Drop(t) ==
    /\ At(t, "drop")
    /\ Write(t, Top(t), {})
    /\ UNCHANGED <<sessions, hashMap, clients, checking, pooling>>

SlipTakenOnly(t) ==
    /\ At(t, "take")
    /\ hashMap' = hashMap \ {Top(t)}
    /\ Continue(t, IF Top(t) \in hashMap THEN <<Frame("recount", Top(t))>> ELSE <<>>)
    /\ UNCHANGED <<sessions, cache, notices, clients, checking, pooling>>

(* Only one thread gets it from the table, and closes it. *)
Take(t) ==
    /\ At(t, "take")
    /\ hashMap' = hashMap \ {Top(t)}
    /\ Continue(t, IF Top(t) \in hashMap
                   THEN <<Frame("close", Top(t)), Frame("recount", Top(t))>> ELSE <<>>)
    /\ UNCHANGED <<sessions, cache, notices, clients, checking, pooling>>

AskPool(s) == <<[at |-> "lookup", s |-> 0, key |-> NullKey], Frame("compare", s)>>

(* removeSessionByKey of the listener: logicalClose is set by now. *)
Recount(t) ==
    /\ At(t, "recount")
    /\ Continue(t, IF clientNum[Top(t)] = 0
                   THEN <<Frame("close", Top(t))>> \o AskPool(Top(t)) ELSE <<>>)
    /\ UNCHANGED <<sessions, tables, clients, checking, pooling>>

-----------------------------------------------------------------------------
(* ClientSession.close: test, then set, tell the receiver, shut the socket. *)

CloseTest(t) ==
    /\ At(t, "close")
    /\ Continue(t, IF Top(t) \in isClose THEN <<>> ELSE <<Frame("set", Top(t))>>)
    /\ UNCHANGED <<sessions, tables, clients, checking, pooling>>

CloseSet(t) ==
    /\ At(t, "set")
    /\ isClose' = isClose \cup {Top(t)}
    /\ Return(t)
    /\ UNCHANGED <<clientNum, logicalClose, mapInitSeq, young, tables, clients, checking, pooling>>

(* hashMap.remove by the checker, and by the worker at the end of           *)
(* ClientManager.getSession.                                                *)
Remove(t) ==
    /\ At(t, "remove")
    /\ hashMap' = hashMap \ {Top(t)}
    /\ Return(t)
    /\ UNCHANGED <<sessions, cache, notices, clients, checking, pooling>>

(* ClientSession.addData: the end of a message; the last one of a logically *)
(* closed session closes it, whoever uses it, and takes it from the table.  *)
EndOfMessage(s) ==
    /\ stack[Worker(s)] = <<>> /\ s \notin isClose
    /\ mapInitSeq[s] > 0
    /\ mapInitSeq' = [mapInitSeq EXCEPT ![s] = @ - 1]
    /\ stack' = [stack EXCEPT ![Worker(s)] =
                   IF s \in logicalClose /\ mapInitSeq[s] = 1
                   THEN <<Frame("close", s), Frame("drop", s), Frame("remove", s)>> ELSE <<>>]
    /\ UNCHANGED <<clientNum, isClose, logicalClose, young, tables, clients, checking, pooling>>

-----------------------------------------------------------------------------
(* judpClient: sendData takes a session of the pool, adds the client to     *)
(* ClientManager and sends; close gives the session back, as often as it is *)
(* called.                                                                  *)

BeginSend(c) ==
    /\ stack[App(c)] = <<>> /\ c \notin gone /\ sends[c] < MaxSends[c]
    /\ sends' = [sends EXCEPT ![c] = @ + 1]
    /\ stack' = [stack EXCEPT ![App(c)] =
                   << IF clientSession[c] = 0
                      THEN [at |-> "lookup", s |-> 0, key |-> Address[c]]
                      ELSE Frame("cacheGet", clientSession[c]),
                      Frame("check", 0) >>]
    /\ UNCHANGED <<sessions, tables, clientSession, gone, closes, checking, pooling>>

(* check: only the first call starts the checker, or the first two. *)
CheckStarted(c) ==
    /\ At(App(c), "check")
    /\ Continue(App(c), IF isStart THEN <<Frame("send", 0)>> ELSE <<Frame("start", 0)>>)
    /\ UNCHANGED <<sessions, tables, clients, checking, pooling>>

StartChecker(c) ==
    /\ At(App(c), "start")
    /\ isStart' = TRUE
    /\ checkers' = checkers \cup {c}
    /\ Continue(App(c), <<Frame("send", 0)>>)
    /\ UNCHANGED <<sessions, tables, clients, gcQueue, pooling>>

(* ClientSession.sendData, which fills mapInitSeq on a closed session too. *)
SendData(c) ==
    /\ At(App(c), "send")
    /\ mapInitSeq' = [mapInitSeq EXCEPT ![clientSession[c]] = @ + 1]
    /\ Return(App(c))
    /\ UNCHANGED <<clientNum, isClose, logicalClose, young, tables, clients, checking, pooling>>

CloseClient(c) ==
    /\ stack[App(c)] = <<>> /\ c \notin gone /\ clientSession[c] # 0
    /\ closes[c] < MaxCloses /\ closes' = [closes EXCEPT ![c] = @ + 1]
    /\ clientNum' = [clientNum EXCEPT ![clientSession[c]] = @ - 1]
    /\ UNCHANGED <<isClose, logicalClose, mapInitSeq, young, tables, clientSession, gone, sends,
                   checking, pooling, stack>>

-----------------------------------------------------------------------------
(* The garbage collector and the clock. *)

Collect(c) ==
    /\ stack[App(c)] = <<>> /\ c \notin gone /\ clientSession[c] # 0
    /\ gone' = gone \cup {c} /\ gcQueue' = gcQueue \cup {c}
    /\ UNCHANGED <<sessions, tables, clientSession, sends, closes, isStart, checkers, pooling, stack>>

GrowOld(s) ==
    /\ s \in young /\ young' = young \ {s}
    /\ UNCHANGED <<clientNum, isClose, logicalClose, mapInitSeq, tables, clients, checking, pooling, stack>>

-----------------------------------------------------------------------------
(* The checker.  A queued reference is cleared, so it always takes the      *)
(* branch that knows only the session's id: a client that was dropped       *)
(* without close stays counted.                                             *)

Poll(c) ==
    /\ c \in checkers /\ stack[Check(c)] = <<>>
    /\ \E d \in gcQueue :
        /\ gcQueue' = gcQueue \ {d}
        /\ stack' = [stack EXCEPT ![Check(c)] = <<Frame("found", clientSession[d])>>]
    /\ UNCHANGED <<sessions, tables, clients, isStart, checkers, pooling>>

CheckOn(t, at, condition, next) ==
    /\ At(t, at)
    /\ Continue(t, IF condition THEN next ELSE <<>>)
    /\ UNCHANGED <<sessions, tables, clients, checking, pooling>>

CheckFound(t)   == CheckOn(t, "found", Top(t) \in hashMap, <<Frame("unused", Top(t))>>)
CheckUnused(t)  == CheckOn(t, "unused", clientNum[Top(t)] = 0, <<Frame("expired", Top(t))>>)

SlipRemovesOnly(t) == CheckOn(t, "expired", Top(t) \in logicalClose, <<Frame("remove", Top(t))>>)

CheckExpired(t) == CheckOn(t, "expired", Top(t) \in logicalClose,
                        <<Frame("close", Top(t)), Frame("remove", Top(t))>> \o AskPool(Top(t)))

Work(t) ==
    \/ Lookup(t) \/ GrantNull(t) \/ CacheGet(t) \/ CachePut(t) \/ Overflow(t) \/ Notify(t)
    \/ Removed(t) \/ Count(t) \/ Drop(t) \/ Take(t) \/ Recount(t)
    \/ CloseTest(t) \/ CloseSet(t) \/ Remove(t)
    \/ CheckFound(t) \/ CheckUnused(t) \/ CheckExpired(t)

Next ==
    \/ \E t \in Threads : Work(t)
    \/ \E c \in Clients : \/ BeginSend(c) \/ GrantTo(c) \/ CheckStarted(c) \/ StartChecker(c)
                          \/ SendData(c) \/ CloseClient(c) \/ Collect(c) \/ Poll(c)
    \/ \E s \in Sessions : EndOfMessage(s) \/ GrowOld(s)

Spec == Init /\ [][Next]_vars
-----------------------------------------------------------------------------
Places == {"lookup", "grant", "cacheGet", "cachePut", "notify", "removed", "count", "drop", "take",
           "recount", "close", "set", "remove", "compare", "check", "start", "send",
           "found", "unused", "expired"}
Frames == [at : Places, s : 0 .. MaxSessions, key : Keys]

(* Every variable keeps its type; a pool entry has a share left.            *)
TypeOK ==
    /\ pool \in [Keys -> [session : Sessions, left : 1 .. MaxShares] \cup {None}]
    /\ made \in 0 .. MaxSessions /\ stale \subseteq Sessions
    /\ hashMap \subseteq Sessions /\ cache \subseteq Sessions /\ notices \in Seq(Sessions)
    /\ young \subseteq Sessions /\ isClose \subseteq Sessions /\ logicalClose \subseteq Sessions
    /\ clientNum \in [Sessions -> Int] /\ mapInitSeq \in [Sessions -> Nat]
    /\ clientSession \in [Clients -> 0 .. MaxSessions]
    /\ gcQueue \subseteq gone /\ gone \subseteq Clients /\ isStart \in BOOLEAN
    /\ checkers \subseteq Clients
    /\ stack \in [Threads -> Seq(Frames)]
    /\ sends \in [Clients -> Nat] /\ closes \in [Clients -> 0 .. MaxCloses]

(* However client closes, collections, replaced entries and expiry          *)
(* interleave, no session is closed within its first 30 s: the listener     *)
(* looks at its age, the others at the mark only the listener sets.         *)
YoungStaysOpen == isClose \cap young = {}

Closing(s) == \E t \in Threads : \E i \in DOMAIN stack[t] :
                 stack[t][i].s = s /\ stack[t][i].at \in {"close", "set"}

(* A session that left the table is closed or a thread is about to close    *)
(* it: no path takes it from the table, where the others look for it, and   *)
(* leaves its socket and its receiving thread behind.                       *)
OpenIsRegistered == \A s \in 1 .. made : s \in hashMap \/ s \in isClose \/ Closing(s)

(* A session that was handed out though found closed is never handed out    *)
(* again, to a second client or under "null0": the look-up that saw it      *)
(* closed has replaced it, whatever shares, expiry and the other closing    *)
(* threads do until the next look-up of any key.                            *)
ClosedGrantedOnce ==
    [][\A t \in Threads : Lookup(t) => Head(stack'[t]).s \notin stale]_vars

AtRest == gcQueue = {} /\ notices = <<>> /\ \A t \in Threads : stack[t] = <<>>
Unused(s) == clientNum[s] = 0 /\ \A c \in Clients : clientSession[c] = s => c \in gone

(* When nothing is under way a session that expired, was given back by      *)
(* every client and whose clients were collected is closed: between expiry  *)
(* listener and checker one sees the last of the three conditions come.     *)
UnusedIsClosed == AtRest => \A s \in logicalClose : Unused(s) => s \in isClose

(* What the comments on closing say: a session closes for real once it      *)
(* expired and its clients had closed.  It fails: once logically closed it  *)
(* closes at the end of its last message though clients use it.             *)
UsedStaysOpen == \A c \in Clients :
    c \notin gone /\ clientSession[c] # 0 /\ closes[c] = 0 => clientSession[c] \notin isClose

(* "update" says the comment on a closed entry of ClientSessionsPools,      *)
(* whose class manages the sessions data is sent with: what getSession      *)
(* hands out is not closed.  It fails: the entry is renewed, but the caller *)
(* gets the session that was in it.                                         *)
GrantedIsOpen ==
    [][\A t \in Threads : Lookup(t) => Head(stack'[t]).s \notin isClose]_vars
=============================================================================
