# A verification of jyudp

jyudp sends messages of any length over UDP. The sender cuts a message into numbered
packets and keeps them until the receiver acknowledges the whole message; the receiver
puts the packets back in order, asks for lost ones and hands whole messages to the
application. This directory holds TLA+ models of the program's own logic, TLC
configurations that check them on small instances, and theorems with TLAPS proofs.
Every definition is translated from the Java source; `PROJECT.json` maps each to its
lines, lists the hazards they were written for, and records the disagreements found.

## Inventory

| Component | State | Operations | Interacts with | What is hard |
|---|---|---|---|---|
| `ReceiveBuffer` | ring of chunk slots, cursor, count, last number read | offer, poll (waiting or not), isEmpty, waitSequenceNumber, clear | offered to by the listener's thread, polled by the session's reader | full test outside the lock; count and slots drift apart on duplicates; end-of-message test |
| `ServerSession` | ring of 2000 receive buffers, unread count, reader flag, close flags, chunks collected so far | addData (intBuffer, startThread, setData), reader: checkRecvice, readAll, updateCurrentChunk; read, read(len), setCall, close | called by `ListenerData`; posts results on the bus, sends end and loss acknowledgements | two threads and no lock on ring, count and flags; reader that lets itself go; slots released under the listener; retries |
| `ListenerData` | queue of datagrams, worker flag, sessions by source and id | monitorServer, worker: processData, createSession; getData, getDataLen, remove | fed by socket threads through the bus; calls sessions; cleans up from `ServerManager` | on-demand worker, lost wake-up, exceptions, closed sessions |
| `ClientSession` | packets by number, message sizes by first number, flags, receive thread | sendData, addData (end, loss), close, removeData, read | `UDPClient`, `ClientManager`, `PackagetRandom` | send before keep, shared counter, end removes a range, resend makes a new message |
| `PackagetRandom` | one counter per object | getInstanceID, getSessionID | client sessions | unsynchronised first use |
| `ClientSessionsPools`, `ControlSession` | session in use per address, shares left | getSession, removeKey | `judpClient`, `CacheListener`, `ClientManager` | closed session handed out |
| `ClientManager`, `CacheListener` | sessions, expiry cache, weak references, spill queue and counters | addClient, check, onRemoval, addSessionData, spill thread | sessions, file store | three paths close a session; memory to file in two steps |
| `ServerManager` | sockets, keys and ids of closed sessions | addSession(Map), getSession(s)(Map), removeKey | `ServerSession`, `ListenerData` | unsynchronised lists, double removal |
| Packet format | - | SubPackaget.subData, createNetPackaget, createAckPackaget, AnalysisNetPackaget | sessions, listener | split boundaries, fields an acknowledgement loses |
| `FileMemoryData` and helpers | cache, index, files, deletions | put, get, delete, storing thread, deleting thread, compaction | `ClientManager` | write-behind, two storing threads, deletion under readers |
| `judpClient` | its session, the logical close flag | sendData, close | pool, `ClientManager` | may be closed twice, or dropped without close |
| Sockets, bus, demonstrations | - | forwarding | - | input and output |

What makes each correct: the buffer loses, invents and reorders nothing; the session
delivers every message once, whole, and acknowledges it truthfully; the listener handles
every datagram once, in order, in the right session; the client keeps a packet until
it is acknowledged and closes once; the store returns what was put until it is deleted.

How they interact. A datagram reaches a socket thread, which posts it on the bus to
`ListenerData.monitorServer`. That queues it and starts a worker if none is running; the
worker parses it, finds or creates the `ServerSession` of its source and session id, and
calls `addData`. The session puts the chunk into the `ReceiveBuffer` of its message and
starts a reader thread if none is running; the reader polls the buffers in ring order,
posts what it read and sends acknowledgements back. On the other side a second
`ListenerData`, owned by the `ClientSession`, hands those to `ClientSession.addData`,
which forgets or resends packets.

## Modules

| Module | Models |
|---|---|
| `ReceiveBufferOps` | the buffer record and what offer, poll, isEmpty, waitSequenceNumber and clear compute from it |
| `ReceiveBuffer` | one buffer between offering threads and a polling one |
| `ChunkStore` | what the buffer promises: a ring without a count, read in slot order |
| `ServerSession` | one session: listener thread and reader thread over a ring of buffers (`ReceiveBufferOps`) |
| `ListenerData` | socket threads, on-demand workers, the session table, and `ServerManager`'s list of closed sessions with its removing threads |
| `PacketFormat` | how a message is cut: number and lengths of the pieces, the length of a packet |
| `ClientSession` | senders, the worker that handles acknowledgements, the number source, and the moving of packets to the file store; the number of packets of a message is `PacketFormat`'s |
| `ClientLifeCycle` | sessions shared by clients through the pool, the table of sessions, the expiring cache and its listener, the checker of collected clients, and the closing of sessions by any of their threads |
| `FileMemoryData` | the write-behind store: putting threads, storing threads, the deleting thread, readers |
| `PacketSpill` | accounting, waiting senders and spilling threads of `ClientManager`, composed with `FileMemoryData`, which it extends |
| `RingArithmetic` | facts about remainders, proved |
| `*Proofs` | the theorems about the module they are named for; `PacketSpillProofs` uses those of the store, `ClientSessionProofs` also holds those of the format |
| `MC*` | small instances for TLC |

Definitions called `Slip*` are slightly wrong variants of the action they stand before (a
dropped guard, a lost reset, an exchanged order). No specification uses them; put in an
action's place, each makes one of the properties fail.

### Correspondence with the code

*One step per access to shared state.* Where the code holds no lock, a method is cut into
as many actions as it reads or writes shared variables, and a thread's position is a
string (`reader`, `listener`, `worker[w]`, `pc[t]`) or a frame of its stack; where it
holds a lock or makes one call on a concurrent map, queue or atomic, that is one action.
The models assume sequential consistency. Sleeps are left out: a step may be delayed for
any time anyway. Nothing in the code interrupts these threads, so `InterruptedException`
is not modelled.

*`ReceiveBuffer`.* `OfferRefused`/`OfferCheck` is the full test before the lock,
`OfferInsert` the locked rest of `offer`. `Poll`, `PollSleep`, `PollWake`, `PollTimeout`
and `PollReturn` are the timed poll: the wait on the condition, its signal, its time-out
and the call of `poll()` at the end. `Abandon` is the session throwing the buffer away.

*`ServerSession`.* Steps of `addData` on the listener's thread: `IntBuffer*` (find or
create the slot, count it), `StartReader`/`StartRejected`/`ReaderRuns` (the flag),
`SetData*` (read the slot again) and `Offer`. Steps of the reader: `Pick*` (search the
ring), `TakeChunk` and its retries, `Finish`, `Post`, `SendEndAck`, `Release`,
`AskUnread` and `AskClient` (the count, then the client's close), `ResetCount`, `MarkClosed`
and `ShutPool` (the three steps of closing, between which the listener may run), `Recheck` and
`Exit`. `readbufIndex` is kept modulo the ring.

*`ListenerData`.* The worker's loop is `PollSome`, `PollNothing`, `LookAgain`, `Exit`;
`processData` is the sweep (`NothingToSweep` to `CutKey`), then `FindMap` to `AddData`.
An operation of the unsynchronised `ArrayList` is two steps, finding the index and
cutting at it, with what the list does on a stale index. `ServerManager.getSessions`
always answers null: it declares its result and never assigns it. The branch for plain
datagrams is left out because no parsed packet meets its condition: what is not of the
protocol parses to `packagetNum` -1. A session is a state here (open, closed,
registered); `addData` is a step that may throw, which `ServerSession` shows it can. A dead
worker leaves the flag set (`Dies`), so nothing is processed any more: `FlagMeansWorker` and
`Drained` except that (`SomeoneDied`), and the list whose size falls below zero is one cause.

*`PacketFormat`.* `PacketsOf`, `Offset` and `PieceLength` say what `SubPackaget.subData`
cuts; `NextLength` is one turn of its loop. `HeaderLength` is what `createNetPackaget`
puts before the piece: 41 bytes. With the default `streamSize` of 65515 a full packet is
65556 bytes, which no UDP datagram over IPv4 holds (65507); and since a packet that is
asked for again is sent as a message of its own, it grows by a header each time, so a
full one is resent as two (`FullPacketResentAsTwo`).

*`ClientSession`.* `sendData` is `Begin`, the number (`LookupCounter`, `MakeCounter`,
`TakeFirst`/`TakeNext`), `Register`, `Send`, `Keep` and `Confirm`, for application threads
and for the worker that resends. `addData` is `End*`, `RemovePacket` (one turn of the
loop), `ForgetMessage` for an end, `LookupKept` and `LookupFile` for a loss request, then
`CloseTest`, `CloseSet` and `CloseSocket` when the last message of a logically closed
session ended. The receiver is external: it may say that any message some packet of which
was sent has ended, or ask for its first packet or for one after a packet it got. The
thread that spills packets takes any kept packet (`SpillTake`) and stores it later
(`SpillStore`), and the store may write it to a file (`SpillFlush`), after which the code
cannot read it back: `FileMemoryData` shows why. A loss request for a packet the store
does not know ends the worker with an exception, one before there is a store too.
`inOrder` and `whole` are history: a message sent under consecutive numbers, and its end.
`PackagetRandom` finds a session's counter in a `WeakHashMap` that all sessions share without
a lock. The model has one cell for it per session, in which only the race of two first callers
happens; what concurrent changes by other sessions do to the map itself is not modelled.

*`ClientLifeCycle`.* The calls nest: a cache write reports removals to the listener, which
writes the cache again. A thread is therefore a stack of frames, one for each call
under way. `Lookup` (under the pool's lock), then `GrantTo` or `GrantNull`, is
`ClientSessionsPools.getSession`; `CacheGet`, `CachePut`, `Overflow` and `Notify` are
`addClient`/`addCache` and what Guava does on a write (it may find any one old entry
expired); `Removed`, `Count`, `Drop`, `Take` and `Recount` are `CacheListener.onRemoval`;
`CloseTest` and `CloseSet` are `ClientSession.close`; `Poll` and `Check*` the checker;
`EndOfMessage` the worker of the session; `BeginSend` to `SendData`, `CloseClient` are
`judpClient`; `Collect` and `GrowOld` the garbage collector and the clock. Things one sees
only in the code: `removeSessionByKey` asks the pool under the key `null0`, because nobody
set the address it asks with, and so creates and occupies sessions nobody uses; a client
that closes twice takes two users off the count, which may go below zero; a client that is
dropped without closing is never taken off; an entry that is put back while it is
being reported removed recurs until the stack overflows, which `MaxDepth` stands for.

*`FileMemoryData`.* `PutCache`, `SumRead`, `SumWrite`, `TestRunning`, `TestSum` and
`StartStorer` are `put` (the sum and the flag are not atomic, so two storing threads may
run); `ResetSum`, `ChooseFile`, `NextEntry`, `MapValue`, `CopyValue`, `PublishIndex`,
`DropFromCache`, `StoreEnds` and `CountFiles` the storing thread; `DeleteFile`,
`DeleteEntries` and `DeleterDies` the deleting one, which a concurrent change of the index
ends while its flag stays set; `GetCache`, `GetIndex`, `GetDone` are `get`. A value is as
many cells as it is long, and a cell names its key. `fileMax` is the product of three ints,
which overflows, so a value is always written through a mapped buffer. When two threads put
into the index, a `HashMap`, at once, `PublishAs` may lose the entry being put; that a
concurrent resize may lose entries of other keys as well is not modelled.

*`PacketSpill`.* On a sender's thread: `Keep`, then `AddSessionData`, `Queue`,
`TestStarted`, `SetStarted`, `TestStore`, `MakeStore`, `Execute`, `Resume`. On the
spilling thread: `Decide` and the raising of `waiData` by a read and a write, `LoopTest`,
`Poll`, `FindSession`, `RemoveData`, `Subtract`, `PutToStore` (a put of `FileMemoryData`),
`Calm`, `EndSpill`. Every packet is a message of its own, and packets with consecutive numbers
are of one session. The end of one takes two turns of the loop in `ClientSession.addData`:
`Acknowledge` removes its packet and `RemoveNext` the one right behind it, which the loop
removes too (history `overrun`). `LeaveTable` is a session leaving the table. Two senders
that both find no store make two, and the second replaces the first with all that is in
it. `LowWater` is 450 kB, not the 450 MB its neighbours suggest: `ClientManager.java:276`
multiplies by 1000 where they multiply by 1024*1024.

## Runs

All passing runs set `CHECK_DEADLOCK FALSE` because the bounded inputs run out: arrivals,
calls, numbers or keys are used up and the system rests.

| Run | Instance | Shows |
|---|---|---|
| `receive_buffer` | ring of 3, first number 1, one offering thread, 6 offers of chunks in any order and repeated | `CountBounded`, `NoHiddenChunk`, `CountIsBalance`: the count can be trusted though it drifts; `CyclicOrder`; `HeadIsRead`: nothing at the cursor is slept through; `ImplementsChunkStore` |
| `session_singles` | three one-packet messages on a ring of two, each packet up to twice | `OneReader`, `NoDuplicateDelivery`, `StoredIsRead` |
| `session_mixed` | a message of three packets, two single ones, a confirmation, the client's close, ring of 5 | `ResultsCoherent`, `SingleAckTruthful`, `EndAckOnce`, `ListenerSurvives`, `ExactlyOnceAtRest`; `AccountKept`: only an empty pass of the reader and a closing reader's reset part the count from the ring |
| `listener` | two receivers, two workers, one source, three datagrams, one closing | `FlagMeansWorker`, `AloneOnQueue`, `InOrder`, `OneSession`, `Drained`; `SweptHasMap`: a swept key has a map, though the list of keys loses and repeats some |
| `client_session` | two senders, `StreamSize` 50: one sends a full packet and a short one, the other a short one; one loss request, one packet spilled | `ReuseBounded`, `EndForgets`, `LostOnlyToEnds`, `ResendAnswered` |
| `life_cycle` | two clients of one address, one sends twice, three sessions of three shares, two closes each, stacks of 4 | `YoungStaysOpen`, `OpenIsRegistered`, `UnusedIsClosed` |
| `file_store` | two keys, the first of two cells, two putters, a reader, files of one value, one file kept, three made | `ThrowsJustified`: get throws for no key that is in the store; `IndexTruthful`: an entry points at its bytes |
| `packet_spill` | two senders with a packet each, every limit at 1, no file written | `NothingLost`: but for the packet behind an acknowledged one and what the store loses; `AccountBalanced`, `WaitEnds` |

Four runs check what a comment says against what the code does and find a
counterexample. Each is a finding in `PROJECT.json`.

| Run | The code |
|---|---|
| `session_whole` | a message of two or more packets is posted without its last chunk |
| `listener_all` | a datagram queued between the worker's last look and its clearing of the flag waits for the next one |
| `client_next_message` | the end of a message removes one packet too many, the first of the next message |
| `life_used` | a session that expired closes at the end of its last message though a client uses it |

Definitions beside them state more of what comments say and were seen to fail in the same
way, though no run is kept for them; those of the session with `MaxCopies` 1 and the packets of
`MCServerSession`:

| Definition | Instance | The code |
|---|---|---|
| `RetryAfterWaiting` | ring 3, `MaxReadNull` 2, `TriplePackets` | the ten retries of a gap run out at once, without any waiting (`ServerSession.java:417`) |
| `EmptyPassDiscardsNothing` | ring 2, `MaxReadNull` 1, `ConfirmedPackets` | a confirmation handled late starts a reader with nothing to read, whose pass empties a slot that was filled meanwhile (`ServerSession.java:204`): the message is gone, and its sender hears nothing |
| `CloseHonoured` | ring 2, `MaxReadNull` 2, `ClosingPackets` | the client's close is forgotten when it comes after the last pass |
| `SingleLossRepaired` | ring 2, `MaxReadNull` 2, `LonelyConfirm` | a message known by its confirmation alone is never asked for |
| `RingAccounted`, as an invariant | ring 2, `MaxReadNull` 1, `ClosingPackets` | a reader started by a late confirmation of a message already read empties a slot that was filled meanwhile; hence `AccountKept` with its exception |
| `GetReturnsPut` | `file_store` | `get` opens the file without its directory, and deserialises what are raw bytes (`FileMemoryData.java:80`, `:88`) |
| `SweptAreCleared` | `listener`, also with one receiver and one worker | the sweep of closed sessions ('先触发清除', trigger the clearing first) removes none, since `getSessions` answers null whatever is registered (`ServerManager.java:183`) |
| `CreatedIsOpen` | the same | a datagram of a closed session is handed to it again, for ever: `createSession` ('创建session', create the session) returns what it finds, closed or not (`ListenerData.java:217`) |
| `GrantedIsOpen` | `life_cycle` | `getSession` renews a closed entry of the pool ('更新', update) but returns the closed session, on whose socket the caller sends (`ClientSessionsPools.java:81`) |
| `OneStorer` | `file_store` | two puts that both find no storing thread running start one each |

Some properties are weaker than one would wish because the code is: `ResendAnswered` excepts
a packet that the spilling thread has in hand or that is in a file; `LostOnlyToEnds` excepts
packets the end of another message covers, which happens when two senders' numbers
interleave; `ReuseBounded` allows a number once per counter, since two first callers can
each make one; `AloneOnQueue` and `InOrder` ask for one receiver, since two can start two
workers; `EndForgets` speaks of ends that come after every packet of the message was kept,
since a faster one finds nothing to remove; `IndexTruthful` excepts two storing threads at
once; `NothingLost` excepts what a store that was replaced, a file deleted for its age or an
index entry lost to an overlapping publication held, and the packet the end of the message
before removed; `ResultsCoherent` says slots, and slots go by number modulo the size, so
only a message whose first number is a multiple of its size is posted in the order of its
numbers; `ListenerSurvives` and `ExactlyOnceAtRest` are about sessions that get one-packet
messages and the confirmations the client sends after them, in behaviours without an empty
pass (which `EmptyPassDiscardsNothing` shows to lose a message); nothing is claimed of
closed sessions in the listener's table, which stay there and are found again
(`SweptAreCleared`, `CreatedIsOpen`); `AccountBalanced` allows more bytes than there are
once a session has left the table, since its packets are then never taken off;
`UnusedIsClosed` speaks of moments at rest; and that no session is handed out closed is
false (`GrantedIsOpen`), so the theorem `ClosedHandedOutOnce` says that it is not handed out
a second time.

### Bounds, and why they are enough

A ring of three has a first, a middle and a last slot; six offers overwrite and go round
twice. A ring of two with numbers 0, 1 and 2 has two messages on one slot, what 2000
slots and long sessions come to. Two copies of a packet are a retransmission, two
receivers and two workers a race of two. `MaxClosings` 1 lets the list of closed sessions
be filled and pruned by two threads at once, which already drives its size below zero.
Three messages (one a resend) and four numbers on the client let a message have a
successor, and two senders race for the first number and interleave. With `StreamSize` 50
and 41 bytes of header a full packet is resent as two packets and a short one as one.
`MaxReadNull` 1 replaces ten retries: only passing the limit matters.

`life_cycle` (about 1.4 million states): three sessions are one closed, its replacement and
one of the `null0` key; two closes make the count negative; shares of three are used up by
the two clients and a second send; four frames are enough for a removal reported from within
a removal. `file_store`: files of one value and one kept file make the third value delete
the first's; the two-cell value lies across what a one-cell write would need.
`packet_spill`: every limit is passed by the second packet, so both senders may wait and
both may start a thread and make a store; its storing thread never starts there (`StoreAt`
9), for the composed state space is too large: that the storing thread loses nothing either
is checked alone by `file_store` and proved of the composition.

### Fairness

Weak fairness of each thread's own steps and of nothing else: a started thread carries on
with its loop, for a Java thread that is runnable is scheduled sooner or later. That is the
listener's and the reader's steps in `ServerSession`, receivers and workers in
`ListenerData`, the senders' calls under way and the worker in `ClientSession`, senders,
spilling threads and the store's own threads in `PacketSpill`. Arrivals, new calls,
closings, acknowledgements, spilling of a given packet and losses have none. The receive
buffer's reader is fair since the session calls poll again until it gives up.

## Proofs

Each argument is an induction: the part named first is inductive, the theorem follows.

`ReceiveBufferProofs` is about every size, first number, set of chunks and finite set of
offering threads. `IInv` is the inductive invariant: types, every chunk in its own slot
(`SlotAligned`), the cursor at the number of chunks read modulo the size
(`CursorIsCount`), the count not below the number of stored chunks, and the count as the
balance of offers and reads. `NoHiddenChunk` alone is not inductive: that taking a chunk
lowers the number of stored chunks by exactly one needs the slots to be single. From
`IInv` follow `TypeCorrect`, `NothingHidden`, `CountBalances`, `SingleOffererBounded`,
`NothingInvented`, `ReadsInSlotOrder`, `EmptyOneShort` (what isEmpty really means), and
that each step of the buffer is a step or stutter of `ChunkStore` (`RefinesChunkStore`, the
safety part). They rest on the assumptions about the constants in `ReceiveBuffer`: a
positive size, chunks with natural numbers, a `Null` that is no chunk.

`ServerSessionProofs` is about every ring, limit of retries and set of packets. `SingleReader`
needs only the flag and the reader's position. `HandedOverOnce` needs `Conserved`: of each
chunk, what was delivered, what the reader has collected, what lies in the ring and what the
listener has in hand are together no more than what arrived; a released buffer takes its
chunks with it and a refused offer drops one, so this is an inequality. It takes the types of
ring, hands and counts. `AccountFollowsRing` needs besides `OneReader` that the buffer the
reader holds is the one of its slot (`HeldInSlot`). `SessionTypes` is all of `TypeOK`; its
hard part is that no chunk is taken from a buffer whose count does not know of one. Assumed
are the forms of packets (`PacketsAssumption`), that two packets do not carry the same chunk
(`DistinctAssumption`) and that `Null` is neither chunk nor buffer.

Five theorems of that module have the hypothesis `MessagesApart`: no packet comes twice,
messages that meet have slots of their own in the ring, all packets of a message announce the
same size, and no two of its chunks have the same place in its buffer. It speaks of what the
network and the sender's numbers do, which the session does not control. TLC evaluates it for the
packets of `session_mixed` (`MixedPacketsApart`), so there are packets that fulfil it.

- `ResultsAreCoherent` (`ResultsCoherent`): the list the reader collects belongs to the slot it
  is at (`ListAtSlot`), its length goes with the buffer's cursor (`Abreast`), and each chunk stands at
  the place of its number (`Placed`).
- `EndIsAcknowledgedOnce` (`EndAckOnce`): the reader has listed all chunks at places it passed
  (`Swept`); the slot of an acknowledged message is retired (`AckedPast`): the session is
  closed and nothing under way reaches the slot, or all chunks, the last perhaps excepted, were
  handed over, and the reader looks at a place it will not find filled again; and before the
  first chunk is taken there is always one to find (`NoneRead`), so no acknowledgement without
  a message is sent.
- `SingleAcksAreTruthful` (`SingleAckTruthful`) adds the counts of one-packet messages
  (`SingleInv`).
- `ListenerLives` (`ListenerSurvives`) and `NothingIsLost` (`ExactlyOnceAtRest`) are about
  sessions that get one-packet messages and their confirmations, in any order, and about
  behaviours without an empty pass, which a confirmation handled after its message was read
  can start: there is no retry and no close (`Calm`), count and ring agree, a buffer in the
  ring stays until its chunk is in it and out again (`Prepared`, `Emptied`), and what came is
  delivered, collected, in the ring or in the listener's hand (`Kept`).

`ListenerDataProofs` is about any number of receivers, workers, sources and datagrams.
`FlagSound` holds by induction from the types of flag and positions. `Alone` needs
`StartGuarded`: a receiver under way has delivered something; with one receiver a worker
alive means the flag is set, and a receiver about to start one means it is clear.
`HandledInOrder` needs `LineInv`: handled, in hand, queued and arrived numbers rise in
this order. `ListenerTypes`, `OneSessionEver` and `SweptMapThere` are about the table: a
key that a sweep has in hand has a session that registered itself, so the sweep leaves
its map alone (`RegisteredInv`); a worker that looks for a session has found or made
its source's map (`LookInv`); and a session that was created is in the table (`OnceInv`).
They assume the form of datagrams and that `Null` is no session.

`ClientSessionProofs` has the theorems of the format: for every length and `streamSize` the
pieces lie within the message and none is longer than `streamSize` (`PieceBounds`), the loop
computes them (`LoopComputes`), each byte is in exactly one (`PiecesPartition`). Of the session
it proves `SessionTypes` and, for any finite set of senders and any lengths:

- `LostOnlyToEnds` (`KeptUntilAnEnd`): `JobCovered` says that of a message being sent all
  packets sent so far are held, in a file or covered by an end, `WholeCovered` the same of one
  completely sent; `CoveredStays` shows that no step of worker, spilling thread or other sender
  takes that away.
- `ReuseIsBounded` (`ReuseBounded`): there are no more counters than senders past the point
  where they could make one (`Counters`); the packets sent with a number and the
  threads about to send one are no more than the counters that have passed it (`Room`).
- `EndsForget` (`EndForgets`): with one counter the numbers in flight differ and are below the
  next one, and the numbers of a completely sent message are past: nobody holds them and nobody
  takes them again (`NumbersApart`).

`ClientLifeCycleProofs` is about any number of sessions, clients, addresses and shares, and
any depth of the threads' stacks, which `TypeOK` does not bound. The inductive invariant
`Inv` says of each frame what it may say of its session (`FramesTruthful`) and relates
frames to the tables: closed sessions are logically closed, and these are not young
(`Nested`); a thread that is to remove a session closes it first (`RemovedIsClosed`); no two
entries of the pool share a session (`PoolApart`); a session under the key "null0" has no
client, and its count does not fall below zero (`NullApart`); no entry of the pool is a
session that was handed out closed (`ClosedIsReplaced`); and an unused session that is
logically closed is closed or due to be: a frame of some thread or a collected client in the
queue leads to its close (`UnusedIsDue`). From it follow `LifeTypes`, `YoungAreOpen`,
`OpenAreRegistered`, `ClosedHandedOutOnce` (`ClosedGrantedOnce`, of which no run is kept: it
takes three clients, two of which ask for the address of a closed session) and
`UnusedAreClosed`. The lemmas `Keeps...` say once for all actions what replacing the first
frames of a stack does to each part.

`FileMemoryDataProofs` is about any number of putters, readers, keys and files, and storing
threads that overlap. `FindInv` strengthens "in the cache or in the index": a key that a
storing thread is about to drop from the cache, and one that a reader missed in the cache,
is in the index unless its file was deleted; `AgeInv` numbers files upwards, so that no file
still written to is deleted. `AlwaysFindable` and `ThrowsOnlyJustified` follow.
`IndexIsTruthful` (`IndexTruthful`) needs `StoresAlone`: as long as no two storing threads ran
at once there is only one, and the position it carries along is the end of the file it writes.

`PacketSpillProofs` adds that a packet which left memory is in a thread's hand or was put
(`SpillLosesNothing`), for the composition with the storing and deleting threads at work, and
that what the end of another message removed is the packet right behind an acknowledged one,
and that the account of bytes is the sum over the packets it stands for (`AccountIsBalanced`):
`OncePlaced` says that a packet is in the queue, on its way into it or on its way out, and only
one of these, once. The sum is a fold over a finite set; that it exists, and grows by the
cost of an added packet, is shown by an induction over subsets which is stated with a set of
sets where the library has a predicate. Assumed are natural limits, values that are not empty,
that `None` is no key or entry, and that packets are numbered and have one sender each.

So every invariant that a passing run checks is stated by a theorem. Only model-checked is
liveness under fairness (`HeadIsRead`, `StoredIsRead`, `Drained`, `ResendAnswered`,
`WaitEnds`), which the prover does not handle, and with it the liveness part of
`ImplementsChunkStore`.

## Not modelled

- The application's read calls, `setCall` and `close` of the server session, and the
  hand-over of results to waiting readers; `getData`, `getDataLen` and `remove` of the
  listener; `read` and the local address of the client session, and a second worker there,
  which two first senders that both start the receive thread could cause.
- Of `judpClient`, sending from a bound address (lines 69-77); of the pool, that the key is
  a concatenation of address and port; the limit of 5000 cache entries; the close
  acknowledgement's second copy.
- The store's compaction, which never runs since `isModifyFile` stays false; its `delete`,
  whose caller's loop is never entered; and `data.index`, which is written and never read.
  There is nothing to say of a restart: a new process reads no file back.
- Parsing of packets beyond the fields the models use. `waitSequenceNumber` after the
  cursor wrapped asks for a chunk already read. The overflow of `readbufIndex` needs 2^31
  passes.
- Sockets, bus, older stores (`PersistDB/src/StoreDisk`), records, tools and demonstrations hold no
  protocol state of their own.
- `.metadata/.plugins/org.eclipse.wst.jsdt.core/libraries/*.js` are declarations of browser
  objects an Eclipse plug-in leaves in its workspace. They have no behaviour, and
  nothing in jyudp uses them. They are the only JavaScript in the repository; the program
  is Java, and all that is modelled is Java.

## Plan

Done: all modules above and their proofs. Left, in this order:

1. The server session's read calls, the hand-over to the application, and `close` by it.
2. An abstract specification of the session (messages handed over whole, at most once)
   that `ServerSession` implements when messages lie apart; its invariants are proved.
3. A second worker of the client session.
