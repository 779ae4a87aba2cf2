------------------------- MODULE ListenerDataProofs -------------------------
(***************************************************************************)
(* Proofs about ListenerData for any number of receivers, workers, sources *)
(* and datagrams.  The first part is about the on-demand worker, which     *)
(* neither the sweep of closed sessions nor the session table can disturb; *)
(* the second about the table, which no interleaving of workers, closing   *)
(* sessions and removing threads makes forget or duplicate a session.      *)
(***************************************************************************)
EXTENDS ListenerData, SequenceTheorems, TLAPS

Places == {"none", "poll", "empty", "exit", "size", "copy", "sweep", "find", "cut",
           "lookup", "map", "session", "create", "add", "dead"}

WorkerInv ==
    /\ isStart \in BOOLEAN
    /\ worker \in [Workers -> Places]
    /\ receiver \in [Receivers -> {"idle", "check", "start"}]
    /\ from \subseteq Receivers

(* What keeps a lone receiver from starting a second worker: it is the only *)
(* one under way, it starts one only on a clear flag, and the flag is clear *)
(* only when no worker is left.                                             *)
StartGuarded ==
    /\ \A r \in Receivers : receiver[r] # "idle" => r \in from
    /\ OneReceiver => ((\E w \in Workers : Alive(w)) => isStart)
    /\ OneReceiver => \A r \in Receivers : receiver[r] = "start" => ~isStart

(* A worker's step other than its exit moves that worker alone, from one    *)
(* place of its loop to another or to its death.                            *)
LEMMA WorkKeeps ==
    ASSUME WorkerInv, NEW w \in Workers, Work(w), ~Exit(w)
    PROVE  /\ Alive(w) /\ worker'[w] # "none" /\ worker' \in [Workers -> Places]
           /\ \A v \in Workers \ {w} : worker'[v] = worker[v]
           /\ UNCHANGED <<isStart, receiver, from>>
<1> DEFINE Moves == /\ Alive(w) /\ worker'[w] # "none" /\ worker' \in [Workers -> Places]
                    /\ \A v \in Workers \ {w} : worker'[v] = worker[v]
<1> USE DEF WorkerInv, Places, WStep, Dies, Alive
<1>1. CASE PollSome(w)
  <2>1. Moves
    BY <1>1 DEF PollSome
  <2>2. UNCHANGED <<isStart, receiver, from>>
    BY <1>1 DEF PollSome, queued
  <2> QED
    BY <2>1, <2>2
<1>2. CASE PollNothing(w)
  <2>1. Moves
    BY <1>2 DEF PollNothing
  <2>2. UNCHANGED <<isStart, receiver, from>>
    BY <1>2 DEF PollNothing, queued
  <2> QED
    BY <2>1, <2>2
<1>3. CASE LookAgain(w)
  <2>1. Moves
    BY <1>3 DEF LookAgain
  <2>2. UNCHANGED <<isStart, receiver, from>>
    BY <1>3 DEF LookAgain, queued
  <2> QED
    BY <2>1, <2>2
<1>4. CASE NothingToSweep(w)
  <2>1. Moves
    BY <1>4 DEF NothingToSweep
  <2>2. UNCHANGED <<isStart, receiver, from>>
    BY <1>4 DEF NothingToSweep, queued
  <2> QED
    BY <2>1, <2>2
<1>5. CASE SizeThrows(w)
  <2>1. Moves
    BY <1>5 DEF SizeThrows
  <2>2. UNCHANGED <<isStart, receiver, from>>
    BY <1>5 DEF SizeThrows, queued
  <2> QED
    BY <2>1, <2>2
<1>6. CASE SizeRead(w)
  <2>1. Moves
    BY <1>6 DEF SizeRead
  <2>2. UNCHANGED <<isStart, receiver, from>>
    BY <1>6 DEF SizeRead, queued
  <2> QED
    BY <2>1, <2>2
<1>7. CASE CopyKey(w)
  <2>1. Moves
    BY <1>7 DEF CopyKey
  <2>2. UNCHANGED <<isStart, receiver, from>>
    BY <1>7 DEF CopyKey, queued
  <2> QED
    BY <2>1, <2>2
<1>8. CASE CopyThrows(w)
  <2>1. Moves
    BY <1>8 DEF CopyThrows
  <2>2. UNCHANGED <<isStart, receiver, from>>
    BY <1>8 DEF CopyThrows, queued
  <2> QED
    BY <2>1, <2>2
<1>9. CASE Sweep(w)
  <2>1. Moves
    BY <1>9 DEF Sweep
  <2>2. UNCHANGED <<isStart, receiver, from>>
    BY <1>9 DEF Sweep, queued
  <2> QED
    BY <2>1, <2>2
<1>10. CASE FindKey(w)
  <2>1. Moves
    BY <1>10 DEF FindKey
  <2>2. UNCHANGED <<isStart, receiver, from>>
    BY <1>10 DEF FindKey, queued
  <2> QED
    BY <2>1, <2>2
<1>11. CASE NoKeyFound(w)
  <2>1. Moves
    BY <1>11 DEF NoKeyFound, AfterKey
  <2>2. UNCHANGED <<isStart, receiver, from>>
    BY <1>11 DEF NoKeyFound, queued
  <2> QED
    BY <2>1, <2>2
<1>12. CASE CutThrows(w)
  <2>1. Moves
    BY <1>12 DEF CutThrows
  <2>2. UNCHANGED <<isStart, receiver, from>>
    BY <1>12 DEF CutThrows, queued
  <2> QED
    BY <2>1, <2>2
<1>13. CASE CutKey(w)
  <2>1. Moves
    BY <1>13 DEF CutKey, AfterKey
  <2>2. UNCHANGED <<isStart, receiver, from>>
    BY <1>13 DEF CutKey, queued
  <2> QED
    BY <2>1, <2>2
<1>14. CASE FindMap(w)
  <2>1. Moves
    BY <1>14 DEF FindMap
  <2>2. UNCHANGED <<isStart, receiver, from>>
    BY <1>14 DEF FindMap, queued
  <2> QED
    BY <2>1, <2>2
<1>15. CASE CreateMap(w)
  <2>1. Moves
    BY <1>15 DEF CreateMap
  <2>2. UNCHANGED <<isStart, receiver, from>>
    BY <1>15 DEF CreateMap, queued
  <2> QED
    BY <2>1, <2>2
<1>16. CASE FindSession(w)
  <2>1. Moves
    BY <1>16 DEF FindSession
  <2>2. UNCHANGED <<isStart, receiver, from>>
    BY <1>16 DEF FindSession, queued
  <2> QED
    BY <2>1, <2>2
<1>17. CASE CreateSession(w)
  <2>1. Moves
    BY <1>17 DEF CreateSession
  <2>2. UNCHANGED <<isStart, receiver, from>>
    BY <1>17 DEF CreateSession, queued
  <2> QED
    BY <2>1, <2>2
<1>18. CASE AddData(w)
  <2>1. Moves
    BY <1>18 DEF AddData
  <2>2. UNCHANGED <<isStart, receiver, from>>
    BY <1>18 DEF AddData, queued
  <2> QED
    BY <2>1, <2>2
<1>19. CASE AddDataThrows(w)
  <2>1. Moves
    BY <1>19 DEF AddDataThrows
  <2>2. UNCHANGED <<isStart, receiver, from>>
    BY <1>19 DEF AddDataThrows, queued
  <2> QED
    BY <2>1, <2>2
<1> QED
  BY <1>1, <1>2, <1>3, <1>4, <1>5, <1>6, <1>7, <1>8, <1>9, <1>10,
     <1>11, <1>12, <1>13, <1>14, <1>15, <1>16, <1>17, <1>18, <1>19 DEF Work

(* The removing threads and the closing sessions leave the worker alone. *)
LEMMA OthersKeep ==
    ASSUME \/ \E n \in Numbers : RemoverFinds(n) \/ RemoverCuts(n)
           \/ \E k \in Keys, i \in Ids : SessionCloses(k, i) \/ SessionRegisters(k, i)
           \/ UNCHANGED vars
    PROVE  UNCHANGED <<queued, worker, data, handled>>
BY DEF RemoverFinds, RemoverCuts, SessionCloses, SessionRegisters, vars, queued, sessions

(* The invariant holds at first. *)
LEMMA InitWorker == Init => WorkerInv /\ StartGuarded /\ FlagMeansWorker /\ AloneOnQueue
<1> SUFFICES ASSUME Init PROVE WorkerInv /\ StartGuarded /\ FlagMeansWorker /\ AloneOnQueue
  OBVIOUS
<1> QED
  BY DEF Init, WorkerInv, Places, StartGuarded, FlagMeansWorker, AloneOnQueue, Alive

(* The types of flag and positions are kept. *)
LEMMA NextWorkerInv == WorkerInv /\ [Next]_vars => WorkerInv'
<1> SUFFICES ASSUME WorkerInv, [Next]_vars PROVE WorkerInv'
  OBVIOUS
<1> USE DEF WorkerInv, Places
<1>1. ASSUME NEW r \in Receivers, Receive(r) PROVE WorkerInv'
  BY <1>1 DEF Receive, SeesStarted, SeesNone, Start
<1>2. ASSUME NEW r \in Receivers, NEW d \in Datagrams, Offer(r, d) PROVE WorkerInv'
  BY <1>2 DEF Offer
<1>3. ASSUME NEW w \in Workers, Exit(w) PROVE WorkerInv'
  BY <1>3 DEF Exit, WStep
<1>4. ASSUME NEW w \in Workers, Work(w), ~Exit(w) PROVE WorkerInv'
  BY <1>4, WorkKeeps
<1>5. ASSUME UNCHANGED <<queued, worker, data, handled>> PROVE WorkerInv'
  BY <1>5 DEF queued
<1> QED
  BY <1>1, <1>2, <1>3, <1>4, <1>5, OthersKeep DEF Next

(* isStart never outlives the workers, whatever the number of receivers:    *)
(* only an exception can leave the flag set with no worker behind it.       *)
THEOREM FlagSound == Spec => []FlagMeansWorker
<1>1. WorkerInv /\ FlagMeansWorker /\ [Next]_vars => FlagMeansWorker'
  <2> SUFFICES ASSUME WorkerInv, FlagMeansWorker, [Next]_vars PROVE FlagMeansWorker'
    OBVIOUS
  <2> USE DEF WorkerInv, FlagMeansWorker, Alive, SomeoneDied
  <2>1. ASSUME NEW r \in Receivers, SeesStarted(r) \/ SeesNone(r) PROVE FlagMeansWorker'
    BY <2>1 DEF SeesStarted, SeesNone
  <2>2. ASSUME NEW r \in Receivers, Start(r) PROVE FlagMeansWorker'
    BY <2>2 DEF Start
  <2>3. ASSUME NEW r \in Receivers, NEW d \in Datagrams, Offer(r, d) PROVE FlagMeansWorker'
    BY <2>3 DEF Offer
  <2>4. ASSUME NEW w \in Workers, Exit(w) PROVE FlagMeansWorker'
    BY <2>4 DEF Exit
  <2>5. ASSUME NEW w \in Workers, Work(w), ~Exit(w) PROVE FlagMeansWorker'
    <3>1. worker'[w] # "none"
      BY <2>5, WorkKeeps
    <3>2. SomeoneDied' \/ Alive(w)'
      BY <3>1
    <3> QED
      BY <3>2
  <2>6. ASSUME UNCHANGED <<queued, worker, data, handled>> PROVE FlagMeansWorker'
    BY <2>6 DEF queued
  <2> QED
    BY <2>1, <2>2, <2>3, <2>4, <2>5, <2>6, OthersKeep DEF Next, Receive
<1> QED
  BY <1>1, InitWorker, NextWorkerInv, PTL DEF Spec

(* One receiver never starts a second worker while one is left, although    *)
(* flag and start are two steps: the guard of the flag is inductive.        *)
LEMMA NextGuarded ==
    WorkerInv /\ StartGuarded /\ AloneOnQueue /\ [Next]_vars => StartGuarded' /\ AloneOnQueue'
<1> SUFFICES ASSUME WorkerInv, StartGuarded, AloneOnQueue, [Next]_vars
             PROVE  StartGuarded' /\ AloneOnQueue'
  OBVIOUS
<1> USE DEF WorkerInv, StartGuarded, AloneOnQueue, Alive, OneReceiver
<1>1. ASSUME NEW r \in Receivers, SeesStarted(r) \/ SeesNone(r)
      PROVE  StartGuarded' /\ AloneOnQueue'
  BY <1>1 DEF SeesStarted, SeesNone
<1>2. ASSUME NEW r \in Receivers, Start(r) PROVE StartGuarded' /\ AloneOnQueue'
  <2>1. PICK w \in Workers : /\ receiver[r] = "start" /\ worker[w] = "none"
                             /\ receiver' = [receiver EXCEPT ![r] = "idle"]
                             /\ isStart' = TRUE /\ from' = from
                             /\ worker' = [worker EXCEPT ![w] = "poll"]
    BY <1>2 DEF Start
  <2>2. OneReceiver => \A q \in Receivers : receiver'[q] = "idle"
    BY <2>1
  <2>3. OneReceiver => ~\E v \in Workers : Alive(v)
    BY <2>1
  <2>4. AloneOnQueue'
    BY <2>1, <2>3
  <2> QED
    BY <2>1, <2>2, <2>4
<1>3. ASSUME NEW r \in Receivers, NEW d \in Datagrams, Offer(r, d)
      PROVE  StartGuarded' /\ AloneOnQueue'
  BY <1>3 DEF Offer
<1>4. ASSUME NEW w \in Workers, Exit(w) PROVE StartGuarded' /\ AloneOnQueue'
  BY <1>4 DEF Exit, WStep
<1>5. ASSUME NEW w \in Workers, Work(w), ~Exit(w) PROVE StartGuarded' /\ AloneOnQueue'
  <2>1. \A v \in Workers \ {w} : worker'[v] = worker[v]
    BY <1>5, WorkKeeps
  <2>2. worker[w] \notin {"none", "dead"} /\ UNCHANGED <<isStart, receiver, from>>
    BY <1>5, WorkKeeps
  <2>3. \A v \in Workers : Alive(v)' => Alive(v)
    BY <2>1, <2>2
  <2> QED
    BY <2>2, <2>3
<1>6. ASSUME UNCHANGED <<queued, worker, data, handled>> PROVE StartGuarded' /\ AloneOnQueue'
  BY <1>6 DEF queued
<1> QED
  BY <1>1, <1>2, <1>3, <1>4, <1>5, <1>6, OthersKeep DEF Next, Receive

(* With one receiver there are never two workers on the queue. *)
THEOREM Alone == Spec => []AloneOnQueue
BY InitWorker, NextWorkerInv, NextGuarded, PTL DEF Spec

-----------------------------------------------------------------------------
(* A worker that has a datagram in hand. *)
Busy(w) == Alive(w) /\ worker[w] \notin {"poll", "empty", "exit"}

QueueTypes ==
    /\ queue \in Seq(Nat) /\ handled \in Seq(Nat) /\ arrived \in Seq(Datagrams)
    /\ data \in [Workers -> Nat]

(* Handled, in hand, queued, arrived: with one receiver the numbers rise    *)
(* along that line, which is what makes the order of handling inductive.    *)
Lined ==
    /\ \A i, j \in DOMAIN queue : i < j => queue[i] < queue[j]
    /\ \A i \in DOMAIN queue : queue[i] <= Len(arrived)
    /\ \A i, j \in DOMAIN handled : i < j => handled[i] < handled[j]
    /\ \A i \in DOMAIN handled : handled[i] <= Len(arrived)
    /\ \A i \in DOMAIN handled, j \in DOMAIN queue : handled[i] < queue[j]
    /\ \A w \in Workers : Busy(w) =>
         /\ data[w] <= Len(arrived)
         /\ \A i \in DOMAIN handled : handled[i] < data[w]
         /\ \A j \in DOMAIN queue : data[w] < queue[j]

LineInv == QueueTypes /\ (OneReceiver => Lined)

(* A step that takes no datagram from the queue and hands none over leaves  *)
(* every datagram in hand where it is.                                      *)
LEMMA WorkHolds ==
    ASSUME WorkerInv, QueueTypes, NEW w \in Workers, Work(w),
           ~PollSome(w), ~AddData(w), ~AddDataThrows(w)
    PROVE  /\ UNCHANGED <<queue, handled, arrived, from>> /\ data' \in [Workers -> Nat]
           /\ \A v \in Workers : Busy(v)' => Busy(v) /\ data'[v] = data[v]
<1> DEFINE Holds == /\ data' \in [Workers -> Nat]
                    /\ \A v \in Workers : Busy(v)' => Busy(v) /\ data'[v] = data[v]
<1> USE DEF WorkerInv, QueueTypes, Places, WStep, Dies, Alive, Busy
<1>1. CASE PollNothing(w)
  <2>1. Holds
    BY <1>1 DEF PollNothing
  <2>2. UNCHANGED <<queue, handled, arrived, from>>
    BY <1>1 DEF PollNothing, queued, sessions
  <2> QED
    BY <2>1, <2>2
<1>2. CASE LookAgain(w)
  <2>1. Holds
    BY <1>2 DEF LookAgain
  <2>2. UNCHANGED <<queue, handled, arrived, from>>
    BY <1>2 DEF LookAgain, queued, sessions
  <2> QED
    BY <2>1, <2>2
<1>3. CASE NothingToSweep(w)
  <2>1. Holds
    BY <1>3 DEF NothingToSweep
  <2>2. UNCHANGED <<queue, handled, arrived, from>>
    BY <1>3 DEF NothingToSweep, queued, sessions
  <2> QED
    BY <2>1, <2>2
<1>4. CASE SizeThrows(w)
  <2>1. Holds
    BY <1>4 DEF SizeThrows
  <2>2. UNCHANGED <<queue, handled, arrived, from>>
    BY <1>4 DEF SizeThrows, queued, sessions
  <2> QED
    BY <2>1, <2>2
<1>5. CASE SizeRead(w)
  <2>1. Holds
    BY <1>5 DEF SizeRead
  <2>2. UNCHANGED <<queue, handled, arrived, from>>
    BY <1>5 DEF SizeRead, queued, sessions
  <2> QED
    BY <2>1, <2>2
<1>6. CASE CopyKey(w)
  <2>1. Holds
    BY <1>6 DEF CopyKey
  <2>2. UNCHANGED <<queue, handled, arrived, from>>
    BY <1>6 DEF CopyKey, queued, sessions
  <2> QED
    BY <2>1, <2>2
<1>7. CASE CopyThrows(w)
  <2>1. Holds
    BY <1>7 DEF CopyThrows
  <2>2. UNCHANGED <<queue, handled, arrived, from>>
    BY <1>7 DEF CopyThrows, queued, sessions
  <2> QED
    BY <2>1, <2>2
<1>8. CASE Sweep(w)
  <2>1. Holds
    BY <1>8 DEF Sweep
  <2>2. UNCHANGED <<queue, handled, arrived, from>>
    BY <1>8 DEF Sweep, queued, sessions
  <2> QED
    BY <2>1, <2>2
<1>9. CASE FindKey(w)
  <2>1. Holds
    BY <1>9 DEF FindKey
  <2>2. UNCHANGED <<queue, handled, arrived, from>>
    BY <1>9 DEF FindKey, queued, sessions
  <2> QED
    BY <2>1, <2>2
<1>10. CASE NoKeyFound(w)
  <2>1. Holds
    BY <1>10 DEF NoKeyFound, AfterKey
  <2>2. UNCHANGED <<queue, handled, arrived, from>>
    BY <1>10 DEF NoKeyFound, queued, sessions
  <2> QED
    BY <2>1, <2>2
<1>11. CASE CutThrows(w)
  <2>1. Holds
    BY <1>11 DEF CutThrows
  <2>2. UNCHANGED <<queue, handled, arrived, from>>
    BY <1>11 DEF CutThrows, queued, sessions
  <2> QED
    BY <2>1, <2>2
<1>12. CASE CutKey(w)
  <2>1. Holds
    BY <1>12 DEF CutKey, AfterKey
  <2>2. UNCHANGED <<queue, handled, arrived, from>>
    BY <1>12 DEF CutKey, queued, sessions
  <2> QED
    BY <2>1, <2>2
<1>13. CASE FindMap(w)
  <2>1. Holds
    BY <1>13 DEF FindMap
  <2>2. UNCHANGED <<queue, handled, arrived, from>>
    BY <1>13 DEF FindMap, queued, sessions
  <2> QED
    BY <2>1, <2>2
<1>14. CASE CreateMap(w)
  <2>1. Holds
    BY <1>14 DEF CreateMap
  <2>2. UNCHANGED <<queue, handled, arrived, from>>
    BY <1>14 DEF CreateMap, queued, sessions
  <2> QED
    BY <2>1, <2>2
<1>15. CASE FindSession(w)
  <2>1. Holds
    BY <1>15 DEF FindSession
  <2>2. UNCHANGED <<queue, handled, arrived, from>>
    BY <1>15 DEF FindSession, queued, sessions
  <2> QED
    BY <2>1, <2>2
<1>16. CASE CreateSession(w)
  <2>1. Holds
    BY <1>16 DEF CreateSession
  <2>2. UNCHANGED <<queue, handled, arrived, from>>
    BY <1>16 DEF CreateSession, queued, sessions
  <2> QED
    BY <2>1, <2>2
<1>17. CASE Exit(w)
  <2>1. Holds
    BY <1>17 DEF Exit
  <2>2. UNCHANGED <<queue, handled, arrived, from>>
    BY <1>17 DEF Exit, queued, sessions
  <2> QED
    BY <2>1, <2>2
<1> QED
  BY <1>1, <1>2, <1>3, <1>4, <1>5, <1>6, <1>7, <1>8, <1>9, <1>10,
     <1>11, <1>12, <1>13, <1>14, <1>15, <1>16, <1>17 DEF Work

(* The worker takes the head of the queue, which stands behind all that was *)
(* handled and before the rest of the queue.                                *)
LEMMA PollKeepsLine ==
    ASSUME WorkerInv, LineInv, AloneOnQueue, NEW w \in Workers, PollSome(w)
    PROVE  LineInv'
<1> USE DEF WorkerInv, Places, LineInv, QueueTypes, Alive, Busy
<1>1. /\ worker[w] = "poll" /\ worker' = [worker EXCEPT ![w] = "size"]
      /\ queue # <<>> /\ queue' = Tail(queue) /\ data' = [data EXCEPT ![w] = Head(queue)]
      /\ UNCHANGED <<handled, arrived, from>>
  BY DEF PollSome, WStep, sessions
<1>2. /\ Len(queue) \in Nat \ {0} /\ Head(queue) = queue[1] /\ Head(queue) \in Nat
      /\ queue' \in Seq(Nat) /\ Len(queue') = Len(queue) - 1
      /\ \A i \in 1 .. Len(queue) - 1 : queue'[i] = queue[i + 1]
      /\ DOMAIN queue = 1 .. Len(queue) /\ DOMAIN queue' = 1 .. Len(queue) - 1
      /\ \A i \in DOMAIN handled : handled[i] \in Nat
  BY <1>1
<1>3. QueueTypes'
  BY <1>1, <1>2
<1>4. ASSUME OneReceiver' PROVE Lined'
  <2>1. Lined /\ OneReceiver
    BY <1>1, <1>4 DEF OneReceiver
  <2>2. \A v \in Workers : Busy(v)' => v = w
    BY <1>1, <2>1 DEF AloneOnQueue
  <2> DEFINE n == Len(queue)
  <2>3. ASSUME NEW i \in DOMAIN queue'
        PROVE  i \in Int /\ i + 1 \in DOMAIN queue /\ 1 < i + 1 /\ queue'[i] = queue[i + 1]
    <3>1. n \in Nat /\ i \in 1 .. n - 1
      BY <1>2
    <3>2. i \in Int /\ i + 1 \in 1 .. n /\ 1 < i + 1
      BY <3>1
    <3>3. queue'[i] = queue[i + 1] /\ DOMAIN queue = 1 .. n
      BY <1>2, <3>1
    <3> HIDE DEF n
    <3> QED
      BY <3>2, <3>3
  <2>4. 1 \in DOMAIN queue
    BY <1>2
  <2>5. /\ \A i, j \in DOMAIN queue' : i < j => queue'[i] < queue'[j]
        /\ \A i \in DOMAIN queue' : queue'[i] <= Len(arrived) /\ Head(queue) < queue'[i]
    <3>1. ASSUME NEW i \in DOMAIN queue', NEW j \in DOMAIN queue', i < j
          PROVE  queue'[i] < queue'[j]
      <4>1. i + 1 < j + 1
        BY <2>3, <3>1
      <4> QED
        BY <2>1, <2>3, <4>1 DEF Lined
    <3>2. ASSUME NEW i \in DOMAIN queue' PROVE queue'[i] <= Len(arrived) /\ Head(queue) < queue'[i]
      <4>1. queue[i + 1] <= Len(arrived)
        BY <2>1, <2>3 DEF Lined
      <4>2. queue[1] < queue[i + 1]
        BY <2>1, <2>3, <2>4 DEF Lined
      <4> HIDE DEF LineInv, QueueTypes
      <4> QED
        BY <1>2, <2>3, <4>1, <4>2
    <3> QED
      BY <3>1, <3>2
  <2>6. ASSUME NEW i \in DOMAIN handled, NEW j \in DOMAIN queue' PROVE handled[i] < queue'[j]
    BY <2>1, <2>3 DEF Lined
  <2>7. Head(queue) <= Len(arrived) /\ \A i \in DOMAIN handled : handled[i] < Head(queue)
    BY <1>2, <2>1, <2>4 DEF Lined
  <2>8. data'[w] = Head(queue)
    BY <1>1
  <2> QED
    BY <1>1, <2>1, <2>2, <2>5, <2>7, <2>8, <2>6 DEF Lined
<1> QED
  BY <1>3, <1>4

(* The worker hands over what it has in hand and has nothing more. *)
LEMMA HandOverKeepsLine ==
    ASSUME WorkerInv, LineInv, AloneOnQueue, NEW w \in Workers, AddData(w) \/ AddDataThrows(w)
    PROVE  LineInv'
<1> USE DEF WorkerInv, Places, LineInv, QueueTypes, Alive, Busy
<1>1. /\ worker[w] = "add" /\ worker'[w] \in {"poll", "dead"}
      /\ \A v \in Workers \ {w} : worker'[v] = worker[v]
      /\ handled' = Append(handled, data[w]) /\ data' = [data EXCEPT ![w] = 0]
      /\ UNCHANGED <<queue, arrived, from>>
  BY DEF AddData, AddDataThrows, Dies, WStep, queued
<1>2. /\ data[w] \in Nat /\ handled' \in Seq(Nat) /\ Len(handled') = Len(handled) + 1
      /\ handled'[Len(handled) + 1] = data[w]
      /\ \A i \in 1 .. Len(handled) : handled'[i] = handled[i]
      /\ DOMAIN handled = 1 .. Len(handled) /\ DOMAIN handled' = 1 .. Len(handled) + 1
      /\ Len(handled) \in Nat
  BY <1>1
<1>3. QueueTypes'
  BY <1>1, <1>2
<1>4. ASSUME OneReceiver' PROVE Lined'
  <2>1. Lined /\ OneReceiver
    BY <1>1, <1>4 DEF OneReceiver
  <2>2. \A v \in Workers : ~Busy(v)'
    BY <1>1, <2>1 DEF AloneOnQueue
  <2>3. /\ data[w] <= Len(arrived)
        /\ \A i \in DOMAIN handled : handled[i] < data[w]
        /\ \A j \in DOMAIN queue : data[w] < queue[j]
    BY <1>1, <2>1 DEF Lined
  <2>4. ASSUME NEW i \in DOMAIN handled', NEW j \in DOMAIN handled', i < j
        PROVE  handled'[i] < handled'[j]
    <3>1. i \in DOMAIN handled /\ handled'[i] = handled[i]
      BY <1>2, <2>4
    <3>2. CASE j \in DOMAIN handled
      BY <1>2, <2>1, <2>4, <3>1, <3>2 DEF Lined
    <3>3. CASE j = Len(handled) + 1
      BY <1>2, <2>3, <3>1, <3>3
    <3> QED
      BY <1>2, <3>2, <3>3
  <2>5. ASSUME NEW i \in DOMAIN handled'
        PROVE  handled'[i] <= Len(arrived) /\ \A j \in DOMAIN queue : handled'[i] < queue[j]
    <3>1. CASE i \in DOMAIN handled
      BY <1>2, <2>1, <3>1 DEF Lined
    <3>2. CASE i = Len(handled) + 1
      BY <1>2, <2>3, <3>2
    <3> QED
      BY <1>2, <3>1, <3>2
  <2> QED
    BY <1>1, <2>1, <2>2, <2>4, <2>5 DEF Lined
<1> QED
  BY <1>3, <1>4

(* A new datagram has the highest number and goes to the end of the queue. *)
LEMMA OfferKeepsLine ==
    ASSUME LineInv, NEW r \in Receivers, NEW d \in Datagrams, Offer(r, d)
    PROVE  LineInv'
<1> USE DEF LineInv, QueueTypes
<1>1. /\ arrived' = Append(arrived, d) /\ queue' = Append(queue, Len(arrived) + 1)
      /\ from' = from \cup {r} /\ UNCHANGED <<worker, data, handled>>
  BY DEF Offer, sessions
<1>2. /\ arrived' \in Seq(Datagrams) /\ Len(arrived') = Len(arrived) + 1 /\ Len(arrived) \in Nat
      /\ queue' \in Seq(Nat) /\ Len(queue') = Len(queue) + 1
      /\ queue'[Len(queue) + 1] = Len(arrived) + 1
      /\ \A i \in 1 .. Len(queue) : queue'[i] = queue[i]
      /\ DOMAIN queue = 1 .. Len(queue) /\ DOMAIN queue' = 1 .. Len(queue) + 1
      /\ Len(queue) \in Nat /\ \A i \in DOMAIN handled : handled[i] \in Nat
      /\ \A i \in DOMAIN queue : queue[i] \in Nat
  <2>1. arrived' \in Seq(Datagrams) /\ Len(arrived') = Len(arrived) + 1 /\ Len(arrived) \in Nat
    BY <1>1
  <2>2. /\ queue' \in Seq(Nat) /\ Len(queue') = Len(queue) + 1
        /\ queue'[Len(queue) + 1] = Len(arrived) + 1
        /\ \A i \in 1 .. Len(queue) : queue'[i] = queue[i]
    BY <1>1, <2>1
  <2>3. DOMAIN queue = 1 .. Len(queue) /\ Len(queue) \in Nat
    OBVIOUS
  <2>4. DOMAIN queue' = 1 .. Len(queue) + 1
    BY <2>2
  <2>5. /\ \A i \in DOMAIN handled : handled[i] \in Nat
        /\ \A i \in DOMAIN queue : queue[i] \in Nat
    OBVIOUS
  <2> QED
    BY <2>1, <2>2, <2>3, <2>4, <2>5
<1>3. ASSUME OneReceiver' PROVE Lined'
  <2>1. Lined
    BY <1>1, <1>3 DEF OneReceiver
  <2>2. ASSUME NEW i \in DOMAIN queue', NEW j \in DOMAIN queue', i < j
        PROVE  queue'[i] < queue'[j]
    <3>1. i \in DOMAIN queue /\ queue'[i] = queue[i]
      BY <1>2, <2>2
    <3>2. CASE j \in DOMAIN queue
      BY <1>2, <2>1, <2>2, <3>1, <3>2 DEF Lined
    <3>3. CASE j = Len(queue) + 1
      BY <1>2, <2>1, <3>1, <3>3 DEF Lined
    <3> QED
      BY <1>2, <3>2, <3>3
  <2>3. /\ \A i \in DOMAIN queue' : queue'[i] <= Len(arrived')
        /\ \A i \in DOMAIN handled : handled[i] <= Len(arrived')
    <3>1. ASSUME NEW i \in DOMAIN queue' PROVE queue'[i] <= Len(arrived')
      <4>1. CASE i \in DOMAIN queue
        BY <1>2, <2>1, <4>1 DEF Lined
      <4>2. CASE i = Len(queue) + 1
        BY <1>2, <4>2
      <4> QED
        BY <1>2, <4>1, <4>2
    <3>2. ASSUME NEW i \in DOMAIN handled PROVE handled[i] <= Len(arrived')
      BY <1>2, <2>1 DEF Lined
    <3> QED
      BY <3>1, <3>2
  <2>4. ASSUME NEW i \in DOMAIN handled, NEW j \in DOMAIN queue' PROVE handled[i] < queue'[j]
    <3>1. CASE j \in DOMAIN queue
      BY <1>2, <2>1, <3>1 DEF Lined
    <3>2. CASE j = Len(queue) + 1
      BY <1>2, <2>1, <3>2 DEF Lined
    <3> QED
      BY <1>2, <3>1, <3>2
  <2>5. \A w \in Workers : Busy(w)' =>
          /\ data[w] <= Len(arrived')
          /\ \A i \in DOMAIN handled : handled[i] < data[w]
          /\ \A j \in DOMAIN queue' : data[w] < queue'[j]
    BY <1>1, <1>2, <2>1 DEF Lined, Busy, Alive
  <2> QED
    BY <1>1, <2>1, <2>2, <2>4, <2>5, <2>3 DEF Lined
<1> QED
  BY <1>1, <1>2, <1>3

(* The line of datagrams is kept by every step while one worker is on the   *)
(* queue.                                                                   *)
LEMMA NextLine == WorkerInv /\ AloneOnQueue /\ LineInv /\ [Next]_vars => LineInv'
<1> SUFFICES ASSUME WorkerInv, AloneOnQueue, LineInv, [Next]_vars PROVE LineInv'
  OBVIOUS
<1>1. ASSUME NEW r \in Receivers, SeesStarted(r) \/ SeesNone(r) PROVE LineInv'
  BY <1>1 DEF SeesStarted, SeesNone, LineInv, QueueTypes, Lined, Busy, Alive, OneReceiver, sessions
<1>2. ASSUME NEW r \in Receivers, Start(r) PROVE LineInv'
  <2>1. /\ UNCHANGED <<queue, arrived, from, data, handled>>
        /\ \A w \in Workers : Busy(w)' => Busy(w)
    BY <1>2 DEF Start, WorkerInv, Busy, Alive, sessions
  <2> QED
    BY <2>1 DEF LineInv, QueueTypes, Lined, OneReceiver
<1>3. ASSUME NEW r \in Receivers, NEW d \in Datagrams, Offer(r, d) PROVE LineInv'
  BY <1>3, OfferKeepsLine
<1>4. ASSUME NEW w \in Workers, Work(w) PROVE LineInv'
  <2>1. CASE PollSome(w)
    BY <2>1, PollKeepsLine
  <2>2. CASE AddData(w) \/ AddDataThrows(w)
    BY <2>2, HandOverKeepsLine
  <2>3. CASE ~PollSome(w) /\ ~AddData(w) /\ ~AddDataThrows(w)
    <3>1. /\ UNCHANGED <<queue, handled, arrived, from>> /\ data' \in [Workers -> Nat]
          /\ \A v \in Workers : Busy(v)' => Busy(v) /\ data'[v] = data[v]
      BY <1>4, <2>3, WorkHolds DEF LineInv
    <3> QED
      BY <3>1 DEF LineInv, QueueTypes, Lined, OneReceiver
  <2> QED
    BY <2>1, <2>2, <2>3
<1>5. ASSUME UNCHANGED <<queued, worker, data, handled>> PROVE LineInv'
  BY <1>5 DEF queued, LineInv, QueueTypes, Lined, Busy, Alive, OneReceiver
<1> QED
  BY <1>1, <1>2, <1>3, <1>4, <1>5, OthersKeep DEF Next, Receive

(* With one receiver the sessions get the datagrams in the order they       *)
(* arrived, none twice, whatever exits, restarts and deaths of workers.     *)
THEOREM HandledInOrder == Spec => []InOrder
<1>1. Init => LineInv
  BY DEF Init, LineInv, QueueTypes, Lined, Busy, Alive
<1>2. LineInv => InOrder
  BY DEF LineInv, Lined, InOrder
<1> QED
  BY <1>1, <1>2, InitWorker, NextWorkerInv, NextGuarded, NextLine, PTL DEF Spec

-----------------------------------------------------------------------------
(* The session table and the unsynchronised list that the sweep reads, for  *)
(* any number of receivers, workers, sources and ids: whatever the list     *)
(* loses or repeats, the table keeps its sessions.                          *)

Lists     == [size : Int, elems : Seq(Keys)]
Removers  == [keys : Seq(Keys), found : Nat]
WorkerPlaces    == {"none", "poll", "empty", "exit", "size", "copy", "sweep", "find", "cut",
              "lookup", "map", "session", "create", "add", "dead"}
(* WorkerPlaces at which a worker has a datagram.                                 *)
WithDatagram      == {"size", "copy", "sweep", "find", "cut", "lookup", "map", "session", "create", "add"}
Tables    == [Keys -> [Ids -> SessionState] \cup {Null}]

(* The list's elements are as many as its size says, unless that is below   *)
(* zero.                                                                    *)
IsList(l) == l \in Lists /\ Len(l.elems) = (IF l.size < 0 THEN 0 ELSE l.size)

ArrivalTypes  == /\ queue \in Seq(Numbers) /\ isStart \in BOOLEAN
               /\ receiver \in [Receivers -> {"idle", "check", "start"}]
               /\ arrived \in Seq(Datagrams) /\ from \subseteq Receivers
               /\ Len(arrived) <= MaxArrivals
               /\ \A i \in 1 .. Len(queue) : queue[i] <= Len(arrived)
WorkerTypes == /\ worker \in [Workers -> WorkerPlaces]
               /\ data \in [Workers -> Numbers \cup {0}]
               /\ \A w \in Workers : worker[w] \in WithDatagram => data[w] \in 1 .. Len(arrived)
               /\ handled \in Seq(Numbers)
SweepTypes  == /\ keys \in [Workers -> Seq(Keys)]
               /\ size \in [Workers -> Int] /\ found \in [Workers -> Nat]
               /\ IsList(handQueue)
               /\ remover \in [Numbers -> Removers]
               /\ \A n \in Numbers : remover[n].found # 0 => remover[n].keys # <<>>
               /\ \A w \in Workers : worker[w] \in {"sweep", "find", "cut"} => keys[w] # <<>>
TableTypes  == hashOffer \in Tables /\ created \in [Keys \X Ids -> Nat]

TypeInv == ArrivalTypes /\ WorkerTypes /\ SweepTypes /\ TableTypes

LEMMA TypesEnough == TypeInv => TypeOK
BY DEF TypeInv, ArrivalTypes, WorkerTypes, SweepTypes, TableTypes, TypeOK, IsList, Lists, Removers, WorkerPlaces, Tables

LEMMA FunctionIsSeq ==
    ASSUME NEW S, NEW n \in Nat, NEW f \in [1 .. n -> S]
    PROVE  f \in Seq(S) /\ Len(f) = n
<1>1. f = [m \in 1 .. n |-> f[m]]
  OBVIOUS
<1>2. f \in Seq(S)
  BY <1>1, Z3
<1>3. DOMAIN f = 1 .. Len(f) /\ Len(f) \in Nat
  BY <1>2, LenProperties
<1>4. DOMAIN f = 1 .. n
  OBVIOUS
<1> QED
  BY <1>2, <1>3, <1>4

LEMMA InitTypes == Init => TypeInv
<1> SUFFICES ASSUME Init PROVE TypeInv
  OBVIOUS
<1> USE DEF Init
<1>1. ArrivalTypes
  <2>1. queue \in Seq(Numbers) /\ arrived \in Seq(Datagrams) /\ Len(arrived) = 0 /\ Len(queue) = 0
    OBVIOUS
  <2>2. isStart \in BOOLEAN /\ from \subseteq Receivers
    OBVIOUS
  <2>3. receiver \in [Receivers -> {"idle", "check", "start"}]
    OBVIOUS
  <2>4. \A i \in 1 .. Len(queue) : queue[i] <= Len(arrived)
    BY <2>1
  <2>5. Len(arrived) <= MaxArrivals
    BY <2>1, MaxArrivalsAssumption
  <2> QED
    BY ONLY <2>1, <2>2, <2>3, <2>4, <2>5 DEF ArrivalTypes
<1>2. WorkerTypes
  BY DEF WorkerTypes, WorkerPlaces, WithDatagram
<1>3. SweepTypes
  <2>1. NoRemover \in Removers
    BY DEF NoRemover, Removers
  <2>2. IsList(handQueue)
    BY DEF IsList, Lists
  <2> QED
    BY <2>1, <2>2 DEF SweepTypes, NoRemover
<1>4. TableTypes
  BY DEF TableTypes, Tables
<1> QED
  BY <1>1, <1>2, <1>3, <1>4 DEF TypeInv

-----------------------------------------------------------------------------
(* The list.  Elements only move, go, or are added.                         *)

LEMMA CutIsList ==
    ASSUME NEW l, IsList(l), NEW i \in Nat
    PROVE  /\ IsList(Cut(l, i))
           /\ \A j \in 1 .. Len(Cut(l, i).elems) :
                \E m \in 1 .. Len(l.elems) : Cut(l, i).elems[j] = l.elems[m]
<1> USE DEF IsList, Lists
<1>1. CASE l.size <= 0
  BY <1>1 DEF Cut
<1>2. CASE l.size > 0
  <2> DEFINE e == [j \in 1 .. l.size - 1 |-> IF j < i THEN l.elems[j] ELSE l.elems[j + 1]]
  <2>1. l.size - 1 \in Nat /\ ~(l.size <= 0)
    BY <1>2
  <2>6. Cut(l, i) = [size |-> l.size - 1, elems |-> e]
    BY <2>1 DEF Cut
  <2>2. \A j \in 1 .. l.size - 1 : j \in 1 .. Len(l.elems) /\ j + 1 \in 1 .. Len(l.elems)
    BY <1>2
  <2>3. \A j \in 1 .. l.size - 1 : e[j] \in Keys
    BY <2>2
  <2>4. e \in Seq(Keys) /\ Len(e) = l.size - 1
    <3>1. e \in [1 .. l.size - 1 -> Keys]
      BY <2>3
    <3> HIDE DEF e
    <3>2. PICK n \in Nat : n = l.size - 1
      BY <2>1
    <3>3. e \in [1 .. n -> Keys]
      BY <3>1, <3>2
    <3> QED
      BY <3>2, <3>3, FunctionIsSeq
  <2>5. \A j \in 1 .. l.size - 1 : \E m \in 1 .. Len(l.elems) : e[j] = l.elems[m]
    BY <2>2
  <2> QED
    BY <2>1, <2>4, <2>5, <2>6
<1> QED
  BY <1>1, <1>2

LEMMA AddIsList ==
    ASSUME NEW l, IsList(l), NEW k \in Keys
    PROVE  /\ IsList(ListAdd(l, k))
           /\ \A j \in 1 .. Len(ListAdd(l, k).elems) :
                \/ ListAdd(l, k).elems[j] = k
                \/ \E m \in 1 .. Len(l.elems) : ListAdd(l, k).elems[j] = l.elems[m]
BY DEF IsList, Lists, ListAdd

LEMMA IndexIsNat ==
    ASSUME NEW l, IsList(l), NEW k
    PROVE  IndexOf(l, k) \in Nat
<1> DEFINE first == {i \in 1 .. l.size : /\ l.elems[i] = k
                                         /\ \A j \in 1 .. i - 1 : l.elems[j] # k}
<1>1. CASE first = {}
  BY <1>1 DEF IndexOf
<1>2. CASE first # {}
  <2>1. first \subseteq Nat
    BY DEF IsList, Lists
  <2>2. IndexOf(l, k) \in first
    BY <1>2 DEF IndexOf
  <2> QED
    BY <2>1, <2>2
<1> QED
  BY <1>1, <1>2











-----------------------------------------------------------------------------
(* The steps.  A worker handles a datagram that arrived.                    *)

LEMMA DataKnown ==
    ASSUME TypeInv, NEW w \in Workers, worker[w] \in WithDatagram
    PROVE  /\ data[w] \in Numbers /\ data[w] \in 1 .. Len(arrived)
           /\ arrived[data[w]] \in Datagrams
           /\ Key(data[w]) \in Keys /\ LookupId(data[w]) \in Ids /\ CreateId(data[w]) \in Ids
<1>1. data[w] \in 1 .. Len(arrived) /\ Len(arrived) \in Nat /\ Len(arrived) <= MaxArrivals
  BY DEF TypeInv, WorkerTypes, ArrivalTypes
<1>2. data[w] \in Numbers
  BY <1>1, MaxArrivalsAssumption DEF Numbers
<1>3. arrived[data[w]] \in Datagrams
  BY <1>1 DEF TypeInv, ArrivalTypes
<1> QED
  BY <1>1, <1>2, <1>3 DEF Key, LookupId, CreateId, Keys, Ids

LEMMA QueueStep ==
    ASSUME TypeInv, [Next]_vars
    PROVE  ArrivalTypes'
<1> USE DEF TypeInv
<1>1. ASSUME NEW r \in Receivers, NEW d \in Datagrams, Offer(r, d) PROVE ArrivalTypes'
  <2>1. Len(arrived) + 1 \in Numbers /\ Len(arrived) + 1 \in Nat
    BY <1>1, MaxArrivalsAssumption DEF ArrivalTypes, Offer, Numbers
  <2>2. arrived' \in Seq(Datagrams) /\ Len(arrived') = Len(arrived) + 1
    BY <1>1, AppendProperties DEF ArrivalTypes, Offer
  <2>3. queue' \in Seq(Numbers) /\ Len(queue') = Len(queue) + 1
    BY <1>1, <2>1, AppendProperties DEF ArrivalTypes, Offer
  <2>4. \A i \in 1 .. Len(queue') : queue'[i] <= Len(arrived')
    <3> SUFFICES ASSUME NEW i \in 1 .. Len(queue') PROVE queue'[i] <= Len(arrived')
      OBVIOUS
    <3>1. CASE i = Len(queue) + 1
      BY <1>1, <2>1, <2>2, <3>1, AppendProperties DEF ArrivalTypes, Offer
    <3>2. CASE i # Len(queue) + 1
      <4>1. i \in 1 .. Len(queue) /\ queue'[i] = queue[i]
        BY <1>1, <2>1, <2>3, <3>2, AppendProperties DEF ArrivalTypes, Offer
      <4>2. queue[i] \in Numbers /\ queue[i] <= Len(arrived)
        BY <4>1 DEF ArrivalTypes
      <4> QED
        BY <4>1, <4>2, <2>1, <2>2 DEF Numbers
    <3> QED
      BY <3>1, <3>2
  <2>5. Len(arrived') <= MaxArrivals
    BY <2>1, <2>2 DEF Numbers
  <2>6. UNCHANGED isStart /\ receiver' \in [Receivers -> {"idle", "check", "start"}] /\ from' \subseteq Receivers
    BY <1>1 DEF ArrivalTypes, Offer
  <2> QED
    BY <2>2, <2>3, <2>4, <2>5, <2>6 DEF ArrivalTypes
<1>2. ASSUME NEW r \in Receivers, SeesStarted(r) PROVE ArrivalTypes'
  BY <1>2 DEF ArrivalTypes, SeesStarted, queued, sweeping, sessions
<1>3. ASSUME NEW r \in Receivers, SeesNone(r) PROVE ArrivalTypes'
  BY <1>3 DEF ArrivalTypes, SeesNone, queued, sweeping, sessions
<1>4. ASSUME NEW r \in Receivers, Start(r) PROVE ArrivalTypes'
  BY <1>4 DEF ArrivalTypes, Start, queued, sweeping, sessions
<1>5. ASSUME NEW w \in Workers, PollSome(w) PROVE ArrivalTypes'
  <2>1. queue' \in Seq(Numbers) /\ Len(queue') = Len(queue) - 1
    BY <1>5, HeadTailProperties DEF PollSome, ArrivalTypes
  <2>2. \A i \in 1 .. Len(queue') : i + 1 \in 1 .. Len(queue) /\ queue'[i] = queue[i + 1]
    BY <1>5, <2>1, HeadTailProperties DEF PollSome, ArrivalTypes
  <2> QED
    BY <1>5, <2>1, <2>2 DEF PollSome, ArrivalTypes
<1>6. ASSUME NEW w \in Workers, PollNothing(w) PROVE ArrivalTypes'
  BY <1>6 DEF ArrivalTypes, PollNothing, queued, sweeping, sessions
<1>7. ASSUME NEW w \in Workers, LookAgain(w) PROVE ArrivalTypes'
  BY <1>7 DEF ArrivalTypes, LookAgain, queued, sweeping, sessions
<1>8. ASSUME NEW w \in Workers, Exit(w) PROVE ArrivalTypes'
  BY <1>8 DEF ArrivalTypes, Exit, queued, sweeping, sessions
<1>9. ASSUME NEW w \in Workers, NothingToSweep(w) PROVE ArrivalTypes'
  BY <1>9 DEF ArrivalTypes, NothingToSweep, queued, sweeping, sessions
<1>10. ASSUME NEW w \in Workers, SizeThrows(w) PROVE ArrivalTypes'
  BY <1>10 DEF ArrivalTypes, SizeThrows, queued, sweeping, sessions
<1>11. ASSUME NEW w \in Workers, SizeRead(w) PROVE ArrivalTypes'
  BY <1>11 DEF ArrivalTypes, SizeRead, queued, sweeping, sessions
<1>12. ASSUME NEW w \in Workers, CopyKey(w) PROVE ArrivalTypes'
  BY <1>12 DEF ArrivalTypes, CopyKey, queued, sweeping, sessions
<1>13. ASSUME NEW w \in Workers, CopyThrows(w) PROVE ArrivalTypes'
  BY <1>13 DEF ArrivalTypes, CopyThrows, queued, sweeping, sessions
<1>14. ASSUME NEW w \in Workers, Sweep(w) PROVE ArrivalTypes'
  BY <1>14 DEF ArrivalTypes, Sweep, queued, sweeping, sessions
<1>15. ASSUME NEW w \in Workers, FindKey(w) PROVE ArrivalTypes'
  BY <1>15 DEF ArrivalTypes, FindKey, queued, sweeping, sessions
<1>16. ASSUME NEW w \in Workers, NoKeyFound(w) PROVE ArrivalTypes'
  BY <1>16 DEF ArrivalTypes, NoKeyFound, queued, sweeping, sessions
<1>17. ASSUME NEW w \in Workers, CutThrows(w) PROVE ArrivalTypes'
  BY <1>17 DEF ArrivalTypes, CutThrows, queued, sweeping, sessions
<1>18. ASSUME NEW w \in Workers, CutKey(w) PROVE ArrivalTypes'
  BY <1>18 DEF ArrivalTypes, CutKey, queued, sweeping, sessions
<1>19. ASSUME NEW w \in Workers, FindMap(w) PROVE ArrivalTypes'
  BY <1>19 DEF ArrivalTypes, FindMap, queued, sweeping, sessions
<1>20. ASSUME NEW w \in Workers, CreateMap(w) PROVE ArrivalTypes'
  BY <1>20 DEF ArrivalTypes, CreateMap, queued, sweeping, sessions
<1>21. ASSUME NEW w \in Workers, FindSession(w) PROVE ArrivalTypes'
  BY <1>21 DEF ArrivalTypes, FindSession, queued, sweeping, sessions
<1>22. ASSUME NEW w \in Workers, CreateSession(w) PROVE ArrivalTypes'
  BY <1>22 DEF ArrivalTypes, CreateSession, queued, sweeping, sessions
<1>23. ASSUME NEW w \in Workers, AddData(w) PROVE ArrivalTypes'
  BY <1>23 DEF ArrivalTypes, AddData, queued, sweeping, sessions
<1>24. ASSUME NEW w \in Workers, AddDataThrows(w) PROVE ArrivalTypes'
  BY <1>24 DEF ArrivalTypes, AddDataThrows, queued, sweeping, sessions
<1>25. ASSUME NEW n \in Numbers, RemoverFinds(n) PROVE ArrivalTypes'
  BY <1>25 DEF ArrivalTypes, RemoverFinds, queued, sweeping, sessions
<1>26. ASSUME NEW n \in Numbers, RemoverCuts(n) PROVE ArrivalTypes'
  BY <1>26 DEF ArrivalTypes, RemoverCuts, queued, sweeping, sessions
<1>27. ASSUME NEW k \in Keys, NEW i \in Ids, SessionCloses(k, i) PROVE ArrivalTypes'
  BY <1>27 DEF ArrivalTypes, SessionCloses, queued, sweeping, sessions
<1>28. ASSUME NEW k \in Keys, NEW i \in Ids, SessionRegisters(k, i) PROVE ArrivalTypes'
  BY <1>28 DEF ArrivalTypes, SessionRegisters, queued, sweeping, sessions
<1>29. ASSUME UNCHANGED vars PROVE ArrivalTypes'
  BY <1>29 DEF ArrivalTypes, vars, queued, sweeping, sessions
<1> QED
  BY <1>1, <1>2, <1>3, <1>4, <1>5, <1>6, <1>7, <1>8, <1>9, <1>10, <1>11, <1>12, <1>13, <1>14, <1>15, <1>16, <1>17, <1>18, <1>19, <1>20, <1>21, <1>22, <1>23, <1>24, <1>25, <1>26, <1>27, <1>28, <1>29 DEF Next, Receive, Work

LEMMA WorkerStep ==
    ASSUME TypeInv, [Next]_vars
    PROVE  WorkerTypes'
<1> USE DEF TypeInv, WorkerPlaces, WithDatagram
<1>1. ASSUME NEW r \in Receivers, NEW d \in Datagrams, Offer(r, d) PROVE WorkerTypes'
  <2>1. Len(arrived') = Len(arrived) + 1 /\ Len(arrived) \in Nat
    BY <1>1, AppendProperties DEF ArrivalTypes, Offer
  <2>2. \A w \in Workers : worker[w] \in WithDatagram => data[w] \in 1 .. Len(arrived')
    BY <2>1 DEF WorkerTypes
  <2> QED
    BY <1>1, <2>2 DEF WorkerTypes, Offer, sessions
<1>2. ASSUME NEW r \in Receivers, SeesStarted(r) PROVE WorkerTypes'
  BY <1>2 DEF SeesStarted, WStep, Dies, WorkerTypes, queued, sweeping, sessions
<1>3. ASSUME NEW r \in Receivers, SeesNone(r) PROVE WorkerTypes'
  BY <1>3 DEF SeesNone, WStep, Dies, WorkerTypes, queued, sweeping, sessions
<1>4. ASSUME NEW r \in Receivers, Start(r) PROVE WorkerTypes'
  BY <1>4 DEF Start, WStep, Dies, WorkerTypes, queued, sweeping, sessions
<1>5. ASSUME NEW w \in Workers, PollSome(w) PROVE WorkerTypes'
  <2>1. Head(queue) \in Numbers /\ Head(queue) \in 1 .. Len(arrived)
    <3>1. Len(queue) # 0 /\ Head(queue) = queue[1] /\ Len(queue) \in Nat
      BY <1>5, EmptySeq DEF PollSome, ArrivalTypes
    <3>2. queue[1] \in Numbers /\ queue[1] <= Len(arrived)
      BY <3>1 DEF ArrivalTypes
    <3> QED
      BY <3>1, <3>2 DEF ArrivalTypes, Numbers
  <2> QED
    BY <1>5, <2>1 DEF PollSome, WStep, WorkerTypes, sessions
<1>6. ASSUME NEW w \in Workers, PollNothing(w) PROVE WorkerTypes'
  BY <1>6 DEF PollNothing, WStep, Dies, WorkerTypes, queued, sweeping, sessions
<1>7. ASSUME NEW w \in Workers, LookAgain(w) PROVE WorkerTypes'
  BY <1>7 DEF LookAgain, WStep, Dies, WorkerTypes, queued, sweeping, sessions
<1>8. ASSUME NEW w \in Workers, Exit(w) PROVE WorkerTypes'
  BY <1>8 DEF Exit, WStep, Dies, WorkerTypes, queued, sweeping, sessions
<1>9. ASSUME NEW w \in Workers, NothingToSweep(w) PROVE WorkerTypes'
  BY <1>9 DEF NothingToSweep, WStep, Dies, WorkerTypes, queued, sweeping, sessions
<1>10. ASSUME NEW w \in Workers, SizeThrows(w) PROVE WorkerTypes'
  BY <1>10 DEF SizeThrows, WStep, Dies, WorkerTypes, queued, sweeping, sessions
<1>11. ASSUME NEW w \in Workers, SizeRead(w) PROVE WorkerTypes'
  BY <1>11 DEF SizeRead, WStep, Dies, WorkerTypes, queued, sweeping, sessions
<1>12. ASSUME NEW w \in Workers, CopyKey(w) PROVE WorkerTypes'
  BY <1>12 DEF CopyKey, WStep, Dies, WorkerTypes, queued, sweeping, sessions
<1>13. ASSUME NEW w \in Workers, CopyThrows(w) PROVE WorkerTypes'
  BY <1>13 DEF CopyThrows, WStep, Dies, WorkerTypes, queued, sweeping, sessions
<1>14. ASSUME NEW w \in Workers, Sweep(w) PROVE WorkerTypes'
  BY <1>14 DEF Sweep, WStep, Dies, WorkerTypes, queued, sweeping, sessions
<1>15. ASSUME NEW w \in Workers, FindKey(w) PROVE WorkerTypes'
  BY <1>15 DEF FindKey, WStep, Dies, WorkerTypes, queued, sweeping, sessions
<1>16. ASSUME NEW w \in Workers, NoKeyFound(w) PROVE WorkerTypes'
  BY <1>16 DEF NoKeyFound, WStep, Dies, AfterKey, WorkerTypes, queued, sweeping, sessions
<1>17. ASSUME NEW w \in Workers, CutThrows(w) PROVE WorkerTypes'
  BY <1>17 DEF CutThrows, WStep, Dies, WorkerTypes, queued, sweeping, sessions
<1>18. ASSUME NEW w \in Workers, CutKey(w) PROVE WorkerTypes'
  BY <1>18 DEF CutKey, WStep, Dies, AfterKey, WorkerTypes, queued, sweeping, sessions
<1>19. ASSUME NEW w \in Workers, FindMap(w) PROVE WorkerTypes'
  BY <1>19 DEF FindMap, WStep, Dies, WorkerTypes, queued, sweeping, sessions
<1>20. ASSUME NEW w \in Workers, CreateMap(w) PROVE WorkerTypes'
  BY <1>20 DEF CreateMap, WStep, Dies, WorkerTypes, queued, sweeping, sessions
<1>21. ASSUME NEW w \in Workers, FindSession(w) PROVE WorkerTypes'
  BY <1>21 DEF FindSession, WStep, Dies, WorkerTypes, queued, sweeping, sessions
<1>22. ASSUME NEW w \in Workers, CreateSession(w) PROVE WorkerTypes'
  BY <1>22 DEF CreateSession, WStep, Dies, WorkerTypes, queued, sweeping, sessions
<1>23. ASSUME NEW w \in Workers, AddData(w) PROVE WorkerTypes'
  <2>1. data[w] \in Numbers
    BY <1>23, DataKnown DEF AddData, WStep, Dies
  <2>2. handled' \in Seq(Numbers)
    BY <1>23, <2>1, AppendProperties DEF AddData, WorkerTypes
  <2> QED
    BY <1>23, <2>2 DEF AddData, WStep, Dies, WorkerTypes, queued
<1>24. ASSUME NEW w \in Workers, AddDataThrows(w) PROVE WorkerTypes'
  <2>1. data[w] \in Numbers
    BY <1>24, DataKnown DEF AddDataThrows, WStep, Dies
  <2>2. handled' \in Seq(Numbers)
    BY <1>24, <2>1, AppendProperties DEF AddDataThrows, WorkerTypes
  <2> QED
    BY <1>24, <2>2 DEF AddDataThrows, WStep, Dies, WorkerTypes, queued
<1>25. ASSUME NEW n \in Numbers, RemoverFinds(n) PROVE WorkerTypes'
  BY <1>25 DEF RemoverFinds, WStep, Dies, WorkerTypes, queued, sweeping, sessions
<1>26. ASSUME NEW n \in Numbers, RemoverCuts(n) PROVE WorkerTypes'
  BY <1>26 DEF RemoverCuts, WStep, Dies, WorkerTypes, queued, sweeping, sessions
<1>27. ASSUME NEW k \in Keys, NEW i \in Ids, SessionCloses(k, i) PROVE WorkerTypes'
  BY <1>27 DEF SessionCloses, WStep, Dies, WorkerTypes, queued, sweeping, sessions
<1>28. ASSUME NEW k \in Keys, NEW i \in Ids, SessionRegisters(k, i) PROVE WorkerTypes'
  BY <1>28 DEF SessionRegisters, WStep, Dies, WorkerTypes, queued, sweeping, sessions
<1>29. ASSUME UNCHANGED vars PROVE WorkerTypes'
  BY <1>29 DEF vars, WStep, Dies, WorkerTypes, queued, sweeping, sessions
<1> QED
  BY <1>1, <1>2, <1>3, <1>4, <1>5, <1>6, <1>7, <1>8, <1>9, <1>10, <1>11, <1>12, <1>13, <1>14, <1>15, <1>16, <1>17, <1>18, <1>19, <1>20, <1>21, <1>22, <1>23, <1>24, <1>25, <1>26, <1>27, <1>28, <1>29 DEF Next, Receive, Work

(* The keys that a worker still has to sweep, and those of a remover.       *)
LEMMA TailOfKeys ==
    ASSUME NEW s \in Seq(Keys), s # <<>>
    PROVE  /\ Tail(s) \in Seq(Keys) /\ (Len(s) # 1 => Tail(s) # <<>>)
           /\ Head(s) = s[1] /\ 1 \in 1 .. Len(s)
           /\ \A j \in 1 .. Len(Tail(s)) : j + 1 \in 1 .. Len(s) /\ Tail(s)[j] = s[j + 1]
<1>1. Len(s) \in Nat /\ Len(s) # 0
  BY EmptySeq
<1>2. Head(s) = s[1] /\ Tail(s) \in Seq(Keys) /\ Len(Tail(s)) = Len(s) - 1
  BY HeadTailProperties
<1>3. \A j \in 1 .. Len(Tail(s)) : Tail(s)[j] = s[j + 1]
  BY HeadTailProperties
<1>4. Len(s) # 1 => Tail(s) # <<>>
  <2> SUFFICES ASSUME Tail(s) = <<>> PROVE Len(s) = 1
    OBVIOUS
  <2>1. Len(<<>>) = 0
    BY EmptySeq
  <2> QED
    BY <1>1, <1>2, <2>1
<1> QED
  BY <1>1, <1>2, <1>3, <1>4

LEMMA SweepStep ==
    ASSUME TypeInv, [Next]_vars
    PROVE  SweepTypes'
<1> USE DEF TypeInv
<1>1. ASSUME NEW r \in Receivers, NEW d \in Datagrams, Offer(r, d) PROVE SweepTypes'
  BY <1>1 DEF Offer, WStep, Dies, SweepTypes, WorkerTypes, queued, sweeping, sessions
<1>2. ASSUME NEW r \in Receivers, SeesStarted(r) PROVE SweepTypes'
  BY <1>2 DEF SeesStarted, WStep, Dies, SweepTypes, WorkerTypes, queued, sweeping, sessions
<1>3. ASSUME NEW r \in Receivers, SeesNone(r) PROVE SweepTypes'
  BY <1>3 DEF SeesNone, WStep, Dies, SweepTypes, WorkerTypes, queued, sweeping, sessions
<1>4. ASSUME NEW r \in Receivers, Start(r) PROVE SweepTypes'
  BY <1>4 DEF Start, WStep, Dies, SweepTypes, WorkerTypes, queued, sweeping, sessions
<1>5. ASSUME NEW w \in Workers, PollSome(w) PROVE SweepTypes'
  BY <1>5 DEF PollSome, WStep, Dies, SweepTypes, WorkerTypes, queued, sweeping, sessions
<1>6. ASSUME NEW w \in Workers, PollNothing(w) PROVE SweepTypes'
  BY <1>6 DEF PollNothing, WStep, Dies, SweepTypes, WorkerTypes, queued, sweeping, sessions
<1>7. ASSUME NEW w \in Workers, LookAgain(w) PROVE SweepTypes'
  BY <1>7 DEF LookAgain, WStep, Dies, SweepTypes, WorkerTypes, queued, sweeping, sessions
<1>8. ASSUME NEW w \in Workers, Exit(w) PROVE SweepTypes'
  BY <1>8 DEF Exit, WStep, Dies, SweepTypes, WorkerTypes, queued, sweeping, sessions
<1>9. ASSUME NEW w \in Workers, NothingToSweep(w) PROVE SweepTypes'
  BY <1>9 DEF NothingToSweep, WStep, Dies, SweepTypes, WorkerTypes, queued, sweeping, sessions
<1>10. ASSUME NEW w \in Workers, SizeThrows(w) PROVE SweepTypes'
  BY <1>10 DEF SizeThrows, WStep, Dies, SweepTypes, WorkerTypes, queued, sweeping, sessions
<1>11. ASSUME NEW w \in Workers, SizeRead(w) PROVE SweepTypes'
  BY <1>11 DEF SizeRead, WStep, SweepTypes, WorkerTypes, IsList, Lists
<1>12. ASSUME NEW w \in Workers, CopyKey(w) PROVE SweepTypes'
  <2> DEFINE i == Len(keys[w]) + 1
  <2>1. i \in 1 .. Len(handQueue.elems) /\ handQueue.elems[i] \in Keys
    BY <1>12 DEF CopyKey, SweepTypes, IsList, Lists
  <2>2. keys'[w] = Append(keys[w], handQueue.elems[i])
    BY <1>12 DEF CopyKey, SweepTypes
  <2>3. keys'[w] \in Seq(Keys) /\ keys'[w] # <<>>
    <3>1. Append(keys[w], handQueue.elems[i]) \in Seq(Keys)
      BY <2>1, AppendProperties DEF SweepTypes
    <3>2. Len(keys'[w]) = Len(keys[w]) + 1 /\ Len(keys[w]) \in Nat
      BY <2>1, <2>2, AppendProperties DEF SweepTypes
    <3> QED
      BY <2>2, <3>1, <3>2
  <2>4. keys' \in [Workers -> Seq(Keys)]
    BY <1>12, <2>2, <2>3 DEF CopyKey, SweepTypes
  <2>5. remover' \in [Numbers -> Removers]
    <3>1. [keys |-> keys'[w], found |-> 0] \in Removers
      BY <2>3 DEF Removers
    <3> QED
      BY <1>12, <3>1 DEF CopyKey, SweepTypes
  <2>6. \A v \in Workers : worker'[v] \in {"sweep", "find", "cut"} => keys'[v] # <<>>
    BY <1>12, <2>2, <2>3 DEF CopyKey, WStep, SweepTypes, WorkerTypes
  <2>7. size' \in [Workers -> Int] /\ UNCHANGED <<found, handQueue>>
    BY <1>12 DEF CopyKey, SweepTypes
  <2>8. \A n \in Numbers : remover'[n].found # 0 => remover'[n].keys # <<>>
    BY <1>12 DEF CopyKey, SweepTypes
  <2> QED
    BY <2>4, <2>5, <2>6, <2>7, <2>8 DEF SweepTypes
<1>13. ASSUME NEW w \in Workers, CopyThrows(w) PROVE SweepTypes'
  BY <1>13 DEF CopyThrows, WStep, Dies, SweepTypes, WorkerTypes, queued, sweeping, sessions
<1>14. ASSUME NEW w \in Workers, Sweep(w) PROVE SweepTypes'
  BY <1>14 DEF Sweep, WStep, Dies, SweepTypes, WorkerTypes, queued, sweeping, sessions
<1>15. ASSUME NEW w \in Workers, FindKey(w) PROVE SweepTypes'
  <2>1. IndexOf(handQueue, Head(keys[w])) \in Nat
    BY IndexIsNat DEF SweepTypes
  <2> QED
    BY <1>15, <2>1 DEF FindKey, WStep, SweepTypes, WorkerTypes, queued, sessions
<1>16. ASSUME NEW w \in Workers, NoKeyFound(w) PROVE SweepTypes'
  <2>1. Tail(keys[w]) \in Seq(Keys) /\ (Len(keys[w]) # 1 => Tail(keys[w]) # <<>>)
    BY <1>16, TailOfKeys DEF NoKeyFound, WStep, SweepTypes
  <2>2. \A v \in Workers : worker'[v] \in {"sweep", "find", "cut"} => keys'[v] # <<>>
    BY <1>16, <2>1 DEF NoKeyFound, WStep, AfterKey, DropKey, SweepTypes, WorkerTypes
  <2> QED
    BY <1>16, <2>1, <2>2 DEF NoKeyFound, DropKey, SweepTypes
<1>17. ASSUME NEW w \in Workers, CutThrows(w) PROVE SweepTypes'
  <2>1. IsList(handQueue')
    BY <1>17, CutIsList DEF CutThrows, SweepTypes
  <2>2. keys' \in [Workers -> Seq(Keys)] /\ size' \in [Workers -> Int] /\ found' \in [Workers -> Nat]
    BY <1>17 DEF CutThrows, Dies, SweepTypes
  <2>3. \A v \in Workers : worker'[v] \in {"sweep", "find", "cut"} => keys'[v] # <<>>
    BY <1>17 DEF CutThrows, Dies, WStep, SweepTypes, WorkerTypes
  <2> QED
    BY <1>17, <2>1, <2>2, <2>3 DEF CutThrows, SweepTypes
<1>18. ASSUME NEW w \in Workers, CutKey(w) PROVE SweepTypes'
  <2>1. IsList(handQueue')
    BY <1>18, CutIsList DEF CutKey, SweepTypes
  <2>2. Tail(keys[w]) \in Seq(Keys) /\ (Len(keys[w]) # 1 => Tail(keys[w]) # <<>>)
    BY <1>18, TailOfKeys DEF CutKey, WStep, SweepTypes
  <2>3. \A v \in Workers : worker'[v] \in {"sweep", "find", "cut"} => keys'[v] # <<>>
    BY <1>18, <2>2 DEF CutKey, WStep, AfterKey, DropKey, SweepTypes, WorkerTypes
  <2> QED
    BY <1>18, <2>1, <2>2, <2>3 DEF CutKey, DropKey, SweepTypes
<1>19. ASSUME NEW w \in Workers, FindMap(w) PROVE SweepTypes'
  BY <1>19 DEF FindMap, WStep, Dies, SweepTypes, WorkerTypes, queued, sweeping, sessions
<1>20. ASSUME NEW w \in Workers, CreateMap(w) PROVE SweepTypes'
  BY <1>20 DEF CreateMap, WStep, Dies, SweepTypes, WorkerTypes, queued, sweeping, sessions
<1>21. ASSUME NEW w \in Workers, FindSession(w) PROVE SweepTypes'
  BY <1>21 DEF FindSession, WStep, Dies, SweepTypes, WorkerTypes, queued, sweeping, sessions
<1>22. ASSUME NEW w \in Workers, CreateSession(w) PROVE SweepTypes'
  BY <1>22 DEF CreateSession, WStep, Dies, SweepTypes, WorkerTypes, queued, sweeping, sessions
<1>23. ASSUME NEW w \in Workers, AddData(w) PROVE SweepTypes'
  BY <1>23 DEF AddData, WStep, Dies, SweepTypes, WorkerTypes, queued, sweeping, sessions
<1>24. ASSUME NEW w \in Workers, AddDataThrows(w) PROVE SweepTypes'
  BY <1>24 DEF AddDataThrows, WStep, Dies, SweepTypes, WorkerTypes, queued, sweeping, sessions
<1>25. ASSUME NEW n \in Numbers, RemoverFinds(n) PROVE SweepTypes'
  <2>1. remover[n] \in Removers
    BY DEF SweepTypes
  <2>2. IndexOf(handQueue, Head(remover[n].keys)) \in Nat
    BY IndexIsNat DEF SweepTypes
  <2>3. Tail(remover[n].keys) \in Seq(Keys)
    BY <1>25, <2>1, TailOfKeys DEF RemoverFinds, Removers
  <2>4. remover' \in [Numbers -> Removers]
    <3>1. [keys |-> Tail(remover[n].keys), found |-> 0] \in Removers
      BY <2>3 DEF Removers
    <3>2. [keys |-> remover[n].keys, found |-> IndexOf(handQueue, Head(remover[n].keys))] \in Removers
      BY <2>1, <2>2 DEF Removers
    <3> QED
      BY <1>25, <3>1, <3>2 DEF RemoverFinds, SweepTypes
  <2>5. \A m \in Numbers : remover'[m].found # 0 => remover'[m].keys # <<>>
    BY <1>25, <2>1 DEF RemoverFinds, SweepTypes, Removers
  <2> QED
    BY <1>25, <2>4, <2>5 DEF RemoverFinds, SweepTypes
<1>26. ASSUME NEW n \in Numbers, RemoverCuts(n) PROVE SweepTypes'
  <2>1. remover[n] \in Removers
    BY DEF SweepTypes
  <2>2. IsList(handQueue')
    BY <1>26, <2>1, CutIsList DEF RemoverCuts, SweepTypes, Removers
  <2>3. Tail(remover[n].keys) \in Seq(Keys)
    BY <1>26, <2>1, TailOfKeys DEF RemoverCuts, SweepTypes, Removers
  <2>4. remover' \in [Numbers -> Removers]
    BY <1>26, <2>1, <2>3 DEF RemoverCuts, NoRemover, SweepTypes, Removers
  <2>5. \A m \in Numbers : remover'[m].found # 0 => remover'[m].keys # <<>>
    BY <1>26, <2>1 DEF RemoverCuts, NoRemover, SweepTypes, Removers
  <2> QED
    BY <1>26, <2>2, <2>4, <2>5 DEF RemoverCuts, SweepTypes
<1>27. ASSUME NEW k \in Keys, NEW i \in Ids, SessionCloses(k, i) PROVE SweepTypes'
  BY <1>27 DEF SessionCloses, WStep, Dies, SweepTypes, WorkerTypes, queued, sweeping, sessions
<1>28. ASSUME NEW k \in Keys, NEW i \in Ids, SessionRegisters(k, i) PROVE SweepTypes'
  <2>1. IsList(handQueue')
    BY <1>28, AddIsList DEF SessionRegisters, SweepTypes
  <2> QED
    BY <1>28, <2>1 DEF SessionRegisters, SweepTypes
<1>29. ASSUME UNCHANGED vars PROVE SweepTypes'
  BY <1>29 DEF vars, WStep, Dies, SweepTypes, WorkerTypes, queued, sweeping, sessions
<1> QED
  BY <1>1, <1>2, <1>3, <1>4, <1>5, <1>6, <1>7, <1>8, <1>9, <1>10, <1>11, <1>12, <1>13, <1>14, <1>15, <1>16, <1>17, <1>18, <1>19, <1>20, <1>21, <1>22, <1>23, <1>24, <1>25, <1>26, <1>27, <1>28, <1>29 DEF Next, Receive, Work

-----------------------------------------------------------------------------
(* The table.                                                              *)

(* A session's state only moves forward: it is created, closes, registers. *)
Rank == [s \in SessionState |-> CASE s = Null -> 0 [] s = "open" -> 1
                                  [] s = "closed" -> 2 [] OTHER -> 3]

LEMMA Ranks ==
    /\ Rank[Null] = 0 /\ Rank["open"] = 1 /\ Rank["closed"] = 2 /\ Rank["registered"] = 3
    /\ \A s, t \in SessionState : /\ Rank[s] <= Rank[s]
                                  /\ Rank[s] <= Rank[t] /\ s # Null => t # Null
                                  /\ Rank[s] <= Rank[t] /\ s = "registered" => t = "registered"
<1>1. Rank[Null] = 0 /\ Rank["open"] = 1 /\ Rank["closed"] = 2 /\ Rank["registered"] = 3
  BY NullAssumption DEF Rank, SessionState
<1> QED
  BY <1>1 DEF SessionState

(* A key in the hand queue has a session that registered itself, so a sweep *)
(* of the key leaves its map alone.                                         *)
HasRegistered(k) == /\ k \in Keys /\ hashOffer[k] # Null
                    /\ \E i \in Ids : hashOffer[k][i] = "registered"
RegisteredInv ==
    /\ \A j \in 1 .. Len(handQueue.elems) : HasRegistered(handQueue.elems[j])
    /\ \A w \in Workers : \A j \in 1 .. Len(keys[w]) : HasRegistered(keys[w][j])

(* A worker that looks for a session has found or made the source's map.    *)
LookInv == \A w \in Workers : worker[w] \in {"session", "create", "add"}
                               => hashOffer[Key(data[w])] # Null

(* A session that was created is in the table.                              *)
OnceInv == \A k \in Keys, i \in Ids :
    \/ created[<<k, i>>] = 0
    \/ created[<<k, i>>] = 1 /\ hashOffer[k] # Null /\ hashOffer[k][i] # Null

Inv == TypeInv /\ RegisteredInv /\ LookInv /\ OnceInv

(* What every step keeps of the table: nothing leaves it, whatever it is    *)
(* that is swept.                                                           *)
Kept == \A k \in Keys : hashOffer[k] # Null =>
          /\ hashOffer'[k] # Null
          /\ \A i \in Ids : Rank[hashOffer[k][i]] <= Rank[hashOffer'[k][i]]

LEMMA TableFrame ==
    ASSUME [Next]_vars
    PROVE  \/ UNCHANGED <<hashOffer, created>>
           \/ \E w \in Workers : Sweep(w) \/ CreateMap(w) \/ CreateSession(w)
           \/ \E k \in Keys, i \in Ids : SessionCloses(k, i) \/ SessionRegisters(k, i)
<1> DEFINE Goal == \/ UNCHANGED <<hashOffer, created>>
                   \/ \E w \in Workers : Sweep(w) \/ CreateMap(w) \/ CreateSession(w)
                   \/ \E k \in Keys, i \in Ids : SessionCloses(k, i) \/ SessionRegisters(k, i)
<1>1. ASSUME NEW r \in Receivers, NEW d \in Datagrams, Offer(r, d) PROVE Goal
  BY <1>1 DEF Offer, sessions
<1>2. ASSUME NEW r \in Receivers, SeesStarted(r) PROVE Goal
  BY <1>2 DEF SeesStarted, sessions
<1>3. ASSUME NEW r \in Receivers, SeesNone(r) PROVE Goal
  BY <1>3 DEF SeesNone, sessions
<1>4. ASSUME NEW r \in Receivers, Start(r) PROVE Goal
  BY <1>4 DEF Start, sessions
<1>5. ASSUME NEW w \in Workers, PollSome(w) PROVE Goal
  BY <1>5 DEF PollSome, sessions
<1>6. ASSUME NEW w \in Workers, PollNothing(w) PROVE Goal
  BY <1>6 DEF PollNothing, sessions
<1>7. ASSUME NEW w \in Workers, LookAgain(w) PROVE Goal
  BY <1>7 DEF LookAgain, sessions
<1>8. ASSUME NEW w \in Workers, Exit(w) PROVE Goal
  BY <1>8 DEF Exit, sessions
<1>9. ASSUME NEW w \in Workers, NothingToSweep(w) PROVE Goal
  BY <1>9 DEF NothingToSweep, sessions
<1>10. ASSUME NEW w \in Workers, SizeThrows(w) PROVE Goal
  BY <1>10 DEF SizeThrows, sessions
<1>11. ASSUME NEW w \in Workers, SizeRead(w) PROVE Goal
  BY <1>11 DEF SizeRead, sessions
<1>12. ASSUME NEW w \in Workers, CopyKey(w) PROVE Goal
  BY <1>12 DEF CopyKey, sessions
<1>13. ASSUME NEW w \in Workers, CopyThrows(w) PROVE Goal
  BY <1>13 DEF CopyThrows, sessions
<1>14. ASSUME NEW w \in Workers, Sweep(w) PROVE Goal
  BY <1>14
<1>15. ASSUME NEW w \in Workers, FindKey(w) PROVE Goal
  BY <1>15 DEF FindKey, sessions
<1>16. ASSUME NEW w \in Workers, NoKeyFound(w) PROVE Goal
  BY <1>16 DEF NoKeyFound, sessions
<1>17. ASSUME NEW w \in Workers, CutThrows(w) PROVE Goal
  BY <1>17 DEF CutThrows, sessions
<1>18. ASSUME NEW w \in Workers, CutKey(w) PROVE Goal
  BY <1>18 DEF CutKey, sessions
<1>19. ASSUME NEW w \in Workers, FindMap(w) PROVE Goal
  BY <1>19 DEF FindMap, sessions
<1>20. ASSUME NEW w \in Workers, CreateMap(w) PROVE Goal
  BY <1>20
<1>21. ASSUME NEW w \in Workers, FindSession(w) PROVE Goal
  BY <1>21 DEF FindSession, sessions
<1>22. ASSUME NEW w \in Workers, CreateSession(w) PROVE Goal
  BY <1>22
<1>23. ASSUME NEW w \in Workers, AddData(w) PROVE Goal
  BY <1>23 DEF AddData, sessions
<1>24. ASSUME NEW w \in Workers, AddDataThrows(w) PROVE Goal
  BY <1>24 DEF AddDataThrows, sessions
<1>25. ASSUME NEW n \in Numbers, RemoverFinds(n) PROVE Goal
  BY <1>25 DEF RemoverFinds, sessions
<1>26. ASSUME NEW n \in Numbers, RemoverCuts(n) PROVE Goal
  BY <1>26 DEF RemoverCuts, sessions
<1>27. ASSUME NEW k \in Keys, NEW i \in Ids, SessionCloses(k, i) PROVE Goal
  BY <1>27
<1>28. ASSUME NEW k \in Keys, NEW i \in Ids, SessionRegisters(k, i) PROVE Goal
  BY <1>28
<1>29. ASSUME UNCHANGED vars PROVE Goal
  BY <1>29 DEF vars, sessions
<1> QED
  BY <1>1, <1>2, <1>3, <1>4, <1>5, <1>6, <1>7, <1>8, <1>9, <1>10, <1>11, <1>12, <1>13, <1>14, <1>15, <1>16, <1>17, <1>18, <1>19, <1>20, <1>21, <1>22, <1>23, <1>24, <1>25, <1>26, <1>27, <1>28, <1>29 DEF Next, Receive, Work

(* A step that gives one id of one source a later state.                    *)
LEMMA SetKeeps ==
    ASSUME TableTypes, NEW k \in Keys, NEW i \in Ids, hashOffer[k] # Null,
           NEW s \in SessionState, Rank[hashOffer[k][i]] <= Rank[s],
           hashOffer' = [hashOffer EXCEPT ![k][i] = s]
    PROVE  Kept /\ hashOffer' \in Tables /\ hashOffer'[k][i] = s
<1>1. hashOffer[k] \in [Ids -> SessionState]
  BY DEF TableTypes, Tables
<1>2. hashOffer'[k] = [hashOffer[k] EXCEPT ![i] = s]
  BY DEF TableTypes, Tables
<1>3. hashOffer'[k] \in [Ids -> SessionState] /\ hashOffer'[k][i] = s
  BY <1>1, <1>2
<1>4. hashOffer'[k] # Null
  BY <1>3, NullAssumption
<1>5. \A l \in Keys : l # k => hashOffer'[l] = hashOffer[l]
  BY DEF TableTypes, Tables
<1>6. \A j \in Ids : Rank[hashOffer[k][j]] <= Rank[hashOffer'[k][j]]
  <2> TAKE j \in Ids
  <2>1. CASE j = i
    BY <2>1, <1>3
  <2>2. CASE j # i
    BY <2>2, <1>1, <1>2, Ranks
  <2> QED
    BY <2>1, <2>2
<1>7. Kept
  <2> SUFFICES ASSUME NEW l \in Keys, hashOffer[l] # Null
               PROVE  /\ hashOffer'[l] # Null
                      /\ \A j \in Ids : Rank[hashOffer[l][j]] <= Rank[hashOffer'[l][j]]
    BY DEF Kept
  <2>1. CASE l = k
    BY <2>1, <1>4, <1>6
  <2>2. CASE l # k
    BY <2>2, <1>5, Ranks DEF TableTypes, Tables
  <2> QED
    BY <2>1, <2>2
<1>8. hashOffer' \in Tables
  BY <1>3 DEF TableTypes, Tables
<1> QED
  BY <1>3, <1>7, <1>8

LEMMA SameKeeps ==
    ASSUME TableTypes, hashOffer' = hashOffer
    PROVE  Kept /\ hashOffer' \in Tables
BY Ranks DEF Kept, TableTypes, Tables

LEMMA SweepLeavesTable ==
    ASSUME Inv, NEW w \in Workers, Sweep(w)
    PROVE  hashOffer' = hashOffer
<1> DEFINE k == Head(keys[w])
           rest == [i \in Ids |-> hashOffer[k][i]]
<1>1. k = keys[w][1] /\ 1 \in 1 .. Len(keys[w])
  BY TailOfKeys DEF Sweep, Inv, TypeInv, SweepTypes
<1>2. HasRegistered(k)
  BY <1>1 DEF Inv, RegisteredInv
<1>3. hashOffer[k] \in [Ids -> SessionState]
  BY <1>2 DEF HasRegistered, Inv, TypeInv, TableTypes, Tables
<1>4. rest = hashOffer[k]
  BY <1>3
<1>5. ~ \A i \in Ids : rest[i] = Null
  BY <1>2, NullAssumption DEF HasRegistered
<1>6. hashOffer' = [hashOffer EXCEPT ![k] = rest]
  BY <1>5 DEF Sweep, GetSessions
<1> QED
  BY <1>2, <1>4, <1>6 DEF Inv, TypeInv, TableTypes, Tables, HasRegistered

LEMMA CreateKeeps ==
    ASSUME Inv, NEW w \in Workers, CreateSession(w)
    PROVE  /\ Kept /\ TableTypes' /\ OnceInv'
<1> DEFINE k == Key(data[w])
           i == CreateId(data[w])
<1>1. k \in Keys /\ i \in Ids
  BY DataKnown DEF Inv, CreateSession, WStep, WithDatagram
<1>2. hashOffer[k] # Null
  BY DEF Inv, LookInv, CreateSession, WStep
<1> HIDE DEF k, i
<1>3. CASE hashOffer[k][i] # Null
  <2>1. UNCHANGED <<hashOffer, created>>
    BY <1>3 DEF CreateSession, k, i
  <2> QED
    BY <2>1, SameKeeps DEF Inv, TypeInv, TableTypes, OnceInv
<1>4. CASE hashOffer[k][i] = Null
  <2>1. /\ hashOffer' = [hashOffer EXCEPT ![k][i] = "open"]
        /\ created' = [created EXCEPT ![<<k, i>>] = created[<<k, i>>] + 1]
    BY <1>4 DEF CreateSession, k, i
  <2>2. Kept /\ hashOffer' \in Tables /\ hashOffer'[k][i] = "open"
    <3>1. Rank[hashOffer[k][i]] <= Rank["open"] /\ "open" \in SessionState
      BY <1>4, Ranks DEF SessionState
    <3> QED
      BY ONLY <1>1, <1>2, <2>1, <3>1, Inv, SetKeeps DEF Inv, TypeInv
  <2>3. created[<<k, i>>] = 0
    BY <1>1, <1>4 DEF Inv, OnceInv
  <2>4. created' \in [Keys \X Ids -> Nat] /\ created'[<<k, i>>] = 1
    BY <1>1, <2>1, <2>3 DEF Inv, TypeInv, TableTypes
  <2>5. OnceInv'
    <3> SUFFICES ASSUME NEW l \in Keys, NEW j \in Ids
                 PROVE  \/ created'[<<l, j>>] = 0
                        \/ created'[<<l, j>>] = 1 /\ hashOffer'[l] # Null /\ hashOffer'[l][j] # Null
      BY DEF OnceInv
    <3>1. CASE l = k /\ j = i
      BY <3>1, <2>2, <2>4, <1>1, <1>2, NullAssumption DEF Kept
    <3>2. CASE ~(l = k /\ j = i)
      <4>1. created'[<<l, j>>] = created[<<l, j>>]
        BY <3>2, <2>1, <1>1 DEF Inv, TypeInv, TableTypes
      <4>2. hashOffer[l] # Null /\ hashOffer[l][j] # Null => hashOffer'[l] # Null /\ hashOffer'[l][j] # Null
        BY <2>2, Ranks DEF Kept, Inv, TypeInv, TableTypes, Tables
      <4> QED
        BY <4>1, <4>2 DEF Inv, OnceInv
    <3> QED
      BY <3>1, <3>2
  <2> QED
    BY <2>2, <2>4, <2>5 DEF TableTypes
<1> QED
  BY <1>3, <1>4

(* Sessions that were created stay when the table is kept.                  *)
LEMMA KeptOnce ==
    ASSUME Inv, Kept, hashOffer' \in Tables, created' = created
    PROVE  TableTypes' /\ OnceInv'
<1>1. \A k \in Keys, i \in Ids :
        hashOffer[k] # Null /\ hashOffer[k][i] # Null => hashOffer'[k] # Null /\ hashOffer'[k][i] # Null
  BY Ranks DEF Kept, Inv, TypeInv, TableTypes, Tables
<1> QED
  BY <1>1 DEF Inv, TypeInv, TableTypes, OnceInv

LEMMA TableStep ==
    ASSUME Inv, [Next]_vars
    PROVE  Kept /\ TableTypes' /\ OnceInv'
<1>1. ASSUME UNCHANGED <<hashOffer, created>> PROVE Kept /\ TableTypes' /\ OnceInv'
  BY <1>1, SameKeeps, KeptOnce DEF Inv, TypeInv
<1>2. ASSUME NEW w \in Workers, Sweep(w) PROVE Kept /\ TableTypes' /\ OnceInv'
  <2>1. UNCHANGED <<hashOffer, created>>
    BY <1>2, SweepLeavesTable DEF Sweep
  <2> QED
    BY <2>1, <1>1
<1>3. ASSUME NEW w \in Workers, CreateMap(w) PROVE Kept /\ TableTypes' /\ OnceInv'
  <2> DEFINE k == Key(data[w])
  <2>1. k \in Keys
    BY <1>3, DataKnown DEF Inv, CreateMap, WStep, WithDatagram
  <2> HIDE DEF k
  <2>2. CASE hashOffer[k] # Null
    BY <1>3, <2>2, <1>1 DEF CreateMap, k
  <2>3. CASE hashOffer[k] = Null
    <3>1. hashOffer' = [hashOffer EXCEPT ![k] = [i \in Ids |-> Null]] /\ created' = created
      BY <1>3, <2>3 DEF CreateMap, k
    <3>2. hashOffer' \in Tables
      BY <3>1, <2>1 DEF Inv, TypeInv, TableTypes, Tables, SessionState
    <3>3. Kept
      BY <3>1, <2>1, <2>3, Ranks DEF Kept, Inv, TypeInv, TableTypes, Tables
    <3> QED
      BY <3>1, <3>2, <3>3, KeptOnce
  <2> QED
    BY <2>2, <2>3
<1>4. ASSUME NEW w \in Workers, CreateSession(w) PROVE Kept /\ TableTypes' /\ OnceInv'
  BY <1>4, CreateKeeps
<1>5. ASSUME NEW k \in Keys, NEW i \in Ids, SessionCloses(k, i) PROVE Kept /\ TableTypes' /\ OnceInv'
  <2>1. Kept /\ hashOffer' \in Tables
    <3>1. Rank[hashOffer[k][i]] <= Rank["closed"] /\ "closed" \in SessionState
      BY <1>5, Ranks DEF SessionCloses, SessionState
    <3>2. hashOffer[k] # Null /\ hashOffer' = [hashOffer EXCEPT ![k][i] = "closed"]
      BY <1>5 DEF SessionCloses
    <3> QED
      BY ONLY <3>1, <3>2, Inv, SetKeeps DEF Inv, TypeInv
  <2> QED
    BY <1>5, <2>1, KeptOnce DEF SessionCloses
<1>6. ASSUME NEW k \in Keys, NEW i \in Ids, SessionRegisters(k, i) PROVE Kept /\ TableTypes' /\ OnceInv'
  <2>1. Kept /\ hashOffer' \in Tables
    <3>1. Rank[hashOffer[k][i]] <= Rank["registered"] /\ "registered" \in SessionState
      BY <1>6, Ranks DEF SessionRegisters, SessionState
    <3>2. hashOffer[k] # Null /\ hashOffer' = [hashOffer EXCEPT ![k][i] = "registered"]
      BY <1>6 DEF SessionRegisters
    <3> QED
      BY ONLY <3>1, <3>2, Inv, SetKeeps DEF Inv, TypeInv
  <2> QED
    BY <1>6, <2>1, KeptOnce DEF SessionRegisters
<1> QED
  BY <1>1, <1>2, <1>3, <1>4, <1>5, <1>6, TableFrame

(* WorkerPlaces behind the look-up are reached from the look-up only.             *)
Looked == {"session", "create", "add"}
LEMMA LookFrame ==
    ASSUME TypeInv, [Next]_vars
    PROVE  \/ \E w \in Workers : FindMap(w) \/ CreateMap(w)
           \/ \A v \in Workers : worker'[v] \in Looked => worker[v] \in Looked /\ data'[v] = data[v]
<1> DEFINE Goal == \/ \E w \in Workers : FindMap(w) \/ CreateMap(w)
                   \/ \A v \in Workers : worker'[v] \in Looked
                                         => worker[v] \in Looked /\ data'[v] = data[v]
<1> USE DEF TypeInv, WorkerTypes, Looked
<1>1. ASSUME NEW r \in Receivers, NEW d \in Datagrams, Offer(r, d) PROVE Goal
  BY <1>1 DEF Offer, WStep, Dies, queued
<1>2. ASSUME NEW r \in Receivers, SeesStarted(r) PROVE Goal
  BY <1>2 DEF SeesStarted, WStep, Dies, queued
<1>3. ASSUME NEW r \in Receivers, SeesNone(r) PROVE Goal
  BY <1>3 DEF SeesNone, WStep, Dies, queued
<1>4. ASSUME NEW r \in Receivers, Start(r) PROVE Goal
  BY <1>4 DEF Start, WStep, Dies, queued
<1>5. ASSUME NEW w \in Workers, PollSome(w) PROVE Goal
  BY <1>5 DEF PollSome, WStep
<1>6. ASSUME NEW w \in Workers, PollNothing(w) PROVE Goal
  BY <1>6 DEF PollNothing, WStep, Dies, queued
<1>7. ASSUME NEW w \in Workers, LookAgain(w) PROVE Goal
  BY <1>7 DEF LookAgain, WStep, Dies, queued
<1>8. ASSUME NEW w \in Workers, Exit(w) PROVE Goal
  BY <1>8 DEF Exit, WStep, Dies, queued
<1>9. ASSUME NEW w \in Workers, NothingToSweep(w) PROVE Goal
  BY <1>9 DEF NothingToSweep, WStep, Dies, queued
<1>10. ASSUME NEW w \in Workers, SizeThrows(w) PROVE Goal
  BY <1>10 DEF SizeThrows, WStep, Dies, queued
<1>11. ASSUME NEW w \in Workers, SizeRead(w) PROVE Goal
  BY <1>11 DEF SizeRead, WStep, Dies, queued
<1>12. ASSUME NEW w \in Workers, CopyKey(w) PROVE Goal
  BY <1>12 DEF CopyKey, WStep, Dies, queued
<1>13. ASSUME NEW w \in Workers, CopyThrows(w) PROVE Goal
  BY <1>13 DEF CopyThrows, WStep, Dies, queued
<1>14. ASSUME NEW w \in Workers, Sweep(w) PROVE Goal
  BY <1>14 DEF Sweep, WStep, Dies, queued
<1>15. ASSUME NEW w \in Workers, FindKey(w) PROVE Goal
  BY <1>15 DEF FindKey, WStep, Dies, queued
<1>16. ASSUME NEW w \in Workers, NoKeyFound(w) PROVE Goal
  BY <1>16 DEF NoKeyFound, WStep, AfterKey
<1>17. ASSUME NEW w \in Workers, CutThrows(w) PROVE Goal
  BY <1>17 DEF CutThrows, WStep, Dies, queued
<1>18. ASSUME NEW w \in Workers, CutKey(w) PROVE Goal
  BY <1>18 DEF CutKey, WStep, AfterKey
<1>19. ASSUME NEW w \in Workers, FindMap(w) PROVE Goal
  BY <1>19
<1>20. ASSUME NEW w \in Workers, CreateMap(w) PROVE Goal
  BY <1>20
<1>21. ASSUME NEW w \in Workers, FindSession(w) PROVE Goal
  BY <1>21 DEF FindSession, WStep, Dies, queued
<1>22. ASSUME NEW w \in Workers, CreateSession(w) PROVE Goal
  BY <1>22 DEF CreateSession, WStep, Dies, queued
<1>23. ASSUME NEW w \in Workers, AddData(w) PROVE Goal
  BY <1>23 DEF AddData, WStep, Dies, queued
<1>24. ASSUME NEW w \in Workers, AddDataThrows(w) PROVE Goal
  BY <1>24 DEF AddDataThrows, WStep, Dies, queued
<1>25. ASSUME NEW n \in Numbers, RemoverFinds(n) PROVE Goal
  BY <1>25 DEF RemoverFinds, WStep, Dies, queued
<1>26. ASSUME NEW n \in Numbers, RemoverCuts(n) PROVE Goal
  BY <1>26 DEF RemoverCuts, WStep, Dies, queued
<1>27. ASSUME NEW k \in Keys, NEW i \in Ids, SessionCloses(k, i) PROVE Goal
  BY <1>27 DEF SessionCloses, WStep, Dies, queued
<1>28. ASSUME NEW k \in Keys, NEW i \in Ids, SessionRegisters(k, i) PROVE Goal
  BY <1>28 DEF SessionRegisters, WStep, Dies, queued
<1>29. ASSUME UNCHANGED vars PROVE Goal
  BY <1>29 DEF vars, WStep, Dies, queued
<1> QED
  BY <1>1, <1>2, <1>3, <1>4, <1>5, <1>6, <1>7, <1>8, <1>9, <1>10, <1>11, <1>12, <1>13, <1>14, <1>15, <1>16, <1>17, <1>18, <1>19, <1>20, <1>21, <1>22, <1>23, <1>24, <1>25, <1>26, <1>27, <1>28, <1>29 DEF Next, Receive, Work

(* What arrived stays, so the source of a datagram does.                    *)
LEMMA ArrivedKept ==
    ASSUME TypeInv, [Next]_vars
    PROVE  \A n \in 1 .. Len(arrived) : arrived'[n] = arrived[n]
<1>1. \/ arrived' = arrived
      \/ \E d \in Datagrams : arrived' = Append(arrived, d)
  <2> DEFINE Goal == arrived' = arrived \/ \E d \in Datagrams : arrived' = Append(arrived, d)
  <2>1. ASSUME NEW r \in Receivers, NEW d \in Datagrams, Offer(r, d) PROVE Goal
    BY <2>1 DEF Offer, queued
  <2>2. ASSUME NEW r \in Receivers, SeesStarted(r) PROVE Goal
    BY <2>2 DEF SeesStarted, queued
  <2>3. ASSUME NEW r \in Receivers, SeesNone(r) PROVE Goal
    BY <2>3 DEF SeesNone, queued
  <2>4. ASSUME NEW r \in Receivers, Start(r) PROVE Goal
    BY <2>4 DEF Start, queued
  <2>5. ASSUME NEW w \in Workers, PollSome(w) PROVE Goal
    BY <2>5 DEF PollSome, queued
  <2>6. ASSUME NEW w \in Workers, PollNothing(w) PROVE Goal
    BY <2>6 DEF PollNothing, queued
  <2>7. ASSUME NEW w \in Workers, LookAgain(w) PROVE Goal
    BY <2>7 DEF LookAgain, queued
  <2>8. ASSUME NEW w \in Workers, Exit(w) PROVE Goal
    BY <2>8 DEF Exit, queued
  <2>9. ASSUME NEW w \in Workers, NothingToSweep(w) PROVE Goal
    BY <2>9 DEF NothingToSweep, queued
  <2>10. ASSUME NEW w \in Workers, SizeThrows(w) PROVE Goal
    BY <2>10 DEF SizeThrows, queued
  <2>11. ASSUME NEW w \in Workers, SizeRead(w) PROVE Goal
    BY <2>11 DEF SizeRead, queued
  <2>12. ASSUME NEW w \in Workers, CopyKey(w) PROVE Goal
    BY <2>12 DEF CopyKey, queued
  <2>13. ASSUME NEW w \in Workers, CopyThrows(w) PROVE Goal
    BY <2>13 DEF CopyThrows, queued
  <2>14. ASSUME NEW w \in Workers, Sweep(w) PROVE Goal
    BY <2>14 DEF Sweep, queued
  <2>15. ASSUME NEW w \in Workers, FindKey(w) PROVE Goal
    BY <2>15 DEF FindKey, queued
  <2>16. ASSUME NEW w \in Workers, NoKeyFound(w) PROVE Goal
    BY <2>16 DEF NoKeyFound, queued
  <2>17. ASSUME NEW w \in Workers, CutThrows(w) PROVE Goal
    BY <2>17 DEF CutThrows, queued
  <2>18. ASSUME NEW w \in Workers, CutKey(w) PROVE Goal
    BY <2>18 DEF CutKey, queued
  <2>19. ASSUME NEW w \in Workers, FindMap(w) PROVE Goal
    BY <2>19 DEF FindMap, queued
  <2>20. ASSUME NEW w \in Workers, CreateMap(w) PROVE Goal
    BY <2>20 DEF CreateMap, queued
  <2>21. ASSUME NEW w \in Workers, FindSession(w) PROVE Goal
    BY <2>21 DEF FindSession, queued
  <2>22. ASSUME NEW w \in Workers, CreateSession(w) PROVE Goal
    BY <2>22 DEF CreateSession, queued
  <2>23. ASSUME NEW w \in Workers, AddData(w) PROVE Goal
    BY <2>23 DEF AddData, queued
  <2>24. ASSUME NEW w \in Workers, AddDataThrows(w) PROVE Goal
    BY <2>24 DEF AddDataThrows, queued
  <2>25. ASSUME NEW n \in Numbers, RemoverFinds(n) PROVE Goal
    BY <2>25 DEF RemoverFinds, queued
  <2>26. ASSUME NEW n \in Numbers, RemoverCuts(n) PROVE Goal
    BY <2>26 DEF RemoverCuts, queued
  <2>27. ASSUME NEW k \in Keys, NEW i \in Ids, SessionCloses(k, i) PROVE Goal
    BY <2>27 DEF SessionCloses, queued
  <2>28. ASSUME NEW k \in Keys, NEW i \in Ids, SessionRegisters(k, i) PROVE Goal
    BY <2>28 DEF SessionRegisters, queued
  <2>29. ASSUME UNCHANGED vars PROVE Goal
    BY <2>29 DEF vars, queued
  <2> QED
    BY <2>1, <2>2, <2>3, <2>4, <2>5, <2>6, <2>7, <2>8, <2>9, <2>10, <2>11, <2>12, <2>13, <2>14, <2>15, <2>16, <2>17, <2>18, <2>19, <2>20, <2>21, <2>22, <2>23, <2>24, <2>25, <2>26, <2>27, <2>28, <2>29 DEF Next, Receive, Work
<1> QED
  BY <1>1, AppendProperties DEF TypeInv, ArrivalTypes

LEMMA LookStep ==
    ASSUME Inv, [Next]_vars, Kept
    PROVE  LookInv'
<1> SUFFICES ASSUME NEW v \in Workers, worker'[v] \in Looked
             PROVE  hashOffer'[Key(data[v])'] # Null
  BY DEF LookInv, Looked
<1>1. ASSUME worker[v] \in WithDatagram, data'[v] = data[v] PROVE Key(data[v])' = Key(data[v]) /\ Key(data[v]) \in Keys
  BY <1>1, DataKnown, ArrivedKept DEF Inv, Key
<1>2. ASSUME worker[v] \in Looked, data'[v] = data[v] PROVE hashOffer'[Key(data[v])'] # Null
  BY <1>1, <1>2 DEF Inv, LookInv, Looked, WithDatagram, Kept
<1>3. ASSUME NEW w \in Workers, FindMap(w) \/ CreateMap(w) PROVE hashOffer'[Key(data[v])'] # Null
  <2>1. data' = data
    BY <1>3 DEF FindMap, CreateMap
  <2>2. CASE v # w
    <3>1. worker[v] \in Looked
      BY <1>3, <2>2 DEF FindMap, CreateMap, WStep, Inv, TypeInv, WorkerTypes
    <3> QED
      BY <3>1, <2>1, <1>2
  <2>3. CASE v = w
    <3>1. worker[v] \in WithDatagram
      BY <1>3, <2>3 DEF FindMap, CreateMap, WStep, WithDatagram
    <3>2. Key(data[v])' = Key(data[v]) /\ Key(data[v]) \in Keys
      BY <3>1, <2>1, <1>1
    <3>3. hashOffer'[Key(data[v])] # Null
      <4>1. CASE hashOffer[Key(data[v])] # Null
        BY <4>1, <3>2 DEF Kept
      <4>2. CASE hashOffer[Key(data[v])] = Null /\ CreateMap(w)
        <5>1. hashOffer'[Key(data[v])] = [i \in Ids |-> Null]
          BY <4>2, <2>3, <3>2 DEF CreateMap, Inv, TypeInv, TableTypes, Tables
        <5> QED
          BY <5>1, NullAssumption DEF SessionState
      <4>3. CASE hashOffer[Key(data[v])] = Null /\ FindMap(w)
        BY <4>3, <2>3 DEF FindMap, WStep, Looked, Inv, TypeInv, WorkerTypes
      <4> QED
        BY <4>1, <4>2, <4>3, <1>3
    <3> QED
      BY <3>2, <3>3
  <2> QED
    BY <2>2, <2>3
<1> QED
  BY <1>2, <1>3, LookFrame DEF Inv

RegisteredAfter(k) == /\ k \in Keys /\ hashOffer'[k] # Null
                      /\ \E i \in Ids : hashOffer'[k][i] = "registered"

LEMMA KeptRegistered ==
    ASSUME Inv, Kept, TableTypes', NEW k, HasRegistered(k)
    PROVE  RegisteredAfter(k)
<1>1. hashOffer'[k] # Null
  BY DEF Kept, HasRegistered
<1>2. PICK i \in Ids : hashOffer[k][i] = "registered"
  BY DEF HasRegistered
<1>3. hashOffer[k] \in [Ids -> SessionState] /\ hashOffer'[k] \in [Ids -> SessionState]
  BY <1>1 DEF HasRegistered, Inv, TypeInv, TableTypes, Tables
<1>4. hashOffer'[k][i] = "registered"
  BY <1>2, <1>3, Ranks DEF Kept, HasRegistered
<1> QED
  BY <1>1, <1>4 DEF HasRegistered, RegisteredAfter

FromList(k) == \E m \in 1 .. Len(handQueue.elems) : k = handQueue.elems[m]
FromKeys(k, w) == \E m \in 1 .. Len(keys[w]) : k = keys[w][m]

LEMMA CutOnlyMoves ==
    ASSUME TypeInv, NEW i \in Nat, handQueue' = Cut(handQueue, i)
    PROVE  \A j \in 1 .. Len(handQueue'.elems) : FromList(handQueue'.elems[j])
<1>1. IsList(handQueue)
  BY DEF TypeInv, SweepTypes
<1>2. \A j \in 1 .. Len(Cut(handQueue, i).elems) :
        \E m \in 1 .. Len(handQueue.elems) : Cut(handQueue, i).elems[j] = handQueue.elems[m]
  BY ONLY <1>1, i \in Nat, CutIsList
<1> QED
  BY ONLY <1>2, handQueue' = Cut(handQueue, i) DEF FromList

(* Where the elements of the list and the keys to sweep come from.          *)
LEMMA ListStep ==
    ASSUME TypeInv, [Next]_vars
    PROVE  \A j \in 1 .. Len(handQueue'.elems) :
              \/ FromList(handQueue'.elems[j])
              \/ \E k \in Keys, i \in Ids : SessionRegisters(k, i) /\ handQueue'.elems[j] = k
<1> DEFINE Goal == \A j \in 1 .. Len(handQueue'.elems) :
              \/ FromList(handQueue'.elems[j])
              \/ \E k \in Keys, i \in Ids : SessionRegisters(k, i) /\ handQueue'.elems[j] = k
<1>0. ASSUME handQueue' = handQueue PROVE Goal
  BY <1>0 DEF FromList
<1> HIDE DEF Goal
<1>1. ASSUME NEW r \in Receivers, NEW d \in Datagrams, Offer(r, d) PROVE Goal
  BY <1>1, <1>0 DEF Offer, sweeping
<1>2. ASSUME NEW r \in Receivers, SeesStarted(r) PROVE Goal
  BY <1>2, <1>0 DEF SeesStarted, sweeping
<1>3. ASSUME NEW r \in Receivers, SeesNone(r) PROVE Goal
  BY <1>3, <1>0 DEF SeesNone, sweeping
<1>4. ASSUME NEW r \in Receivers, Start(r) PROVE Goal
  BY <1>4, <1>0 DEF Start, sweeping
<1>5. ASSUME NEW w \in Workers, PollSome(w) PROVE Goal
  BY <1>5, <1>0 DEF PollSome, sweeping
<1>6. ASSUME NEW w \in Workers, PollNothing(w) PROVE Goal
  BY <1>6, <1>0 DEF PollNothing, sweeping
<1>7. ASSUME NEW w \in Workers, LookAgain(w) PROVE Goal
  BY <1>7, <1>0 DEF LookAgain, sweeping
<1>8. ASSUME NEW w \in Workers, Exit(w) PROVE Goal
  BY <1>8, <1>0 DEF Exit, sweeping
<1>9. ASSUME NEW w \in Workers, NothingToSweep(w) PROVE Goal
  BY <1>9, <1>0 DEF NothingToSweep, sweeping
<1>10. ASSUME NEW w \in Workers, SizeThrows(w) PROVE Goal
  BY <1>10, <1>0 DEF SizeThrows, sweeping
<1>11. ASSUME NEW w \in Workers, SizeRead(w) PROVE Goal
  BY <1>11, <1>0 DEF SizeRead, sweeping
<1>12. ASSUME NEW w \in Workers, CopyKey(w) PROVE Goal
  BY <1>12, <1>0 DEF CopyKey, sweeping
<1>13. ASSUME NEW w \in Workers, CopyThrows(w) PROVE Goal
  BY <1>13, <1>0 DEF CopyThrows, sweeping
<1>14. ASSUME NEW w \in Workers, Sweep(w) PROVE Goal
  BY <1>14, <1>0 DEF Sweep, sweeping
<1>15. ASSUME NEW w \in Workers, FindKey(w) PROVE Goal
  BY <1>15, <1>0 DEF FindKey, sweeping
<1>16. ASSUME NEW w \in Workers, NoKeyFound(w) PROVE Goal
  BY <1>16, <1>0 DEF NoKeyFound, sweeping
<1>17. ASSUME NEW w \in Workers, CutThrows(w) PROVE Goal
  <2>1. handQueue' = Cut(handQueue, found[w]) /\ found[w] \in Nat
    BY <1>17 DEF CutThrows, TypeInv, SweepTypes
  <2> QED
    BY <2>1, CutOnlyMoves DEF Goal
<1>18. ASSUME NEW w \in Workers, CutKey(w) PROVE Goal
  <2>1. handQueue' = Cut(handQueue, found[w]) /\ found[w] \in Nat
    BY <1>18 DEF CutKey, TypeInv, SweepTypes
  <2> QED
    BY <2>1, CutOnlyMoves DEF Goal
<1>19. ASSUME NEW w \in Workers, FindMap(w) PROVE Goal
  BY <1>19, <1>0 DEF FindMap, sweeping
<1>20. ASSUME NEW w \in Workers, CreateMap(w) PROVE Goal
  BY <1>20, <1>0 DEF CreateMap, sweeping
<1>21. ASSUME NEW w \in Workers, FindSession(w) PROVE Goal
  BY <1>21, <1>0 DEF FindSession, sweeping
<1>22. ASSUME NEW w \in Workers, CreateSession(w) PROVE Goal
  BY <1>22, <1>0 DEF CreateSession, sweeping
<1>23. ASSUME NEW w \in Workers, AddData(w) PROVE Goal
  BY <1>23, <1>0 DEF AddData, sweeping
<1>24. ASSUME NEW w \in Workers, AddDataThrows(w) PROVE Goal
  BY <1>24, <1>0 DEF AddDataThrows, sweeping
<1>25. ASSUME NEW n \in Numbers, RemoverFinds(n) PROVE Goal
  BY <1>25, <1>0 DEF RemoverFinds, sweeping
<1>26. ASSUME NEW n \in Numbers, RemoverCuts(n) PROVE Goal
  <2>1. handQueue' = Cut(handQueue, remover[n].found) /\ remover[n].found \in Nat
    BY <1>26 DEF RemoverCuts, TypeInv, SweepTypes, Removers
  <2> QED
    BY <2>1, CutOnlyMoves DEF Goal
<1>27. ASSUME NEW k \in Keys, NEW i \in Ids, SessionCloses(k, i) PROVE Goal
  BY <1>27, <1>0 DEF SessionCloses, sweeping
<1>28. ASSUME NEW k \in Keys, NEW i \in Ids, SessionRegisters(k, i) PROVE Goal
  <2>1. handQueue' = ListAdd(handQueue, k) /\ IsList(handQueue)
    BY <1>28 DEF SessionRegisters, TypeInv, SweepTypes
  <2>2. \A j \in 1 .. Len(ListAdd(handQueue, k).elems) :
          \/ ListAdd(handQueue, k).elems[j] = k
          \/ FromList(ListAdd(handQueue, k).elems[j])
    BY <2>1, AddIsList DEF FromList
  <2> QED
    BY <1>28, <2>1, <2>2 DEF Goal
<1>29. ASSUME UNCHANGED vars PROVE Goal
  BY <1>29, <1>0 DEF vars, sweeping
<1> QED
  BY <1>1, <1>2, <1>3, <1>4, <1>5, <1>6, <1>7, <1>8, <1>9, <1>10, <1>11, <1>12, <1>13, <1>14, <1>15, <1>16, <1>17, <1>18, <1>19, <1>20, <1>21, <1>22, <1>23, <1>24, <1>25, <1>26, <1>27, <1>28, <1>29 DEF Next, Receive, Work, Goal

LEMMA KeysStep ==
    ASSUME TypeInv, [Next]_vars
    PROVE  \A v \in Workers : \A j \in 1 .. Len(keys'[v]) :
              FromKeys(keys'[v][j], v) \/ FromList(keys'[v][j])
<1> SUFFICES ASSUME NEW v \in Workers
             PROVE  \A j \in 1 .. Len(keys'[v]) : FromKeys(keys'[v][j], v) \/ FromList(keys'[v][j])
  OBVIOUS
<1> DEFINE Goal == \A j \in 1 .. Len(keys'[v]) : FromKeys(keys'[v][j], v) \/ FromList(keys'[v][j])
<1>0. ASSUME keys'[v] = keys[v] PROVE Goal
  BY <1>0 DEF FromKeys
<1>00. ASSUME keys'[v] = <<>> PROVE Goal
  BY <1>00, EmptySeq
<1>000. ASSUME keys[v] # <<>>, keys'[v] = Tail(keys[v]) PROVE Goal
  BY <1>000, TailOfKeys DEF FromKeys, TypeInv, SweepTypes
<1> HIDE DEF Goal
<1>1. ASSUME NEW r \in Receivers, NEW d \in Datagrams, Offer(r, d) PROVE Goal
  BY <1>1, <1>0 DEF Offer, sweeping
<1>2. ASSUME NEW r \in Receivers, SeesStarted(r) PROVE Goal
  BY <1>2, <1>0 DEF SeesStarted, sweeping
<1>3. ASSUME NEW r \in Receivers, SeesNone(r) PROVE Goal
  BY <1>3, <1>0 DEF SeesNone, sweeping
<1>4. ASSUME NEW r \in Receivers, Start(r) PROVE Goal
  BY <1>4, <1>0 DEF Start, sweeping
<1>5. ASSUME NEW w \in Workers, PollSome(w) PROVE Goal
  BY <1>5, <1>0 DEF PollSome, sweeping
<1>6. ASSUME NEW w \in Workers, PollNothing(w) PROVE Goal
  BY <1>6, <1>0 DEF PollNothing, sweeping
<1>7. ASSUME NEW w \in Workers, LookAgain(w) PROVE Goal
  BY <1>7, <1>0 DEF LookAgain, sweeping
<1>8. ASSUME NEW w \in Workers, Exit(w) PROVE Goal
  BY <1>8, <1>0 DEF Exit, sweeping
<1>9. ASSUME NEW w \in Workers, NothingToSweep(w) PROVE Goal
  BY <1>9, <1>0 DEF NothingToSweep, sweeping
<1>10. ASSUME NEW w \in Workers, SizeThrows(w) PROVE Goal
  <2>1. keys'[v] = <<>> \/ keys'[v] = keys[v]
    BY <1>10 DEF SizeThrows, Dies, TypeInv, SweepTypes
  <2> QED
    BY <2>1, <1>0, <1>00
<1>11. ASSUME NEW w \in Workers, SizeRead(w) PROVE Goal
  BY <1>11, <1>0 DEF SizeRead, sweeping
<1>12. ASSUME NEW w \in Workers, CopyKey(w) PROVE Goal
  <2> DEFINE i == Len(keys[w]) + 1
  <2>1. i \in 1 .. Len(handQueue.elems) /\ handQueue.elems[i] \in Keys
    BY <1>12 DEF CopyKey, IsList, Lists, TypeInv, SweepTypes
  <2>2. /\ keys'[w] = Append(keys[w], handQueue.elems[i])
        /\ v # w => keys'[v] = keys[v]
    BY <1>12 DEF CopyKey, TypeInv, SweepTypes
  <2>3. /\ Len(keys'[w]) = i /\ keys'[w][i] = handQueue.elems[i]
        /\ \A j \in 1 .. Len(keys[w]) : keys'[w][j] = keys[w][j]
    BY <2>1, <2>2, AppendProperties DEF TypeInv, SweepTypes
  <2>4. \A j \in 1 .. Len(keys'[w]) : j = i \/ j \in 1 .. Len(keys[w])
    BY <2>3
  <2>5. v = w => Goal
    BY <2>1, <2>3, <2>4 DEF Goal, FromKeys, FromList
  <2> QED
    BY <2>2, <2>5, <1>0
<1>13. ASSUME NEW w \in Workers, CopyThrows(w) PROVE Goal
  <2>1. keys'[v] = <<>> \/ keys'[v] = keys[v]
    BY <1>13 DEF CopyThrows, Dies, TypeInv, SweepTypes
  <2> QED
    BY <2>1, <1>0, <1>00
<1>14. ASSUME NEW w \in Workers, Sweep(w) PROVE Goal
  BY <1>14, <1>0 DEF Sweep, sweeping
<1>15. ASSUME NEW w \in Workers, FindKey(w) PROVE Goal
  BY <1>15, <1>0 DEF FindKey, sweeping
<1>16. ASSUME NEW w \in Workers, NoKeyFound(w) PROVE Goal
  <2>1. keys[w] # <<>> /\ keys' = [keys EXCEPT ![w] = Tail(keys[w])]
    BY <1>16 DEF NoKeyFound, DropKey, WStep, TypeInv, SweepTypes
  <2>2. keys'[v] = IF v = w THEN Tail(keys[v]) ELSE keys[v]
    BY <2>1 DEF TypeInv, SweepTypes
  <2> QED
    BY <2>1, <2>2, <1>0, <1>000
<1>17. ASSUME NEW w \in Workers, CutThrows(w) PROVE Goal
  <2>1. keys'[v] = <<>> \/ keys'[v] = keys[v]
    BY <1>17 DEF CutThrows, Dies, TypeInv, SweepTypes
  <2> QED
    BY <2>1, <1>0, <1>00
<1>18. ASSUME NEW w \in Workers, CutKey(w) PROVE Goal
  <2>1. keys[w] # <<>> /\ keys' = [keys EXCEPT ![w] = Tail(keys[w])]
    BY <1>18 DEF CutKey, DropKey, WStep, TypeInv, SweepTypes
  <2>2. keys'[v] = IF v = w THEN Tail(keys[v]) ELSE keys[v]
    BY <2>1 DEF TypeInv, SweepTypes
  <2> QED
    BY <2>1, <2>2, <1>0, <1>000
<1>19. ASSUME NEW w \in Workers, FindMap(w) PROVE Goal
  BY <1>19, <1>0 DEF FindMap, sweeping
<1>20. ASSUME NEW w \in Workers, CreateMap(w) PROVE Goal
  BY <1>20, <1>0 DEF CreateMap, sweeping
<1>21. ASSUME NEW w \in Workers, FindSession(w) PROVE Goal
  BY <1>21, <1>0 DEF FindSession, sweeping
<1>22. ASSUME NEW w \in Workers, CreateSession(w) PROVE Goal
  BY <1>22, <1>0 DEF CreateSession, sweeping
<1>23. ASSUME NEW w \in Workers, AddData(w) PROVE Goal
  BY <1>23, <1>0 DEF AddData, sweeping
<1>24. ASSUME NEW w \in Workers, AddDataThrows(w) PROVE Goal
  <2>1. keys'[v] = <<>> \/ keys'[v] = keys[v]
    BY <1>24 DEF AddDataThrows, Dies, TypeInv, SweepTypes
  <2> QED
    BY <2>1, <1>0, <1>00
<1>25. ASSUME NEW n \in Numbers, RemoverFinds(n) PROVE Goal
  BY <1>25, <1>0 DEF RemoverFinds, sweeping
<1>26. ASSUME NEW n \in Numbers, RemoverCuts(n) PROVE Goal
  BY <1>26, <1>0 DEF RemoverCuts, sweeping
<1>27. ASSUME NEW k \in Keys, NEW i \in Ids, SessionCloses(k, i) PROVE Goal
  BY <1>27, <1>0 DEF SessionCloses, sweeping
<1>28. ASSUME NEW k \in Keys, NEW i \in Ids, SessionRegisters(k, i) PROVE Goal
  BY <1>28, <1>0 DEF SessionRegisters, sweeping
<1>29. ASSUME UNCHANGED vars PROVE Goal
  BY <1>29, <1>0 DEF vars, sweeping
<1> QED
  BY <1>1, <1>2, <1>3, <1>4, <1>5, <1>6, <1>7, <1>8, <1>9, <1>10, <1>11, <1>12, <1>13, <1>14, <1>15, <1>16, <1>17, <1>18, <1>19, <1>20, <1>21, <1>22, <1>23, <1>24, <1>25, <1>26, <1>27, <1>28, <1>29 DEF Next, Receive, Work, Goal

LEMMA RegisteredStep ==
    ASSUME Inv, [Next]_vars, Kept, TableTypes'
    PROVE  RegisteredInv'
<1>1. ASSUME NEW k, FromList(k) PROVE RegisteredAfter(k)
  BY <1>1, KeptRegistered DEF Inv, RegisteredInv, FromList
<1>2. ASSUME NEW v \in Workers, NEW k, FromKeys(k, v) PROVE RegisteredAfter(k)
  BY <1>2, KeptRegistered DEF Inv, RegisteredInv, FromKeys
<1>3. ASSUME NEW k \in Keys, NEW i \in Ids, SessionRegisters(k, i) PROVE RegisteredAfter(k)
  <2>1. hashOffer[k] # Null /\ hashOffer' = [hashOffer EXCEPT ![k][i] = "registered"]
    BY <1>3 DEF SessionRegisters
  <2>2. hashOffer'[k] # Null
    BY <2>1 DEF Kept
  <2>3. hashOffer'[k][i] = "registered"
    BY <2>1 DEF Inv, TypeInv, TableTypes, Tables
  <2> QED
    BY <2>2, <2>3 DEF RegisteredAfter
<1>4. \A j \in 1 .. Len(handQueue'.elems) : RegisteredAfter(handQueue'.elems[j])
  BY <1>1, <1>3, ListStep DEF Inv
<1>5. \A v \in Workers : \A j \in 1 .. Len(keys'[v]) : RegisteredAfter(keys'[v][j])
  BY <1>1, <1>2, KeysStep DEF Inv
<1> QED
  BY <1>4, <1>5 DEF RegisteredInv, HasRegistered, RegisteredAfter

-----------------------------------------------------------------------------
LEMMA InitInv == Init => Inv
<1> SUFFICES ASSUME Init PROVE Inv
  OBVIOUS
<1>1. TypeInv
  BY InitTypes
<1>2. RegisteredInv
  BY EmptySeq DEF Init, RegisteredInv
<1>3. LookInv
  BY DEF Init, LookInv
<1>4. OnceInv
  BY DEF Init, OnceInv
<1> QED
  BY <1>1, <1>2, <1>3, <1>4 DEF Inv

LEMMA StepInv ==
    ASSUME Inv, [Next]_vars
    PROVE  Inv' /\ Kept
<1>1. Kept /\ TableTypes' /\ OnceInv'
  BY TableStep
<1>2. ArrivalTypes' /\ WorkerTypes' /\ SweepTypes'
  BY QueueStep, WorkerStep, SweepStep DEF Inv
<1>3. RegisteredInv' /\ LookInv'
  BY <1>1, RegisteredStep, LookStep
<1> QED
  BY <1>1, <1>2, <1>3 DEF Inv, TypeInv

LEMMA InvAlways == Spec => []Inv
<1>1. Inv /\ [Next]_vars => Inv'
  BY StepInv
<1> QED
  BY <1>1, InitInv, PTL DEF Spec

(* The types of ListenerData, for any number of receivers, workers, sources *)
(* and ids: the list that threads prune without a lock keeps as many        *)
(* elements as its size says, and never more than none below zero.          *)
THEOREM ListenerTypes == Spec => []TypeOK
<1>1. Inv => TypeOK
  BY TypesEnough DEF Inv
<1> QED
  BY <1>1, InvAlways, PTL

(* However many workers look for a session at once, and whatever the hand   *)
(* queue loses or repeats meanwhile, at most one is ever created for a      *)
(* source and an id.                                                        *)
THEOREM OneSessionEver == Spec => []OneSession
<1>1. Inv => OneSession
  <2> SUFFICES ASSUME Inv, NEW q \in Keys \X Ids PROVE created[q] <= 1
    BY DEF OneSession
  <2>1. PICK k \in Keys, i \in Ids : q = <<k, i>>
    OBVIOUS
  <2>2. created[<<k, i>>] = 0 \/ created[<<k, i>>] = 1
    BY DEF Inv, OnceInv
  <2> QED
    BY <2>1, <2>2
<1> QED
  BY <1>1, InvAlways, PTL

(* A worker that sweeps a key finds the map it calls isEmpty on: through    *)
(* repeated keys, keys cut at stale indexes and several workers at the same *)
(* sweep, each key in the list and in a worker's hand keeps a map with a    *)
(* session that registered for it.                                          *)
THEOREM SweptMapThere == Spec => []SweptHasMap
<1>1. Inv => SweptHasMap
  <2> SUFFICES ASSUME Inv, NEW w \in Workers, worker[w] = "sweep"
               PROVE  keys[w] # <<>> /\ hashOffer[Head(keys[w])] # Null
    BY DEF SweptHasMap
  <2>1. keys[w] # <<>> /\ keys[w] \in Seq(Keys)
    BY DEF Inv, TypeInv, SweepTypes
  <2>2. Head(keys[w]) = keys[w][1] /\ 1 \in 1 .. Len(keys[w])
    BY <2>1, TailOfKeys
  <2>3. HasRegistered(keys[w][1])
    BY <2>2 DEF Inv, RegisteredInv
  <2> QED
    BY <2>1, <2>2, <2>3 DEF HasRegistered
<1> QED
  BY <1>1, InvAlways, PTL
=============================================================================
