------------------------ MODULE ClientLifeCycleProofs ------------------------
(***************************************************************************)
(* Proofs of the safety invariants of ClientLifeCycle, for any number of   *)
(* clients, addresses, sessions and shares and any depth of the stacks.    *)
(* The inductive invariant Inv is the conjunction of named parts: what the *)
(* frames of a thread may say (Frames ahead of the work they stand for),   *)
(* how the sets of sessions lie in one another, that the entries of the    *)
(* pool are apart, and who will still close an unused session.             *)
(***************************************************************************)
EXTENDS ClientLifeCycle, SequenceTheorems, TLAPS

(* Frames that hold no session, and those only a logical close leads to.   *)
Sessionless == {"lookup", "check", "start", "send"}
Marks       == {"count", "drop", "take", "recount", "close", "set", "remove"}
Closers     == {"close", "set"}

(* What a frame says of its session.                                       *)
Truthful(f, upTo, expired) ==
    /\ f.at \notin Sessionless => f.s \in 1 .. upTo
    /\ f.at \in Marks => f.s \in expired

FramesTruthful ==
    \A t \in Threads : \A i \in DOMAIN stack[t] : Truthful(stack[t][i], made, logicalClose)

(* The look-up under the key "null0" returns to the comparison under it.   *)
AsksNull(f) == f.at \in {"lookup", "grant"} /\ f.key = NullKey
ComparedTo(st) == \A i \in DOMAIN st : AsksNull(st[i]) => i + 1 \in DOMAIN st /\ st[i + 1].at = "compare"
Compared == \A t \in Threads : ComparedTo(stack[t])

(* How the sets of sessions lie in one another.                            *)
Nested ==
    /\ isClose \subseteq logicalClose /\ logicalClose \subseteq 1 .. made
    /\ logicalClose \cap young = {}
    /\ stale \subseteq 1 .. made
    /\ \A i \in DOMAIN notices : notices[i] \in 1 .. made
    /\ cache \subseteq 1 .. made
    /\ \A c \in Clients : clientSession[c] \in 0 .. made
    /\ \A c \in gone : clientSession[c] # 0
    /\ \A s \in Sessions : s > made => clientNum[s] = 0

(* What a thread removes from the table, it closes first.                  *)
ClosesFirst(st) ==
    \A i \in DOMAIN st : st[i].at = "remove" =>
        \/ st[i].s \in isClose
        \/ \E j \in 1 .. i - 1 : st[j].at \in Closers /\ st[j].s = st[i].s
RemovedIsClosed == \A t \in Threads : ClosesFirst(stack[t])

(* No two entries of the pool share a session.                             *)
PoolApart ==
    /\ \A k \in Keys : pool[k] # None => pool[k].session \in 1 .. made
    /\ \A k, l \in Keys : pool[k] # None /\ pool[l] # None /\ k # l
                             => pool[k].session # pool[l].session

(* No entry of the pool is a session that was handed out closed.           *)
ClosedIsReplaced == \A k \in Keys : pool[k] # None => pool[k].session \notin stale

(* A client that runs was not dropped, and one that asks the pool, in the  *)
(* innermost of its calls, has no session yet.                             *)
ForClient(f) == f.at \in {"lookup", "grant"} /\ f.key # NullKey
Running == \A c \in Clients :
    /\ stack[App(c)] # <<>> => c \notin gone
    /\ \A i \in DOMAIN stack[App(c)] : ForClient(stack[App(c)][i]) => i = 1 /\ clientSession[c] = 0

(* The sessions kept under "null0": nobody is a client of theirs.          *)
ForNull(s) == \/ pool[NullKey] # None /\ pool[NullKey].session = s
              \/ \E t \in Threads : \E i \in DOMAIN stack[t] :
                    stack[t][i].at = "grant" /\ stack[t][i].key = NullKey /\ stack[t][i].s = s
NullApart == \A s \in 1 .. made : ForNull(s) =>
    /\ clientNum[s] >= 0
    /\ \A c \in Clients : clientSession[c] # s
    /\ \A k \in Keys \ {NullKey} : pool[k] = None \/ pool[k].session # s
    /\ \A t \in Threads : \A i \in DOMAIN stack[t] :
          stack[t][i].at = "grant" /\ stack[t][i].key # NullKey => stack[t][i].s # s

(* A thread, or the queue of collected clients, still leads to the close.  *)
Leading == {"count", "take", "close", "set", "found", "unused", "expired"}
Due(s) == \/ \E t \in Threads : \E i \in DOMAIN stack[t] : stack[t][i].at \in Leading /\ stack[t][i].s = s
          \/ \E d \in gcQueue : clientSession[d] = s
UnusedIsDue == \A s \in logicalClose : Unused(s) => s \in isClose \/ Due(s)

Inv == /\ TypeOK /\ FramesTruthful /\ Compared /\ Nested /\ RemovedIsClosed /\ OpenIsRegistered
       /\ PoolApart /\ ClosedIsReplaced /\ Running /\ NullApart /\ UnusedIsDue

-----------------------------------------------------------------------------
(* Steps of one stack: its first d frames give way to the frames fs.       *)

Moves(t, fs, d) ==
    /\ stack' = [stack EXCEPT ![t] = stack'[t]] /\ stack'[t] \in Seq(Frames)
    /\ d \in 0 .. Len(stack[t])
    /\ Len(stack'[t]) = Len(fs) + Len(stack[t]) - d
    /\ \A i \in 1 .. Len(stack'[t]) :
          stack'[t][i] = IF i <= Len(fs) THEN fs[i] ELSE stack[t][i - Len(fs) + d]

(* A frame with a session in range is a frame, and says what it was given. *)
LEMMA FrameType ==
    ASSUME NEW at \in Places, NEW s \in 0 .. MaxSessions
    PROVE  /\ Frame(at, s) \in Frames
           /\ Frame(at, s).at = at /\ Frame(at, s).s = s /\ Frame(at, s).key = NullKey
BY DEF Frame, Frames, Keys

(* Continue of a thread that has a frame replaces that frame.              *)
LEMMA ContinueMoves ==
    ASSUME TypeOK, NEW t \in Threads, stack[t] # <<>>, NEW fs \in Seq(Frames), Continue(t, fs)
    PROVE  Moves(t, fs, 1)
<1> DEFINE st == stack[t]
<1>1. st \in Seq(Frames) /\ stack' = [stack EXCEPT ![t] = fs \o Tail(st)] /\ stack'[t] = fs \o Tail(st)
  BY DEF TypeOK, Continue
<1>2. /\ Tail(st) \in Seq(Frames) /\ Len(st) \in Nat \ {0} /\ Len(Tail(st)) = Len(st) - 1
      /\ \A i \in 1 .. Len(st) - 1 : Tail(st)[i] = st[i + 1]
  BY <1>1, HeadTailProperties, EmptySeq, LenProperties
<1>3. /\ fs \o Tail(st) \in Seq(Frames) /\ Len(fs) \in Nat
      /\ Len(fs \o Tail(st)) = Len(fs) + Len(st) - 1
      /\ \A i \in 1 .. Len(fs) + Len(st) - 1 :
            (fs \o Tail(st))[i] = IF i <= Len(fs) THEN fs[i] ELSE Tail(st)[i - Len(fs)]
  BY <1>2, ConcatProperties, LenProperties
<1>4. \A i \in 1 .. Len(fs) + Len(st) - 1 :
            (fs \o Tail(st))[i] = IF i <= Len(fs) THEN fs[i] ELSE st[i - Len(fs) + 1]
  BY <1>2, <1>3
<1>5. 1 \in 0 .. Len(st)
  BY <1>2
<1>7. stack' = [stack EXCEPT ![t] = stack'[t]]
  BY <1>1, Zenon
<1> HIDE DEF st
<1>6. /\ stack'[t] \in Seq(Frames) /\ Len(stack'[t]) = Len(fs) + Len(st) - 1
      /\ \A i \in 1 .. Len(stack'[t]) :
            stack'[t][i] = IF i <= Len(fs) THEN fs[i] ELSE st[i - Len(fs) + 1]
  BY <1>1, <1>3, <1>4
<1> QED BY <1>5, <1>6, <1>7 DEF Moves, st

(* A thread without frames begins with the frames it is given.             *)
LEMMA BeginMoves ==
    ASSUME TypeOK, NEW t \in Threads, stack[t] = <<>>, NEW fs \in Seq(Frames),
           stack' = [stack EXCEPT ![t] = fs]
    PROVE  Moves(t, fs, 0)
<1>1. stack'[t] = fs /\ Len(stack[t]) = 0 /\ Len(fs) \in Nat
  BY LenProperties DEF TypeOK
<1>2. stack' = [stack EXCEPT ![t] = stack'[t]]
  BY <1>1, Zenon
<1>3. Len(stack'[t]) = Len(fs) + Len(stack[t]) - 0
  BY <1>1
<1>4. \A i \in 1 .. Len(stack'[t]) :
          stack'[t][i] = IF i <= Len(fs) THEN fs[i] ELSE stack[t][i - Len(fs) + 0]
  BY <1>1
<1> QED BY <1>1, <1>2, <1>3, <1>4 DEF Moves

(* After a move a frame is one of fs or was there before, and was there    *)
(* before means it is still there unless it is one of the first d.         *)
LEMMA MovedFrames ==
    ASSUME TypeOK, NEW t \in Threads, NEW fs \in Seq(Frames), NEW d, Moves(t, fs, d)
    PROVE  /\ \A u \in Threads : stack'[u] \in Seq(Frames) /\ (u # t => stack'[u] = stack[u])
           /\ \A i \in DOMAIN fs : i \in DOMAIN stack'[t] /\ stack'[t][i] = fs[i]
           /\ \A u \in Threads : \A i \in DOMAIN stack'[u] :
                 \/ u = t /\ i \in DOMAIN fs /\ stack'[u][i] = fs[i]
                 \/ \E j \in DOMAIN stack[u] : stack'[u][i] = stack[u][j] /\ (u = t => j > d)
           /\ \A u \in Threads : \A j \in DOMAIN stack[u] :
                 \/ u = t /\ j \in 1 .. d
                 \/ \E i \in DOMAIN stack'[u] : stack'[u][i] = stack[u][j]
<1>1. \A u \in Threads : stack[u] \in Seq(Frames)
  BY DEF TypeOK
<1>2. \A u \in Threads : stack'[u] \in Seq(Frames) /\ (u # t => stack'[u] = stack[u])
  BY <1>1 DEF TypeOK, Moves
<1>3. /\ Len(fs) \in Nat /\ DOMAIN fs = 1 .. Len(fs)
      /\ Len(stack[t]) \in Nat /\ DOMAIN stack[t] = 1 .. Len(stack[t])
      /\ Len(stack'[t]) \in Nat /\ DOMAIN stack'[t] = 1 .. Len(stack'[t])
  BY <1>1, <1>2, LenProperties
<1>4. d \in 0 .. Len(stack[t]) /\ Len(stack'[t]) = Len(fs) + Len(stack[t]) - d
  BY DEF Moves
<1>5. \A i \in 1 .. Len(stack'[t]) :
          stack'[t][i] = IF i <= Len(fs) THEN fs[i] ELSE stack[t][i - Len(fs) + d]
  BY DEF Moves
<1>6. \A i \in DOMAIN fs : i \in DOMAIN stack'[t] /\ stack'[t][i] = fs[i]
  BY <1>3, <1>4, <1>5
<1>7. ASSUME NEW u \in Threads, NEW i \in DOMAIN stack'[u]
      PROVE  \/ u = t /\ i \in DOMAIN fs /\ stack'[u][i] = fs[i]
             \/ \E j \in DOMAIN stack[u] : stack'[u][i] = stack[u][j] /\ (u = t => j > d)
  <2>1. CASE u # t
    BY <1>2, <1>7, <2>1
  <2>2. CASE u = t /\ i <= Len(fs)
    BY <1>3, <1>5, <1>7, <2>2
  <2>3. CASE u = t /\ ~(i <= Len(fs))
    <3>1. i \in 1 .. Len(stack'[t])
      BY <1>3, <1>7, <2>3
    <3>2. i - Len(fs) + d \in DOMAIN stack[t] /\ i - Len(fs) + d > d
      BY <1>3, <1>4, <2>3, <3>1
    <3>3. stack'[t][i] = stack[t][i - Len(fs) + d]
      BY <1>5, <2>3, <3>1
    <3> QED BY <3>2, <3>3, <2>3
  <2> QED BY <2>1, <2>2, <2>3
<1>8. ASSUME NEW u \in Threads, NEW j \in DOMAIN stack[u]
      PROVE  \/ u = t /\ j \in 1 .. d
             \/ \E i \in DOMAIN stack'[u] : stack'[u][i] = stack[u][j]
  <2>1. CASE u # t
    BY <1>2, <1>8, <2>1
  <2>2. CASE u = t /\ ~(j \in 1 .. d)
    <3>1. j + Len(fs) - d \in 1 .. Len(stack'[t]) /\ ~(j + Len(fs) - d <= Len(fs))
      BY <1>3, <1>4, <1>8, <2>2
    <3> DEFINE i == j + Len(fs) - d
    <3>2. i - Len(fs) + d = j
      BY <1>3, <1>4, <1>8, <2>2
    <3> HIDE DEF i
    <3>3. stack'[t][i] = stack[t][j]
      BY <1>5, <3>1, <3>2 DEF i
    <3> QED BY <1>3, <2>2, <3>1, <3>3 DEF i
  <2> QED BY <2>1, <2>2
<1> QED BY <1>2, <1>6, <1>7, <1>8

-----------------------------------------------------------------------------
(* What a move asks of the frames it brings and of those it takes away.    *)

Brings(t, fs) == \A i \in DOMAIN fs :
    /\ Truthful(fs[i], made', logicalClose')
    /\ AsksNull(fs[i]) => i + 1 \in DOMAIN stack'[t] /\ stack'[t][i + 1].at = "compare"
    /\ fs[i].at = "remove" => \/ fs[i].s \in isClose'
                              \/ \E j \in 1 .. i - 1 : fs[j].at \in Closers /\ fs[j].s = fs[i].s

(* A frame that was to close its session has done so, or passes it on.     *)
Settles(t, fs, d) == \A j \in 1 .. d : stack[t][j].at \in Closers =>
    \/ stack[t][j].s \in isClose'
    \/ \E i \in DOMAIN fs : fs[i].at \in Closers /\ fs[i].s = stack[t][j].s

(* A move that loses no close loses none of any thread.                    *)
LEMMA KeepsClosing ==
    ASSUME TypeOK, NEW t \in Threads, NEW fs \in Seq(Frames), NEW d, Moves(t, fs, d), Settles(t, fs, d)
    PROVE  /\ \A s : Closing(s) => s \in isClose' \/ Closing(s)'
           /\ \A i \in DOMAIN fs : fs[i].at \in Closers => Closing(fs[i].s)'
<1>1. ASSUME NEW i \in DOMAIN fs, fs[i].at \in Closers PROVE Closing(fs[i].s)'
  <2>1. i \in DOMAIN stack'[t] /\ stack'[t][i] = fs[i]
    BY MovedFrames
  <2> QED BY <1>1, <2>1 DEF Closing, Closers
<1>2. ASSUME NEW s, Closing(s) PROVE s \in isClose' \/ Closing(s)'
  <2>1. PICK u \in Threads : \E j \in DOMAIN stack[u] : stack[u][j].s = s /\ stack[u][j].at \in Closers
    BY <1>2 DEF Closing, Closers
  <2>2. PICK j \in DOMAIN stack[u] : stack[u][j].s = s /\ stack[u][j].at \in Closers
    BY <2>1
  <2>3. CASE u = t /\ j \in 1 .. d
    BY <1>1, <2>2, <2>3 DEF Settles
  <2>4. CASE ~(u = t /\ j \in 1 .. d)
    <3>1. PICK i \in DOMAIN stack'[u] : stack'[u][i] = stack[u][j]
      BY <2>4, MovedFrames
    <3> QED BY <2>2, <3>1 DEF Closing, Closers
  <2> QED BY <2>3, <2>4
<1> QED BY <1>1, <1>2

LEMMA KeepsTruthful ==
    ASSUME TypeOK, FramesTruthful, NEW t \in Threads, NEW fs \in Seq(Frames), NEW d,
           Moves(t, fs, d), Brings(t, fs),
           made' \in Nat, made <= made', logicalClose \subseteq logicalClose'
    PROVE  FramesTruthful'
<1> SUFFICES ASSUME NEW u \in Threads, NEW i \in DOMAIN stack'[u]
             PROVE  Truthful(stack'[u][i], made', logicalClose')
  BY DEF FramesTruthful, Threads, App, Check, Worker, Sessions, Truthful
<1>1. CASE u = t /\ i \in DOMAIN fs /\ stack'[u][i] = fs[i]
  BY <1>1 DEF Brings
<1>2. CASE \E j \in DOMAIN stack[u] : stack'[u][i] = stack[u][j]
  <2>1. PICK j \in DOMAIN stack[u] : stack'[u][i] = stack[u][j]
    BY <1>2
  <2>2. Truthful(stack[u][j], made, logicalClose) /\ made \in Nat
    BY DEF FramesTruthful, TypeOK
  <2> QED BY <2>1, <2>2 DEF Truthful
<1> QED BY <1>1, <1>2, MovedFrames

(* The frame below one that has moved moves to the place below it.         *)
LEMMA NextShifted ==
    ASSUME NEW n \in Nat, NEW m \in Nat, NEW d \in 0 .. m, NEW i \in 1 .. n + m - d,
           ~(i <= n), i - n + d + 1 <= m
    PROVE  /\ i + 1 \in 1 .. n + m - d /\ ~(i + 1 <= n)
           /\ (i + 1) - n + d = i - n + d + 1
  OBVIOUS

(* What stands below a frame, or above it, moves with it.                  *)
LEMMA KeepsOrder ==
    ASSUME TypeOK, Compared, RemovedIsClosed, NEW t \in Threads, NEW fs \in Seq(Frames), NEW d,
           Moves(t, fs, d), Brings(t, fs), Settles(t, fs, d), isClose \subseteq isClose'
    PROVE  Compared' /\ RemovedIsClosed'
<1>1. /\ Len(fs) \in Nat /\ DOMAIN fs = 1 .. Len(fs)
      /\ Len(stack[t]) \in Nat /\ DOMAIN stack[t] = 1 .. Len(stack[t])
      /\ Len(stack'[t]) \in Nat /\ DOMAIN stack'[t] = 1 .. Len(stack'[t])
  <2>1. stack[t] \in Seq(Frames) /\ stack'[t] \in Seq(Frames)
    BY DEF TypeOK, Moves
  <2> QED BY <2>1, LenProperties
<1>2. d \in 0 .. Len(stack[t]) /\ Len(stack'[t]) = Len(fs) + Len(stack[t]) - d
  BY DEF Moves
<1>3. \A i \in 1 .. Len(stack'[t]) :
          stack'[t][i] = IF i <= Len(fs) THEN fs[i] ELSE stack[t][i - Len(fs) + d]
  BY DEF Moves
<1>4. ASSUME NEW i \in DOMAIN stack'[t], ~(i <= Len(fs))
      PROVE  /\ i - Len(fs) + d \in d + 1 .. Len(stack[t])
             /\ stack'[t][i] = stack[t][i - Len(fs) + d]
  <2>1. i \in 1 .. Len(stack'[t])
    BY <1>1, <1>4
  <2>2. i - Len(fs) + d \in d + 1 .. Len(stack[t])
    BY <1>1, <1>2, <1>4, <2>1
  <2> QED BY <1>3, <1>4, <2>1, <2>2
<1>5. ASSUME NEW i \in DOMAIN fs PROVE i \in DOMAIN stack'[t] /\ stack'[t][i] = fs[i]
  BY <1>5, MovedFrames
<1>6. Compared'
  <2> SUFFICES ASSUME NEW u \in Threads PROVE ComparedTo(stack'[u])
    BY DEF Compared, Threads, ComparedTo, AsksNull
  <2>1. CASE u # t
    BY <2>1, MovedFrames DEF Compared
  <2>2. CASE u = t
    <3> SUFFICES ASSUME NEW i \in DOMAIN stack'[t], AsksNull(stack'[t][i])
                 PROVE  i + 1 \in DOMAIN stack'[t] /\ stack'[t][i + 1].at = "compare"
      BY <2>2 DEF ComparedTo
    <3>1. CASE i <= Len(fs)
      BY <1>1, <1>5, <3>1 DEF Brings
    <3>2. CASE ~(i <= Len(fs))
      <4> DEFINE j == i - Len(fs) + d
      <4>1. j \in d + 1 .. Len(stack[t]) /\ stack'[t][i] = stack[t][j]
        BY <1>4, <3>2
      <4>2. j \in DOMAIN stack[t] /\ j \in Int
        BY <1>1, <1>2, <4>1
      <4>3. j + 1 \in DOMAIN stack[t] /\ stack[t][j + 1].at = "compare"
        <5> HIDE DEF j
        <5> QED BY <4>1, <4>2 DEF Compared, ComparedTo
      <4>4. i + 1 \in DOMAIN stack'[t] /\ ~(i + 1 <= Len(fs)) /\ (i + 1) - Len(fs) + d = j + 1
        <5>1. i \in 1 .. Len(stack'[t])
          BY <1>1
        <5>2. j + 1 <= Len(stack[t])
          BY <1>1, <4>2, <4>3
        <5>3. i \in 1 .. Len(fs) + Len(stack[t]) - d /\ i - Len(fs) + d + 1 <= Len(stack[t])
          BY <1>2, <5>1, <5>2
        <5>4. Len(fs) \in Nat /\ Len(stack[t]) \in Nat /\ d \in 0 .. Len(stack[t]) /\ ~(i <= Len(fs))
          BY <1>1, <1>2, <3>2
        <5>5. /\ i + 1 \in 1 .. Len(fs) + Len(stack[t]) - d /\ ~(i + 1 <= Len(fs))
              /\ (i + 1) - Len(fs) + d = i - Len(fs) + d + 1
          <6> HIDE DEF j
          <6> QED BY ONLY <5>3, <5>4, NextShifted
        <5> QED BY <1>1, <1>2, <5>5
      <4>5. stack'[t][i + 1] = stack[t][j + 1]
        <5> HIDE DEF j
        <5> DEFINE n == i + 1
        <5>1. n \in DOMAIN stack'[t] /\ ~(n <= Len(fs)) /\ n - Len(fs) + d = j + 1
          BY <4>4
        <5> HIDE DEF n
        <5>2. stack'[t][n] = stack[t][j + 1]
          BY <1>4, <5>1
        <5> QED BY <5>2 DEF n
      <4> QED BY <4>3, <4>4, <4>5
    <3> QED BY <3>1, <3>2
  <2> QED BY <2>1, <2>2
<1>7. RemovedIsClosed'
  <2> SUFFICES ASSUME NEW u \in Threads, NEW i \in DOMAIN stack'[u], stack'[u][i].at = "remove",
                      ~(stack'[u][i].s \in isClose')
               PROVE  \E j \in 1 .. i - 1 : stack'[u][j].at \in Closers /\ stack'[u][j].s = stack'[u][i].s
    BY DEF RemovedIsClosed, Threads, ClosesFirst
  <2>1. CASE u # t
    <3>1. stack'[u] = stack[u]
      BY <2>1, MovedFrames
    <3>2. ~(stack[u][i].s \in isClose) /\ i \in DOMAIN stack[u] /\ stack[u][i].at = "remove"
      BY <3>1
    <3> QED BY <3>1, <3>2 DEF RemovedIsClosed, ClosesFirst
  <2>2. CASE u = t /\ i <= Len(fs)
    <3>1. i \in DOMAIN fs /\ stack'[t][i] = fs[i]
      BY <1>1, <1>5, <2>2
    <3>2. PICK j \in 1 .. i - 1 : fs[j].at \in Closers /\ fs[j].s = fs[i].s
      BY <2>2, <3>1 DEF Brings
    <3>3. j \in DOMAIN fs /\ stack'[t][j] = fs[j]
      BY <1>1, <1>5, <2>2, <3>1, <3>2
    <3> QED BY <2>2, <3>1, <3>2, <3>3
  <2>3. CASE u = t /\ ~(i <= Len(fs))
    <3> DEFINE k == i - Len(fs) + d
    <3>1. k \in d + 1 .. Len(stack[t]) /\ stack'[t][i] = stack[t][k]
      BY <1>4, <2>3
    <3>2. k \in DOMAIN stack[t] /\ k \in Int /\ i = k + Len(fs) - d
      BY <1>1, <1>2, <2>3, <3>1, SMTT(30)
    <3> HIDE DEF k
    <3>3. PICK j \in 1 .. k - 1 : stack[t][j].at \in Closers /\ stack[t][j].s = stack[t][k].s
      BY <2>3, <3>1, <3>2 DEF RemovedIsClosed, ClosesFirst
    <3>4. CASE j <= d
      <4>1. PICK n \in DOMAIN fs : fs[n].at \in Closers /\ fs[n].s = stack[t][j].s
        BY <2>3, <3>1, <3>3, <3>4, <1>2 DEF Settles
      <4>2. n \in 1 .. i - 1 /\ stack'[t][n] = fs[n]
        BY <1>1, <1>5, <2>3, <4>1
      <4> QED BY <2>3, <3>1, <3>3, <4>1, <4>2
    <3>5. CASE ~(j <= d)
      <4> DEFINE n == j + Len(fs) - d
      <4>1. n \in 1 .. i - 1 /\ n \in DOMAIN stack'[t] /\ ~(n <= Len(fs)) /\ n - Len(fs) + d = j
        BY <1>1, <1>2, <2>3, <3>1, <3>2, <3>3, <3>5
      <4> HIDE DEF n
      <4>2. stack'[t][n] = stack[t][j]
        BY <1>4, <4>1
      <4> QED BY <2>3, <3>1, <3>3, <4>1, <4>2
    <3> QED BY <1>2, <3>3, <3>4, <3>5
  <2> QED BY <2>1, <2>2, <2>3, <1>1
<1> QED BY <1>6, <1>7

(* Nothing else takes an open session from the table.                      *)
LEMMA KeepsRegistered ==
    ASSUME TypeOK, OpenIsRegistered, NEW t \in Threads, NEW fs \in Seq(Frames), NEW d,
           Moves(t, fs, d), Settles(t, fs, d), isClose \subseteq isClose',
           \A s \in 1 .. made' : s \in 1 .. made \/ s \in hashMap',
           \A s \in hashMap \ hashMap' : s \in isClose' \/ Closing(s)'
    PROVE  OpenIsRegistered'
BY KeepsClosing DEF OpenIsRegistered

-----------------------------------------------------------------------------
(* Steps that leave the users of the sessions and the pool alone.          *)

(* What led to a close, and is taken away, is replaced, or nobody needs it *)
(* any more: then the session is closed, or it has left the table.         *)
Follows(t, fs, d) == \A j \in 1 .. d :
    stack[t][j].at \in Leading /\ stack[t][j].s \in logicalClose' /\ clientNum[stack[t][j].s] = 0 =>
        \/ stack[t][j].s \in isClose'
        \/ \E i \in DOMAIN fs : fs[i].at \in Leading /\ fs[i].s = stack[t][j].s
        \/ stack[t][j].s \notin hashMap

LEMMA KeepsDue ==
    ASSUME Inv, NEW t \in Threads, NEW fs \in Seq(Frames), NEW d,
           Moves(t, fs, d), Settles(t, fs, d), Follows(t, fs, d),
           UNCHANGED <<clientNum, clientSession, gone, gcQueue>>, isClose \subseteq isClose',
           \A s \in logicalClose' \ logicalClose :
                \E i \in DOMAIN fs : fs[i].at \in Leading /\ fs[i].s = s
    PROVE  UnusedIsDue'
<1> SUFFICES ASSUME NEW s \in logicalClose', Unused(s)', s \notin isClose'
             PROVE  Due(s)'
  BY DEF UnusedIsDue
<1>1. TypeOK /\ UnusedIsDue /\ OpenIsRegistered /\ FramesTruthful
  BY DEF Inv
<1>2. Unused(s)
  BY DEF Unused
<1>3. ASSUME \E i \in DOMAIN fs : fs[i].at \in Leading /\ fs[i].s = s PROVE Due(s)'
  <2>1. PICK i \in DOMAIN fs : fs[i].at \in Leading /\ fs[i].s = s
    BY <1>3
  <2>2. i \in DOMAIN stack'[t] /\ stack'[t][i] = fs[i]
    BY <1>1, MovedFrames
  <2> QED BY <2>1, <2>2 DEF Due
<1>4. ASSUME Closing(s)' PROVE Due(s)'
  BY <1>4 DEF Closing, Due, Leading
<1>5. ASSUME Closing(s) PROVE Due(s)'
  BY <1>1, <1>4, <1>5, KeepsClosing
<1>6. CASE s \notin logicalClose
  BY <1>3, <1>6
<1>7. CASE s \in logicalClose
  <2>1. Due(s)
    BY <1>1, <1>2, <1>7 DEF UnusedIsDue
  <2>2. CASE \E e \in gcQueue : clientSession[e] = s
    BY <2>2 DEF Due
  <2>3. CASE \E u \in Threads : \E j \in DOMAIN stack[u] : stack[u][j].at \in Leading /\ stack[u][j].s = s
    <3>1. PICK u \in Threads : \E j \in DOMAIN stack[u] : stack[u][j].at \in Leading /\ stack[u][j].s = s
      BY <2>3
    <3>2. PICK j \in DOMAIN stack[u] : stack[u][j].at \in Leading /\ stack[u][j].s = s
      BY <3>1
    <3>3. CASE u = t /\ j \in 1 .. d
      <4>1. s \in 1 .. made
        BY <1>1, <3>2 DEF FramesTruthful, Truthful, Leading, Sessionless
      <4>2. CASE s \notin hashMap
        BY <1>1, <1>5, <4>1, <4>2 DEF OpenIsRegistered
      <4>3. CASE s \in hashMap
        BY <1>2, <1>3, <3>2, <3>3, <4>3 DEF Follows, Unused
      <4> QED BY <4>2, <4>3
    <3>4. CASE ~(u = t /\ j \in 1 .. d)
      <4>1. PICK i \in DOMAIN stack'[u] : stack'[u][i] = stack[u][j]
        BY <1>1, <3>4, MovedFrames
      <4> QED BY <3>2, <4>1 DEF Due
    <3> QED BY <3>3, <3>4
  <2> QED BY <2>1, <2>2, <2>3 DEF Due
<1> QED BY <1>6, <1>7

(* What the move of a client's own thread brings for that client.          *)
Occupies(t, fs, d) == \A c \in Clients : t = App(c) =>
    /\ stack[t] # <<>> \/ c \notin gone
    /\ \A i \in DOMAIN fs : ForClient(fs[i]) => i = 1 /\ clientSession[c] = 0
    /\ d > 0 \/ stack[t] = <<>> \/ ~ForClient(stack[t][1])

LEMMA KeepsRunning ==
    ASSUME TypeOK, Running, NEW t \in Threads, NEW fs \in Seq(Frames), NEW d, Moves(t, fs, d),
           Occupies(t, fs, d), UNCHANGED <<clientSession, gone>>
    PROVE  Running'
<1> SUFFICES ASSUME NEW c \in Clients
             PROVE  /\ stack'[App(c)] # <<>> => c \notin gone'
                    /\ \A i \in DOMAIN stack'[App(c)] :
                          ForClient(stack'[App(c)][i]) => i = 1 /\ clientSession'[c] = 0
  BY DEF Running, ForClient, App
<1>1. App(c) \in Threads
  BY DEF Threads
<1>2. stack'[App(c)] # <<>> => c \notin gone'
  <2>1. CASE App(c) = t
    BY <2>1 DEF Running, Occupies
  <2>2. CASE App(c) # t
    <3>1. stack'[App(c)] = stack[App(c)]
      BY <1>1, <2>2, MovedFrames
    <3> QED BY <3>1 DEF Running
  <2> QED BY <2>1, <2>2
<1>3. ASSUME NEW i \in DOMAIN stack'[App(c)], ForClient(stack'[App(c)][i])
      PROVE  i = 1 /\ clientSession'[c] = 0
  <2>1. CASE App(c) # t
    <3>1. stack'[App(c)] = stack[App(c)]
      BY <1>1, <2>1, MovedFrames
    <3> QED BY <1>3, <3>1 DEF Running
  <2>2. CASE App(c) = t /\ i \in DOMAIN fs /\ stack'[t][i] = fs[i]
    BY <1>3, <2>2 DEF Occupies
  <2>3. CASE App(c) = t /\ \E j \in DOMAIN stack[t] : stack'[t][i] = stack[t][j] /\ j > d
    <3>1. PICK j \in DOMAIN stack[t] : stack'[t][i] = stack[t][j] /\ j > d
      BY <2>3
    <3>2. j = 1 /\ ForClient(stack[t][1])
      BY <1>3, <2>3, <3>1 DEF Running
    <3>3. stack[t] # <<>> /\ d \in Nat
      <4>1. stack[t] \in Seq(Frames) /\ d \in 0 .. Len(stack[t])
        BY DEF TypeOK, Moves
      <4>2. DOMAIN stack[t] = 1 .. Len(stack[t]) /\ Len(stack[t]) \in Nat
        BY <4>1, LenProperties
      <4>3. stack[t] # <<>>
        BY <3>1, <4>2, EmptySeq
      <4> QED BY <4>1, <4>2, <4>3
    <3>4. d > 0
      BY <2>3, <3>2, <3>3 DEF Occupies
    <3> QED BY <3>1, <3>2, <3>3, <3>4
  <2> QED BY <1>1, <2>1, <2>2, <2>3, MovedFrames
<1> QED BY <1>2, <1>3

LEMMA KeepsUsers ==
    ASSUME Inv, NEW t \in Threads, NEW fs \in Seq(Frames), NEW d, Moves(t, fs, d),
           UNCHANGED <<clientNum, clientSession, gone, pooling>>,
           Occupies(t, fs, d), \A i \in DOMAIN fs : fs[i].at # "grant"
    PROVE  Running' /\ NullApart' /\ PoolApart' /\ ClosedIsReplaced'
<1>1. TypeOK /\ Running /\ NullApart /\ PoolApart /\ ClosedIsReplaced
  BY DEF Inv
<1>2. PoolApart' /\ ClosedIsReplaced'
  BY <1>1 DEF PoolApart, ClosedIsReplaced, pooling
<1>3. Running'
  BY <1>1, KeepsRunning
<1>4. NullApart'
  <2>1. ASSUME NEW u \in Threads, NEW i \in DOMAIN stack'[u], stack'[u][i].at = "grant"
        PROVE  \E j \in DOMAIN stack[u] : stack'[u][i] = stack[u][j]
    BY <1>1, <2>1, MovedFrames
  <2>2. ASSUME NEW s \in 1 .. made, ForNull(s)' PROVE ForNull(s)
    <3>1. CASE pool[NullKey] # None /\ pool[NullKey].session = s
      BY <3>1 DEF ForNull
    <3>2. CASE \E u \in Threads : \E i \in DOMAIN stack'[u] :
                  stack'[u][i].at = "grant" /\ stack'[u][i].key = NullKey /\ stack'[u][i].s = s
      BY <2>1, <3>2 DEF ForNull
    <3> QED BY <2>2, <3>1, <3>2 DEF ForNull, pooling
  <2> SUFFICES ASSUME NEW s \in 1 .. made', ForNull(s)'
               PROVE  /\ clientNum'[s] >= 0
                      /\ \A c \in Clients : clientSession'[c] # s
                      /\ \A k \in Keys \ {NullKey} : pool'[k] = None \/ pool'[k].session # s
                      /\ \A u \in Threads : \A i \in DOMAIN stack'[u] :
                            stack'[u][i].at = "grant" /\ stack'[u][i].key # NullKey
                              => stack'[u][i].s # s
    BY DEF NullApart
  <2>3. s \in 1 .. made /\ ForNull(s)
    BY <2>2 DEF pooling
  <2>4. /\ clientNum'[s] >= 0
        /\ \A c \in Clients : clientSession'[c] # s
        /\ \A k \in Keys \ {NullKey} : pool'[k] = None \/ pool'[k].session # s
    BY <1>1, <2>3 DEF NullApart, pooling
  <2>5. ASSUME NEW u \in Threads, NEW i \in DOMAIN stack'[u],
               stack'[u][i].at = "grant", stack'[u][i].key # NullKey
        PROVE  stack'[u][i].s # s
    <3>1. PICK j \in DOMAIN stack[u] : stack'[u][i] = stack[u][j]
      BY <2>1, <2>5
    <3> QED BY <1>1, <2>3, <2>5, <3>1 DEF NullApart
  <2> QED BY <2>4, <2>5
<1> QED BY <1>2, <1>3, <1>4

LEMMA QuietMove ==
    ASSUME Inv, NEW t \in Threads, NEW fs \in Seq(Frames), NEW d,
           Moves(t, fs, d), Brings(t, fs), Settles(t, fs, d), Follows(t, fs, d),
           UNCHANGED <<clientNum, clientSession, gone, gcQueue, pooling>>,
           Occupies(t, fs, d),
           isClose \subseteq isClose', logicalClose \subseteq logicalClose',
           \A i \in DOMAIN fs : fs[i].at # "grant",
           \A s \in hashMap \ hashMap' : s \in isClose' \/ Closing(s)',
           \A s \in logicalClose' \ logicalClose :
                \E i \in DOMAIN fs : fs[i].at \in Leading /\ fs[i].s = s,
           TypeOK', Nested'
    PROVE  Inv'
<1>1. TypeOK /\ FramesTruthful /\ Compared /\ RemovedIsClosed /\ OpenIsRegistered
  BY DEF Inv
<1>2. made' = made /\ made \in Nat
  BY <1>1 DEF pooling, TypeOK
<1>3. FramesTruthful'
  BY <1>1, <1>2, KeepsTruthful
<1>4. Compared' /\ RemovedIsClosed'
  BY <1>1, KeepsOrder
<1>5. OpenIsRegistered'
  BY <1>1, <1>2, KeepsRegistered
<1>6. Running' /\ NullApart' /\ PoolApart' /\ ClosedIsReplaced'
  BY KeepsUsers
<1>7. UnusedIsDue'
  BY KeepsDue
<1> QED BY <1>3, <1>4, <1>5, <1>6, <1>7 DEF Inv

-----------------------------------------------------------------------------
(* The frame a thread runs, and the frames that may take its place.        *)

LEMMA TopFrame ==
    ASSUME Inv, NEW t \in Threads, NEW at, At(t, at)
    PROVE  /\ stack[t] \in Seq(Frames) /\ stack[t] # <<>> /\ 1 \in DOMAIN stack[t]
           /\ stack[t][1] \in Frames /\ stack[t][1].at = at
           /\ Head(stack[t]) = stack[t][1] /\ Top(t) = stack[t][1].s
           /\ Top(t) \in 0 .. MaxSessions
           /\ at \notin Sessionless => Top(t) \in 1 .. made /\ Top(t) \in Sessions
           /\ at \in Marks => Top(t) \in logicalClose
<1>1. TypeOK /\ FramesTruthful
  BY DEF Inv
<1>2. stack[t] \in Seq(Frames) /\ stack[t] # <<>>
  BY <1>1 DEF TypeOK, At
<1>3. /\ Len(stack[t]) \in Nat \ {0} /\ DOMAIN stack[t] = 1 .. Len(stack[t])
      /\ Head(stack[t]) = stack[t][1]
  BY <1>2, EmptySeq, LenProperties
<1>4. 1 \in DOMAIN stack[t]
  BY <1>3
<1>5. stack[t][1] \in Frames
  BY <1>2, <1>4, LenProperties
<1>6. stack[t][1].at = at /\ Top(t) = stack[t][1].s
  BY <1>3 DEF At, Top
<1>7. Truthful(stack[t][1], made, logicalClose)
  BY <1>1, <1>4 DEF FramesTruthful
<1>8. made \in 0 .. MaxSessions /\ MaxSessions \in Nat
  BY <1>1, LifeBoundsAssumption DEF TypeOK
<1>9. at \notin Sessionless => Top(t) \in 1 .. made /\ Top(t) \in Sessions
  BY <1>6, <1>7, <1>8 DEF Truthful, Sessions
<1> QED BY <1>2, <1>3, <1>4, <1>5, <1>6, <1>7, <1>9 DEF Frames, Truthful

LEMMA NoFrame ==
    ASSUME NEW t \in Threads
    PROVE  <<>> \in Seq(Frames) /\ Brings(t, <<>>) /\ DOMAIN <<>> = {}
BY EmptySeq DEF Brings

LEMMA OneFrame ==
    ASSUME NEW t \in Threads, NEW to \in Places \ {"lookup", "grant", "remove"},
           NEW s \in 0 .. MaxSessions,
           to \notin Sessionless => s \in 1 .. made', to \in Marks => s \in logicalClose'
    PROVE  LET fs == <<Frame(to, s)>>
           IN  /\ fs \in Seq(Frames) /\ Brings(t, fs)
               /\ DOMAIN fs = {1} /\ fs[1].at = to /\ fs[1].s = s
               /\ \A i \in DOMAIN fs : ~ForClient(fs[i]) /\ fs[i].at # "grant"
<1> DEFINE fs == <<Frame(to, s)>>
<1>1. Frame(to, s) \in Frames /\ Frame(to, s).at = to /\ Frame(to, s).s = s
  BY FrameType
<1>2. fs \in Seq(Frames) /\ DOMAIN fs = {1} /\ fs[1] = Frame(to, s)
  BY <1>1
<1> HIDE DEF fs
<1>3. Brings(t, fs)
  BY <1>1, <1>2 DEF Brings, AsksNull, Truthful
<1>4. \A i \in DOMAIN fs : ~ForClient(fs[i]) /\ fs[i].at # "grant"
  BY <1>1, <1>2 DEF ForClient
<1> QED BY <1>1, <1>2, <1>3, <1>4 DEF fs

LEMMA MovesType ==
    ASSUME TypeOK, NEW t \in Threads, NEW fs, NEW d, Moves(t, fs, d)
    PROVE  stack' \in [Threads -> Seq(Frames)]
BY DEF TypeOK, Moves

(* The innermost call returns.                                             *)
LEMMA QuietReturn ==
    ASSUME Inv, NEW t \in Threads, NEW at, At(t, at), Return(t),
           UNCHANGED <<clientNum, clientSession, gone, gcQueue, logicalClose, pooling>>,
           isClose \subseteq isClose',
           at \in Closers => Top(t) \in isClose',
           at \in Leading \ Closers /\ clientNum[Top(t)] = 0 /\ Top(t) \in logicalClose
                => Top(t) \notin hashMap,
           \A s \in hashMap \ hashMap' : s \in isClose',
           stack' \in [Threads -> Seq(Frames)] => TypeOK', Nested'
    PROVE  Inv'
<1>1. TypeOK
  BY DEF Inv
<1>2. stack[t] # <<>> /\ stack[t][1].at = at /\ Top(t) = stack[t][1].s
  BY TopFrame
<1>3. Moves(t, <<>>, 1)
  BY <1>1, <1>2, NoFrame, ContinueMoves DEF Return
<1>4. TypeOK'
  BY <1>1, <1>3, MovesType
<1>5. Settles(t, <<>>, 1)
  BY <1>2 DEF Settles
<1>6. Follows(t, <<>>, 1)
  BY <1>2 DEF Follows
<1>7. Occupies(t, <<>>, 1)
  BY <1>2, NoFrame DEF Occupies
<1> QED BY <1>2, <1>7, <1>3, <1>4, <1>5, <1>6, NoFrame, QuietMove

(* The innermost call goes on to its next step.                            *)
LEMMA QuietPass ==
    ASSUME Inv, NEW t \in Threads, NEW at, At(t, at),
           NEW to \in Places \ {"lookup", "grant", "remove"}, NEW s \in 0 .. MaxSessions,
           s = Top(t) \/ at \in Sessionless,
           Continue(t, <<Frame(to, s)>>),
           UNCHANGED <<clientNum, clientSession, gone, gcQueue, isClose, hashMap, pooling>>,
           to \notin Sessionless => s \in 1 .. made, to \in Marks => s \in logicalClose',
           at \in Closers => to \in Closers, at \in Leading => to \in Leading,
           logicalClose \subseteq logicalClose',
           logicalClose' \ logicalClose # {} => logicalClose' = logicalClose \cup {s} /\ to \in Leading,
           stack' \in [Threads -> Seq(Frames)] => TypeOK', Nested'
    PROVE  Inv'
<1>1. TypeOK
  BY DEF Inv
<1>2. stack[t] # <<>> /\ stack[t][1].at = at /\ Top(t) = stack[t][1].s
  BY TopFrame
<1>3. PICK fs : fs = <<Frame(to, s)>>
  OBVIOUS
<1>4. /\ fs \in Seq(Frames) /\ Brings(t, fs) /\ DOMAIN fs = {1} /\ fs[1].at = to /\ fs[1].s = s
      /\ \A i \in DOMAIN fs : ~ForClient(fs[i]) /\ fs[i].at # "grant"
  BY <1>3, OneFrame DEF pooling
<1>5. Moves(t, fs, 1)
  BY <1>1, <1>2, <1>3, <1>4, ContinueMoves
<1>6. TypeOK'
  BY <1>1, <1>5, MovesType
<1>7. Settles(t, fs, 1)
  BY <1>2, <1>4 DEF Settles, Closers, Sessionless
<1>8. Follows(t, fs, 1)
  BY <1>2, <1>4 DEF Follows, Leading, Sessionless
<1>9. \A r \in logicalClose' \ logicalClose : \E i \in DOMAIN fs : fs[i].at \in Leading /\ fs[i].s = r
  BY <1>4
<1>10. Occupies(t, fs, 1)
  BY <1>2, <1>4 DEF Occupies
<1> QED BY <1>2, <1>10, <1>4, <1>5, <1>6, <1>7, <1>8, <1>9, QuietMove

-----------------------------------------------------------------------------
(* The steps of one frame, action by action.                               *)

LEMMA CacheGetKeeps ==
    ASSUME Inv, NEW t \in Threads, CacheGet(t)
    PROVE  Inv'
<1>1. At(t, "cacheGet") /\ UNCHANGED <<sessions, tables, clients, checking, pooling>>
  BY DEF CacheGet
<1>2. Top(t) \in 1 .. made /\ Top(t) \in 0 .. MaxSessions
  BY <1>1, TopFrame DEF Sessionless
<1>3. Nested' /\ (stack' \in [Threads -> Seq(Frames)] => TypeOK')
  BY <1>1 DEF Inv, Nested, TypeOK, sessions, tables, clients, checking, pooling
<1>4. CASE Top(t) \in hashMap
  <2>1. PICK s : s = Top(t)
    OBVIOUS
  <2>2. Continue(t, <<Frame("cachePut", s)>>)
    BY <1>4, <2>1 DEF CacheGet
  <2> QED BY <1>1, <1>2, <1>3, <2>1, <2>2, QuietPass
          DEF sessions, tables, clients, checking, Places, Sessionless, Marks, Leading, Closers
<1>5. CASE Top(t) \notin hashMap
  <2>1. Return(t)
    BY <1>5 DEF CacheGet, Return
  <2> QED BY <1>1, <1>3, <2>1, QuietReturn
          DEF sessions, tables, clients, checking, Leading, Closers
<1> QED BY <1>4, <1>5

LEMMA OverflowKeeps ==
    ASSUME Inv, NEW t \in Threads, Overflow(t)
    PROVE  Inv'
<1>1. At(t, "cachePut") /\ Return(t) /\ UNCHANGED <<sessions, tables, clients, checking, pooling>>
  BY DEF Overflow
<1>2. Nested' /\ (stack' \in [Threads -> Seq(Frames)] => TypeOK')
  BY <1>1 DEF Inv, Nested, TypeOK, sessions, tables, clients, checking, pooling
<1> QED BY <1>1, <1>2, QuietReturn DEF sessions, tables, clients, checking, Leading, Closers

(* Only a session that is not young is closed logically.                   *)
LEMMA RemovedKeeps ==
    ASSUME Inv, NEW t \in Threads, Removed(t)
    PROVE  Inv'
<1>1. At(t, "removed") /\ UNCHANGED <<clientNum, isClose, mapInitSeq, young, tables, clients,
                                      checking, pooling>>
  BY DEF Removed
<1>2. Top(t) \in 1 .. made /\ Top(t) \in 0 .. MaxSessions /\ Top(t) \in Sessions
  BY <1>1, TopFrame DEF Sessionless
<1>3. PICK s : s = Top(t)
  OBVIOUS
<1>4. CASE s \in young
  <2>1. Continue(t, <<Frame("cacheGet", s)>>) /\ logicalClose' = logicalClose
    BY <1>3, <1>4 DEF Removed
  <2>2. Nested' /\ (stack' \in [Threads -> Seq(Frames)] => TypeOK')
    BY <1>1, <2>1 DEF Inv, Nested, TypeOK, tables, clients, checking, pooling
  <2> QED BY <1>1, <1>2, <1>3, <2>1, <2>2, QuietPass
          DEF tables, clients, checking, Places, Sessionless, Marks, Leading, Closers
<1>5. CASE s \notin young
  <2>1. Continue(t, <<Frame("count", s)>>) /\ logicalClose' = logicalClose \cup {s}
    BY <1>3, <1>5 DEF Removed
  <2>2. Nested'
    BY <1>1, <1>2, <1>3, <1>5, <2>1 DEF Inv, Nested, tables, clients, checking, pooling
  <2>3. stack' \in [Threads -> Seq(Frames)] => TypeOK'
    BY <1>1, <1>2, <1>3, <2>1 DEF Inv, TypeOK, tables, clients, checking, pooling
  <2> QED BY <1>1, <1>2, <1>3, <2>1, <2>2, <2>3, QuietPass
          DEF tables, clients, checking, Places, Sessionless, Marks, Leading, Closers
<1> QED BY <1>4, <1>5

LEMMA CloseTestKeeps ==
    ASSUME Inv, NEW t \in Threads, CloseTest(t)
    PROVE  Inv'
<1>1. At(t, "close") /\ UNCHANGED <<sessions, tables, clients, checking, pooling>>
  BY DEF CloseTest
<1>2. Top(t) \in 1 .. made /\ Top(t) \in 0 .. MaxSessions /\ Top(t) \in logicalClose
  BY <1>1, TopFrame DEF Sessionless, Marks
<1>3. Nested' /\ (stack' \in [Threads -> Seq(Frames)] => TypeOK')
  BY <1>1 DEF Inv, Nested, TypeOK, sessions, tables, clients, checking, pooling
<1>4. CASE Top(t) \in isClose
  <2>1. Return(t)
    BY <1>4 DEF CloseTest, Return
  <2> QED BY <1>1, <1>3, <1>4, <2>1, QuietReturn
          DEF sessions, tables, clients, checking, Leading, Closers
<1>5. CASE Top(t) \notin isClose
  <2>1. PICK s : s = Top(t)
    OBVIOUS
  <2>2. Continue(t, <<Frame("set", s)>>)
    BY <1>5, <2>1 DEF CloseTest
  <2> QED BY <1>1, <1>2, <1>3, <2>1, <2>2, QuietPass
          DEF sessions, tables, clients, checking, Places, Sessionless, Marks, Leading, Closers
<1> QED BY <1>4, <1>5

LEMMA CloseSetKeeps ==
    ASSUME Inv, NEW t \in Threads, CloseSet(t)
    PROVE  Inv'
<1>1. /\ At(t, "set") /\ Return(t) /\ isClose' = isClose \cup {Top(t)}
      /\ UNCHANGED <<clientNum, logicalClose, mapInitSeq, young, tables, clients, checking, pooling>>
  BY DEF CloseSet
<1>2. Top(t) \in Sessions /\ Top(t) \in logicalClose
  BY <1>1, TopFrame DEF Sessionless, Marks
<1>3. Nested'
  BY <1>1, <1>2 DEF Inv, Nested, tables, clients, checking, pooling
<1>4. stack' \in [Threads -> Seq(Frames)] => TypeOK'
  BY <1>1, <1>2 DEF Inv, TypeOK, tables, clients, checking, pooling
<1> QED BY <1>1, <1>3, <1>4, QuietReturn DEF tables, clients, checking, Leading, Closers

(* What leaves the table here was closed by the frame above.               *)
LEMMA RemoveKeeps ==
    ASSUME Inv, NEW t \in Threads, Remove(t)
    PROVE  Inv'
<1>1. /\ At(t, "remove") /\ Return(t) /\ hashMap' = hashMap \ {Top(t)}
      /\ UNCHANGED <<sessions, cache, notices, clients, checking, pooling>>
  BY DEF Remove
<1>2. Top(t) \in isClose
  <2>1. 1 \in DOMAIN stack[t] /\ stack[t][1].at = "remove" /\ Top(t) = stack[t][1].s
    BY <1>1, TopFrame
  <2>2. ClosesFirst(stack[t])
    BY DEF Inv, RemovedIsClosed
  <2> QED BY <2>1, <2>2 DEF ClosesFirst
<1>3. Nested' /\ (stack' \in [Threads -> Seq(Frames)] => TypeOK')
  BY <1>1 DEF Inv, Nested, TypeOK, sessions, clients, checking, pooling
<1>4. \A s \in hashMap \ hashMap' : s \in isClose'
  BY <1>1, <1>2 DEF sessions
<1> QED BY <1>1, <1>3, <1>4, QuietReturn DEF sessions, clients, checking, Leading, Closers

LEMMA CheckFoundKeeps ==
    ASSUME Inv, NEW t \in Threads, CheckFound(t)
    PROVE  Inv'
<1>1. At(t, "found") /\ UNCHANGED <<sessions, tables, clients, checking, pooling>>
  BY DEF CheckFound, CheckOn
<1>2. Top(t) \in 1 .. made /\ Top(t) \in 0 .. MaxSessions
  BY <1>1, TopFrame DEF Sessionless
<1>3. Nested' /\ (stack' \in [Threads -> Seq(Frames)] => TypeOK')
  BY <1>1 DEF Inv, Nested, TypeOK, sessions, tables, clients, checking, pooling
<1>4. CASE Top(t) \in hashMap
  <2>1. PICK s : s = Top(t)
    OBVIOUS
  <2>2. Continue(t, <<Frame("unused", s)>>)
    BY <1>4, <2>1 DEF CheckFound, CheckOn
  <2> QED BY <1>1, <1>2, <1>3, <2>1, <2>2, QuietPass
          DEF sessions, tables, clients, checking, Places, Sessionless, Marks, Leading, Closers
<1>5. CASE Top(t) \notin hashMap
  <2>1. Return(t)
    BY <1>5 DEF CheckFound, CheckOn, Return
  <2> QED BY <1>1, <1>3, <1>5, <2>1, QuietReturn
          DEF sessions, tables, clients, checking, Leading, Closers
<1> QED BY <1>4, <1>5

LEMMA CheckUnusedKeeps ==
    ASSUME Inv, NEW t \in Threads, CheckUnused(t)
    PROVE  Inv'
<1>1. At(t, "unused") /\ UNCHANGED <<sessions, tables, clients, checking, pooling>>
  BY DEF CheckUnused, CheckOn
<1>2. Top(t) \in 1 .. made /\ Top(t) \in 0 .. MaxSessions
  BY <1>1, TopFrame DEF Sessionless
<1>3. Nested' /\ (stack' \in [Threads -> Seq(Frames)] => TypeOK')
  BY <1>1 DEF Inv, Nested, TypeOK, sessions, tables, clients, checking, pooling
<1>4. CASE clientNum[Top(t)] = 0
  <2>1. PICK s : s = Top(t)
    OBVIOUS
  <2>2. Continue(t, <<Frame("expired", s)>>)
    BY <1>4, <2>1 DEF CheckUnused, CheckOn
  <2> QED BY <1>1, <1>2, <1>3, <2>1, <2>2, QuietPass
          DEF sessions, tables, clients, checking, Places, Sessionless, Marks, Leading, Closers
<1>5. CASE clientNum[Top(t)] # 0
  <2>1. Return(t)
    BY <1>5 DEF CheckUnused, CheckOn, Return
  <2> QED BY <1>1, <1>3, <1>5, <2>1, QuietReturn
          DEF sessions, tables, clients, checking, Leading, Closers
<1> QED BY <1>4, <1>5

LEMMA CheckStartedKeeps ==
    ASSUME Inv, NEW c \in Clients, CheckStarted(c)
    PROVE  Inv'
<1>1. /\ At(App(c), "check") /\ UNCHANGED <<sessions, tables, clients, checking, pooling>>
      /\ App(c) \in Threads
  BY DEF CheckStarted, Threads
<1>2. Nested' /\ (stack' \in [Threads -> Seq(Frames)] => TypeOK')
  BY <1>1 DEF Inv, Nested, TypeOK, sessions, tables, clients, checking, pooling
<1>3. PICK to \in {"send", "start"} : Continue(App(c), <<Frame(to, 0)>>)
  BY DEF CheckStarted
<1>4. to \in Places \ {"lookup", "grant", "remove"} /\ to \in Sessionless /\ to \notin Marks
      /\ 0 \in 0 .. MaxSessions
  BY LifeBoundsAssumption DEF Places, Sessionless, Marks
<1> QED BY <1>1, <1>2, <1>3, <1>4, QuietPass
        DEF sessions, tables, clients, checking, Sessionless, Leading, Closers

LEMMA StartCheckerKeeps ==
    ASSUME Inv, NEW c \in Clients, StartChecker(c)
    PROVE  Inv'
<1>1. /\ At(App(c), "start") /\ Continue(App(c), <<Frame("send", 0)>>) /\ App(c) \in Threads
      /\ isStart' = TRUE /\ checkers' = checkers \cup {c}
      /\ UNCHANGED <<sessions, tables, clients, gcQueue, pooling>>
  BY DEF StartChecker, Threads
<1>2. Nested' /\ (stack' \in [Threads -> Seq(Frames)] => TypeOK')
  BY <1>1 DEF Inv, Nested, TypeOK, sessions, tables, clients, pooling
<1>3. 0 \in 0 .. MaxSessions
  BY LifeBoundsAssumption
<1> QED BY <1>1, <1>2, <1>3, QuietPass
        DEF sessions, tables, clients, Places, Sessionless, Marks, Leading, Closers

LEMMA SendDataKeeps ==
    ASSUME Inv, NEW c \in Clients, SendData(c)
    PROVE  Inv'
<1>1. /\ At(App(c), "send") /\ Return(App(c)) /\ App(c) \in Threads
      /\ mapInitSeq' = [mapInitSeq EXCEPT ![clientSession[c]] = @ + 1]
      /\ UNCHANGED <<clientNum, isClose, logicalClose, young, tables, clients, checking, pooling>>
  BY DEF SendData, Threads
<1>2. mapInitSeq' \in [Sessions -> Nat]
  <2>1. mapInitSeq \in [Sessions -> Nat]
    BY DEF Inv, TypeOK
  <2>2. CASE clientSession[c] \in Sessions
    BY <1>1, <2>1, <2>2
  <2>3. CASE clientSession[c] \notin Sessions
    BY <1>1, <2>1, <2>3
  <2> QED BY <2>2, <2>3
<1>3. Nested' /\ (stack' \in [Threads -> Seq(Frames)] => TypeOK')
  BY <1>1, <1>2 DEF Inv, Nested, TypeOK, tables, clients, checking, pooling
<1> QED BY <1>1, <1>3, QuietReturn DEF tables, clients, checking, Leading, Closers

-----------------------------------------------------------------------------
(* The cache, and the steps that bring several frames.                     *)

LEMMA SequenceInto ==
    ASSUME NEW S, NEW T, NEW q \in Seq(S), \A i \in DOMAIN q : q[i] \in T
    PROVE  q \in Seq(T)
<1>1. /\ Len(q) \in Nat /\ DOMAIN q = 1 .. Len(q) /\ q \in [1 .. Len(q) -> S]
  BY LenProperties
<1>2. q \in [1 .. Len(q) -> T]
  BY <1>1
<1> QED BY <1>1, <1>2, SeqDef, ZenonT(30)

(* What the cache drops and reports are sessions that were made.           *)
LEMMA WriteTypes ==
    ASSUME Inv, NEW t \in Threads, NEW s \in 1 .. made, NEW kept \in SUBSET {s}, Write(t, s, kept)
    PROVE  /\ cache' \subseteq 1 .. made /\ cache' \subseteq Sessions /\ notices' \in Seq(Sessions)
           /\ \A i \in DOMAIN notices' : notices'[i] \in 1 .. made
           /\ Continue(t, <<Frame("notify", s)>>)
<1>1. PICK M : M = 1 .. made
  OBVIOUS
<1>2. /\ notices \in Seq(Sessions) /\ cache \subseteq M /\ s \in M
      /\ \A i \in DOMAIN notices : notices[i] \in M
  BY <1>1 DEF Inv, TypeOK, Nested
<1>3. M \subseteq Sessions
  BY <1>1, LifeBoundsAssumption DEF Inv, TypeOK, Sessions
<1>4. notices \in Seq(M)
  BY <1>2, SequenceInto
<1>5. PICK old \in Expiring(s) :
        /\ cache' = (cache \ ({s} \cup {old[i] : i \in DOMAIN old})) \cup kept
        /\ notices' = notices \o old \o (IF s \in cache THEN <<s>> ELSE <<>>)
        /\ Continue(t, <<Frame("notify", s)>>)
  BY DEF Write
<1>6. ASSUME NEW e \in M PROVE <<e>> \in Seq(M)
  OBVIOUS
<1>7. old \in Seq(M)
  BY <1>2, <1>6, EmptySeq DEF Expiring
<1>8. PICK told : told = IF s \in cache THEN <<s>> ELSE <<>>
  OBVIOUS
<1>9. told \in Seq(M)
  BY <1>2, <1>6, <1>8, EmptySeq
<1>10. notices \o old \in Seq(M)
  BY <1>4, <1>7, ConcatProperties
<1>11. notices' \in Seq(M)
  BY <1>5, <1>8, <1>9, <1>10, ConcatProperties
<1>12. \A i \in DOMAIN notices' : notices'[i] \in M
  BY <1>11, LenProperties
<1>13. notices' \in Seq(Sessions)
  <2>1. \A i \in DOMAIN notices' : notices'[i] \in Sessions
    BY <1>3, <1>12
  <2> QED BY <1>11, <2>1, SequenceInto
<1>14. cache' \subseteq M
  BY <1>2, <1>5
<1> QED BY <1>1, <1>3, <1>5, <1>12, <1>13, <1>14

LEMMA CachePutKeeps ==
    ASSUME Inv, NEW t \in Threads, CachePut(t)
    PROVE  Inv'
<1>1. /\ At(t, "cachePut") /\ Write(t, Top(t), {Top(t)})
      /\ UNCHANGED <<sessions, hashMap, clients, checking, pooling>>
  BY DEF CachePut
<1>2. PICK s : s = Top(t)
  OBVIOUS
<1>3. s \in 1 .. made /\ s \in 0 .. MaxSessions
  BY <1>1, <1>2, TopFrame DEF Sessionless
<1>4. /\ cache' \subseteq 1 .. made /\ cache' \subseteq Sessions /\ notices' \in Seq(Sessions)
      /\ \A i \in DOMAIN notices' : notices'[i] \in 1 .. made
      /\ Continue(t, <<Frame("notify", s)>>)
  BY <1>1, <1>2, <1>3, WriteTypes
<1>5. Nested'
  BY <1>1, <1>4 DEF Inv, Nested, sessions, clients, checking, pooling
<1>6. stack' \in [Threads -> Seq(Frames)] => TypeOK'
  BY <1>1, <1>4 DEF Inv, TypeOK, sessions, clients, checking, pooling
<1> QED BY <1>1, <1>2, <1>3, <1>4, <1>5, <1>6, QuietPass
        DEF sessions, clients, checking, Places, Sessionless, Marks, Leading, Closers

LEMMA DropKeeps ==
    ASSUME Inv, NEW t \in Threads, Drop(t)
    PROVE  Inv'
<1>1. /\ At(t, "drop") /\ Write(t, Top(t), {})
      /\ UNCHANGED <<sessions, hashMap, clients, checking, pooling>>
  BY DEF Drop
<1>2. PICK s : s = Top(t)
  OBVIOUS
<1>3. s \in 1 .. made /\ s \in 0 .. MaxSessions
  BY <1>1, <1>2, TopFrame DEF Sessionless
<1>4. /\ cache' \subseteq 1 .. made /\ cache' \subseteq Sessions /\ notices' \in Seq(Sessions)
      /\ \A i \in DOMAIN notices' : notices'[i] \in 1 .. made
      /\ Continue(t, <<Frame("notify", s)>>)
  BY <1>1, <1>2, <1>3, WriteTypes
<1>5. Nested'
  BY <1>1, <1>4 DEF Inv, Nested, sessions, clients, checking, pooling
<1>6. stack' \in [Threads -> Seq(Frames)] => TypeOK'
  BY <1>1, <1>4 DEF Inv, TypeOK, sessions, clients, checking, pooling
<1> QED BY <1>1, <1>2, <1>3, <1>4, <1>5, <1>6, QuietPass
        DEF sessions, clients, checking, Places, Sessionless, Marks, Leading, Closers

(* A thread calls: the new frames stand on those it has.                   *)
LEMMA CallMoves ==
    ASSUME TypeOK, NEW t \in Threads, NEW fs \in Seq(Frames),
           stack' = [stack EXCEPT ![t] = fs \o @]
    PROVE  Moves(t, fs, 0)
<1> DEFINE st == stack[t]
<1>1. st \in Seq(Frames) /\ stack'[t] = fs \o st
  BY DEF TypeOK
<1>2. stack' = [stack EXCEPT ![t] = stack'[t]]
  BY <1>1, Zenon
<1> HIDE DEF st
<1>3. /\ fs \o st \in Seq(Frames) /\ Len(fs) \in Nat /\ Len(st) \in Nat
      /\ Len(fs \o st) = Len(fs) + Len(st)
      /\ \A i \in 1 .. Len(fs) + Len(st) :
            (fs \o st)[i] = IF i <= Len(fs) THEN fs[i] ELSE st[i - Len(fs)]
  BY <1>1, ConcatProperties, LenProperties
<1>4. \A i \in 1 .. Len(stack'[t]) :
            stack'[t][i] = IF i <= Len(fs) THEN fs[i] ELSE st[i - Len(fs) + 0]
  BY <1>1, <1>3
<1>5. 0 \in 0 .. Len(st) /\ Len(stack'[t]) = Len(fs) + Len(st) - 0
  BY <1>1, <1>3
<1>6. stack'[t] \in Seq(Frames)
  BY <1>1, <1>3
<1> QED BY <1>2, <1>4, <1>5, <1>6 DEF Moves, st

LEMMA NotifyKeeps ==
    ASSUME Inv, NEW t \in Threads, Notify(t)
    PROVE  Inv'
<1>1. At(t, "notify") /\ UNCHANGED <<sessions, hashMap, cache, clients, checking, pooling>>
  BY DEF Notify
<1>2. CASE notices = <<>>
  <2>1. Return(t) /\ UNCHANGED notices
    BY <1>2 DEF Notify
  <2>2. Nested' /\ (stack' \in [Threads -> Seq(Frames)] => TypeOK')
    BY <1>1, <2>1 DEF Inv, Nested, TypeOK, sessions, clients, checking, pooling
  <2> QED BY <1>1, <2>1, <2>2, QuietReturn DEF sessions, clients, checking, Leading, Closers
<1>3. CASE notices # <<>>
  <2>1. PICK s : s = Head(notices)
    OBVIOUS
  <2>2. /\ s \in 1 .. made /\ notices' = Tail(notices) /\ notices' \in Seq(Sessions)
        /\ \A i \in DOMAIN notices' : notices'[i] \in 1 .. made
    <3>1. notices \in Seq(Sessions) /\ \A i \in DOMAIN notices : notices[i] \in 1 .. made
      BY DEF Inv, TypeOK, Nested
    <3>2. /\ Len(notices) \in Nat \ {0} /\ DOMAIN notices = 1 .. Len(notices)
          /\ Head(notices) = notices[1]
          /\ Tail(notices) \in Seq(Sessions) /\ Len(Tail(notices)) = Len(notices) - 1
          /\ \A i \in 1 .. Len(notices) - 1 : Tail(notices)[i] = notices[i + 1]
      BY <1>3, <3>1, EmptySeq, LenProperties, HeadTailProperties
    <3>3. DOMAIN Tail(notices) = 1 .. Len(notices) - 1
      BY <3>2, LenProperties
    <3>4. notices' = Tail(notices)
      BY <1>3 DEF Notify
    <3> QED BY <2>1, <3>1, <3>2, <3>3, <3>4
  <2>3. PICK fs : fs = <<Frame("removed", s)>>
    OBVIOUS
  <2>4. stack' = [stack EXCEPT ![t] = fs \o @]
    BY <1>3, <2>1, <2>3 DEF Notify
  <2>5. s \in 0 .. MaxSessions
    BY <2>2, LifeBoundsAssumption DEF Inv, TypeOK
  <2>6. /\ fs \in Seq(Frames) /\ Brings(t, fs) /\ DOMAIN fs = {1} /\ fs[1].at = "removed"
        /\ \A i \in DOMAIN fs : ~ForClient(fs[i]) /\ fs[i].at # "grant"
    BY <1>1, <2>2, <2>3, <2>5, OneFrame DEF pooling, Places, Marks
  <2>7. TypeOK /\ Moves(t, fs, 0)
    BY <2>4, <2>6, CallMoves DEF Inv
  <2>8. Settles(t, fs, 0) /\ Follows(t, fs, 0)
    BY DEF Settles, Follows
  <2>9. Nested'
    BY <1>1, <2>2 DEF Inv, Nested, sessions, clients, checking, pooling
  <2>10. TypeOK'
    <3>1. stack' \in [Threads -> Seq(Frames)]
      BY <2>7, MovesType
    <3> QED BY <1>1, <2>2, <2>7, <3>1 DEF TypeOK, sessions, clients, checking, pooling
  <2>11. Occupies(t, fs, 0)
    BY <1>1, <2>6, TopFrame DEF Occupies, ForClient
  <2> QED BY <1>1, <2>11, <2>6, <2>7, <2>8, <2>9, <2>10, TopFrame, QuietMove
          DEF sessions, clients, checking
<1> QED BY <1>2, <1>3

-----------------------------------------------------------------------------
(* Several calls one after the other.                                      *)

Orderly(fs) == \A i \in DOMAIN fs :
    /\ Truthful(fs[i], made, logicalClose)
    /\ AsksNull(fs[i]) => i + 1 \in DOMAIN fs /\ fs[i + 1].at = "compare"
    /\ fs[i].at = "remove" => \E j \in 1 .. i - 1 : fs[j].at \in Closers /\ fs[j].s = fs[i].s
    /\ ~ForClient(fs[i]) /\ fs[i].at # "grant"

LEMMA OrderlyBrings ==
    ASSUME TypeOK, NEW t \in Threads, NEW fs \in Seq(Frames), NEW d, Moves(t, fs, d), Orderly(fs),
           made' = made, logicalClose' = logicalClose
    PROVE  Brings(t, fs)
<1>1. \A i \in DOMAIN fs : i \in DOMAIN stack'[t] /\ stack'[t][i] = fs[i]
  BY MovedFrames
<1>2. SUFFICES ASSUME NEW i \in DOMAIN fs
               PROVE  /\ Truthful(fs[i], made', logicalClose')
                      /\ AsksNull(fs[i]) => i + 1 \in DOMAIN stack'[t] /\ stack'[t][i + 1].at = "compare"
                      /\ fs[i].at = "remove" =>
                            \/ fs[i].s \in isClose'
                            \/ \E j \in 1 .. i - 1 : fs[j].at \in Closers /\ fs[j].s = fs[i].s
  BY DEF Brings
<1>3. Truthful(fs[i], made', logicalClose')
  BY DEF Orderly
<1>4. AsksNull(fs[i]) => i + 1 \in DOMAIN stack'[t] /\ stack'[t][i + 1].at = "compare"
  BY <1>1 DEF Orderly
<1>5. fs[i].at = "remove" => \E j \in 1 .. i - 1 : fs[j].at \in Closers /\ fs[j].s = fs[i].s
  BY DEF Orderly
<1> QED BY <1>3, <1>4, <1>5

(* A call that is no close gives way to several.                           *)
LEMMA QuietCalls ==
    ASSUME Inv, NEW t \in Threads, NEW at, At(t, at), at \notin Closers,
           NEW fs \in Seq(Frames), Orderly(fs), Continue(t, fs),
           UNCHANGED <<clientNum, clientSession, gone, gcQueue, isClose, logicalClose, pooling>>,
           at \in Leading => \E i \in DOMAIN fs : fs[i].at \in Leading /\ fs[i].s = Top(t),
           \A s \in hashMap \ hashMap' : \E i \in DOMAIN fs : fs[i].at \in Closers /\ fs[i].s = s,
           stack' \in [Threads -> Seq(Frames)] => TypeOK', Nested'
    PROVE  Inv'
<1>1. TypeOK
  BY DEF Inv
<1>2. stack[t] # <<>> /\ stack[t][1].at = at /\ Top(t) = stack[t][1].s
  BY TopFrame
<1>3. Moves(t, fs, 1)
  BY <1>1, <1>2, ContinueMoves
<1>4. TypeOK'
  BY <1>1, <1>3, MovesType
<1>5. Brings(t, fs)
  BY <1>1, <1>3, OrderlyBrings DEF pooling
<1>6. Settles(t, fs, 1)
  BY <1>2 DEF Settles
<1>7. Follows(t, fs, 1)
  BY <1>2 DEF Follows
<1>8. \A s \in hashMap \ hashMap' : Closing(s)'
  BY <1>1, <1>3, <1>6, KeepsClosing
<1>9. \A i \in DOMAIN fs : ~ForClient(fs[i]) /\ fs[i].at # "grant"
  BY DEF Orderly
<1>10. Occupies(t, fs, 1)
  BY <1>2, <1>9 DEF Occupies
<1> QED BY <1>10, <1>3, <1>4, <1>5, <1>6, <1>7, <1>8, <1>9, QuietMove

LEMMA CountKeeps ==
    ASSUME Inv, NEW t \in Threads, Count(t)
    PROVE  Inv'
<1>1. At(t, "count") /\ UNCHANGED <<sessions, tables, clients, checking, pooling>>
  BY DEF Count
<1>2. PICK s : s = Top(t)
  OBVIOUS
<1>3. s \in 1 .. made /\ s \in 0 .. MaxSessions /\ s \in logicalClose
  BY <1>1, <1>2, TopFrame DEF Sessionless, Marks
<1>4. Nested' /\ (stack' \in [Threads -> Seq(Frames)] => TypeOK')
  BY <1>1 DEF Inv, Nested, TypeOK, sessions, tables, clients, checking, pooling
<1>5. CASE clientNum[s] = 0
  <2>1. PICK fs : fs = <<Frame("drop", s), Frame("take", s)>>
    OBVIOUS
  <2>2. /\ Frame("drop", s) \in Frames /\ Frame("drop", s).at = "drop" /\ Frame("drop", s).s = s
        /\ Frame("take", s) \in Frames /\ Frame("take", s).at = "take" /\ Frame("take", s).s = s
    BY <1>3, FrameType DEF Places
  <2>3. fs \in Seq(Frames) /\ DOMAIN fs = {1, 2} /\ fs[1] = Frame("drop", s) /\ fs[2] = Frame("take", s)
    BY <2>1, <2>2
  <2>4. Orderly(fs)
    BY <1>3, <2>2, <2>3 DEF Orderly, Truthful, AsksNull, ForClient
  <2>5. Continue(t, fs)
    BY <1>2, <1>5, <2>1 DEF Count
  <2>6. \E i \in DOMAIN fs : fs[i].at \in Leading /\ fs[i].s = Top(t)
    BY <1>2, <2>2, <2>3 DEF Leading
  <2> QED BY <1>1, <1>4, <2>3, <2>4, <2>5, <2>6, QuietCalls
          DEF sessions, tables, clients, checking, Closers
<1>6. CASE clientNum[s] # 0
  <2>1. Return(t)
    BY <1>2, <1>6 DEF Count, Return
  <2> QED BY <1>1, <1>2, <1>4, <1>6, <2>1, QuietReturn
          DEF sessions, tables, clients, checking, Closers
<1> QED BY <1>5, <1>6

LEMMA TakeKeeps ==
    ASSUME Inv, NEW t \in Threads, Take(t)
    PROVE  Inv'
<1>1. /\ At(t, "take") /\ hashMap' = hashMap \ {Top(t)}
      /\ UNCHANGED <<sessions, cache, notices, clients, checking, pooling>>
  BY DEF Take
<1>2. PICK s : s = Top(t)
  OBVIOUS
<1>3. s \in 1 .. made /\ s \in 0 .. MaxSessions /\ s \in logicalClose
  BY <1>1, <1>2, TopFrame DEF Sessionless, Marks
<1>4. Nested' /\ (stack' \in [Threads -> Seq(Frames)] => TypeOK')
  BY <1>1 DEF Inv, Nested, TypeOK, sessions, clients, checking, pooling
<1>5. CASE s \in hashMap
  <2>1. PICK fs : fs = <<Frame("close", s), Frame("recount", s)>>
    OBVIOUS
  <2>2. /\ Frame("close", s) \in Frames /\ Frame("close", s).at = "close" /\ Frame("close", s).s = s
        /\ Frame("recount", s) \in Frames /\ Frame("recount", s).at = "recount"
        /\ Frame("recount", s).s = s
    BY <1>3, FrameType DEF Places
  <2>3. fs \in Seq(Frames) /\ DOMAIN fs = {1, 2} /\ fs[1] = Frame("close", s) /\ fs[2] = Frame("recount", s)
    BY <2>1, <2>2
  <2>4. Orderly(fs)
    BY <1>3, <2>2, <2>3 DEF Orderly, Truthful, AsksNull, ForClient
  <2>5. Continue(t, fs)
    BY <1>2, <1>5, <2>1 DEF Take
  <2>6. \E i \in DOMAIN fs : fs[i].at \in Leading /\ fs[i].s = Top(t)
    BY <1>2, <2>2, <2>3 DEF Leading
  <2>7. \A r \in hashMap \ hashMap' : \E i \in DOMAIN fs : fs[i].at \in Closers /\ fs[i].s = r
    BY <1>1, <1>2, <2>2, <2>3 DEF Closers
  <2> QED BY <1>1, <1>4, <2>3, <2>4, <2>5, <2>6, <2>7, QuietCalls
          DEF sessions, clients, checking, Closers
<1>6. CASE s \notin hashMap
  <2>1. Return(t) /\ hashMap' = hashMap
    BY <1>1, <1>2, <1>6 DEF Take, Return
  <2> QED BY <1>1, <1>2, <1>4, <1>6, <2>1, QuietReturn
          DEF sessions, clients, checking, Closers
<1> QED BY <1>5, <1>6

(* The question to the pool, as frames.                                    *)
LEMMA AskedFrames ==
    ASSUME NEW s \in 1 .. made, s \in 0 .. MaxSessions
    PROVE  \E ask \in Frames :
             /\ ask.at = "lookup" /\ ask.key = NullKey
             /\ AskPool(s) = <<ask, Frame("compare", s)>>
             /\ Truthful(ask, made, logicalClose) /\ ~ForClient(ask)
<1> DEFINE ask == [at |-> "lookup", s |-> 0, key |-> NullKey]
<1>1. ask \in Frames /\ ask.at = "lookup" /\ ask.key = NullKey
  BY LifeBoundsAssumption DEF Frames, Places, Keys
<1>2. AskPool(s) = <<ask, Frame("compare", s)>>
  BY DEF AskPool
<1>3. Truthful(ask, made, logicalClose) /\ ~ForClient(ask)
  BY <1>1 DEF Truthful, ForClient, Sessionless, Marks
<1> QED BY <1>1, <1>2, <1>3

LEMMA Joined ==
    ASSUME NEW S, NEW p \in Seq(S), NEW q \in Seq(S), NEW r \in Seq(S), Len(r) = Len(p) + Len(q),
           \A i \in 1 .. Len(p) : r[i] = p[i], \A i \in 1 .. Len(q) : r[Len(p) + i] = q[i]
    PROVE  p \o q = r
<1>1. /\ p \o q \in Seq(S) /\ Len(p \o q) = Len(p) + Len(q)
      /\ \A i \in 1 .. Len(p) + Len(q) : (p \o q)[i] = IF i <= Len(p) THEN p[i] ELSE q[i - Len(p)]
  BY ConcatProperties
<1>2. Len(p) \in Nat /\ Len(q) \in Nat
  BY LenProperties
<1>3. \A i \in 1 .. Len(p) + Len(q) : (p \o q)[i] = r[i]
  <2> TAKE i \in 1 .. Len(p) + Len(q)
  <2>1. CASE i <= Len(p)
    BY <1>1, <1>2, <2>1
  <2>2. CASE ~(i <= Len(p))
    <3>1. i - Len(p) \in 1 .. Len(q) /\ Len(p) + (i - Len(p)) = i
      BY <1>2, <2>2
    <3>2. r[Len(p) + (i - Len(p))] = q[i - Len(p)]
      BY <3>1
    <3> QED BY <1>1, <2>2, <3>1, <3>2
  <2> QED BY <2>1, <2>2
<1>4. Len(p \o q) = Len(r) /\ \A i \in 1 .. Len(p \o q) : (p \o q)[i] = r[i]
  BY <1>1, <1>3
<1> QED BY <1>1, <1>4, SeqEqual

LEMMA RecountKeeps ==
    ASSUME Inv, NEW t \in Threads, Recount(t)
    PROVE  Inv'
<1>1. At(t, "recount") /\ UNCHANGED <<sessions, tables, clients, checking, pooling>>
  BY DEF Recount
<1>2. PICK s : s = Top(t)
  OBVIOUS
<1>3. s \in 1 .. made /\ s \in 0 .. MaxSessions /\ s \in logicalClose
  BY <1>1, <1>2, TopFrame DEF Sessionless, Marks
<1>4. Nested' /\ (stack' \in [Threads -> Seq(Frames)] => TypeOK')
  BY <1>1 DEF Inv, Nested, TypeOK, sessions, tables, clients, checking, pooling
<1>5. CASE clientNum[s] = 0
  <2>1. PICK ask \in Frames :
             /\ ask.at = "lookup" /\ ask.key = NullKey
             /\ AskPool(s) = <<ask, Frame("compare", s)>>
             /\ Truthful(ask, made, logicalClose) /\ ~ForClient(ask)
    BY <1>3, AskedFrames
  <2>2. PICK fs : fs = <<Frame("close", s), ask, Frame("compare", s)>>
    OBVIOUS
  <2>3. /\ Frame("close", s) \in Frames /\ Frame("close", s).at = "close" /\ Frame("close", s).s = s
        /\ Frame("compare", s) \in Frames /\ Frame("compare", s).at = "compare"
        /\ Frame("compare", s).s = s
    BY <1>3, FrameType DEF Places
  <2>4. /\ fs \in Seq(Frames) /\ DOMAIN fs = {1, 2, 3}
        /\ fs[1] = Frame("close", s) /\ fs[2] = ask /\ fs[3] = Frame("compare", s)
    BY <2>2, <2>3
  <2>5. Orderly(fs)
    BY <1>3, <2>1, <2>3, <2>4 DEF Orderly, Truthful, AsksNull, ForClient, Marks
  <2>6. <<Frame("close", s)>> \o AskPool(s) = fs
    <3>1. PICK q : q = <<ask, Frame("compare", s)>>
      OBVIOUS
    <3>2. PICK p : p = <<Frame("close", s)>>
      OBVIOUS
    <3>3. q \in Seq(Frames) /\ Len(q) = 2 /\ q[1] = ask /\ q[2] = Frame("compare", s)
      BY <2>3, <3>1
    <3>4. p \in Seq(Frames) /\ Len(p) = 1 /\ p[1] = Frame("close", s)
      BY <2>3, <3>2
    <3>5. fs \in Seq(Frames) /\ Len(fs) = Len(p) + Len(q)
      BY <2>2, <2>4, <3>3, <3>4
    <3>7. \A i \in 1 .. Len(p) : fs[i] = p[i]
      BY <2>4, <3>4
    <3>8. \A i \in 1 .. Len(q) : fs[Len(p) + i] = q[i]
      <4>1. fs[1 + 1] = q[1] /\ fs[1 + 2] = q[2]
        BY <2>4, <3>3
      <4> QED BY <3>3, <3>4, <4>1
    <3>6. p \o q = fs
      BY <3>3, <3>4, <3>5, <3>7, <3>8, Joined
    <3> QED BY <2>1, <3>1, <3>2, <3>6
  <2>7. Continue(t, fs)
    BY <1>2, <1>5, <2>6 DEF Recount
  <2> QED BY <1>1, <1>4, <2>4, <2>5, <2>7, QuietCalls
          DEF sessions, tables, clients, checking, Closers, Leading
<1>6. CASE clientNum[s] # 0
  <2>1. Return(t)
    BY <1>2, <1>6 DEF Recount, Return
  <2> QED BY <1>1, <1>4, <2>1, QuietReturn
          DEF sessions, tables, clients, checking, Closers, Leading
<1> QED BY <1>5, <1>6

LEMMA CheckExpiredKeeps ==
    ASSUME Inv, NEW t \in Threads, CheckExpired(t)
    PROVE  Inv'
<1>1. At(t, "expired") /\ UNCHANGED <<sessions, tables, clients, checking, pooling>>
  BY DEF CheckExpired, CheckOn
<1>2. PICK s : s = Top(t)
  OBVIOUS
<1>3. s \in 1 .. made /\ s \in 0 .. MaxSessions
  BY <1>1, <1>2, TopFrame DEF Sessionless
<1>4. Nested' /\ (stack' \in [Threads -> Seq(Frames)] => TypeOK')
  BY <1>1 DEF Inv, Nested, TypeOK, sessions, tables, clients, checking, pooling
<1>5. CASE s \in logicalClose
  <2>1. PICK ask \in Frames :
             /\ ask.at = "lookup" /\ ask.key = NullKey
             /\ AskPool(s) = <<ask, Frame("compare", s)>>
             /\ Truthful(ask, made, logicalClose) /\ ~ForClient(ask)
    BY <1>3, AskedFrames
  <2>2. PICK fs : fs = <<Frame("close", s), Frame("remove", s), ask, Frame("compare", s)>>
    OBVIOUS
  <2>3. /\ Frame("close", s) \in Frames /\ Frame("close", s).at = "close" /\ Frame("close", s).s = s
        /\ Frame("remove", s) \in Frames /\ Frame("remove", s).at = "remove"
        /\ Frame("remove", s).s = s
        /\ Frame("compare", s) \in Frames /\ Frame("compare", s).at = "compare"
        /\ Frame("compare", s).s = s
    BY <1>3, FrameType DEF Places
  <2>4. /\ fs \in Seq(Frames) /\ DOMAIN fs = {1, 2, 3, 4}
        /\ fs[1] = Frame("close", s) /\ fs[2] = Frame("remove", s)
        /\ fs[3] = ask /\ fs[4] = Frame("compare", s)
    BY <2>2, <2>3
  <2>5. Orderly(fs)
    BY <1>3, <1>5, <2>1, <2>3, <2>4 DEF Orderly, Truthful, AsksNull, ForClient, Marks, Closers
  <2>6. <<Frame("close", s), Frame("remove", s)>> \o AskPool(s) = fs
    <3>1. PICK q : q = <<ask, Frame("compare", s)>>
      OBVIOUS
    <3>2. PICK p : p = <<Frame("close", s), Frame("remove", s)>>
      OBVIOUS
    <3>3. q \in Seq(Frames) /\ Len(q) = 2 /\ q[1] = ask /\ q[2] = Frame("compare", s)
      BY <2>3, <3>1
    <3>4. p \in Seq(Frames) /\ Len(p) = 2 /\ p[1] = Frame("close", s) /\ p[2] = Frame("remove", s)
      BY <2>3, <3>2
    <3>5. fs \in Seq(Frames) /\ Len(fs) = Len(p) + Len(q)
      BY <2>2, <2>4, <3>3, <3>4
    <3>7. \A i \in 1 .. Len(p) : fs[i] = p[i]
      BY <2>4, <3>4
    <3>8. \A i \in 1 .. Len(q) : fs[Len(p) + i] = q[i]
      <4>1. fs[2 + 1] = q[1] /\ fs[2 + 2] = q[2]
        BY <2>4, <3>3
      <4> QED BY <3>3, <3>4, <4>1
    <3>6. p \o q = fs
      BY <3>3, <3>4, <3>5, <3>7, <3>8, Joined
    <3> QED BY <2>1, <3>1, <3>2, <3>6
  <2>7. Continue(t, fs)
    BY <1>2, <1>5, <2>6 DEF CheckExpired, CheckOn
  <2>8. \E i \in DOMAIN fs : fs[i].at \in Leading /\ fs[i].s = Top(t)
    BY <1>2, <2>3, <2>4 DEF Leading
  <2> QED BY <1>1, <1>4, <2>4, <2>5, <2>7, <2>8, QuietCalls
          DEF sessions, tables, clients, checking, Closers
<1>6. CASE s \notin logicalClose
  <2>1. Return(t)
    BY <1>2, <1>6 DEF CheckExpired, CheckOn, Return
  <2> QED BY <1>1, <1>2, <1>4, <1>6, <2>1, QuietReturn
          DEF sessions, tables, clients, checking, Closers
<1> QED BY <1>5, <1>6

(* The worker of a session closes it, and only then takes it away.         *)
LEMMA EndOfMessageKeeps ==
    ASSUME Inv, NEW s \in Sessions, EndOfMessage(s)
    PROVE  Inv'
<1>1. /\ stack[Worker(s)] = <<>> /\ mapInitSeq[s] > 0
      /\ mapInitSeq' = [mapInitSeq EXCEPT ![s] = @ - 1]
      /\ UNCHANGED <<clientNum, isClose, logicalClose, young, tables, clients, checking, pooling>>
  BY DEF EndOfMessage
<1>2. TypeOK /\ Worker(s) \in Threads /\ \A c \in Clients : Worker(s) # App(c)
  BY DEF Inv, Threads, Worker, App
<1>3. mapInitSeq' \in [Sessions -> Nat]
  BY <1>1, <1>2 DEF TypeOK
<1>4. Nested' /\ (stack' \in [Threads -> Seq(Frames)] => TypeOK')
  BY <1>1, <1>3 DEF Inv, Nested, TypeOK, tables, clients, checking, pooling
<1>5. PICK fs : fs = IF s \in logicalClose /\ mapInitSeq[s] = 1
                     THEN <<Frame("close", s), Frame("drop", s), Frame("remove", s)>> ELSE <<>>
  OBVIOUS
<1>6. fs \in Seq(Frames) /\ Orderly(fs)
  <2>1. CASE s \in logicalClose /\ mapInitSeq[s] = 1
    <3>1. s \in 1 .. made /\ s \in 0 .. MaxSessions
      BY <2>1, LifeBoundsAssumption DEF Inv, Nested, TypeOK, Sessions
    <3>2. /\ Frame("close", s) \in Frames /\ Frame("close", s).at = "close"
          /\ Frame("close", s).s = s
          /\ Frame("drop", s) \in Frames /\ Frame("drop", s).at = "drop" /\ Frame("drop", s).s = s
          /\ Frame("remove", s) \in Frames /\ Frame("remove", s).at = "remove"
          /\ Frame("remove", s).s = s
      BY <3>1, FrameType DEF Places
    <3>3. /\ fs \in Seq(Frames) /\ DOMAIN fs = {1, 2, 3}
          /\ fs[1] = Frame("close", s) /\ fs[2] = Frame("drop", s) /\ fs[3] = Frame("remove", s)
      BY <1>5, <2>1, <3>2
    <3> QED BY <2>1, <3>1, <3>2, <3>3 DEF Orderly, Truthful, AsksNull, ForClient, Marks, Closers
  <2>2. CASE ~(s \in logicalClose /\ mapInitSeq[s] = 1)
    BY <1>5, <2>2, EmptySeq DEF Orderly
  <2> QED BY <2>1, <2>2
<1>7. stack' = [stack EXCEPT ![Worker(s)] = fs]
  BY <1>5 DEF EndOfMessage
<1>8. Moves(Worker(s), fs, 0)
  BY <1>1, <1>2, <1>6, <1>7, BeginMoves
<1>9. Brings(Worker(s), fs)
  BY <1>1, <1>2, <1>6, <1>8, OrderlyBrings DEF pooling
<1>10. Settles(Worker(s), fs, 0) /\ Follows(Worker(s), fs, 0)
  BY DEF Settles, Follows
<1>11. TypeOK'
  BY <1>2, <1>4, <1>8, MovesType
<1>12. \A i \in DOMAIN fs : ~ForClient(fs[i]) /\ fs[i].at # "grant"
  BY <1>6 DEF Orderly
<1>13. Occupies(Worker(s), fs, 0)
  BY <1>2 DEF Occupies
<1> QED BY <1>1, <1>2, <1>4, <1>13, <1>6, <1>8, <1>9, <1>10, <1>11, <1>12, QuietMove
        DEF tables, clients, checking

-----------------------------------------------------------------------------
(* The steps that change who uses which session.                           *)

LEMMA BeginSendKeeps ==
    ASSUME Inv, NEW c \in Clients, BeginSend(c)
    PROVE  Inv'
<1>1. /\ stack[App(c)] = <<>> /\ c \notin gone
      /\ sends' = [sends EXCEPT ![c] = @ + 1]
      /\ UNCHANGED <<sessions, tables, clientSession, gone, closes, checking, pooling>>
  BY DEF BeginSend
<1>2. TypeOK /\ App(c) \in Threads /\ clientSession[c] \in 0 .. made /\ clientSession[c] \in 0 .. MaxSessions
  BY DEF Inv, Threads, Nested, TypeOK
<1>3. Nested'
  BY <1>1 DEF Inv, Nested, sessions, tables, checking, pooling
<1>4. sends' \in [Clients -> Nat]
  BY <1>1, <1>2 DEF TypeOK
<1>5. stack' \in [Threads -> Seq(Frames)] => TypeOK'
  BY <1>1, <1>2, <1>4 DEF TypeOK, sessions, tables, checking, pooling
<1>6. PICK first \in Frames :
        /\ stack' = [stack EXCEPT ![App(c)] = <<first, Frame("check", 0)>>]
        /\ first.at \in {"lookup", "cacheGet"}
        /\ first.at = "lookup" => clientSession[c] = 0 /\ first.key # NullKey
        /\ first.at = "cacheGet" => first.s \in 1 .. made
  <2>1. CASE clientSession[c] = 0
    <3> DEFINE first == [at |-> "lookup", s |-> 0, key |-> Address[c]]
    <3>1. first \in Frames
      BY LifeBoundsAssumption DEF Frames, Places, Keys
    <3>2. stack' = [stack EXCEPT ![App(c)] = <<first, Frame("check", 0)>>]
      BY <2>1 DEF BeginSend
    <3>3. first.at = "lookup" /\ first.key # NullKey
      BY KeysAssumption
    <3> QED BY <2>1, <3>1, <3>2, <3>3
  <2>2. CASE clientSession[c] # 0
    <3>1. /\ Frame("cacheGet", clientSession[c]) \in Frames
          /\ Frame("cacheGet", clientSession[c]).at = "cacheGet"
          /\ Frame("cacheGet", clientSession[c]).s = clientSession[c]
      BY <1>2, FrameType DEF Places
    <3>2. stack' = [stack EXCEPT ![App(c)] = <<Frame("cacheGet", clientSession[c]), Frame("check", 0)>>]
      BY <2>2 DEF BeginSend
    <3>3. clientSession[c] \in 1 .. made
      BY <1>2, <2>2 DEF TypeOK
    <3> QED BY <3>1, <3>2, <3>3
  <2> QED BY <2>1, <2>2
<1>7. Frame("check", 0) \in Frames /\ Frame("check", 0).at = "check"
  BY FrameType, LifeBoundsAssumption DEF Places
<1>8. PICK fs : fs = <<first, Frame("check", 0)>>
  OBVIOUS
<1>9. fs \in Seq(Frames) /\ DOMAIN fs = {1, 2} /\ fs[1] = first /\ fs[2] = Frame("check", 0)
  BY <1>7, <1>8
<1>11. Moves(App(c), fs, 0)
  BY <1>1, <1>2, <1>6, <1>8, <1>9, BeginMoves
<1>12. Brings(App(c), fs)
  BY <1>1, <1>6, <1>7, <1>9 DEF Brings, Truthful, AsksNull, Sessionless, Marks, pooling, sessions
<1>13. Settles(App(c), fs, 0) /\ Follows(App(c), fs, 0)
  BY DEF Settles, Follows
<1>14. Occupies(App(c), fs, 0)
  <2> SUFFICES ASSUME NEW d \in Clients, App(c) = App(d)
               PROVE  /\ d \notin gone
                      /\ \A i \in DOMAIN fs : ForClient(fs[i]) => i = 1 /\ clientSession[d] = 0
    BY <1>1 DEF Occupies
  <2>1. c = d
    BY DEF App
  <2> QED BY <1>1, <1>6, <1>7, <1>9, <2>1 DEF ForClient
<1>15. TypeOK'
  BY <1>2, <1>5, <1>11, MovesType
<1>16. \A i \in DOMAIN fs : fs[i].at # "grant"
  BY <1>6, <1>7, <1>9
<1> QED BY <1>1, <1>2, <1>3, <1>9, <1>11, <1>12, <1>13, <1>14, <1>15, <1>16, QuietMove
        DEF sessions, tables, checking

(* A close takes a user from a session that has one.                       *)
LEMMA CloseClientKeeps ==
    ASSUME Inv, NEW c \in Clients, CloseClient(c)
    PROVE  Inv'
<1>1. /\ stack[App(c)] = <<>> /\ c \notin gone /\ clientSession[c] # 0
      /\ closes[c] < MaxCloses /\ closes' = [closes EXCEPT ![c] = @ + 1]
      /\ clientNum' = [clientNum EXCEPT ![clientSession[c]] = @ - 1]
      /\ UNCHANGED <<isClose, logicalClose, mapInitSeq, young, tables, clientSession, gone, sends,
                   checking, pooling, stack>>
  BY DEF CloseClient
<1>2. TypeOK /\ Nested /\ NullApart /\ UnusedIsDue /\ clientNum \in [Sessions -> Int]
  BY DEF Inv, TypeOK
<1>3. clientSession[c] \in 1 .. made /\ clientSession[c] \in Sessions
  BY <1>1, <1>2, LifeBoundsAssumption DEF Nested, TypeOK, Sessions
<1>4. \A s \in Sessions : s # clientSession[c] => clientNum'[s] = clientNum[s]
  BY <1>1, <1>2
<1>5. clientNum' \in [Sessions -> Int]
  BY <1>1, <1>2, <1>3
<1>6. closes' \in [Clients -> 0 .. MaxCloses]
  BY <1>1, <1>2, LifeBoundsAssumption DEF TypeOK
<1>7. TypeOK'
  BY <1>1, <1>2, <1>5, <1>6 DEF TypeOK, tables, checking, pooling
<1>8. \A s \in Sessions : s > made => clientNum'[s] = 0
  BY <1>2, <1>3, <1>4 DEF Nested, TypeOK
<1>9. Nested'
  BY <1>1, <1>2, <1>8 DEF Nested, tables, checking, pooling
<1>10. NullApart'
  <2> SUFFICES ASSUME NEW s \in 1 .. made, ForNull(s)
               PROVE  /\ clientNum'[s] >= 0
                      /\ \A d \in Clients : clientSession[d] # s
                      /\ \A k \in Keys \ {NullKey} : pool[k] = None \/ pool[k].session # s
                      /\ \A t \in Threads : \A i \in DOMAIN stack[t] :
                            stack[t][i].at = "grant" /\ stack[t][i].key # NullKey
                              => stack[t][i].s # s
    BY <1>1 DEF NullApart, ForNull, pooling
  <2>1. s \in Sessions
    BY <1>2, LifeBoundsAssumption DEF TypeOK, Sessions
  <2>2. s # clientSession[c] /\ clientNum[s] >= 0
    BY <1>2 DEF NullApart
  <2> QED BY <1>2, <1>4, <2>1, <2>2 DEF NullApart
<1>11. UnusedIsDue'
  <2> SUFFICES ASSUME NEW s \in logicalClose, Unused(s)' PROVE s \in isClose \/ Due(s)
    BY <1>1 DEF UnusedIsDue, Due, checking
  <2>1. s # clientSession[c]
    BY <1>1 DEF Unused
  <2>2. s \in Sessions
    BY <1>2 DEF TypeOK
  <2>3. Unused(s)
    BY <1>1, <1>4, <2>1, <2>2 DEF Unused
  <2> QED BY <1>2, <2>3 DEF UnusedIsDue
<1>12. FramesTruthful' /\ Compared'
  BY <1>1 DEF Inv, FramesTruthful, Compared, pooling
<1>13. RemovedIsClosed' /\ OpenIsRegistered'
  BY <1>1 DEF Inv, RemovedIsClosed, ClosesFirst, OpenIsRegistered, Closing, pooling, tables
<1>14. PoolApart' /\ ClosedIsReplaced' /\ Running'
  BY <1>1 DEF Inv, PoolApart, ClosedIsReplaced, Running, pooling
<1> QED BY <1>7, <1>9, <1>10, <1>11, <1>12, <1>13, <1>14 DEF Inv

(* A dropped client is queued, so that the checker looks at its session.   *)
LEMMA CollectKeeps ==
    ASSUME Inv, NEW c \in Clients, Collect(c)
    PROVE  Inv'
<1>1. /\ stack[App(c)] = <<>> /\ c \notin gone /\ clientSession[c] # 0
      /\ gone' = gone \cup {c} /\ gcQueue' = gcQueue \cup {c}
      /\ UNCHANGED <<sessions, tables, clientSession, sends, closes, isStart, checkers, pooling, stack>>
  BY DEF Collect
<1>2. TypeOK' /\ Nested'
  BY <1>1 DEF Inv, TypeOK, Nested, sessions, tables, pooling
<1>3. UnusedIsDue'
  <2> SUFFICES ASSUME NEW s \in logicalClose, Unused(s)' PROVE s \in isClose \/ Due(s)'
    BY <1>1 DEF UnusedIsDue, sessions
  <2>1. CASE clientSession[c] = s
    BY <1>1, <2>1 DEF Due
  <2>2. CASE clientSession[c] # s
    <3>1. Unused(s)
      BY <1>1, <2>2 DEF Unused, sessions
    <3>2. s \in isClose \/ Due(s)
      BY <3>1 DEF Inv, UnusedIsDue
    <3> QED BY <1>1, <3>2 DEF Due
  <2> QED BY <2>1, <2>2
<1>4. FramesTruthful' /\ Compared'
  BY <1>1 DEF Inv, FramesTruthful, Compared, pooling, sessions
<1>5. RemovedIsClosed' /\ OpenIsRegistered'
  BY <1>1 DEF Inv, RemovedIsClosed, ClosesFirst, OpenIsRegistered, Closing, pooling, tables, sessions
<1>6. PoolApart' /\ ClosedIsReplaced'
  BY <1>1 DEF Inv, PoolApart, ClosedIsReplaced, pooling
<1>7. Running'
  <2> SUFFICES ASSUME NEW d \in Clients, stack[App(d)] # <<>> PROVE d \notin gone'
    BY <1>1 DEF Inv, Running
  <2>1. d \notin gone /\ d # c
    BY <1>1 DEF Inv, Running
  <2> QED BY <1>1, <2>1
<1>8. NullApart'
  BY <1>1 DEF Inv, NullApart, ForNull, pooling, sessions
<1> QED BY <1>2, <1>3, <1>4, <1>5, <1>6, <1>7, <1>8 DEF Inv

LEMMA GrowOldKeeps ==
    ASSUME Inv, NEW s \in Sessions, GrowOld(s)
    PROVE  Inv'
<1>1. /\ young' = young \ {s}
      /\ UNCHANGED <<clientNum, isClose, logicalClose, mapInitSeq, tables, clients, checking,
                     pooling, stack>>
  BY DEF GrowOld
<1>2. TypeOK' /\ Nested'
  BY <1>1 DEF Inv, TypeOK, Nested, clients, checking, tables, pooling
<1>3. UnusedIsDue'
  BY <1>1 DEF Inv, UnusedIsDue, Unused, Due, clients, checking
<1>4. FramesTruthful' /\ Compared'
  BY <1>1 DEF Inv, FramesTruthful, Compared, pooling
<1>5. RemovedIsClosed' /\ OpenIsRegistered'
  BY <1>1 DEF Inv, RemovedIsClosed, ClosesFirst, OpenIsRegistered, Closing, pooling, tables
<1>6. PoolApart' /\ ClosedIsReplaced' /\ Running'
  BY <1>1 DEF Inv, PoolApart, ClosedIsReplaced, Running, pooling, clients
<1>7. NullApart'
  BY <1>1 DEF Inv, NullApart, ForNull, pooling, clients
<1> QED BY <1>2, <1>3, <1>4, <1>5, <1>6, <1>7 DEF Inv

LEMMA PollKeeps ==
    ASSUME Inv, NEW c \in Clients, Poll(c)
    PROVE  Inv'
<1>1. /\ stack[Check(c)] = <<>>
      /\ UNCHANGED <<sessions, tables, clients, isStart, checkers, pooling>>
  BY DEF Poll
<1>2. PICK d \in gcQueue :
        /\ gcQueue' = gcQueue \ {d}
        /\ stack' = [stack EXCEPT ![Check(c)] = <<Frame("found", clientSession[d])>>]
  BY DEF Poll
<1>3. TypeOK /\ Check(c) \in Threads /\ \A e \in Clients : Check(c) # App(e)
  BY DEF Inv, Threads, Check, App
<1>4. PICK s : s = clientSession[d]
  OBVIOUS
<1>5. s \in 1 .. made /\ s \in 0 .. MaxSessions
  <2>1. d \in gone /\ d \in Clients
    BY <1>3 DEF TypeOK
  <2>2. s # 0 /\ s \in 0 .. made /\ s \in 0 .. MaxSessions /\ made \in Int
    BY <1>3, <1>4, <2>1, LifeBoundsAssumption DEF Inv, Nested, TypeOK
  <2> QED BY <2>2
<1>6. PICK fs : fs = <<Frame("found", s)>>
  OBVIOUS
<1>7. /\ fs \in Seq(Frames) /\ Brings(Check(c), fs)
      /\ DOMAIN fs = {1} /\ fs[1].at = "found" /\ fs[1].s = s
      /\ \A i \in DOMAIN fs : ~ForClient(fs[i]) /\ fs[i].at # "grant"
  BY <1>1, <1>3, <1>5, <1>6, OneFrame DEF pooling, Places, Marks
<1>8. Moves(Check(c), fs, 0)
  BY <1>1, <1>2, <1>3, <1>4, <1>6, <1>7, BeginMoves
<1>9. TypeOK'
  <2>1. stack' \in [Threads -> Seq(Frames)]
    BY <1>3, <1>8, MovesType
  <2> QED BY <1>1, <1>2, <1>3, <2>1 DEF TypeOK, sessions, tables, clients, pooling
<1>10. Nested'
  BY <1>1 DEF Inv, Nested, sessions, tables, clients, pooling
<1>11. Settles(Check(c), fs, 0) /\ Occupies(Check(c), fs, 0)
  BY <1>3 DEF Settles, Occupies
<1>12. FramesTruthful'
  BY <1>1, <1>3, <1>7, <1>8, KeepsTruthful, SMTT(30) DEF Inv, TypeOK, pooling, sessions
<1>13. Compared' /\ RemovedIsClosed'
  BY <1>1, <1>3, <1>7, <1>8, <1>11, KeepsOrder DEF Inv, sessions
<1>14. OpenIsRegistered'
  BY <1>1, <1>3, <1>7, <1>8, <1>11, KeepsRegistered DEF Inv, sessions, tables, pooling
<1>15. Running' /\ NullApart' /\ PoolApart' /\ ClosedIsReplaced'
  BY <1>1, <1>3, <1>7, <1>8, <1>11, KeepsUsers DEF sessions, clients
<1>16. UnusedIsDue'
  <2> SUFFICES ASSUME NEW r \in logicalClose, Unused(r), r \notin isClose PROVE Due(r)'
    BY <1>1 DEF UnusedIsDue, Unused, sessions, clients
  <2>1. Due(r)
    BY DEF Inv, UnusedIsDue
  <2>2. CASE \E u \in Threads : \E j \in DOMAIN stack[u] : stack[u][j].at \in Leading /\ stack[u][j].s = r
    <3>1. PICK u \in Threads : \E j \in DOMAIN stack[u] : stack[u][j].at \in Leading /\ stack[u][j].s = r
      BY <2>2
    <3>2. PICK j \in DOMAIN stack[u] : stack[u][j].at \in Leading /\ stack[u][j].s = r
      BY <3>1
    <3>3. PICK i \in DOMAIN stack'[u] : stack'[u][i] = stack[u][j]
      BY <1>3, <1>7, <1>8, MovedFrames
    <3> QED BY <3>2, <3>3 DEF Due
  <2>3. CASE \E e \in gcQueue : clientSession[e] = r
    <3>1. PICK e \in gcQueue : clientSession[e] = r
      BY <2>3
    <3>2. CASE e = d
      <4>1. 1 \in DOMAIN stack'[Check(c)] /\ stack'[Check(c)][1] = fs[1]
        BY <1>3, <1>7, <1>8, MovedFrames
      <4> QED BY <1>3, <1>4, <1>7, <3>1, <3>2, <4>1 DEF Due, Leading
    <3>3. CASE e # d
      BY <1>1, <1>2, <3>1, <3>3 DEF Due, clients
    <3> QED BY <3>2, <3>3
  <2> QED BY <2>1, <2>2, <2>3 DEF Due
<1> QED BY <1>9, <1>10, <1>12, <1>13, <1>14, <1>15, <1>16 DEF Inv

(* The share given to a client: a session gains a user that is no one's    *)
(* under "null0", and the client had none.                                 *)
LEMMA GrantToKeeps ==
    ASSUME Inv, NEW c \in Clients, GrantTo(c)
    PROVE  Inv'
<1>1. PICK x : x = Top(App(c))
  OBVIOUS
<1>2. /\ At(App(c), "grant") /\ Head(stack[App(c)]).key # NullKey
      /\ clientNum' = [clientNum EXCEPT ![x] = @ + 1]
      /\ clientSession' = [clientSession EXCEPT ![c] = x]
      /\ Continue(App(c), <<Frame("cacheGet", x)>>)
      /\ UNCHANGED <<isClose, logicalClose, mapInitSeq, young, tables, gone, sends, closes,
                     checking, pooling>>
  BY <1>1 DEF GrantTo
<1>3. /\ TypeOK /\ Nested /\ NullApart /\ Running /\ App(c) \in Threads
      /\ clientNum \in [Sessions -> Int] /\ clientSession \in [Clients -> 0 .. MaxSessions]
  BY DEF Inv, Threads, TypeOK
<1>4. /\ x \in 1 .. made /\ x \in Sessions /\ x \in 0 .. MaxSessions
      /\ stack[App(c)] # <<>> /\ 1 \in DOMAIN stack[App(c)]
      /\ stack[App(c)][1].at = "grant" /\ stack[App(c)][1].key # NullKey /\ stack[App(c)][1].s = x
  BY <1>1, <1>2, <1>3, TopFrame DEF Sessionless
<1>5. c \notin gone /\ clientSession[c] = 0
  BY <1>3, <1>4 DEF Running, ForClient
<1>6. PICK fs : fs = <<Frame("cacheGet", x)>>
  OBVIOUS
<1>7. /\ fs \in Seq(Frames) /\ Brings(App(c), fs)
      /\ DOMAIN fs = {1} /\ fs[1].at = "cacheGet" /\ fs[1].s = x
      /\ \A i \in DOMAIN fs : ~ForClient(fs[i]) /\ fs[i].at # "grant"
  <2>1. "cacheGet" \in Places \ {"lookup", "grant", "remove"} /\ "cacheGet" \notin Marks
    BY DEF Places, Marks
  <2>2. x \in 1 .. made'
    BY <1>2, <1>4 DEF pooling
  <2> QED BY <1>3, <1>4, <1>6, <2>1, <2>2, OneFrame
<1>8. Moves(App(c), fs, 1)
  BY <1>2, <1>3, <1>4, <1>6, <1>7, ContinueMoves
<1>9. clientNum' \in [Sessions -> Int] /\ \A s \in Sessions : s # x => clientNum'[s] = clientNum[s]
  BY <1>2, <1>3, <1>4
<1>10. /\ clientSession' \in [Clients -> 0 .. MaxSessions] /\ clientSession'[c] = x
       /\ \A d \in Clients : d # c => clientSession'[d] = clientSession[d]
  BY <1>2, <1>3, <1>4
<1>11. TypeOK'
  <2>1. stack' \in [Threads -> Seq(Frames)]
    BY <1>3, <1>8, MovesType
  <2> QED BY <1>2, <1>3, <1>9, <1>10, <2>1 DEF TypeOK, tables, checking, pooling
<1>12. Nested'
  <2>1. \A s \in Sessions : s > made => clientNum'[s] = 0
    BY <1>3, <1>4, <1>9 DEF Nested, TypeOK
  <2>2. \A d \in Clients : clientSession'[d] \in 0 .. made
    BY <1>3, <1>4, <1>10 DEF Nested
  <2>3. \A d \in gone : clientSession'[d] # 0
    BY <1>3, <1>4, <1>10 DEF Nested, TypeOK
  <2> QED BY <1>2, <1>3, <2>1, <2>2, <2>3 DEF Nested, tables, checking, pooling
<1>13. Settles(App(c), fs, 1)
  BY <1>4 DEF Settles, Closers
<1>14. FramesTruthful'
  BY <1>2, <1>3, <1>7, <1>8, KeepsTruthful, SMTT(30) DEF Inv, TypeOK, pooling
<1>15. Compared' /\ RemovedIsClosed'
  BY <1>2, <1>3, <1>7, <1>8, <1>13, KeepsOrder DEF Inv
<1>16. OpenIsRegistered'
  BY <1>2, <1>3, <1>7, <1>8, <1>13, KeepsRegistered DEF Inv, tables, pooling
<1>17. PoolApart' /\ ClosedIsReplaced'
  BY <1>2 DEF Inv, PoolApart, ClosedIsReplaced, pooling
<1>18. ASSUME NEW u \in Threads, NEW i \in DOMAIN stack'[u], stack'[u][i].at \in {"lookup", "grant"}
       PROVE  \E j \in DOMAIN stack[u] : stack'[u][i] = stack[u][j] /\ (u = App(c) => j > 1)
  <2>1. CASE u = App(c) /\ i \in DOMAIN fs /\ stack'[u][i] = fs[i]
    BY <1>7, <1>18, <2>1
  <2> QED BY <1>3, <1>7, <1>8, <2>1, MovedFrames
<1>19. Running'
  <2> SUFFICES ASSUME NEW d \in Clients
               PROVE  /\ stack'[App(d)] # <<>> => d \notin gone
                      /\ \A i \in DOMAIN stack'[App(d)] :
                            ForClient(stack'[App(d)][i]) => i = 1 /\ clientSession'[d] = 0
    BY <1>2 DEF Running, ForClient, App
  <2>1. CASE d = c
    <3>1. ASSUME NEW i \in DOMAIN stack'[App(c)], ForClient(stack'[App(c)][i]) PROVE FALSE
      <4>1. PICK j \in DOMAIN stack[App(c)] : stack'[App(c)][i] = stack[App(c)][j] /\ j > 1
        BY <1>3, <1>18, <3>1 DEF ForClient
      <4>2. j = 1
        BY <1>3, <3>1, <4>1 DEF Running
      <4> QED BY <4>1, <4>2
    <3> QED BY <1>5, <2>1, <3>1
  <2>2. CASE d # c
    <3>1. App(d) # App(c) /\ App(d) \in Threads
      BY <2>2 DEF App, Threads
    <3>2. stack'[App(d)] = stack[App(d)]
      BY <1>3, <1>7, <1>8, <3>1, MovedFrames
    <3> QED BY <1>3, <1>10, <2>2, <3>2 DEF Running
  <2> QED BY <2>1, <2>2
<1>20. NullApart'
  <2> SUFFICES ASSUME NEW s \in 1 .. made, ForNull(s)'
               PROVE  /\ clientNum'[s] >= 0
                      /\ \A d \in Clients : clientSession'[d] # s
                      /\ \A k \in Keys \ {NullKey} : pool'[k] = None \/ pool'[k].session # s
                      /\ \A t \in Threads : \A i \in DOMAIN stack'[t] :
                            stack'[t][i].at = "grant" /\ stack'[t][i].key # NullKey
                              => stack'[t][i].s # s
    BY <1>2 DEF NullApart, pooling
  <2>1. ForNull(s)
    BY <1>2, <1>18 DEF ForNull, pooling
  <2>2. s # x
    BY <1>3, <1>4, <2>1 DEF NullApart
  <2>3. s \in Sessions
    BY <1>3, LifeBoundsAssumption DEF TypeOK, Sessions
  <2>4. clientNum'[s] >= 0 /\ \A d \in Clients : clientSession'[d] # s
    BY <1>3, <1>9, <1>10, <2>1, <2>2, <2>3 DEF NullApart
  <2>5. \A k \in Keys \ {NullKey} : pool'[k] = None \/ pool'[k].session # s
    BY <1>2, <1>3, <2>1 DEF NullApart, pooling
  <2>6. ASSUME NEW t \in Threads, NEW i \in DOMAIN stack'[t],
               stack'[t][i].at = "grant", stack'[t][i].key # NullKey
        PROVE  stack'[t][i].s # s
    <3>1. PICK j \in DOMAIN stack[t] : stack'[t][i] = stack[t][j]
      BY <1>18, <2>6
    <3> QED BY <1>3, <2>1, <2>6, <3>1 DEF NullApart
  <2> QED BY <2>4, <2>5, <2>6
<1>21. UnusedIsDue'
  <2> SUFFICES ASSUME NEW s \in logicalClose, Unused(s)', s \notin isClose PROVE Due(s)'
    BY <1>2 DEF UnusedIsDue
  <2>1. s # x
    BY <1>2, <1>5, <1>10 DEF Unused
  <2>2. s \in Sessions /\ s # 0
    BY <1>3, LifeBoundsAssumption DEF TypeOK, Sessions
  <2>3. Unused(s)
    BY <1>2, <1>5, <1>9, <1>10, <2>1, <2>2 DEF Unused
  <2>4. Due(s)
    BY <2>3 DEF Inv, UnusedIsDue
  <2>5. CASE \E e \in gcQueue : clientSession[e] = s
    <3>1. PICK e \in gcQueue : clientSession[e] = s
      BY <2>5
    <3>2. e # c /\ e \in Clients
      BY <1>3, <1>5, <2>2, <3>1 DEF TypeOK
    <3> QED BY <1>2, <1>10, <3>1, <3>2 DEF Due, checking
  <2>6. CASE \E u \in Threads : \E j \in DOMAIN stack[u] : stack[u][j].at \in Leading /\ stack[u][j].s = s
    <3>1. PICK u \in Threads : \E j \in DOMAIN stack[u] : stack[u][j].at \in Leading /\ stack[u][j].s = s
      BY <2>6
    <3>2. PICK j \in DOMAIN stack[u] : stack[u][j].at \in Leading /\ stack[u][j].s = s
      BY <3>1
    <3>3. ~(u = App(c) /\ j \in 1 .. 1)
      BY <1>4, <3>2 DEF Leading
    <3>4. PICK i \in DOMAIN stack'[u] : stack'[u][i] = stack[u][j]
      BY <1>3, <1>7, <1>8, <3>3, MovedFrames
    <3> QED BY <3>2, <3>4 DEF Due
  <2> QED BY <2>4, <2>5, <2>6 DEF Due
<1> QED BY <1>11, <1>12, <1>14, <1>15, <1>16, <1>17, <1>19, <1>20, <1>21 DEF Inv

(* The session that "null0" stands for gains a user, and never loses one.  *)
LEMMA GrantNullKeeps ==
    ASSUME Inv, NEW t \in Threads, GrantNull(t)
    PROVE  Inv'
<1>1. PICK x : x = Top(t)
  OBVIOUS
<1>2. /\ At(t, "grant") /\ Head(stack[t]).key = NullKey
      /\ clientNum' = [clientNum EXCEPT ![x] = @ + 1]
      /\ pool' \in {[pool EXCEPT ![NullKey] = None], [pool EXCEPT ![NullKey] = @]}
      /\ stack' = [stack EXCEPT ![t] = Tail(Tail(@))]
      /\ UNCHANGED <<isClose, logicalClose, mapInitSeq, young, tables, clients, checking, made, stale>>
  BY <1>1 DEF GrantNull
<1>3. /\ TypeOK /\ Nested /\ NullApart /\ Compared /\ PoolApart /\ ClosedIsReplaced
      /\ clientNum \in [Sessions -> Int] /\ NullKey \in Keys
      /\ pool \in [Keys -> [session : Sessions, left : 1 .. MaxShares] \cup {None}]
  BY DEF Inv, TypeOK, Keys
<1>4. /\ x \in 1 .. made /\ x \in Sessions
      /\ stack[t] \in Seq(Frames) /\ stack[t] # <<>> /\ 1 \in DOMAIN stack[t]
      /\ stack[t][1].at = "grant" /\ stack[t][1].key = NullKey /\ stack[t][1].s = x
  BY <1>1, <1>2, TopFrame DEF Sessionless
<1>5. 2 \in DOMAIN stack[t] /\ stack[t][2].at = "compare"
  <2>1. 1 + 1 \in DOMAIN stack[t] /\ stack[t][1 + 1].at = "compare"
    BY <1>3, <1>4 DEF Compared, ComparedTo, AsksNull
  <2> QED BY <2>1
<1>7. PICK none : /\ none \in Seq(Frames) /\ Brings(t, none) /\ DOMAIN none = {} /\ Len(none) = 0
  BY NoFrame, EmptySeq
<1>6. Moves(t, none, 2)
  <2> DEFINE st == stack[t]
  <2>1. /\ Len(st) \in Nat /\ Len(st) >= 2 /\ DOMAIN st = 1 .. Len(st)
    BY <1>4, <1>5, LenProperties
  <2>2. /\ Tail(st) \in Seq(Frames) /\ Len(Tail(st)) = Len(st) - 1
        /\ \A i \in 1 .. Len(st) - 1 : Tail(st)[i] = st[i + 1]
    BY <1>4, HeadTailProperties
  <2>3. Tail(st) # <<>>
    <3>1. PICK rest : rest = Tail(st)
      OBVIOUS
    <3>2. Len(rest) # 0
      BY <2>1, <2>2, <3>1
    <3>3. rest # <<>>
      BY <3>2, EmptySeq
    <3> QED BY <3>1, <3>3
  <2>4. /\ Tail(Tail(st)) \in Seq(Frames) /\ Len(Tail(Tail(st))) = Len(st) - 2
        /\ \A i \in 1 .. Len(st) - 2 : Tail(Tail(st))[i] = Tail(st)[i + 1]
    BY <2>1, <2>2, <2>3, HeadTailProperties
  <2>5. \A i \in 1 .. Len(st) - 2 : Tail(Tail(st))[i] = st[i + 2]
    BY <2>1, <2>2, <2>4
  <2>6. stack'[t] = Tail(Tail(st))
    BY <1>2, <1>3 DEF TypeOK
  <2>7. stack' = [stack EXCEPT ![t] = stack'[t]]
    BY <1>2, <2>6, Zenon
  <2> HIDE DEF st
  <2>8. \A i \in 1 .. Len(stack'[t]) :
            stack'[t][i] = IF i <= Len(none) THEN none[i] ELSE st[i - Len(none) + 2]
    BY <2>1, <2>4, <2>5, <2>6, <1>7
  <2>9. Len(stack'[t]) = Len(none) + Len(st) - 2 /\ 2 \in 0 .. Len(st)
    BY <2>1, <2>4, <2>6, <1>7
  <2> QED BY <2>4, <2>6, <2>7, <2>8, <2>9 DEF Moves, st
<1>22. TypeOK /\ FramesTruthful /\ made' \in Nat /\ made <= made' /\ logicalClose \subseteq logicalClose'
  BY <1>2, <1>3 DEF Inv, TypeOK
<1>23. PICK top : top = 2 /\ Moves(t, none, top)
  BY <1>6
<1>8. clientNum' \in [Sessions -> Int] /\ clientNum'[x] = clientNum[x] + 1
      /\ \A s \in Sessions : s # x => clientNum'[s] = clientNum[s]
  BY <1>2, <1>3, <1>4
<1>9. /\ pool' \in [Keys -> [session : Sessions, left : 1 .. MaxShares] \cup {None}]
      /\ \A k \in Keys : pool'[k] = pool[k] \/ pool'[k] = None
  BY <1>2, <1>3
<1>10. TypeOK'
  <2>1. stack' \in [Threads -> Seq(Frames)]
    BY <1>3, <1>6, MovesType
  <2> QED BY <1>2, <1>3, <1>8, <1>9, <2>1 DEF TypeOK, tables, clients, checking
<1>11. Nested'
  <2>1. \A s \in Sessions : s > made => clientNum'[s] = 0
    BY <1>3, <1>4, <1>8 DEF Nested, TypeOK
  <2> QED BY <1>2, <1>3, <2>1 DEF Nested, tables, clients, checking
<1>12. \A j \in 1 .. 2 : stack[t][j].at \notin Closers \cup Leading
  BY <1>4, <1>5 DEF Closers, Leading
<1>13. Settles(t, none, 2)
  BY <1>12 DEF Settles
<1>14. FramesTruthful'
  BY <1>22, <1>6, <1>7, KeepsTruthful
<1>15. Compared' /\ RemovedIsClosed'
  BY <1>2, <1>3, <1>6, <1>7, <1>13, KeepsOrder DEF Inv
<1>16. OpenIsRegistered'
  BY <1>2, <1>3, <1>6, <1>7, <1>13, KeepsRegistered DEF Inv, tables
<1>17. PoolApart' /\ ClosedIsReplaced'
  BY <1>2, <1>3, <1>9 DEF PoolApart, ClosedIsReplaced
<1>18. Running'
  <2>1. Occupies(t, none, 2)
    BY <1>4, <1>7 DEF Occupies
  <2> QED BY <1>2, <1>3, <1>6, <1>7, <2>1, KeepsRunning DEF Inv, clients
<1>19. ASSUME NEW u \in Threads, NEW i \in DOMAIN stack'[u]
       PROVE  \E j \in DOMAIN stack[u] : stack'[u][i] = stack[u][j]
  <2>1. Moves(t, none, top) /\ none \in Seq(Frames)
    BY <1>7, <1>23
  <2>2. \A v \in Threads : \A n \in DOMAIN stack'[v] :
                 \/ v = t /\ n \in DOMAIN none /\ stack'[v][n] = none[n]
                 \/ \E m \in DOMAIN stack[v] : stack'[v][n] = stack[v][m] /\ (v = t => m > top)
    BY <1>22, <2>1, MovedFrames
  <2> QED BY <1>7, <2>2
<1>20. NullApart'
  <2> SUFFICES ASSUME NEW s \in 1 .. made, ForNull(s)'
               PROVE  /\ clientNum'[s] >= 0
                      /\ \A d \in Clients : clientSession'[d] # s
                      /\ \A k \in Keys \ {NullKey} : pool'[k] = None \/ pool'[k].session # s
                      /\ \A u \in Threads : \A i \in DOMAIN stack'[u] :
                            stack'[u][i].at = "grant" /\ stack'[u][i].key # NullKey
                              => stack'[u][i].s # s
    BY <1>2 DEF NullApart
  <2>1. ForNull(s)
    BY <1>3, <1>9, <1>19 DEF ForNull
  <2>2. s \in Sessions
    BY <1>3, LifeBoundsAssumption DEF TypeOK, Sessions
  <2>3. clientNum[s] >= 0 /\ \A d \in Clients : clientSession'[d] # s
    BY <1>2, <1>3, <2>1 DEF NullApart, clients
  <2>4. clientNum'[s] >= 0
    BY <1>3, <1>8, <2>2, <2>3
  <2>5. \A k \in Keys \ {NullKey} : pool'[k] = None \/ pool'[k].session # s
    BY <1>3, <1>9, <2>1 DEF NullApart
  <2>6. ASSUME NEW u \in Threads, NEW i \in DOMAIN stack'[u],
               stack'[u][i].at = "grant", stack'[u][i].key # NullKey
        PROVE  stack'[u][i].s # s
    <3>1. PICK j \in DOMAIN stack[u] : stack'[u][i] = stack[u][j]
      BY <1>19
    <3> QED BY <1>3, <2>1, <2>6, <3>1 DEF NullApart
  <2> QED BY <2>3, <2>4, <2>5, <2>6
<1>21. UnusedIsDue'
  <2> SUFFICES ASSUME NEW s \in logicalClose, Unused(s)', s \notin isClose PROVE Due(s)'
    BY <1>2 DEF UnusedIsDue
  <2>1. s # x
    <3>1. ForNull(x)
      BY <1>4 DEF ForNull
    <3>2. clientNum[x] >= 0 /\ clientNum[x] \in Int
      BY <1>3, <1>4, <3>1 DEF NullApart
    <3> QED BY <1>8, <3>2 DEF Unused
  <2>2. s \in Sessions
    BY <1>3 DEF TypeOK
  <2>3. Unused(s)
    BY <1>2, <1>8, <2>1, <2>2 DEF Unused, clients
  <2>4. Due(s)
    BY <2>3 DEF Inv, UnusedIsDue
  <2>5. CASE \E e \in gcQueue : clientSession[e] = s
    BY <1>2, <2>5 DEF Due, checking, clients
  <2>6. CASE \E u \in Threads : \E j \in DOMAIN stack[u] : stack[u][j].at \in Leading /\ stack[u][j].s = s
    <3>1. PICK u \in Threads : \E j \in DOMAIN stack[u] : stack[u][j].at \in Leading /\ stack[u][j].s = s
      BY <2>6
    <3>2. PICK j \in DOMAIN stack[u] : stack[u][j].at \in Leading /\ stack[u][j].s = s
      BY <3>1
    <3>3. ~(u = t /\ j \in 1 .. 2)
      BY <1>12, <3>2
    <3>4. PICK i \in DOMAIN stack'[u] : stack'[u][i] = stack[u][j]
      <4>1. Moves(t, none, top) /\ none \in Seq(Frames) /\ ~(u = t /\ j \in 1 .. top)
        BY <1>7, <1>23, <3>3
      <4> QED BY <1>22, <4>1, MovedFrames
    <3> QED BY <3>2, <3>4 DEF Due
  <2> QED BY <2>4, <2>5, <2>6 DEF Due
<1> QED BY <1>10, <1>11, <1>14, <1>15, <1>16, <1>17, <1>18, <1>20, <1>21 DEF Inv

(* What a look-up under k that hands out the session x leaves behind.      *)
LookupGives(t, k, x) ==
    /\ Continue(t, <<[at |-> "grant", s |-> x, key |-> k]>>)
    /\ k \in Keys
    /\ pool' \in [Keys -> [session : Sessions, left : 1 .. MaxShares] \cup {None}]
    /\ \A l \in Keys \ {k} : pool'[l] = pool[l]
    /\ x = made + 1 \/ (pool[k] # None /\ x = pool[k].session)
    /\ \/ pool'[k] = None \/ pool'[k].session = made + 1
       \/ pool'[k].session = x /\ stale' = stale
    /\ x = made + 1 \/ (pool'[k] # None /\ pool'[k].session = made + 1) => made' = made + 1
    /\ stale' \subseteq stale \cup {x} /\ (x = made + 1 => stale' = stale)
    /\ \/ made' = made /\ hashMap' = hashMap /\ young' = young
       \/ /\ made' = made + 1 /\ made' \in 0 .. MaxSessions
          /\ hashMap' = hashMap \cup {made'} /\ young' = young \cup {made'}

(* What the look-up does to the pool: the session handed out is the        *)
(* entry's or a new one, and the entry left is that one's or a newer one.  *)
LEMMA LookupOutcome ==
    ASSUME Inv, NEW t \in Threads, Lookup(t), NEW k, k = Head(stack[t]).key
    PROVE  \E x \in 1 .. made' : LookupGives(t, k, x)
<1> USE DEF LookupGives
<1>1. PICK e : e = IF pool[k] = None THEN Fresh(made + 1) ELSE pool[k]
  OBVIOUS
<1>2. /\ TypeOK /\ Nested /\ PoolApart /\ made \in 0 .. MaxSessions /\ MaxSessions \in Nat
      /\ pool \in [Keys -> [session : Sessions, left : 1 .. MaxShares] \cup {None}]
      /\ MaxShares \in Nat \ {0}
  BY LifeBoundsAssumption, SharesAssumption DEF Inv, TypeOK
<1>3. /\ At(t, "lookup")
      /\ IF pool[k] = None \/ e.session \in isClose
         THEN Make(made + 1) ELSE UNCHANGED <<made, hashMap, young>>
      /\ pool' = Replace(k, e)
      /\ stale' = IF e.session \in isClose THEN stale \cup {e.session} ELSE stale
      /\ Continue(t, <<[at |-> "grant", s |-> e.session, key |-> k]>>)
  BY <1>1 DEF Lookup
<1>4. k \in Keys
  BY <1>3, TopFrame DEF Frames
<1>5. Fresh(made + 1).session = made + 1 /\ Fresh(made + 1).left = MaxShares
  BY DEF Fresh
<1>6. made + 1 \notin isClose /\ made + 1 \notin 1 .. made
  BY <1>2 DEF Nested
<1>7. pool[k] # None => pool[k].session \in 1 .. made /\ pool[k].left \in 1 .. MaxShares
                        /\ pool[k] \in [session : Sessions, left : 1 .. MaxShares]
  BY <1>2, <1>4 DEF PoolApart
<1>8. ASSUME Make(made + 1)
      PROVE  /\ made' = made + 1 /\ made' \in 0 .. MaxSessions /\ made + 1 \in Sessions
             /\ hashMap' = hashMap \cup {made'} /\ young' = young \cup {made'}
             /\ Fresh(made + 1) \in [session : Sessions, left : 1 .. MaxShares]
  <2>1. made' = made + 1 /\ made + 1 <= MaxSessions
    BY <1>8 DEF Make
  <2>2. made + 1 \in Sessions /\ MaxShares \in 1 .. MaxShares
    BY <1>2, <2>1 DEF Sessions
  <2> QED BY <1>2, <1>8, <2>1, <2>2 DEF Make, Fresh
<1>9. ASSUME e \in [session : Sessions, left : 1 .. MaxShares], pool' = TakeShare(k, e)
      PROVE  /\ pool' \in [Keys -> [session : Sessions, left : 1 .. MaxShares] \cup {None}]
             /\ \A l \in Keys \ {k} : pool'[l] = pool[l]
             /\ pool'[k] = None \/ pool'[k].session = e.session
  <2> DEFINE f == [e EXCEPT !.left = @ - 1]
  <2>1. f.session = e.session
    BY <1>9
  <2>2. CASE e.left = 1
    <3>1. pool' = [pool EXCEPT ![k] = None]
      BY <1>9, <2>2 DEF TakeShare
    <3> QED BY <1>2, <1>4, <3>1
  <2>3. CASE e.left # 1
    <3>1. pool' = [pool EXCEPT ![k] = f]
      BY <1>9, <2>3 DEF TakeShare
    <3>2. f \in [session : Sessions, left : 1 .. MaxShares]
      BY <1>2, <1>9, <2>3
    <3> HIDE DEF f
    <3> QED BY <1>2, <1>4, <2>1, <3>1, <3>2
  <2> QED BY <2>2, <2>3
<1>10. CASE pool[k] = None
  <2>1. e = Fresh(made + 1) /\ e.session = made + 1
    BY <1>1, <1>5, <1>10
  <2>2. Make(made + 1) /\ stale' = stale /\ pool' = TakeShare(k, e)
    BY <1>3, <1>6, <1>10, <2>1 DEF Replace
  <2>3. made + 1 \in 1 .. made'
    BY <1>2, <1>8, <2>2
  <2>4. /\ pool' \in [Keys -> [session : Sessions, left : 1 .. MaxShares] \cup {None}]
        /\ \A l \in Keys \ {k} : pool'[l] = pool[l]
        /\ pool'[k] = None \/ pool'[k].session = made + 1
    BY <1>8, <1>9, <2>1, <2>2
  <2> QED BY <1>3, <1>4, <1>8, <2>1, <2>2, <2>3, <2>4
<1>11. CASE pool[k] # None /\ pool[k].session \notin isClose
  <2>1. e = pool[k] /\ e.session \in 1 .. made
    BY <1>1, <1>7, <1>11
  <2>2. UNCHANGED <<made, hashMap, young>> /\ stale' = stale /\ pool' = TakeShare(k, e)
    BY <1>3, <1>11, <2>1 DEF Replace
  <2>3. /\ pool' \in [Keys -> [session : Sessions, left : 1 .. MaxShares] \cup {None}]
        /\ \A l \in Keys \ {k} : pool'[l] = pool[l]
        /\ pool'[k] = None \/ pool'[k].session = e.session
    BY <1>7, <1>9, <1>11, <2>1, <2>2
  <2>4. e.session # made + 1
    BY <1>6, <2>1
  <2>5. e.session \in 1 .. made' /\ e.session = pool[k].session
    BY <2>1, <2>2
  <2> QED BY <1>3, <1>4, <1>11, <2>2, <2>3, <2>4, <2>5
<1>12. CASE pool[k] # None /\ pool[k].session \in isClose
  <2>1. e = pool[k] /\ e.session \in 1 .. made
    BY <1>1, <1>7, <1>12
  <2>2. Make(made + 1) /\ stale' = stale \cup {e.session} /\ pool' = [pool EXCEPT ![k] = Fresh(made + 1)]
    BY <1>3, <1>12, <2>1 DEF Replace
  <2>3. /\ pool' \in [Keys -> [session : Sessions, left : 1 .. MaxShares] \cup {None}]
        /\ \A l \in Keys \ {k} : pool'[l] = pool[l]
        /\ pool'[k].session = made + 1
    BY <1>2, <1>4, <1>5, <1>8, <2>2
  <2>4. e.session \in 1 .. made' /\ e.session # made + 1
    BY <1>2, <1>6, <1>8, <2>1, <2>2
  <2>5. e.session = pool[k].session
    BY <2>1
  <2> QED BY <1>3, <1>4, <1>8, <1>12, <2>2, <2>3, <2>4, <2>5
<1> QED BY <1>10, <1>11, <1>12

LEMMA LookupKeeps ==
    ASSUME Inv, NEW t \in Threads, Lookup(t)
    PROVE  Inv'
<1>1. PICK k : k = Head(stack[t]).key
  OBVIOUS
<1>2. PICK x \in 1 .. made' : LookupGives(t, k, x)
  BY <1>1, LookupOutcome
<1> USE DEF LookupGives
<1>3. /\ At(t, "lookup")
      /\ UNCHANGED <<clientNum, isClose, logicalClose, mapInitSeq, cache, notices, clients, checking>>
  BY DEF Lookup
<1>4. /\ TypeOK /\ Nested /\ PoolApart /\ ClosedIsReplaced /\ NullApart /\ Compared /\ Running
      /\ made \in Nat /\ made' \in Nat /\ made <= made' /\ 1 .. made' \subseteq Sessions
      /\ MaxSessions \in Nat /\ x \in 0 .. MaxSessions
  <2>1. made \in 0 .. MaxSessions /\ MaxSessions \in Nat
    BY LifeBoundsAssumption DEF Inv, TypeOK
  <2> QED BY <1>2, <2>1 DEF Inv, Sessions
<1>5. /\ stack[t] # <<>> /\ 1 \in DOMAIN stack[t] /\ stack[t] \in Seq(Frames)
      /\ stack[t][1].at = "lookup" /\ stack[t][1].key = k
  BY <1>1, <1>3, TopFrame
<1>6. PICK g : g = [at |-> "grant", s |-> x, key |-> k]
  OBVIOUS
<1>7. g \in Frames /\ g.at = "grant" /\ g.s = x /\ g.key = k
  BY <1>2, <1>4, <1>6 DEF Frames, Places
<1>8. PICK fs : fs = <<g>>
  OBVIOUS
<1>9. fs \in Seq(Frames) /\ DOMAIN fs = {1} /\ fs[1] = g /\ Len(fs) = 1
  BY <1>7, <1>8
<1>10. PICK d : d = 1 /\ Moves(t, fs, d)
  BY <1>2, <1>4, <1>5, <1>6, <1>8, <1>9, ContinueMoves
<1>11. k = NullKey => 2 \in DOMAIN stack'[t] /\ stack'[t][2].at = "compare"
  <2> SUFFICES ASSUME k = NullKey PROVE 2 \in DOMAIN stack'[t] /\ stack'[t][2].at = "compare"
    OBVIOUS
  <2>1. 1 + 1 \in DOMAIN stack[t] /\ stack[t][1 + 1].at = "compare"
    BY <1>4, <1>5 DEF Compared, ComparedTo, AsksNull
  <2>2. DOMAIN stack[t] = 1 .. Len(stack[t]) /\ Len(stack[t]) \in Nat
    BY <1>5, LenProperties
  <2>3. Len(stack'[t]) = 1 + Len(stack[t]) - 1 /\ stack'[t] \in Seq(Frames)
    BY <1>9, <1>10 DEF Moves
  <2>4. DOMAIN stack'[t] = 1 .. Len(stack'[t])
    BY <2>3, LenProperties
  <2>5. \A i \in 1 .. Len(stack'[t]) : stack'[t][i] = IF i <= 1 THEN fs[i] ELSE stack[t][i - 1 + 1]
    BY <1>9, <1>10 DEF Moves
  <2>6. 2 \in DOMAIN stack'[t]
    BY <2>1, <2>2, <2>3, <2>4
  <2>7. stack'[t][2] = stack[t][2]
    BY <2>4, <2>5, <2>6
  <2> QED BY <2>1, <2>6, <2>7
<1>12. Brings(t, fs)
  BY <1>2, <1>7, <1>9, <1>11 DEF Brings, Truthful, AsksNull, Marks
<1>13. Settles(t, fs, d) /\ Follows(t, fs, d)
  BY <1>5, <1>10 DEF Settles, Follows, Closers, Leading
<1>14. TypeOK'
  <2>1. stack' \in [Threads -> Seq(Frames)]
    BY <1>4, <1>10, MovesType
  <2>2. hashMap' \subseteq Sessions /\ young' \subseteq Sessions /\ made' \in 0 .. MaxSessions
    BY <1>2, <1>4 DEF TypeOK
  <2>3. stale' \subseteq Sessions
    BY <1>2, <1>4 DEF TypeOK
  <2> QED BY <1>2, <1>3, <1>4, <2>1, <2>2, <2>3 DEF TypeOK, clients, checking
<1>15. Nested'
  <2>1. isClose' \subseteq logicalClose' /\ logicalClose' \subseteq 1 .. made' /\ cache' \subseteq 1 .. made'
    BY <1>3, <1>4 DEF Nested
  <2>2. logicalClose' \cap young' = {}
    BY <1>2, <1>3, <1>4 DEF Nested
  <2>3. stale' \subseteq 1 .. made'
    BY <1>2, <1>4 DEF Nested
  <2>4. /\ \A i \in DOMAIN notices' : notices'[i] \in 1 .. made'
        /\ \A c \in Clients : clientSession'[c] \in 0 .. made'
        /\ \A c \in gone' : clientSession'[c] # 0
    BY <1>3, <1>4 DEF Nested, clients
  <2>5. \A s \in Sessions : s > made' => clientNum'[s] = 0
    BY <1>3, <1>4 DEF Nested, Sessions
  <2> QED BY <2>1, <2>2, <2>3, <2>4, <2>5 DEF Nested
<1>16. FramesTruthful'
  BY <1>3, <1>4, <1>9, <1>10, <1>12, KeepsTruthful DEF Inv
<1>17. Compared' /\ RemovedIsClosed'
  BY <1>3, <1>4, <1>9, <1>10, <1>12, <1>13, KeepsOrder DEF Inv
<1>18. OpenIsRegistered'
  <2>1. \A s \in 1 .. made' : s \in 1 .. made \/ s \in hashMap'
    BY <1>2, <1>4
  <2>2. hashMap \ hashMap' = {}
    BY <1>2
  <2> QED BY <1>3, <1>4, <1>9, <1>10, <1>13, <2>1, <2>2, KeepsRegistered DEF Inv
<1>19. UnusedIsDue'
  BY <1>3, <1>9, <1>10, <1>13, KeepsDue DEF clients, checking
<1>20. Running'
  <2>1. Occupies(t, fs, d)
    <3> SUFFICES ASSUME NEW c \in Clients, t = App(c), k # NullKey PROVE clientSession[c] = 0
      BY <1>5, <1>7, <1>9, <1>10 DEF Occupies, ForClient
    <3> QED BY <1>4, <1>5 DEF Running, ForClient
  <2> QED BY <1>3, <1>4, <1>9, <1>10, <2>1, KeepsRunning DEF clients
<1>21. PoolApart'
  <2>1. \A l \in Keys : pool'[l] # None => pool'[l].session \in 1 .. made'
    <3> TAKE l \in Keys
    <3>1. CASE l = k
      BY <1>2, <1>4, <3>1
    <3>2. CASE l # k
      BY <1>2, <1>4, <3>2 DEF PoolApart
    <3> QED BY <3>1, <3>2
  <2>2. ASSUME NEW l \in Keys, l # k, pool'[k] # None, pool'[l] # None
        PROVE  pool'[k].session # pool'[l].session
    <3>1. pool'[l] = pool[l] /\ pool[l].session \in 1 .. made
      BY <1>2, <1>4, <2>2 DEF PoolApart
    <3>2. pool'[k].session = made + 1 \/ (pool[k] # None /\ pool'[k].session = pool[k].session)
      BY <1>2, <2>2
    <3> QED BY <1>2, <1>4, <2>2, <3>1, <3>2 DEF PoolApart
  <2>3. ASSUME NEW l \in Keys, NEW m \in Keys, pool'[l] # None, pool'[m] # None, l # m
        PROVE  pool'[l].session # pool'[m].session
    <3>1. CASE l # k /\ m # k
      BY <1>2, <1>4, <2>3, <3>1 DEF PoolApart
    <3>2. CASE l = k \/ m = k
      BY <2>2, <2>3, <3>2
    <3> QED BY <3>1, <3>2
  <2> QED BY <2>1, <2>3 DEF PoolApart
<1>22. ClosedIsReplaced'
  <2> SUFFICES ASSUME NEW l \in Keys, pool'[l] # None PROVE pool'[l].session \notin stale'
    BY DEF ClosedIsReplaced
  <2>1. made + 1 \notin stale
    BY <1>4 DEF Nested
  <2>2. CASE l = k
    <3>1. CASE pool'[k].session = made + 1
      BY <1>2, <2>1, <2>2, <3>1
    <3>2. CASE pool'[k].session = x /\ stale' = stale
      BY <1>2, <1>4, <2>1, <2>2, <3>2 DEF ClosedIsReplaced
    <3> QED BY <1>2, <2>2, <3>1, <3>2
  <2>3. CASE l # k
    <3>1. pool'[l] = pool[l] /\ pool[l].session \notin stale /\ pool[l].session \in 1 .. made
      BY <1>2, <1>4, <2>3 DEF ClosedIsReplaced, PoolApart
    <3>2. pool[l].session # x
      BY <1>2, <1>4, <2>3, <3>1 DEF PoolApart
    <3> QED BY <1>2, <3>1, <3>2
  <2> QED BY <2>2, <2>3
<1>23. NullApart'
  <2>1. ASSUME NEW u \in Threads, NEW i \in DOMAIN stack'[u], stack'[u][i].at = "grant"
        PROVE  \/ stack'[u][i].s = x /\ stack'[u][i].key = k
               \/ \E j \in DOMAIN stack[u] : stack'[u][i] = stack[u][j]
    <3>1. \/ u = t /\ i \in DOMAIN fs /\ stack'[u][i] = fs[i]
          \/ \E j \in DOMAIN stack[u] : stack'[u][i] = stack[u][j] /\ (u = t => j > d)
      BY <1>4, <1>9, <1>10, MovedFrames
    <3> QED BY <1>7, <1>9, <3>1
  <2>2. NullKey \in Keys
    BY DEF Keys
  <2>3. ASSUME NEW s \in 1 .. made', s \notin 1 .. made
        PROVE  /\ s = made + 1 /\ s \in Sessions /\ clientNum'[s] >= 0
               /\ \A c \in Clients : clientSession'[c] # s
               /\ \A l \in Keys : pool[l] = None \/ pool[l].session # s
               /\ \A u \in Threads : \A j \in DOMAIN stack[u] :
                      stack[u][j].at = "grant" => stack[u][j].s # s
    <3>1. s = made + 1 /\ s \in Sessions /\ s > made
      BY <1>2, <1>4, <2>3
    <3>2. clientNum'[s] >= 0
      BY <1>3, <1>4, <3>1 DEF Nested
    <3>3. \A c \in Clients : clientSession'[c] # s
      BY <1>3, <1>4, <3>1 DEF Nested, clients
    <3>4. \A l \in Keys : pool[l] = None \/ pool[l].session # s
      BY <1>4, <2>3 DEF PoolApart
    <3>5. \A u \in Threads : \A j \in DOMAIN stack[u] :
                      stack[u][j].at = "grant" => stack[u][j].s # s
      BY <2>3 DEF Inv, FramesTruthful, Truthful, Sessionless
    <3> QED BY <3>1, <3>2, <3>3, <3>4, <3>5
  <2> SUFFICES ASSUME NEW s \in 1 .. made', ForNull(s)'
               PROVE  /\ clientNum'[s] >= 0
                      /\ \A c \in Clients : clientSession'[c] # s
                      /\ \A l \in Keys \ {NullKey} : pool'[l] = None \/ pool'[l].session # s
                      /\ \A u \in Threads : \A i \in DOMAIN stack'[u] :
                            stack'[u][i].at = "grant" /\ stack'[u][i].key # NullKey
                              => stack'[u][i].s # s
    BY DEF NullApart
  <2>4. ForNull(s) \/ (k = NullKey /\ s \in {x, made + 1})
    <3>1. CASE pool'[NullKey] # None /\ pool'[NullKey].session = s
      <4>1. CASE k = NullKey
        BY <1>2, <3>1, <4>1
      <4>2. CASE k # NullKey
        BY <1>2, <2>2, <3>1, <4>2 DEF ForNull
      <4> QED BY <4>1, <4>2
    <3>2. CASE \E u \in Threads : \E i \in DOMAIN stack'[u] :
                  stack'[u][i].at = "grant" /\ stack'[u][i].key = NullKey /\ stack'[u][i].s = s
      <4>4. PICK u \in Threads : \E i \in DOMAIN stack'[u] :
                  stack'[u][i].at = "grant" /\ stack'[u][i].key = NullKey /\ stack'[u][i].s = s
        BY <3>2
      <4>1. PICK i \in DOMAIN stack'[u] :
                  stack'[u][i].at = "grant" /\ stack'[u][i].key = NullKey /\ stack'[u][i].s = s
        BY <4>4
      <4>2. CASE stack'[u][i].s = x /\ stack'[u][i].key = k
        BY <4>1, <4>2
      <4>3. CASE \E j \in DOMAIN stack[u] : stack'[u][i] = stack[u][j]
        BY <4>1, <4>3 DEF ForNull
      <4> QED BY <2>1, <4>1, <4>2, <4>3
    <3> QED BY <3>1, <3>2 DEF ForNull
  <2>5. CASE s \in 1 .. made
    <3>1. ForNull(s)
      <4>1. CASE k = NullKey /\ s = x
        BY <1>2, <1>4, <2>5, <4>1 DEF ForNull
      <4> QED BY <1>4, <2>4, <2>5, <4>1
    <3>2. /\ clientNum[s] >= 0
          /\ \A c \in Clients : clientSession[c] # s
          /\ \A l \in Keys \ {NullKey} : pool[l] = None \/ pool[l].session # s
          /\ \A u \in Threads : \A i \in DOMAIN stack[u] :
                stack[u][i].at = "grant" /\ stack[u][i].key # NullKey => stack[u][i].s # s
      BY <1>4, <2>5, <3>1 DEF NullApart
    <3>3. s # made + 1
      BY <1>4, <2>5
    <3>4. k # NullKey => x # s
      BY <1>2, <3>2, <3>3
    <3>5. \A l \in Keys \ {NullKey} : pool'[l] = None \/ pool'[l].session # s
      <4> TAKE l \in Keys \ {NullKey}
      <4>1. CASE l = k
        BY <1>2, <3>3, <3>4, <4>1
      <4>2. CASE l # k
        BY <1>2, <3>2, <4>2
      <4> QED BY <4>1, <4>2
    <3>6. ASSUME NEW u \in Threads, NEW i \in DOMAIN stack'[u],
                 stack'[u][i].at = "grant", stack'[u][i].key # NullKey
          PROVE  stack'[u][i].s # s
      BY <2>1, <3>2, <3>4, <3>6
    <3> QED BY <1>3, <3>2, <3>5, <3>6 DEF clients
  <2>6. CASE s \notin 1 .. made
    <3>1. /\ s = made + 1 /\ clientNum'[s] >= 0
          /\ \A c \in Clients : clientSession'[c] # s
          /\ \A l \in Keys : pool[l] = None \/ pool[l].session # s
          /\ \A u \in Threads : \A j \in DOMAIN stack[u] :
                      stack[u][j].at = "grant" => stack[u][j].s # s
      BY <2>3, <2>6
    <3>2. ~ForNull(s)
      BY <2>2, <3>1 DEF ForNull
    <3>3. k = NullKey
      BY <2>4, <3>2
    <3>4. \A l \in Keys \ {NullKey} : pool'[l] = None \/ pool'[l].session # s
      BY <1>2, <3>1, <3>3
    <3>5. ASSUME NEW u \in Threads, NEW i \in DOMAIN stack'[u],
                 stack'[u][i].at = "grant", stack'[u][i].key # NullKey
          PROVE  stack'[u][i].s # s
      BY <2>1, <3>1, <3>3, <3>5
    <3> QED BY <3>1, <3>4, <3>5
  <2> QED BY <2>5, <2>6
<1> QED BY <1>14, <1>15, <1>16, <1>17, <1>18, <1>19, <1>20, <1>21, <1>22, <1>23 DEF Inv

-----------------------------------------------------------------------------
(* The invariant holds, and what follows from it.                          *)

LEMMA InitInv == ASSUME Init PROVE Inv
<1>1. /\ stack = [t \in Threads |-> <<>>] /\ made = 0 /\ <<>> \in Seq(Frames)
      /\ \A t \in Threads : DOMAIN stack[t] = {}
  BY EmptySeq DEF Init
<1>2. TypeOK
  <2>1. notices \in Seq(Sessions)
    BY EmptySeq DEF Init
  <2>2. stack \in [Threads -> Seq(Frames)]
    BY <1>1
  <2>3. /\ pool \in [Keys -> [session : Sessions, left : 1 .. MaxShares] \cup {None}]
        /\ made \in 0 .. MaxSessions /\ clientSession \in [Clients -> 0 .. MaxSessions]
        /\ closes \in [Clients -> 0 .. MaxCloses]
    BY LifeBoundsAssumption DEF Init
  <2>4. /\ clientNum \in [Sessions -> Int] /\ mapInitSeq \in [Sessions -> Nat]
        /\ sends \in [Clients -> Nat]
    BY DEF Init
  <2> QED BY <2>1, <2>2, <2>3, <2>4 DEF Init, TypeOK
<1>3. Nested
  BY EmptySeq DEF Init, Nested
<1>4. FramesTruthful /\ Compared /\ RemovedIsClosed /\ OpenIsRegistered
  BY <1>1 DEF FramesTruthful, Compared, ComparedTo, RemovedIsClosed, ClosesFirst, OpenIsRegistered
<1>5. PoolApart /\ ClosedIsReplaced
  BY DEF Init, PoolApart, ClosedIsReplaced
<1>6. Running
  BY <1>1 DEF Init, Running, Threads
<1>7. NullApart /\ UnusedIsDue
  BY <1>1 DEF Init, NullApart, UnusedIsDue
<1> QED BY <1>2, <1>3, <1>4, <1>5, <1>6, <1>7 DEF Inv

LEMMA StepInv == ASSUME Inv, [Next]_vars PROVE Inv'
<1>1. CASE \E t \in Threads : Work(t)
  <2>1. PICK t \in Threads : Work(t)
    BY <1>1
  <2> QED BY <2>1, LookupKeeps, GrantNullKeeps, CacheGetKeeps, CachePutKeeps, OverflowKeeps,
             NotifyKeeps, RemovedKeeps, CountKeeps, DropKeeps, TakeKeeps, RecountKeeps,
             CloseTestKeeps, CloseSetKeeps, RemoveKeeps, CheckFoundKeeps, CheckUnusedKeeps,
             CheckExpiredKeeps DEF Work
<1>2. CASE \E c \in Clients : \/ BeginSend(c) \/ GrantTo(c) \/ CheckStarted(c) \/ StartChecker(c)
                              \/ SendData(c) \/ CloseClient(c) \/ Collect(c) \/ Poll(c)
  BY <1>2, BeginSendKeeps, GrantToKeeps, CheckStartedKeeps, StartCheckerKeeps, SendDataKeeps,
     CloseClientKeeps, CollectKeeps, PollKeeps
<1>3. CASE \E s \in Sessions : EndOfMessage(s) \/ GrowOld(s)
  BY <1>3, EndOfMessageKeeps, GrowOldKeeps
<1>4. CASE UNCHANGED vars
  <2>1. UNCHANGED <<clientNum, isClose, logicalClose, mapInitSeq, young, hashMap, cache, notices,
                    clientSession, gone, sends, closes, gcQueue, isStart, checkers,
                    pool, made, stale, stack>>
    BY <1>4 DEF vars, sessions, tables, clients, checking, pooling
  <2>2. TypeOK' /\ Nested'
    BY <2>1 DEF Inv, TypeOK, Nested
  <2>3. FramesTruthful' /\ Compared'
    BY <2>1 DEF Inv, FramesTruthful, Compared
  <2>4. RemovedIsClosed' /\ OpenIsRegistered'
    BY <2>1 DEF Inv, RemovedIsClosed, ClosesFirst, OpenIsRegistered, Closing
  <2>5. PoolApart' /\ ClosedIsReplaced' /\ Running'
    BY <2>1 DEF Inv, PoolApart, ClosedIsReplaced, Running
  <2>6. NullApart' /\ UnusedIsDue'
    BY <2>1 DEF Inv, NullApart, ForNull, UnusedIsDue, Unused, Due
  <2> QED BY <2>2, <2>3, <2>4, <2>5, <2>6 DEF Inv
<1> QED BY <1>1, <1>2, <1>3, <1>4 DEF Next

(* The inductive invariant, whatever threads, cache and collector do.      *)
THEOREM LifeInvariant == Spec => []Inv
BY InitInv, StepInv, PTL DEF Spec

(* Every variable keeps its type in sessions, tables, pool and stacks.     *)
THEOREM LifeTypes == Spec => []TypeOK
<1>1. Inv => TypeOK
  BY DEF Inv
<1> QED BY <1>1, LifeInvariant, PTL

(* Whoever closes (ClientSession.close), the listener, the checker or the  *)
(* worker, closes only what CacheListener.onRemoval closed logically, and  *)
(* that never is a session less than 30 s old.                             *)
THEOREM YoungAreOpen == Spec => []YoungStaysOpen
<1>1. Inv => YoungStaysOpen
  BY DEF Inv, Nested, YoungStaysOpen
<1> QED BY <1>1, LifeInvariant, PTL

(* Whatever takes a session from ClientManager.hashMap closes it or stands *)
(* on the frame that does.                                                 *)
THEOREM OpenAreRegistered == Spec => []OpenIsRegistered
<1>1. Inv => OpenIsRegistered
  BY DEF Inv
<1> QED BY <1>1, LifeInvariant, PTL

(* ClientSessionsPools.getSession never hands a session out again after it *)
(* handed it out closed: no entry of the pool, under any key, is one.      *)
THEOREM ClosedHandedOutOnce == Spec => ClosedGrantedOnce
<1> DEFINE Once == \A t \in Threads : Lookup(t) => Head(stack'[t]).s \notin stale
<1>1. Inv => Once
  <2> SUFFICES ASSUME Inv, NEW t \in Threads, Lookup(t) PROVE Head(stack'[t]).s \notin stale
    OBVIOUS
  <2>1. PICK k : k = Head(stack[t]).key
    OBVIOUS
  <2>2. PICK x \in 1 .. made' : LookupGives(t, k, x)
    BY <2>1, LookupOutcome
  <2>3. x \notin stale
    <3>1. stale \subseteq 1 .. made /\ made \in Nat /\ ClosedIsReplaced
      BY DEF Inv, Nested, TypeOK
    <3> QED BY <2>2, <3>1 DEF ClosedIsReplaced, LookupGives
  <2>4. Head(stack'[t]).s = x
    <3>1. stack[t] \in Seq(Frames) /\ stack[t] # <<>> /\ TypeOK
      BY TopFrame DEF Lookup, Inv
    <3>2. Tail(stack[t]) \in Seq(Frames)
      BY <3>1, HeadTailProperties
    <3>3. PICK g : g = [at |-> "grant", s |-> x, key |-> k]
      OBVIOUS
    <3>4. stack'[t] = <<g>> \o Tail(stack[t])
      BY <2>2, <3>1, <3>3 DEF Continue, TypeOK, LookupGives
    <3>5. Head(stack'[t]) = g
      BY <3>2, <3>4
    <3> QED BY <3>3, <3>5
  <2> QED BY <2>3, <2>4
<1>2. Inv /\ [Next]_vars => [Once]_vars
  BY <1>1
<1>3. Spec => [][Next]_vars
  BY DEF Spec
<1>4. Spec => [][Once]_vars
  BY <1>2, <1>3, LifeInvariant, PTL
<1> QED BY <1>4 DEF ClosedGrantedOnce

(* Between the expiry listener and the checker no session is forgotten     *)
(* that expired, was given back by all and whose clients were collected.   *)
THEOREM UnusedAreClosed == Spec => []UnusedIsClosed
<1>1. Inv => UnusedIsClosed
  <2> SUFFICES ASSUME Inv, AtRest, NEW s \in logicalClose, Unused(s) PROVE s \in isClose
    BY DEF UnusedIsClosed
  <2>1. s \in isClose \/ Due(s)
    BY DEF Inv, UnusedIsDue
  <2>2. ~Due(s)
    BY EmptySeq DEF Due, AtRest
  <2> QED BY <2>1, <2>2
<1> QED BY <1>1, LifeInvariant, PTL
==============================================================================
