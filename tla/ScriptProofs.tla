---------------------------- MODULE ScriptProofs -----------------------------
(***************************************************************************)
(* The safety properties of what runs scripts (ScriptTasks) and of the UI  *)
(* they build (ChatUi), for any values of their constants.                 *)
(*                                                                         *)
(* For the tasks, the inductive invariant adds to the properties where     *)
(* each waiting task waits: a receiver on a channel, an awaiter on a       *)
(* handle.                                                                 *)
(*                                                                         *)
(* For the UI it says of every node what the frames on their way to the    *)
(* client will make of it once all of them were played: what the document  *)
(* holds.  A frame that comes late may still be sorted before others or    *)
(* cancel them, so it also says which of the frames that name a node will  *)
(* be shown last, and what undoes those that were drawn for later.         *)
(***************************************************************************)
EXTENDS ScriptTasks, ChatUi, WellFoundedInduction, SequenceTheorems, TLAPS

-----------------------------------------------------------------------------
(* Tasks and channels.                                                     *)

\* A task in recv waits on a channel.
WaitsOnChannel ==
    \A t \in Tasks : phase[t] \in {"locking", "receiving"} => on[t] \in Chans

\* ReceiverLock and OnceInOrder, one channel at a time.
LockOf(c) ==
    /\ rx[c] = NoTask => line[c] = <<>>
    /\ rx[c] # NoTask => phase[rx[c]] = "receiving" /\ on[rx[c]] = c
    /\ \A i \in 1 .. Len(line[c]) :
          /\ line[c][i] # rx[c]
          /\ phase[line[c][i]] = "receiving" /\ on[line[c][i]] = c
          /\ \A j \in 1 .. Len(line[c]) : line[c][i] = line[c][j] => i = j
    /\ \A t \in Tasks : phase[t] = "receiving" /\ on[t] = c =>
          t = rx[c] \/ \E i \in 1 .. Len(line[c]) : line[c][i] = t
OrderOf(c) == got[c] \o queue[c] = [i \in 1 .. sent[c] |-> i]

\* The driver's queue holds each task that waits for it once.
QueuedOnce ==
    \A i \in 1 .. Len(pending) :
        /\ phase[pending[i]] = "queued"
        /\ \A j \in 1 .. Len(pending) : pending[i] = pending[j] => i = j

IInv ==
    /\ TypeOK
    /\ WaitsOnChannel
    /\ QueuedOnce
    /\ \A c \in Chans : LockOf(c) /\ OrderOf(c)

\* What an action that is not about the driver's queue leaves alone.
KeepsQueue ==
    /\ UNCHANGED pending
    /\ \A u \in Asyncs : phase[u] = "queued" => phase'[u] = "queued"

\* What an action that has nothing to do with receiving leaves alone.
KeepsReceivers ==
    /\ UNCHANGED <<rx, line>>
    /\ \A t \in Tasks :
         /\ phase'[t] = "receiving" <=> phase[t] = "receiving"
         /\ phase[t] = "receiving" => on'[t] = on[t]

-----------------------------------------------------------------------------
(* Sequences.                                                              *)

LEMMA ConcatOfThree ==
    \A s, t, u \in Seq(Nat) : (s \o t) \o u = s \o (t \o u)
BY ConcatAssociative

\* The first n sends, in order.
UpTo(n) == [i \in 1 .. n |-> i]

\* A message that is sent goes to the end of what was sent.
LEMMA AppendKeepsOrder ==
    ASSUME NEW s \in Seq(Nat), NEW q \in Seq(Nat), NEW n \in Nat, s \o q = UpTo(n)
    PROVE  s \o Append(q, n + 1) = UpTo(n + 1)
<1>1. n + 1 \in Nat /\ <<n + 1>> \in Seq(Nat)
  OBVIOUS
<1>2. s \o Append(q, n + 1) = s \o (q \o <<n + 1>>)
  BY <1>1, AppendIsConcat
<1>3. s \o (q \o <<n + 1>>) = (s \o q) \o <<n + 1>>
  BY <1>1, ConcatOfThree, Zenon
<1>4. UpTo(n) \in Seq(Nat)
  BY DEF UpTo
<1>5. UpTo(n) \o <<n + 1>> = Append(UpTo(n), n + 1)
  BY <1>1, <1>4, AppendIsConcat
<1>6. Append(UpTo(n), n + 1) = UpTo(n + 1)
  BY DEF UpTo
<1> QED
  BY <1>2, <1>3, <1>5, <1>6

\* A message that is received moves over, and nothing else changes.
LEMMA TakeKeepsOrder ==
    ASSUME NEW s \in Seq(Nat), NEW q \in Seq(Nat), q # <<>>
    PROVE  Append(s, Head(q)) \o Tail(q) = s \o q
<1>1. Head(q) \in Nat /\ <<Head(q)>> \in Seq(Nat) /\ Tail(q) \in Seq(Nat)
  OBVIOUS
<1>2. Append(s, Head(q)) = s \o <<Head(q)>>
  BY <1>1, AppendIsConcat
<1>3. (s \o <<Head(q)>>) \o Tail(q) = s \o (<<Head(q)>> \o Tail(q))
  BY <1>1, ConcatAssociative
<1>4. <<Head(q)>> \o Tail(q) = q
  OBVIOUS
<1> QED
  BY <1>2, <1>3, <1>4

\* Leaving a line takes one place out of it and keeps the others.
LEMMA WithoutOne ==
    ASSUME NEW l \in Seq(Tasks), NEW t, NEW k \in 1 .. Len(l), l[k] = t,
           \A i, j \in 1 .. Len(l) : l[i] = l[j] => i = j
    PROVE  /\ Without(l, t) \in Seq(Tasks)
           /\ Len(Without(l, t)) = Len(l) - 1
           /\ \A i \in 1 .. Len(l) - 1 :
                Without(l, t)[i] = IF i < k THEN l[i] ELSE l[i + 1]
<1>1. (CHOOSE i \in 1 .. Len(l) : l[i] = t) = k
  OBVIOUS
<1> DEFINE w == [i \in 1 .. Len(l) - 1 |-> IF i < k THEN l[i] ELSE l[i + 1]]
<1>2. Without(l, t) = w
  BY <1>1 DEF Without
<1>3. Len(l) - 1 \in Nat
  OBVIOUS
<1>4. \A i \in 1 .. Len(l) - 1 : (IF i < k THEN l[i] ELSE l[i + 1]) \in Tasks
  OBVIOUS
<1>5. w \in Seq(Tasks) /\ Len(w) = Len(l) - 1
  BY <1>3, <1>4
<1> QED
  BY <1>2, <1>5

-----------------------------------------------------------------------------
(* Types.                                                                  *)

LEMMA InitIInv == Init => IInv
<1> SUFFICES ASSUME Init PROVE IInv
  OBVIOUS
<1> USE TasksAreApart, BoundsAreNat
<1>1. TypeOK
  BY DEF Init, TypeOK, Tasks, Phases
<1>2. WaitsOnChannel
  BY DEF Init, WaitsOnChannel
<1>3. \A c \in Chans : LockOf(c)
  BY DEF Init, LockOf
<1>4. ASSUME NEW c \in Chans PROVE OrderOf(c)
  <2>1. got[c] \o queue[c] = <<>> /\ sent[c] = 0
    BY DEF Init
  <2>2. [i \in 1 .. 0 |-> i] = <<>>
    OBVIOUS
  <2> QED
    BY <2>1, <2>2 DEF OrderOf
<1>5. QueuedOnce
  BY DEF Init, QueuedOnce
<1> QED
  BY <1>1, <1>2, <1>3, <1>4, <1>5 DEF IInv

\* The end of a wait keeps the types.
LEMMA ReturnsType ==
    ASSUME TypeOK, NEW t \in Tasks, Returns(t)
    PROVE  phase' \in [Tasks -> Phases] /\ on' \in [Tasks -> Asyncs \cup Chans \cup {NoTask}]
BY DEF TypeOK, Returns, Phases

LEMMA YieldsType ==
    ASSUME TypeOK, NEW t \in Tasks, NEW to \in Phases,
           NEW w \in Asyncs \cup Chans \cup {NoTask}, Yields(t, to, w)
    PROVE  /\ lua' \in Tasks \cup {NoTask}
           /\ phase' \in [Tasks -> Phases]
           /\ on' \in [Tasks -> Asyncs \cup Chans \cup {NoTask}]
           /\ left' \in [Tasks -> 0 .. MaxYields]
<1>1. left[t] \in 0 .. MaxYields /\ left[t] > 0
  BY DEF TypeOK, Yields
<1>2. left[t] - 1 \in 0 .. MaxYields
  BY <1>1, BoundsAreNat
<1> QED
  BY <1>2 DEF TypeOK, Yields, Phases

LEMMA UnlockType ==
    ASSUME TypeOK, NEW c \in Chans, UnlockRx(c)
    PROVE  rx' \in [Chans -> Tasks \cup {NoTask}] /\ line' \in [Chans -> Seq(Tasks)]
<1>1. line[c] \in Seq(Tasks) /\ rx \in [Chans -> Tasks \cup {NoTask}]
      /\ line \in [Chans -> Seq(Tasks)]
  BY DEF TypeOK
<1>2. line[c] # <<>> => Head(line[c]) \in Tasks /\ Tail(line[c]) \in Seq(Tasks)
  BY <1>1
<1> QED
  BY <1>1, <1>2 DEF UnlockRx

LEMMA TakeType ==
    ASSUME TypeOK, NEW c \in Chans, queue[c] # <<>>, Take(c)
    PROVE  queue' \in [Chans -> Seq(Nat \ {0})] /\ got' \in [Chans -> Seq(Nat \ {0})]
<1>1. queue[c] \in Seq(Nat \ {0}) /\ got[c] \in Seq(Nat \ {0})
  BY DEF TypeOK
<1>2. Append(got[c], Head(queue[c])) \in Seq(Nat \ {0}) /\ Tail(queue[c]) \in Seq(Nat \ {0})
  BY <1>1
<1> QED
  BY <1>2 DEF TypeOK, Take

-----------------------------------------------------------------------------
(* Steps that have nothing to do with messages.                            *)

\* What such a step leaves of the invariant.
Plain ==
    /\ TypeOK' /\ WaitsOnChannel'
    /\ KeepsReceivers
    /\ UNCHANGED <<queue, sent, got>>

LEMMA LockKept ==
    ASSUME TypeOK, KeepsReceivers, NEW c \in Chans, LockOf(c)
    PROVE  LockOf(c)'
<1>1. rx'[c] = rx[c] /\ line'[c] = line[c]
  BY DEF KeepsReceivers
<1>2. rx[c] \in Tasks \cup {NoTask} /\ line[c] \in Seq(Tasks)
  BY DEF TypeOK
<1>3. \A i \in 1 .. Len(line[c]) : line[c][i] \in Tasks
  BY <1>2
<1>4. \A t \in Tasks : /\ phase'[t] = "receiving" <=> phase[t] = "receiving"
                       /\ phase[t] = "receiving" => on'[t] = on[t]
  BY DEF KeepsReceivers
<1> QED
  BY <1>1, <1>2, <1>3, <1>4 DEF LockOf

LEMMA PlainKeeps ==
    ASSUME IInv, Plain, QueuedOnce' PROVE IInv'
<1>1. \A c \in Chans : LockOf(c)'
  BY LockKept DEF IInv, Plain
<1>2. \A c \in Chans : OrderOf(c)'
  BY DEF IInv, Plain, OrderOf
<1> QED
  BY <1>1, <1>2 DEF IInv, Plain

LEMMA TurnsArePlain ==
    ASSUME IInv, NEW t \in Tasks,
           \/ CallHandler(t) \/ Resume(t) \/ Perform(t) \/ Performed(t) \/ Finish(t)
    PROVE  Plain
<1> USE DEF IInv, Plain, KeepsReceivers, WaitsOnChannel, chanVars, handleVars
<1>1. CASE CallHandler(t)
  BY <1>1 DEF CallHandler, TypeOK, Phases
<1>2. CASE Resume(t)
  BY <1>2 DEF Resume, TypeOK, Phases
<1>3. CASE Perform(t)
  <2>1. "io" \in Phases /\ Yields(t, "io", NoTask)
    BY <1>3 DEF Perform, Phases
  <2>2. TypeOK'
    BY <1>3, <2>1, YieldsType DEF Perform, TypeOK
  <2> QED
    BY <1>3, <2>1, <2>2 DEF Perform, Yields, InStep, TypeOK
<1>4. CASE Performed(t)
  <2>1. TypeOK'
    BY <1>4, ReturnsType DEF Performed, TypeOK
  <2> QED
    BY <1>4, <2>1 DEF Performed, Returns, TypeOK
<1>5. CASE Finish(t)
  <2>1. TypeOK'
    BY <1>5 DEF Finish, TypeOK, Phases
  <2> QED
    BY <1>5, <2>1 DEF Finish, InStep, TypeOK
<1> QED
  BY <1>1, <1>2, <1>3, <1>4, <1>5

LEMMA WaitingIsPlain ==
    ASSUME IInv, NEW t \in Tasks,
           \/ Register(t) \/ ReadHandle(t) \/ Wake(t) \/ Settle(t) \/ NotifyWaiters(t)
           \/ \E u \in Asyncs : Spawn(t, u) \/ Await(t, u)
    PROVE  Plain
<1> USE DEF IInv, Plain, KeepsReceivers, WaitsOnChannel, chanVars, handleVars
<1>1. CASE Register(t)
  BY <1>1 DEF Register, TypeOK, Phases
<1>2. CASE ReadHandle(t)
  <2>1. TypeOK'
    BY <1>2, ReturnsType DEF ReadHandle, TypeOK, Phases
  <2> QED
    BY <1>2, <2>1 DEF ReadHandle, Returns, TypeOK
<1>3. CASE Wake(t)
  BY <1>3 DEF Wake, TypeOK, Phases
<1>4. CASE Settle(t)
  BY <1>4 DEF Settle, TypeOK, Phases
<1>5. CASE NotifyWaiters(t)
  BY <1>5 DEF NotifyWaiters, Woken, Registered, TypeOK, Phases
<1>6. ASSUME NEW u \in Asyncs, Spawn(t, u) PROVE Plain
  BY <1>6 DEF Spawn, TypeOK, Phases, Tasks
<1>7. ASSUME NEW u \in Asyncs, Await(t, u) PROVE Plain
  <2>1. "register" \in Phases /\ Yields(t, "register", u)
    BY <1>7 DEF Await, Phases
  <2>2. TypeOK'
    BY <1>7, <2>1, YieldsType DEF Await, TypeOK
  <2> QED
    BY <1>7, <2>1, <2>2 DEF Await, Yields, InStep, TypeOK
<1> QED
  BY <1>1, <1>2, <1>3, <1>4, <1>5, <1>6, <1>7

-----------------------------------------------------------------------------
(* The driver's queue.                                                     *)

LEMMA QueueKept ==
    ASSUME TypeOK, QueuedOnce, KeepsQueue PROVE QueuedOnce'
<1>1. pending' = pending /\ pending \in Seq(Asyncs)
  BY DEF KeepsQueue, TypeOK
<1>2. \A i \in 1 .. Len(pending) : pending[i] \in Asyncs
  BY <1>1
<1> QED
  BY <1>1, <1>2 DEF KeepsQueue, QueuedOnce

LEMMA SpawnQueues ==
    ASSUME IInv, NEW t \in Tasks, NEW u \in Asyncs, Spawn(t, u)
    PROVE  QueuedOnce'
<1>1. /\ pending \in Seq(Asyncs) /\ phase \in [Tasks -> Phases]
      /\ pending' = Append(pending, u) /\ phase' = [phase EXCEPT ![u] = "queued"]
      /\ phase[u] = "unborn" /\ u \in Tasks
  BY DEF IInv, TypeOK, Spawn, Tasks
<1>2. \A i \in 1 .. Len(pending) : pending[i] # u /\ pending[i] \in Tasks
  BY <1>1 DEF IInv, QueuedOnce, Tasks
<1>3. Len(pending') = Len(pending) + 1 /\ Len(pending) \in Nat
  BY <1>1
<1>4. \A i \in 1 .. Len(pending') :
        pending'[i] = IF i = Len(pending) + 1 THEN u ELSE pending[i]
  BY <1>1
<1>5. \A i \in 1 .. Len(pending') : i = Len(pending) + 1 \/ i \in 1 .. Len(pending)
  BY <1>3
<1> QED
  BY <1>1, <1>2, <1>3, <1>4, <1>5 DEF IInv, QueuedOnce

LEMMA StartTakesHead ==
    ASSUME IInv, StartQueued
    PROVE  /\ Head(pending) \in Asyncs /\ Tail(pending) \in Seq(Asyncs)
           /\ phase[Head(pending)] = "queued"
           /\ QueuedOnce'
<1>1. /\ pending \in Seq(Asyncs) /\ pending # <<>> /\ phase \in [Tasks -> Phases]
      /\ pending' = Tail(pending) /\ phase' = [phase EXCEPT ![Head(pending)] = "ready"]
  BY DEF IInv, TypeOK, StartQueued
<1>2. /\ Head(pending) = pending[1] /\ 1 \in 1 .. Len(pending) /\ Len(pending) \in Nat
      /\ Len(Tail(pending)) = Len(pending) - 1
      /\ \A i \in 1 .. Len(pending) - 1 : Tail(pending)[i] = pending[i + 1]
  BY <1>1
<1>3. \A i \in 1 .. Len(pending) : pending[i] \in Asyncs
  BY <1>1
<1>4. \A i \in 1 .. Len(pending) - 1 :
        i + 1 \in 1 .. Len(pending) /\ i + 1 # 1
  BY <1>2
<1>5. \A i \in 1 .. Len(pending) - 1 :
        pending[i + 1] # pending[1] /\ phase[pending[i + 1]] = "queued"
  BY <1>2, <1>4 DEF IInv, QueuedOnce
<1>6. \A i, j \in 1 .. Len(pending) - 1 : pending[i + 1] = pending[j + 1] => i = j
  BY <1>2, <1>4 DEF IInv, QueuedOnce
<1>7. QueuedOnce'
  BY <1>1, <1>2, <1>3, <1>4, <1>5, <1>6 DEF QueuedOnce, Tasks
<1> QED
  BY <1>1, <1>2, <1>3, <1>7 DEF IInv, QueuedOnce

LEMMA OthersKeepQueue ==
    ASSUME IInv, NEW t \in Tasks,
           \/ CallHandler(t) \/ Runtime(t) \/ Finish(t) \/ Abort(t) \/ Perform(t)
           \/ \E u \in Asyncs : Await(t, u)
           \/ \E c \in Chans : Send(t, c) \/ Close(t, c) \/ Recv(t, c) \/ TryRecv(t, c)
    PROVE  KeepsQueue
<1>1. CASE CallHandler(t) \/ Runtime(t)
  BY <1>1, TasksAreApart
     DEF CallHandler, Runtime, Resume, Performed, Register, ReadHandle, Wake, Settle,
         NotifyWaiters, LockRx, Deliver, ReportClosed, Returns, KeepsQueue, IInv,
         TypeOK, Tasks
<1>2. CASE Finish(t) \/ Abort(t) \/ Perform(t)
  BY <1>2 DEF Finish, Abort, Perform, Yields, InStep, KeepsQueue, IInv, TypeOK, Tasks
<1>3. CASE \E u \in Asyncs : Await(t, u)
  BY <1>3 DEF Await, Yields, InStep, KeepsQueue, IInv, TypeOK, Tasks
<1>4. CASE \E c \in Chans : Send(t, c) \/ Close(t, c) \/ Recv(t, c) \/ TryRecv(t, c)
  BY <1>4 DEF Send, Close, Recv, TryRecv, Yields, InStep, KeepsQueue, IInv, TypeOK, Tasks
<1> QED
  BY <1>1, <1>2, <1>3, <1>4

LEMMA DriverIsPlain ==
    ASSUME IInv, StartQueued \/ ShutdownAsync
    PROVE  Plain
<1> USE DEF IInv, Plain, KeepsReceivers, WaitsOnChannel, chanVars, handleVars
<1>1. CASE StartQueued
  <2>2. /\ Head(pending) \in Asyncs /\ Tail(pending) \in Seq(Asyncs)
        /\ phase[Head(pending)] = "queued"
    BY <1>1, StartTakesHead
  <2>3. phase' = [phase EXCEPT ![Head(pending)] = "ready"] /\ pending' = Tail(pending)
    BY <1>1 DEF StartQueued
  <2>4. TypeOK'
    BY <1>1, <2>2, <2>3 DEF StartQueued, TypeOK, Phases, Tasks
  <2> QED
    BY <1>1, <2>2, <2>3, <2>4 DEF StartQueued, TypeOK, Tasks
<1>2. CASE ShutdownAsync
  BY <1>2 DEF ShutdownAsync, TypeOK
<1> QED
  BY <1>1, <1>2

-----------------------------------------------------------------------------
(* The receiver lock.                                                      *)

\* A task leaves recv: it alone changes, and it was there.
Leaves(t) ==
    /\ phase[t] = "receiving" /\ phase'[t] # "receiving"
    /\ \A s \in Tasks \ {t} : phase'[s] = phase[s] /\ on'[s] = on[s]

\* The other channels do not notice.
LEMMA OtherLocksKept ==
    ASSUME TypeOK, NEW t \in Tasks, NEW c \in Chans, on[t] = c, Leaves(t),
           NEW d \in Chans, d # c, LockOf(d), rx'[d] = rx[d], line'[d] = line[d]
    PROVE  LockOf(d)'
<1>1. rx[d] \in Tasks \cup {NoTask} /\ line[d] \in Seq(Tasks)
  BY DEF TypeOK
<1>2. \A i \in 1 .. Len(line[d]) : line[d][i] \in Tasks
  BY <1>1
<1>3. rx[d] # t \/ rx[d] = NoTask
  BY DEF LockOf
<1>4. \A i \in 1 .. Len(line[d]) : line[d][i] # t
  BY DEF LockOf
<1> QED
  BY <1>1, <1>2, <1>3, <1>4 DEF LockOf, Leaves

\* The holder leaves and the first in line takes over.
LEMMA HolderLeaves ==
    ASSUME TypeOK, NEW t \in Tasks, NEW c \in Chans, on[t] = c, Leaves(t),
           rx[c] = t, LockOf(c), UnlockRx(c)
    PROVE  LockOf(c)'
<1>1. /\ rx \in [Chans -> Tasks \cup {NoTask}] /\ line \in [Chans -> Seq(Tasks)]
      /\ line[c] \in Seq(Tasks) /\ Len(line[c]) \in Nat /\ t # NoTask
  BY TasksAreApart DEF TypeOK
<1>2. \A i \in 1 .. Len(line[c]) : line[c][i] \in Tasks /\ line[c][i] # t
  BY <1>1 DEF LockOf
<1>3. CASE line[c] = <<>>
  <2>1. rx'[c] = NoTask /\ line'[c] = <<>>
    BY <1>1, <1>3 DEF UnlockRx
  <2>2. ASSUME NEW s \in Tasks, phase'[s] = "receiving", on'[s] = c PROVE FALSE
    <3>1. s # t /\ phase[s] = "receiving" /\ on[s] = c
      BY <2>2 DEF Leaves
    <3> QED
      BY <3>1, <1>3 DEF LockOf
  <2> QED
    BY <2>1, <2>2 DEF LockOf
<1>4. CASE line[c] # <<>>
  <2>1. /\ rx'[c] = line[c][1] /\ line'[c] = Tail(line[c])
        /\ 1 \in 1 .. Len(line[c])
        /\ Len(line'[c]) = Len(line[c]) - 1
        /\ \A i \in 1 .. Len(line[c]) - 1 : line'[c][i] = line[c][i + 1]
    BY <1>1, <1>4 DEF UnlockRx
  <2>2. \A i \in 1 .. Len(line[c]) - 1 : i + 1 \in 1 .. Len(line[c]) /\ i + 1 # 1
    BY <1>1
  <2>3. /\ rx'[c] \in Tasks /\ phase'[rx'[c]] = "receiving" /\ on'[rx'[c]] = c
    BY <1>2, <2>1 DEF LockOf, Leaves
  <2>7. \A a, b \in 1 .. Len(line[c]) : line[c][a] = line[c][b] => a = b
    BY DEF LockOf
  <2>4. ASSUME NEW i \in 1 .. Len(line'[c])
        PROVE  /\ line'[c][i] # rx'[c]
               /\ phase'[line'[c][i]] = "receiving" /\ on'[line'[c][i]] = c
               /\ \A j \in 1 .. Len(line'[c]) : line'[c][i] = line'[c][j] => i = j
    <3>1. i \in 1 .. Len(line[c]) - 1
      BY <2>1
    <3>2. line'[c][i] = line[c][i + 1] /\ i + 1 \in 1 .. Len(line[c]) /\ i + 1 # 1
      BY <2>1, <2>2, <3>1
    <3>3. line'[c][i] # rx'[c]
      BY <2>1, <3>2 DEF LockOf
    <3>4. phase'[line'[c][i]] = "receiving" /\ on'[line'[c][i]] = c
      BY <1>2, <3>2 DEF LockOf, Leaves
    <3>5. ASSUME NEW j \in 1 .. Len(line'[c]), line'[c][i] = line'[c][j] PROVE i = j
      <4>1. line'[c][j] = line[c][j + 1] /\ j + 1 \in 1 .. Len(line[c])
        BY <2>1, <2>2
      <4>2. i + 1 = j + 1
        BY <2>7, <3>2, <3>5, <4>1
      <4> QED
        BY <4>2
    <3> QED
      BY <3>3, <3>4, <3>5
  <2>5. ASSUME NEW s \in Tasks, phase'[s] = "receiving", on'[s] = c
        PROVE  s = rx'[c] \/ \E i \in 1 .. Len(line'[c]) : line'[c][i] = s
    <3>1. s # t /\ phase[s] = "receiving" /\ on[s] = c
      BY <2>5 DEF Leaves
    <3>2. PICK i \in 1 .. Len(line[c]) : line[c][i] = s
      BY <3>1 DEF LockOf
    <3>3. CASE i = 1
      BY <3>3, <3>2, <2>1
    <3>4. CASE i # 1
      <4>1. i - 1 \in 1 .. Len(line[c]) - 1 /\ (i - 1) + 1 = i
        BY <3>4, <1>1
      <4> QED
        BY <4>1, <3>2, <2>1
    <3> QED
      BY <3>3, <3>4
  <2>6. rx'[c] # NoTask
    BY <2>3, TasksAreApart
  <2> QED
    BY <2>3, <2>4, <2>5, <2>6 DEF LockOf
<1> QED
  BY <1>3, <1>4

\* One who stands in line leaves.
LEMMA WaiterLeaves ==
    ASSUME TypeOK, NEW t \in Tasks, NEW c \in Chans, on[t] = c, Leaves(t),
           rx[c] # t, LockOf(c), rx' = rx, line'[c] = Without(line[c], t)
    PROVE  LockOf(c)' /\ line'[c] \in Seq(Tasks)
<1>1. /\ rx[c] \in Tasks \cup {NoTask} /\ line[c] \in Seq(Tasks) /\ Len(line[c]) \in Nat
      /\ \A i \in 1 .. Len(line[c]) : line[c][i] \in Tasks
  BY DEF TypeOK
<1>2. PICK k \in 1 .. Len(line[c]) : line[c][k] = t
  BY DEF LockOf, Leaves
<1>3. \A i, j \in 1 .. Len(line[c]) : line[c][i] = line[c][j] => i = j
  BY DEF LockOf
<1>4. /\ line'[c] \in Seq(Tasks) /\ Len(line'[c]) = Len(line[c]) - 1
      /\ \A i \in 1 .. Len(line[c]) - 1 :
           line'[c][i] = IF i < k THEN line[c][i] ELSE line[c][i + 1]
  <2> DEFINE l == line[c]
  <2>1. l \in Seq(Tasks) /\ k \in 1 .. Len(l) /\ l[k] = t
        /\ \A i, j \in 1 .. Len(l) : l[i] = l[j] => i = j
    BY <1>1, <1>2, <1>3
  <2> HIDE DEF l
  <2>2. /\ Without(l, t) \in Seq(Tasks) /\ Len(Without(l, t)) = Len(l) - 1
        /\ \A i \in 1 .. Len(l) - 1 : Without(l, t)[i] = IF i < k THEN l[i] ELSE l[i + 1]
    BY <2>1, WithoutOne
  <2> QED
    BY <2>2 DEF l
<1> DEFINE at(i) == IF i < k THEN i ELSE i + 1
<1>5. \A i \in 1 .. Len(line[c]) - 1 :
        at(i) \in 1 .. Len(line[c]) /\ at(i) # k /\ line'[c][i] = line[c][at(i)]
  BY <1>1, <1>4
<1>6. \A i, j \in 1 .. Len(line[c]) - 1 : at(i) = at(j) => i = j
  BY <1>1
<1>7. \A m \in 1 .. Len(line[c]) : m # k =>
        \E i \in 1 .. Len(line[c]) - 1 : at(i) = m
  <2> SUFFICES ASSUME NEW m \in 1 .. Len(line[c]), m # k
               PROVE  \E i \in 1 .. Len(line[c]) - 1 : at(i) = m
    OBVIOUS
  <2>1. CASE m < k
    <3>1. m \in 1 .. Len(line[c]) - 1 /\ at(m) = m
      BY <2>1, <1>1, <1>2
    <3> QED
      BY <3>1
  <2>2. CASE m > k
    <3>1. m - 1 \in 1 .. Len(line[c]) - 1 /\ at(m - 1) = m
      BY <2>2, <1>1, <1>2
    <3> QED
      BY <3>1
  <2> QED
    BY <2>1, <2>2
<1> HIDE DEF at
<1>8. ASSUME NEW i \in 1 .. Len(line'[c])
      PROVE  /\ line'[c][i] # rx'[c]
             /\ phase'[line'[c][i]] = "receiving" /\ on'[line'[c][i]] = c
             /\ \A j \in 1 .. Len(line'[c]) : line'[c][i] = line'[c][j] => i = j
  <2>1. i \in 1 .. Len(line[c]) - 1 /\ line'[c][i] = line[c][at(i)]
        /\ at(i) \in 1 .. Len(line[c]) /\ at(i) # k
    BY <1>4, <1>5
  <2>2. line[c][at(i)] # t /\ line[c][at(i)] \in Tasks
    BY <1>1, <1>2, <1>3, <2>1
  <2>3. phase'[line'[c][i]] = "receiving" /\ on'[line'[c][i]] = c
    BY <2>1, <2>2 DEF LockOf, Leaves
  <2>4. line'[c][i] # rx'[c]
    BY <2>1 DEF LockOf
  <2>5. ASSUME NEW j \in 1 .. Len(line'[c]), line'[c][i] = line'[c][j] PROVE i = j
    <3>1. j \in 1 .. Len(line[c]) - 1 /\ line'[c][j] = line[c][at(j)]
          /\ at(j) \in 1 .. Len(line[c])
      BY <1>4, <1>5
    <3> QED
      BY <1>3, <1>6, <2>1, <2>5, <3>1
  <2> QED
    BY <2>3, <2>4, <2>5
<1>9. ASSUME NEW s \in Tasks, phase'[s] = "receiving", on'[s] = c
      PROVE  s = rx'[c] \/ \E i \in 1 .. Len(line'[c]) : line'[c][i] = s
  <2>1. s # t /\ phase[s] = "receiving" /\ on[s] = c
    BY <1>9 DEF Leaves
  <2>2. s = rx[c] \/ \E m \in 1 .. Len(line[c]) : line[c][m] = s
    BY <2>1 DEF LockOf
  <2>3. ASSUME NEW m \in 1 .. Len(line[c]), line[c][m] = s
        PROVE  \E i \in 1 .. Len(line'[c]) : line'[c][i] = s
    <3>1. m # k
      BY <1>2, <2>1, <2>3
    <3>2. PICK i \in 1 .. Len(line[c]) - 1 : at(i) = m
      BY <1>7, <3>1
    <3> QED
      BY <1>4, <1>5, <2>3, <3>2
  <2> QED
    BY <2>2, <2>3
<1>10. rx'[c] # NoTask
  BY <1>2 DEF LockOf
<1>11. rx'[c] # NoTask => phase'[rx'[c]] = "receiving" /\ on'[rx'[c]] = c
  BY <1>1 DEF LockOf, Leaves
<1> QED
  BY <1>4, <1>8, <1>9, <1>10, <1>11 DEF LockOf

\* A task that comes to recv takes the lock or the last place in line.
LEMMA NewcomerLocks ==
    ASSUME IInv, NEW t \in Tasks, LockRx(t), NEW d \in Chans
    PROVE  LockOf(d)'
<1> DEFINE c == on[t]
<1>1. /\ phase[t] = "locking" /\ c \in Chans /\ LockOf(c) /\ LockOf(d)
      /\ phase \in [Tasks -> Phases] /\ phase' = [phase EXCEPT ![t] = "receiving"]
      /\ on' = on
  BY DEF IInv, TypeOK, WaitsOnChannel, LockRx
<1>2. /\ rx \in [Chans -> Tasks \cup {NoTask}] /\ line \in [Chans -> Seq(Tasks)]
      /\ Len(line[c]) \in Nat /\ Len(line[d]) \in Nat /\ t # NoTask
  BY <1>1, TasksAreApart DEF IInv, TypeOK
<1>3. /\ \A i \in 1 .. Len(line[d]) : line[d][i] \in Tasks /\ line[d][i] # t
      /\ rx[d] # t
  BY <1>1, <1>2 DEF LockOf
<1>4. CASE d # c
  <2>1. rx'[d] = rx[d] /\ line'[d] = line[d]
    BY <1>1, <1>2, <1>4 DEF LockRx
  <2>2. rx'[d] # NoTask => phase'[rx'[d]] = "receiving" /\ on'[rx'[d]] = d
    BY <1>1, <1>2, <1>3, <2>1 DEF LockOf
  <2>3. \A i \in 1 .. Len(line[d]) :
           /\ line[d][i] # rx[d]
           /\ phase'[line[d][i]] = "receiving" /\ on'[line[d][i]] = d
           /\ \A j \in 1 .. Len(line[d]) : line[d][i] = line[d][j] => i = j
    BY <1>1, <1>3 DEF LockOf
  <2>4. \A s \in Tasks : phase'[s] = "receiving" /\ on'[s] = d =>
           phase[s] = "receiving" /\ on[s] = d
    BY <1>1, <1>4
  <2>5. \A s \in Tasks : phase'[s] = "receiving" /\ on'[s] = d =>
           s = rx[d] \/ \E i \in 1 .. Len(line[d]) : line[d][i] = s
    BY <1>1, <2>4 DEF LockOf
  <2>6. rx[d] = NoTask => line[d] = <<>>
    BY <1>1 DEF LockOf
  <2> QED
    BY <2>1, <2>2, <2>3, <2>5, <2>6 DEF LockOf
<1>5. CASE d = c /\ rx[c] = NoTask
  <2>1. rx'[d] = t /\ line'[d] = <<>>
    BY <1>1, <1>2, <1>5 DEF LockRx, LockOf
  <2>2. phase'[t] = "receiving" /\ on'[t] = d
    BY <1>1, <1>5
  <2>3. ASSUME NEW s \in Tasks, phase'[s] = "receiving", on'[s] = d PROVE s = t
    <3> SUFFICES ASSUME s # t PROVE FALSE
      OBVIOUS
    <3>1. phase[s] = "receiving" /\ on[s] = d
      BY <1>1, <2>3
    <3>2. rx[d] = NoTask /\ line[d] = <<>>
      BY <1>1, <1>5 DEF LockOf
    <3>3. s = rx[d] \/ \E i \in 1 .. Len(line[d]) : line[d][i] = s
      BY <1>1, <3>1 DEF LockOf
    <3> QED
      BY <3>2, <3>3, TasksAreApart
  <2> QED
    BY <1>2, <2>1, <2>2, <2>3 DEF LockOf
<1>6. CASE d = c /\ rx[c] # NoTask
  <2>1. /\ rx'[d] = rx[d] /\ line'[d] = Append(line[d], t)
    BY <1>1, <1>2, <1>6 DEF LockRx
  <2>2. /\ Len(line'[d]) = Len(line[d]) + 1
        /\ \A i \in 1 .. Len(line[d]) : line'[d][i] = line[d][i]
        /\ line'[d][Len(line[d]) + 1] = t
    BY <1>2, <2>1
  <2>3. \A i \in 1 .. Len(line'[d]) : i \in 1 .. Len(line[d]) \/ i = Len(line[d]) + 1
    BY <1>2, <2>2
  <2>4. \A i \in 1 .. Len(line[d]) : i \in 1 .. Len(line'[d])
    BY <1>2, <2>2
  <2>5. Len(line[d]) + 1 \in 1 .. Len(line'[d])
    BY <1>2, <2>2
  <2>6. ASSUME NEW i \in 1 .. Len(line'[d])
        PROVE  /\ line'[d][i] # rx'[d]
               /\ phase'[line'[d][i]] = "receiving" /\ on'[line'[d][i]] = d
               /\ \A j \in 1 .. Len(line'[d]) : line'[d][i] = line'[d][j] => i = j
    BY <1>1, <1>2, <1>3, <1>6, <2>1, <2>2, <2>3 DEF LockOf
  <2>7. ASSUME NEW s \in Tasks, phase'[s] = "receiving", on'[s] = d
        PROVE  s = rx'[d] \/ \E i \in 1 .. Len(line'[d]) : line'[d][i] = s
    BY <1>1, <1>2, <2>1, <2>2, <2>4, <2>5, <2>7 DEF LockOf
  <2>8. rx'[d] # NoTask /\ phase'[rx'[d]] = "receiving" /\ on'[rx'[d]] = d
    BY <1>1, <1>2, <1>3, <1>6, <2>1 DEF LockOf
  <2> QED
    BY <2>6, <2>7, <2>8 DEF LockOf
<1> QED
  BY <1>4, <1>5, <1>6

\* The lock is given up by its holder, and every channel keeps its lock right.
LEMMA UnlockKeepsLocks ==
    ASSUME IInv, NEW t \in Tasks, Leaves(t), rx[on[t]] = t, UnlockRx(on[t]),
           NEW d \in Chans
    PROVE  LockOf(d)'
<1>1. on[t] \in Chans /\ TypeOK /\ LockOf(on[t]) /\ LockOf(d)
  BY DEF IInv, WaitsOnChannel, Leaves
<1>2. CASE d = on[t]
  BY <1>1, <1>2, HolderLeaves
<1>3. CASE d # on[t]
  <2>1. rx'[d] = rx[d] /\ line'[d] = line[d]
    BY <1>1, <1>3 DEF UnlockRx, TypeOK
  <2> QED
    BY <1>1, <1>3, <2>1, OtherLocksKept
<1> QED
  BY <1>2, <1>3

-----------------------------------------------------------------------------
(* Steps that move messages.                                               *)

LEMMA TakeKeeps ==
    ASSUME IInv, NEW c \in Chans, queue[c] # <<>>, Take(c), UNCHANGED sent, NEW d \in Chans
    PROVE  OrderOf(d)'
<1>1. /\ queue[c] \in Seq(Nat \ {0}) /\ got[c] \in Seq(Nat \ {0})
      /\ queue \in [Chans -> Seq(Nat \ {0})] /\ got \in [Chans -> Seq(Nat \ {0})]
  BY DEF IInv, TypeOK
<1>2. queue[c] \in Seq(Nat) /\ got[c] \in Seq(Nat)
  BY <1>1
<1>3. CASE d = c
  <2>1. got'[d] = Append(got[c], Head(queue[c])) /\ queue'[d] = Tail(queue[c])
    BY <1>1, <1>3 DEF Take
  <2>2. got'[d] \o queue'[d] = got[c] \o queue[c]
    BY <1>2, <2>1, TakeKeepsOrder
  <2> QED
    BY <1>3, <2>2 DEF IInv, OrderOf
<1>4. CASE d # c
  BY <1>1, <1>4 DEF IInv, OrderOf, Take
<1> QED
  BY <1>3, <1>4

LEMMA SendKeeps ==
    ASSUME IInv, NEW t \in Tasks, NEW c \in Chans, Send(t, c)
    PROVE  IInv'
<1>1. /\ queue[c] \in Seq(Nat \ {0}) /\ got[c] \in Seq(Nat \ {0})
      /\ queue \in [Chans -> Seq(Nat \ {0})] /\ sent \in [Chans -> 0 .. MaxSends]
      /\ sent[c] \in Nat /\ sent[c] < MaxSends
  BY BoundsAreNat DEF IInv, TypeOK, Send
<1>2. queue[c] \in Seq(Nat) /\ got[c] \in Seq(Nat)
  BY <1>1
<1>3. /\ sent' = [sent EXCEPT ![c] = sent[c] + 1] /\ got' = got
      /\ queue' = [queue EXCEPT ![c] = Append(queue[c], sent[c] + 1)]
  BY DEF Send
<1>4. TypeOK'
  <2>1. sent[c] + 1 \in 0 .. MaxSends /\ Append(queue[c], sent[c] + 1) \in Seq(Nat \ {0})
    BY <1>1, BoundsAreNat
  <2> QED
    BY <1>1, <1>3, <2>1 DEF IInv, TypeOK, Send, handleVars
<1>5. KeepsReceivers /\ WaitsOnChannel' /\ QueuedOnce'
  BY DEF IInv, Send, handleVars, KeepsReceivers, WaitsOnChannel, QueuedOnce
<1>6. ASSUME NEW d \in Chans PROVE OrderOf(d)'
  <2>1. CASE d = c
    <3> DEFINE g == got[c]  q == queue[c]  n == sent[c]
    <3>1. g \in Seq(Nat) /\ q \in Seq(Nat) /\ n \in Nat /\ g \o q = UpTo(n)
      BY <1>1, <1>2 DEF IInv, OrderOf, UpTo
    <3> HIDE DEF g, q, n
    <3>2. g \o Append(q, n + 1) = UpTo(n + 1)
      BY <3>1, AppendKeepsOrder
    <3> QED
      BY <1>1, <1>3, <2>1, <3>2 DEF OrderOf, UpTo, g, q, n
  <2>2. CASE d # c
    BY <1>1, <1>3, <2>2 DEF IInv, OrderOf
  <2> QED
    BY <2>1, <2>2
<1> QED
  BY <1>4, <1>5, <1>6, LockKept DEF IInv

LEMMA CloseAndRecvArePlain ==
    ASSUME IInv, NEW t \in Tasks, NEW c \in Chans, Close(t, c) \/ Recv(t, c)
    PROVE  Plain
<1> USE DEF IInv, Plain, KeepsReceivers, WaitsOnChannel, chanVars, handleVars
<1>1. CASE Close(t, c)
  BY <1>1 DEF Close, TypeOK
<1>2. CASE Recv(t, c)
  <2>1. "locking" \in Phases /\ Yields(t, "locking", c)
    BY <1>2 DEF Recv, Phases
  <2>2. TypeOK'
    BY <1>2, <2>1, YieldsType DEF Recv, TypeOK
  <2> QED
    BY <1>2, <2>1, <2>2 DEF Recv, Yields, InStep, TypeOK
<1> QED
  BY <1>1, <1>2

LEMMA TryRecvKeeps ==
    ASSUME IInv, NEW t \in Tasks, NEW c \in Chans, TryRecv(t, c)
    PROVE  IInv'
<1>1. TypeOK'
  BY TakeType DEF IInv, TypeOK, TryRecv, handleVars
<1>2. KeepsReceivers /\ WaitsOnChannel' /\ QueuedOnce'
  BY DEF IInv, TryRecv, handleVars, KeepsReceivers, WaitsOnChannel, QueuedOnce
<1>3. \A d \in Chans : OrderOf(d)'
  BY TakeKeeps DEF TryRecv
<1> QED
  BY <1>1, <1>2, <1>3, LockKept DEF IInv

LEMMA LockRxKeeps ==
    ASSUME IInv, NEW t \in Tasks, LockRx(t)
    PROVE  IInv'
<1> DEFINE c == on[t]
<1>1. /\ phase[t] = "locking" /\ c \in Chans /\ line[c] \in Seq(Tasks)
      /\ phase' = [phase EXCEPT ![t] = "receiving"] /\ on' = on
  BY DEF IInv, TypeOK, WaitsOnChannel, LockRx
<1>2. Append(line[c], t) \in Seq(Tasks)
  BY <1>1
<1>3. TypeOK'
  BY <1>1, <1>2 DEF IInv, TypeOK, LockRx, handleVars, Phases
<1>4. WaitsOnChannel'
  BY <1>1 DEF IInv, TypeOK, WaitsOnChannel
<1>5. QueuedOnce'
  <2>1. KeepsQueue
    BY OthersKeepQueue DEF Runtime
  <2> QED
    BY <2>1, QueueKept DEF IInv
<1>6. \A d \in Chans : OrderOf(d)'
  BY DEF IInv, OrderOf, LockRx
<1> QED
  BY <1>3, <1>4, <1>5, <1>6, NewcomerLocks DEF IInv

LEMMA DeliverKeeps ==
    ASSUME IInv, NEW t \in Tasks, Deliver(t)
    PROVE  IInv'
<1> DEFINE c == on[t]
<1>1. c \in Chans /\ queue[c] # <<>> /\ Take(c) /\ UnlockRx(c) /\ Returns(t) /\ rx[c] = t
      /\ phase[t] = "receiving" /\ TypeOK /\ sent' = sent
  BY DEF IInv, WaitsOnChannel, Deliver
<1>2. TypeOK'
  BY <1>1, ReturnsType, TakeType, UnlockType DEF TypeOK, Deliver, handleVars
<1>3. Leaves(t) /\ WaitsOnChannel'
  BY <1>1 DEF IInv, TypeOK, WaitsOnChannel, Returns, Leaves
<1>4. QueuedOnce'
  <2>1. KeepsQueue
    BY OthersKeepQueue DEF Runtime
  <2> QED
    BY <2>1, QueueKept DEF IInv
<1>5. \A d \in Chans : OrderOf(d)'
  BY <1>1, TakeKeeps
<1> QED
  BY <1>1, <1>2, <1>3, <1>4, <1>5, UnlockKeepsLocks DEF IInv

LEMMA ReportClosedKeeps ==
    ASSUME IInv, NEW t \in Tasks, ReportClosed(t)
    PROVE  IInv'
<1> DEFINE c == on[t]
<1>1. c \in Chans /\ UnlockRx(c) /\ Returns(t) /\ rx[c] = t
      /\ phase[t] = "receiving" /\ TypeOK
  BY DEF IInv, WaitsOnChannel, ReportClosed
<1>2. TypeOK'
  BY <1>1, ReturnsType, UnlockType DEF TypeOK, ReportClosed, handleVars
<1>3. Leaves(t) /\ WaitsOnChannel'
  BY <1>1 DEF IInv, TypeOK, WaitsOnChannel, Returns, Leaves
<1>4. QueuedOnce'
  <2>1. KeepsQueue
    BY OthersKeepQueue DEF Runtime
  <2> QED
    BY <2>1, QueueKept DEF IInv
<1>5. \A d \in Chans : OrderOf(d)'
  BY DEF IInv, OrderOf, ReportClosed
<1> QED
  BY <1>1, <1>2, <1>3, <1>4, <1>5, UnlockKeepsLocks DEF IInv

-----------------------------------------------------------------------------
(* A task is dropped.                                                      *)

LEMMA LeavesLineKeeps ==
    ASSUME IInv, NEW t \in Tasks, Leaves(t), LeavesLine(t), NEW d \in Chans
    PROVE  /\ LockOf(d)'
           /\ rx' \in [Chans -> Tasks \cup {NoTask}] /\ line' \in [Chans -> Seq(Tasks)]
<1>0. PICK c \in Chans : c = on[t]
  BY DEF IInv, WaitsOnChannel, Leaves
<1>1. c = on[t] /\ TypeOK /\ LockOf(c) /\ LockOf(d)
      /\ line \in [Chans -> Seq(Tasks)] /\ rx \in [Chans -> Tasks \cup {NoTask}]
  BY <1>0 DEF IInv, TypeOK
<1>2. CASE rx[c] = t
  <2>1. UnlockRx(c)
    BY <1>1, <1>2 DEF LeavesLine
  <2> QED
    BY <1>1, <1>2, <2>1, UnlockType, UnlockKeepsLocks
<1>3. CASE rx[c] # t
  <2>1. rx' = rx /\ line' = [line EXCEPT ![c] = Without(line[c], t)]
    BY <1>1, <1>3 DEF LeavesLine
  <2>2. line'[c] = Without(line[c], t)
    BY <1>1, <2>1
  <2>3. LockOf(c)' /\ line'[c] \in Seq(Tasks)
    BY <1>1, <1>3, <2>1, <2>2, WaiterLeaves
  <2>4. line' \in [Chans -> Seq(Tasks)]
    BY <1>1, <2>1, <2>2, <2>3
  <2>5. CASE d # c
    <3>1. rx'[d] = rx[d] /\ line'[d] = line[d]
      BY <1>1, <2>1, <2>5
    <3> QED
      BY <1>1, <2>1, <2>4, <2>5, <3>1, OtherLocksKept
  <2> QED
    BY <1>1, <2>1, <2>3, <2>4, <2>5
<1> QED
  BY <1>2, <1>3

LEMMA AbortKeeps ==
    ASSUME IInv, NEW t \in Tasks, Abort(t)
    PROVE  IInv'
<1> USE DEF handleVars
<1>1. /\ TypeOK /\ t \in Roots
      /\ phase \in [Tasks -> Phases] /\ on \in [Tasks -> Asyncs \cup Chans \cup {NoTask}]
  BY DEF IInv, TypeOK, Abort, Droppable
<1>2. QueuedOnce'
  BY OthersKeepQueue, QueueKept DEF IInv
<1>3. \A d \in Chans : OrderOf(d)'
  BY DEF IInv, OrderOf, Abort
<1>4. CASE phase[t] \in {"ready", "running"}
  <2>1. /\ UNCHANGED <<phase, on, rx, line>> /\ cancelled' = cancelled \cup {t}
    BY <1>4 DEF Abort
  <2>2. TypeOK' /\ WaitsOnChannel' /\ KeepsReceivers
    BY <1>1, <2>1 DEF Abort, IInv, TypeOK, WaitsOnChannel, KeepsReceivers
  <2> QED
    BY <1>2, <1>3, <2>2, LockKept DEF IInv
<1>5. CASE phase[t] \in {"io", "register", "read", "parked", "locking"}
  <2>1. /\ phase' = [phase EXCEPT ![t] = "done"] /\ on' = [on EXCEPT ![t] = NoTask]
        /\ UNCHANGED <<cancelled, rx, line>>
    BY <1>5 DEF Abort
  <2>2. TypeOK' /\ WaitsOnChannel' /\ KeepsReceivers
    BY <1>1, <1>5, <2>1
       DEF Abort, IInv, TypeOK, WaitsOnChannel, KeepsReceivers, Phases
  <2> QED
    BY <1>2, <1>3, <2>2, LockKept DEF IInv
<1>6. CASE phase[t] = "receiving"
  <2>1. /\ phase' = [phase EXCEPT ![t] = "done"] /\ on' = [on EXCEPT ![t] = NoTask]
        /\ LeavesLine(t) /\ UNCHANGED cancelled
    BY <1>6 DEF Abort
  <2>2. Leaves(t) /\ WaitsOnChannel'
    BY <1>1, <1>6, <2>1 DEF IInv, WaitsOnChannel, Leaves
  <2>3. \A d \in Chans : LockOf(d)'
    BY <2>1, <2>2, LeavesLineKeeps
  <2>4. WaitsOnChannel /\ on[t] \in Chans
    BY <1>6 DEF IInv, WaitsOnChannel
  <2>5. rx' \in [Chans -> Tasks \cup {NoTask}] /\ line' \in [Chans -> Seq(Tasks)]
    BY <2>1, <2>2, <2>4, LeavesLineKeeps
  <2>6. TypeOK'
    BY <1>1, <2>1, <2>5 DEF Abort, TypeOK, Phases
  <2> QED
    BY <1>2, <1>3, <2>2, <2>3, <2>6 DEF IInv
<1> QED
  BY <1>4, <1>5, <1>6 DEF Abort

-----------------------------------------------------------------------------
(* The invariant and the theorems.                                         *)

LEMMA NextIInv == IInv /\ [Next]_vars => IInv'
<1> SUFFICES ASSUME IInv, [Next]_vars PROVE IInv'
  OBVIOUS
<1>1. ASSUME NEW t \in Tasks,
             CallHandler(t) \/ Runtime(t) \/ Script(t) \/ Finish(t) \/ Abort(t)
      PROVE  IInv'
  <2>1. CASE CallHandler(t) \/ Resume(t) \/ Perform(t) \/ Performed(t) \/ Finish(t)
    <3>1. KeepsQueue
      BY <2>1, OthersKeepQueue DEF Runtime
    <3> QED
      BY <2>1, <3>1, TurnsArePlain, QueueKept, PlainKeeps DEF IInv
  <2>2. CASE \/ Register(t) \/ ReadHandle(t) \/ Wake(t) \/ Settle(t) \/ NotifyWaiters(t)
             \/ \E u \in Asyncs : Await(t, u)
    <3>1. KeepsQueue
      BY <2>2, OthersKeepQueue DEF Runtime
    <3> QED
      BY <2>2, <3>1, WaitingIsPlain, QueueKept, PlainKeeps DEF IInv
  <2>3. ASSUME NEW u \in Asyncs, Spawn(t, u) PROVE IInv'
    BY <2>3, WaitingIsPlain, SpawnQueues, PlainKeeps
  <2>4. ASSUME NEW c \in Chans, Close(t, c) \/ Recv(t, c) PROVE IInv'
    <3>1. KeepsQueue
      BY <2>4, OthersKeepQueue
    <3> QED
      BY <2>4, <3>1, CloseAndRecvArePlain, QueueKept, PlainKeeps DEF IInv
  <2>5. ASSUME NEW c \in Chans, Send(t, c) \/ TryRecv(t, c) PROVE IInv'
    BY <2>5, SendKeeps, TryRecvKeeps
  <2>6. CASE LockRx(t) \/ Deliver(t) \/ ReportClosed(t) \/ Abort(t)
    BY <2>6, LockRxKeeps, DeliverKeeps, ReportClosedKeeps, AbortKeeps
  <2> QED
    BY <1>1, <2>1, <2>2, <2>3, <2>4, <2>5, <2>6 DEF Runtime, Script
<1>2. CASE StartQueued
  BY <1>2, DriverIsPlain, StartTakesHead, PlainKeeps
<1>3. CASE ShutdownAsync
  <2>1. QueuedOnce'
    BY <1>3 DEF IInv, QueuedOnce, ShutdownAsync
  <2> QED
    BY <1>3, <2>1, DriverIsPlain, PlainKeeps
<1>4. CASE UNCHANGED vars
  <2>1. /\ TypeOK' /\ WaitsOnChannel' /\ QueuedOnce' /\ KeepsReceivers
        /\ UNCHANGED <<queue, sent, got>>
    BY <1>4 DEF IInv, TypeOK, WaitsOnChannel, QueuedOnce, KeepsReceivers, vars, chanVars,
                handleVars
  <2> QED
    BY <2>1, PlainKeeps DEF Plain
<1> QED
  BY <1>1, <1>2, <1>3, <1>4 DEF Next

LEMMA SpecIInv == Spec => []IInv
BY InitIInv, NextIInv, PTL DEF Spec

\* What an action that neither ends a task nor puts one to sleep leaves alone.
KeepsSleepers ==
    /\ UNCHANGED settled
    /\ \A t \in Tasks : phase'[t] = "parked" =>
          phase[t] = "parked" /\ on'[t] = on[t] /\ (t \in notified => t \in notified')
    /\ \A u \in Asyncs : phase[u] = "notifying" => phase'[u] = "notifying"

LEMMA SleepersKept ==
    ASSUME TypeOK, WakeUpsArrive, KeepsSleepers PROVE WakeUpsArrive'
BY DEF TypeOK, WakeUpsArrive, KeepsSleepers

LEMMA OthersKeepSleepers ==
    ASSUME IInv, NEW t \in Tasks,
           \/ CallHandler(t) \/ Resume(t) \/ Performed(t) \/ Register(t) \/ Wake(t)
           \/ LockRx(t) \/ Deliver(t) \/ ReportClosed(t) \/ Script(t) \/ Finish(t) \/ Abort(t)
    PROVE  KeepsSleepers
<1> USE DEF KeepsSleepers, IInv, TypeOK, Tasks, handleVars
<1>1. CASE \/ CallHandler(t) \/ Resume(t) \/ Performed(t) \/ Register(t) \/ Wake(t)
           \/ LockRx(t) \/ Deliver(t) \/ ReportClosed(t)
  BY <1>1 DEF CallHandler, Resume, Performed, Register, Wake, LockRx, Deliver,
              ReportClosed, Returns
<1>2. CASE Finish(t) \/ Abort(t) \/ Perform(t)
  BY <1>2, TasksAreApart DEF Finish, Abort, Droppable, Perform, Yields, InStep
<1>3. ASSUME NEW u \in Asyncs, Spawn(t, u) \/ Await(t, u) PROVE KeepsSleepers
  BY <1>3 DEF Spawn, Await, Yields, InStep
<1>4. ASSUME NEW c \in Chans, Send(t, c) \/ Close(t, c) \/ Recv(t, c) \/ TryRecv(t, c)
      PROVE  KeepsSleepers
  BY <1>4 DEF Send, Close, Recv, TryRecv, Yields, InStep
<1> QED
  BY <1>1, <1>2, <1>3, <1>4 DEF Script

LEMMA NextWakeUps == IInv /\ WakeUpsArrive /\ [Next]_vars => WakeUpsArrive'
<1> SUFFICES ASSUME IInv, WakeUpsArrive, [Next]_vars PROVE WakeUpsArrive'
  OBVIOUS
<1>0. TypeOK
  BY DEF IInv
<1>1. ASSUME NEW t \in Tasks,
             CallHandler(t) \/ Runtime(t) \/ Script(t) \/ Finish(t) \/ Abort(t)
      PROVE  WakeUpsArrive'
  <2>1. CASE ReadHandle(t)
    <3>1. CASE on[t] \in settled
      <4>1. KeepsSleepers
        BY <1>0, <2>1, <3>1 DEF ReadHandle, Returns, handleVars, TypeOK, KeepsSleepers, Tasks
      <4> QED
        BY <1>0, <4>1, SleepersKept
    <3>2. CASE on[t] \notin settled
      <4>1. /\ phase' = [phase EXCEPT ![t] = "parked"] /\ phase[t] = "read"
            /\ UNCHANGED <<on, settled, notified>>
        BY <2>1, <3>2 DEF ReadHandle, handleVars
      <4>2. ASSUME NEW s \in Tasks, s # t, phase'[s] = "parked"
            PROVE  on'[s] \notin settled' \/ phase'[on'[s]] = "notifying" \/ s \in notified'
        <5>1. phase[s] = "parked" /\ on[s] \in Asyncs \cup Chans \cup {NoTask}
          BY <1>0, <4>1, <4>2 DEF TypeOK
        <5>2. phase[on[s]] = "notifying" => phase'[on[s]] = "notifying" \/ on[s] \notin settled
          BY <1>0, <4>1 DEF TypeOK, Tasks
        <5> QED
          BY <4>1, <5>1, <5>2 DEF WakeUpsArrive
      <4> QED
        BY <3>2, <4>1, <4>2 DEF WakeUpsArrive
    <3> QED
      BY <3>1, <3>2
  <2>2. CASE Settle(t)
    BY <1>0, <2>2 DEF Settle, TypeOK, WakeUpsArrive
  <2>3. CASE NotifyWaiters(t)
    BY <1>0, <2>3 DEF NotifyWaiters, Woken, Registered, TypeOK, WakeUpsArrive
  <2> QED
    BY <1>0, <1>1, <2>1, <2>2, <2>3, OthersKeepSleepers, SleepersKept DEF Runtime
<1>2. CASE StartQueued \/ ShutdownAsync
  <2>1. CASE StartQueued
    <3>1. Head(pending) \in Asyncs /\ phase[Head(pending)] = "queued"
      BY <2>1, StartTakesHead
    <3>2. KeepsSleepers
      BY <1>0, <2>1, <3>1 DEF StartQueued, handleVars, TypeOK, KeepsSleepers, Tasks
    <3> QED
      BY <1>0, <3>2, SleepersKept
  <2>2. CASE ShutdownAsync
    <3>1. KeepsSleepers
      BY <2>2 DEF ShutdownAsync, handleVars, KeepsSleepers
    <3> QED
      BY <1>0, <3>1, SleepersKept
  <2> QED
    BY <1>2, <2>1, <2>2
<1>3. CASE UNCHANGED vars
  BY <1>3 DEF vars, handleVars, WakeUpsArrive
<1> QED
  BY <1>1, <1>2, <1>3 DEF Next

\* The variables of the scheduler, the handles and the channels keep their
\* types, and only handlers and services are ever cancelled (scheduler.rs,
\* channels.rs).
THEOREM TypeCorrect == Spec => []TypeOK
BY SpecIInv, PTL DEF IInv

\* For any number of tasks and channels: what was received from a channel and
\* what is queued on it is what was sent, in order (channels.rs, ChannelState).
THEOREM MessagesOnceInOrder == Spec => []OnceInOrder
<1>1. IInv => OnceInOrder
  BY DEF IInv, OrderOf, OnceInOrder
<1> QED
  BY <1>1, SpecIInv, PTL

\* For any number of tasks and channels: the receiver lock is held by a task in
\* recv on its channel, its line holds the others, each once, and nobody stands
\* in line for a free lock, whoever is dropped (channels.rs,
\* recv and try_recv).
THEOREM ReceiverLockHeld == Spec => []ReceiverLock
<1>1. IInv => ReceiverLock
  BY DEF IInv, LockOf, ReceiverLock
<1> QED
  BY <1>1, SpecIInv, PTL

\* For any number of tasks and handles: no wake-up is lost between the waiter's
\* read of the handle and the store of the result (Op::Await,
\* AsyncHandleState::set).
THEOREM WakeUpsAlwaysArrive == Spec => []WakeUpsArrive
<1>1. Init => WakeUpsArrive
  BY DEF Init, WakeUpsArrive
<1> QED
  BY <1>1, SpecIInv, NextWakeUps, PTL DEF Spec

-----------------------------------------------------------------------------
(* The chat's UI: numbers and sequences.                                   *)

Below == {p \in Nat \X Nat : p[1] < p[2]}

\* Every set of numbers that is not empty has a least member.
LEMMA Least ==
    ASSUME NEW T \in SUBSET Nat, T # {}
    PROVE  \E x \in T : \A y \in T : x <= y
<1>1. Below = OpToRel(<, Nat)
  BY DEF Below, OpToRel
<1>2. IsWellFoundedOn(Below, Nat)
  BY <1>1, NatLessThanWellFounded
<1>3. PICK x \in T : \A y \in T : ~(<<y, x>> \in Below)
  BY <1>2, WFMin
<1>4. ASSUME NEW y \in T PROVE x <= y
  <2>1. <<y, x>> \in Nat \X Nat
    OBVIOUS
  <2>2. ~(y < x)
    BY <1>3, <2>1 DEF Below
  <2> QED
    BY <2>2
<1> QED
  BY <1>4

\* A set that holds 0 and with each number below `last` the next one holds
\* every number up to `last`.
LEMMA ReachesAll ==
    ASSUME NEW last \in Nat, NEW G, 0 \in G,
           \A n \in 0..last : n # last /\ n \in G => n + 1 \in G
    PROVE  \A n \in 0..last : n \in G
<1> SUFFICES ASSUME NEW m \in 0..last, m \notin G PROVE FALSE
  OBVIOUS
<1> DEFINE Bad == {n \in 0..last : n \notin G}
<1>1. PICK x \in Bad : \A y \in Bad : x <= y
  <2>1. Bad \in SUBSET Nat /\ Bad # {}
    OBVIOUS
  <2> HIDE DEF Bad
  <2> QED
    BY <2>1, Least
<1>2. x # 0 /\ x - 1 \in 0..last /\ x - 1 # last
  OBVIOUS
<1>3. x - 1 \in G
  BY <1>1, <1>2
<1>4. (x - 1) + 1 \in G
  BY <1>2, <1>3
<1> QED
  BY <1>1, <1>4

FirstOf(s, n) == SubSeq(s, 1, n)

\* A set that holds the empty sequence and with each sequence those that are
\* longer by one holds every sequence.
LEMMA EverySequence ==
    ASSUME NEW S, NEW G, <<>> \in G,
           \A s \in Seq(S), e \in S : s \in G => Append(s, e) \in G
    PROVE  \A s \in Seq(S) : s \in G
<1> SUFFICES ASSUME NEW s \in Seq(S) PROVE s \in G
  OBVIOUS
<1> DEFINE last == Len(s)
           H == {n \in 0..last : FirstOf(s, n) \in G}
<1>0. last \in Nat
  OBVIOUS
<1>1. FirstOf(s, 0) = <<>>
  BY DEF FirstOf
<1>2. ASSUME NEW n \in 0..last, n # last
      PROVE  /\ n + 1 \in 0..last
             /\ FirstOf(s, n) \in Seq(S) /\ s[n + 1] \in S
             /\ FirstOf(s, n + 1) = Append(FirstOf(s, n), s[n + 1])
  <2>1. n + 1 \in 1..Len(s)
    BY <1>2
  <2> QED
    BY <2>1 DEF FirstOf
<1>3. FirstOf(s, last) = s
  BY DEF FirstOf
<1> HIDE DEF last
<1>4. 0 \in H
  BY <1>0, <1>1
<1>5. ASSUME NEW n \in 0..last, n # last, n \in H PROVE n + 1 \in H
  BY <1>2, <1>5
<1>6. \A n \in 0..last : n \in H
  <2> HIDE DEF H
  <2> QED
    BY <1>0, <1>4, <1>5, ReachesAll
<1> QED
  BY <1>0, <1>3, <1>6

\* Every sequence is empty or longer by one than another.
LEMMA LastFirst ==
    ASSUME NEW S, NEW s \in Seq(S), s # <<>>
    PROVE  \E r \in Seq(S), e \in S : s = Append(r, e)
<1>1. s = Append(SubSeq(s, 1, Len(s) - 1), s[Len(s)])
  OBVIOUS
<1>2. SubSeq(s, 1, Len(s) - 1) \in Seq(S) /\ s[Len(s)] \in S
  OBVIOUS
<1> QED
  BY <1>1, <1>2

\* A sequence is its first c elements and the others.
LEMMA Split ==
    ASSUME NEW S, NEW s \in Seq(S), NEW c \in 0..Len(s)
    PROVE  LET a == SubSeq(s, 1, c)
               b == SubSeq(s, c + 1, Len(s))
           IN  /\ a \in Seq(S) /\ b \in Seq(S) /\ s = a \o b
               /\ Len(a) = c /\ Len(b) = Len(s) - c
               /\ \A i \in 1..c : a[i] = s[i]
               /\ \A i \in 1..(Len(s) - c) : b[i] = s[c + i]
<1>1. c \in Nat /\ Len(s) \in Nat /\ c <= Len(s)
  OBVIOUS
<1>2. s = SubSeq(s, 1, c) \o SubSeq(s, c + 1, Len(s))
  <2>1. SubSeq(s, 1, c) \o SubSeq(s, c + 1, Len(s)) = SubSeq(s, 1, Len(s))
    <3>1. 1 \in 1..Len(s) + 1 /\ c \in (1 - 1)..Len(s) /\ Len(s) \in c..Len(s)
      BY <1>1
    <3> QED
      BY <3>1, ConcatAdjacentSubSeq
  <2> QED
    BY <2>1, SubSeqFull
<1>3. /\ SubSeq(s, 1, c) \in Seq(S) /\ Len(SubSeq(s, 1, c)) = c
      /\ \A i \in 1..c : SubSeq(s, 1, c)[i] = s[i]
  BY <1>1
<1>4. /\ SubSeq(s, c + 1, Len(s)) \in Seq(S) /\ Len(SubSeq(s, c + 1, Len(s))) = Len(s) - c
      /\ \A i \in 1..(Len(s) - c) : SubSeq(s, c + 1, Len(s))[i] = s[c + i]
  BY <1>1
<1> QED
  BY <1>2, <1>3, <1>4

-----------------------------------------------------------------------------
(* Folds.                                                                  *)

\* g starts at x, and its n-th step is F[n].
Walk(X, x, last, F, g) ==
    /\ g \in [0..last -> X]
    /\ g[0] = x
    /\ \A n \in 1..last : g[n] = F[n][g[n - 1]]

\* Steps that each take an element of X to one of X can be taken in a row.
LEMMA WalkExists ==
    ASSUME NEW X, NEW x \in X, NEW last \in Nat,
           NEW F \in [1..last -> [X -> X]]
    PROVE  \E g : Walk(X, x, last, F, g)
<1> DEFINE W(m, g) == Walk(X, x, m, F, g)
           G == {m \in 0..last : \E g : W(m, g)}
<1>1. 0 \in G
  <2>1. W(0, [n \in 0..0 |-> x])
    BY DEF Walk
  <2> HIDE DEF W
  <2>2. \E g : W(0, g)
    BY <2>1
  <2> QED
    BY <2>2
<1>2. ASSUME NEW m \in 0..last, m # last, m \in G
      PROVE  m + 1 \in G
  <2>1. PICK g : W(m, g)
    BY <1>2
  <2> DEFINE h == [n \in 0..(m + 1) |->
                     IF n = m + 1 THEN F[m + 1][g[m]] ELSE g[n]]
  <2>2. m + 1 \in 1..last /\ g[m] \in X
    BY <1>2, <2>1 DEF Walk
  <2>3. F[m + 1][g[m]] \in X
    BY <2>2
  <2>4. h \in [0..(m + 1) -> X]
    BY <2>1, <2>3 DEF Walk
  <2>5. h[0] = x
    BY <2>1 DEF Walk
  <2>6. ASSUME NEW n \in 1..(m + 1) PROVE h[n] = F[n][h[n - 1]]
    <3>1. CASE n = m + 1
      <4>1. h[n] = F[n][g[m]] /\ h[n - 1] = g[m]
        BY <3>1
      <4> QED
        BY <4>1
    <3>2. CASE n # m + 1
      <4>1. n \in 1..m /\ h[n] = g[n] /\ h[n - 1] = g[n - 1]
        BY <3>2
      <4> QED
        BY <2>1, <4>1 DEF Walk
    <3> QED
      BY <3>1, <3>2
  <2>7. W(m + 1, h)
    BY <2>4, <2>5, <2>6 DEF Walk
  <2>8. m + 1 \in 0..last
    BY <1>2
  <2> HIDE DEF W, h
  <2>9. \E k : W(m + 1, k)
    BY <2>7
  <2> QED
    BY <2>8, <2>9
<1>3. last \in G
  <2> HIDE DEF G
  <2>1. \A n \in 0..last : n \in G
    BY <1>1, <1>2, ReachesAll
  <2> QED
    BY <2>1
<1> QED
  BY <1>3

SameSteps(last, F, H) == \A n \in 1..last : F[n] = H[n]

\* Two walks that take the same steps go the same way.
LEMMA WalksAgree ==
    ASSUME NEW X, NEW x \in X, NEW l \in Nat, NEW m \in Nat, l <= m,
           NEW F, NEW H, SameSteps(l, F, H),
           NEW g, NEW h, Walk(X, x, l, F, g), Walk(X, x, m, H, h)
    PROVE  \A n \in 0..l : g[n] = h[n]
<1> DEFINE G == {n \in 0..l : g[n] = h[n]}
<1>1. 0 \in G
  BY DEF Walk
<1>2. ASSUME NEW n \in 0..l, n # l, n \in G PROVE n + 1 \in G
  <2>1. n + 1 \in 1..l /\ n + 1 \in 1..m /\ (n + 1) - 1 = n
    BY <1>2
  <2>2. g[n + 1] = F[n + 1][g[n]] /\ h[n + 1] = H[n + 1][h[n]]
    BY <2>1 DEF Walk
  <2> QED
    BY <1>2, <2>1, <2>2 DEF SameSteps
<1> HIDE DEF G
<1>3. \A n \in 0..l : n \in G
  BY <1>1, <1>2, ReachesAll
<1> QED
  BY <1>3 DEF G

-----------------------------------------------------------------------------
(* A tree after ops.                                                       *)

\* An op makes a tree of a tree.
LEMMA ApplyType ==
    ASSUME NEW t \in Tree, NEW op \in Op
    PROVE  Apply(t, op) \in Tree
  BY DEF Apply, Tree, Op

\* What an op does to one node.
LEMMA ApplyCell ==
    ASSUME NEW t \in Tree, NEW op \in Op, NEW n \in Nodes
    PROVE  Apply(t, op)[n] = IF op.node # n \/ (op.do = "set" /\ t[n] = Gone)
                             THEN t[n] ELSE op.value
  BY DEF Apply, Tree, Op

OpSteps(ops) == [i \in 1..Len(ops) |-> [u \in Tree |-> Apply(u, ops[i])]]

\* `ApplyAll` walks through the ops.
LEMMA ApplyAllWalks ==
    ASSUME NEW t \in Tree, NEW ops \in Seq(Op)
    PROVE  \E g : /\ Walk(Tree, t, Len(ops), OpSteps(ops), g)
                 /\ ApplyAll(t, ops) = g[Len(ops)]
<1> DEFINE F == OpSteps(ops)
           H(g) == [i \in 0..Len(ops) |->
                      IF i = 0 THEN t ELSE Apply(g[i - 1], ops[i])]
<1>1. F \in [1..Len(ops) -> [Tree -> Tree]]
  BY ApplyType DEF OpSteps
<1>2. \E g : Walk(Tree, t, Len(ops), F, g)
  <2> HIDE DEF F
  <2> QED
    BY <1>1, WalkExists
<1>3. ASSUME NEW g, Walk(Tree, t, Len(ops), F, g) PROVE g = H(g)
  <2>1. ASSUME NEW i \in 0..Len(ops) PROVE g[i] = H(g)[i]
    <3>1. CASE i = 0
      BY <3>1, <1>3 DEF Walk
    <3>2. CASE i # 0
      <4>1. i \in 1..Len(ops) /\ i - 1 \in 0..Len(ops)
        BY <3>2
      <4>2. g[i - 1] \in Tree
        BY <4>1, <1>3 DEF Walk
      <4>3. g[i] = Apply(g[i - 1], ops[i])
        BY <4>1, <4>2, <1>3 DEF Walk, OpSteps
      <4> QED
        BY <4>3, <3>2
    <3> QED
      BY <3>1, <3>2
  <2>2. g \in [0..Len(ops) -> Tree]
    BY <1>3 DEF Walk
  <2> QED
    BY <2>1, <2>2
<1>4. ASSUME NEW g, g = H(g) PROVE Walk(Tree, t, Len(ops), F, g)
  <2> DEFINE G == {i \in 0..Len(ops) : g[i] \in Tree}
  <2>0. \A i \in 0..Len(ops) : g[i] = IF i = 0 THEN t ELSE Apply(g[i - 1], ops[i])
    BY <1>4
  <2>1. 0 \in G
    BY <2>0
  <2>2. ASSUME NEW i \in 0..Len(ops), i # Len(ops), i \in G PROVE i + 1 \in G
    <3>1. i + 1 \in 1..Len(ops) /\ i + 1 # 0 /\ (i + 1) - 1 = i
      BY <2>2
    <3>2. g[i + 1] = Apply(g[i], ops[i + 1])
      BY <2>0, <3>1
    <3> QED
      BY <2>2, <3>1, <3>2, ApplyType
  <2>3. \A i \in 0..Len(ops) : i \in G
    <3> HIDE DEF G
    <3> QED
      BY <2>1, <2>2, ReachesAll
  <2>4. g \in [0..Len(ops) -> Tree]
    BY <1>4, <2>3
  <2>5. ASSUME NEW i \in 1..Len(ops) PROVE g[i] = F[i][g[i - 1]]
    BY <2>0, <2>3 DEF OpSteps
  <2> QED
    BY <2>0, <2>4, <2>5 DEF Walk
<1> DEFINE C == CHOOSE g : g = H(g)
<1>5. C = H(C)
  <2>1. \E g : g = H(g)
    BY <1>2, <1>3
  <2> HIDE DEF H
  <2> QED
    BY <2>1
<1>6. ApplyAll(t, ops) = C[Len(ops)]
  BY DEF ApplyAll
<1> QED
  <2> HIDE DEF C, H, F
  <2>1. Walk(Tree, t, Len(ops), F, C)
    BY <1>4, <1>5
  <2> QED
    BY <2>1, <1>6 DEF F

\* So do ops.
LEMMA ApplyAllType ==
    ASSUME NEW t \in Tree, NEW ops \in Seq(Op)
    PROVE  ApplyAll(t, ops) \in Tree
  BY ApplyAllWalks DEF Walk

\* No ops leave the tree as it is.
LEMMA ApplyNone ==
    ASSUME NEW t \in Tree
    PROVE  ApplyAll(t, <<>>) = t
<1>1. <<>> \in Seq(Op) /\ Len(<<>>) = 0
  OBVIOUS
<1> QED
  BY <1>1, ApplyAllWalks DEF Walk

\* The last op comes last.
LEMMA ApplyAppend ==
    ASSUME NEW t \in Tree, NEW ops \in Seq(Op), NEW op \in Op
    PROVE  ApplyAll(t, Append(ops, op)) = Apply(ApplyAll(t, ops), op)
<1> DEFINE l == Len(ops)
           more == Append(ops, op)
<1>1. more \in Seq(Op) /\ Len(more) = l + 1 /\ more[l + 1] = op
      /\ \A i \in 1..l : more[i] = ops[i]
  OBVIOUS
<1>2. PICK g : Walk(Tree, t, l, OpSteps(ops), g) /\ ApplyAll(t, ops) = g[l]
  BY ApplyAllWalks
<1>3. PICK h : Walk(Tree, t, l + 1, OpSteps(more), h) /\ ApplyAll(t, more) = h[l + 1]
  <2> HIDE DEF more
  <2> QED
    BY <1>1, ApplyAllWalks
<1>4. \A i \in 1..l : OpSteps(ops)[i] = OpSteps(more)[i]
  <2> HIDE DEF more
  <2> QED
    BY <1>1 DEF OpSteps
<1>5. \A i \in 0..l : g[i] = h[i]
  <2> DEFINE A == OpSteps(ops)
             B == OpSteps(more)
             k == l + 1
  <2>1. l \in Nat /\ k \in Nat /\ l <= k
    OBVIOUS
  <2>2. SameSteps(l, A, B)
    BY <1>4 DEF SameSteps
  <2>3. Walk(Tree, t, l, A, g) /\ Walk(Tree, t, k, B, h)
    BY <1>2, <1>3
  <2> HIDE DEF l, more, A, B, k
  <2>4. \A i \in 0..l : g[i] = h[i]
    BY <2>1, <2>2, <2>3, WalksAgree
  <2> QED
    BY <2>4
<1>6. h[l + 1] = Apply(h[l], op)
  <2>1. l + 1 \in 1..Len(more) /\ (l + 1) - 1 = l /\ l \in 0..(l + 1) /\ l + 1 \in 1..(l + 1)
    BY <1>1
  <2> HIDE DEF more, l
  <2>2. h[l] \in Tree /\ h[l + 1] = OpSteps(more)[l + 1][h[(l + 1) - 1]]
    BY <1>3, <2>1 DEF Walk
  <2> QED
    BY <1>1, <2>1, <2>2 DEF OpSteps
<1>7. l \in 0..l
  OBVIOUS
<1> HIDE DEF more, l
<1>8. ApplyAll(t, more) = Apply(ApplyAll(t, ops), op)
  BY <1>2, <1>3, <1>5, <1>6, <1>7
<1> QED
  BY <1>8 DEF more

OpNames(ops, n) == \E j \in DOMAIN ops : ops[j].node = n
OnlySets(ops, n) == \A j \in DOMAIN ops : ops[j].node = n => ops[j].do = "set"

\* Both trees have n or neither does.
Alike(t, u, n) == t[n] = Gone <=> u[n] = Gone

\* Which nodes ops name with one more op.
LEMMA OpsAppend ==
    ASSUME NEW ops \in Seq(Op), NEW op \in Op, NEW n
    PROVE  /\ OpNames(Append(ops, op), n) <=> OpNames(ops, n) \/ op.node = n
           /\ OnlySets(Append(ops, op), n)
                <=> OnlySets(ops, n) /\ (op.node = n => op.do = "set")
<1> DEFINE more == Append(ops, op)
           l == Len(ops)
<1>1. /\ l \in Nat /\ DOMAIN ops = 1..l /\ DOMAIN more = 1..(l + 1)
      /\ more[l + 1] = op /\ \A i \in 1..l : more[i] = ops[i]
  OBVIOUS
<1> HIDE DEF more, l
<1>2. \A i \in 1..(l + 1) : i = l + 1 \/ i \in 1..l
  BY <1>1
<1>3. l + 1 \in 1..(l + 1) /\ \A i \in 1..l : i \in 1..(l + 1)
  BY <1>1
<1>4. OpNames(more, n) <=> OpNames(ops, n) \/ op.node = n
  BY <1>1, <1>2, <1>3 DEF OpNames
<1>5. OnlySets(more, n) <=> OnlySets(ops, n) /\ (op.node = n => op.do = "set")
  BY <1>1, <1>2, <1>3 DEF OnlySets
<1> QED
  BY <1>4, <1>5 DEF more

\* Which nodes two lists of ops name together.
LEMMA OpsConcat ==
    ASSUME NEW a \in Seq(Op), NEW b \in Seq(Op), NEW n
    PROVE  /\ a \o b \in Seq(Op)
           /\ OpNames(a \o b, n) <=> OpNames(a, n) \/ OpNames(b, n)
<1> DEFINE c == a \o b
           l == Len(a)
           m == Len(b)
<1>1. /\ l \in Nat /\ m \in Nat /\ DOMAIN a = 1..l /\ DOMAIN b = 1..m
      /\ DOMAIN c = 1..(l + m) /\ c \in Seq(Op)
      /\ \A i \in 1..l : c[i] = a[i]
      /\ \A i \in 1..(l + m) : i > l => c[i] = b[i - l]
  OBVIOUS
<1> HIDE DEF c, l, m
<1>2. ASSUME NEW j \in 1..m PROVE j + l \in 1..(l + m) /\ c[j + l] = b[j]
  <2>1. j + l \in 1..(l + m) /\ j + l > l /\ (j + l) - l = j
    BY <1>1
  <2> QED
    BY <1>1, <2>1
<1>3. ASSUME NEW i \in 1..(l + m) PROVE i \in 1..l \/ (i > l /\ i - l \in 1..m)
  BY <1>1
<1>4. OpNames(a, n) => OpNames(c, n)
  <2>1. \A i \in 1..l : i \in 1..(l + m)
    BY <1>1
  <2> QED
    BY <1>1, <2>1 DEF OpNames
<1>5. OpNames(b, n) => OpNames(c, n)
  BY <1>1, <1>2 DEF OpNames
<1>6. OpNames(c, n) => OpNames(a, n) \/ OpNames(b, n)
  BY <1>1, <1>3 DEF OpNames
<1> QED
  BY <1>1, <1>4, <1>5, <1>6 DEF c

\* What ops do to n follows from what it holds before; ops that name it leave
\* the same in trees that both have it or both lack it; the others leave it,
\* and ops that set leave it there or gone.
LEMMA ApplyAllCell ==
    ASSUME NEW t \in Tree, NEW u \in Tree, NEW ops \in Seq(Op), NEW n \in Nodes
    PROVE  /\ t[n] = u[n] => ApplyAll(t, ops)[n] = ApplyAll(u, ops)[n]
           /\ Alike(t, u, n) => Alike(ApplyAll(t, ops), ApplyAll(u, ops), n)
           /\ Alike(t, u, n) /\ OpNames(ops, n) => ApplyAll(t, ops)[n] = ApplyAll(u, ops)[n]
           /\ ~OpNames(ops, n) => ApplyAll(t, ops)[n] = t[n]
           /\ OnlySets(ops, n) => Alike(ApplyAll(t, ops), t, n)
<1> DEFINE P(s) == /\ t[n] = u[n] => ApplyAll(t, s)[n] = ApplyAll(u, s)[n]
                   /\ Alike(t, u, n) => Alike(ApplyAll(t, s), ApplyAll(u, s), n)
                   /\ Alike(t, u, n) /\ OpNames(s, n)
                        => ApplyAll(t, s)[n] = ApplyAll(u, s)[n]
                   /\ ~OpNames(s, n) => ApplyAll(t, s)[n] = t[n]
                   /\ OnlySets(s, n) => Alike(ApplyAll(t, s), t, n)
           G == {s \in Seq(Op) : P(s)}
<1>1. <<>> \in G
  <2>1. <<>> \in Seq(Op) /\ ~OpNames(<<>>, n)
    BY DEF OpNames
  <2>2. ApplyAll(t, <<>>) = t /\ ApplyAll(u, <<>>) = u
    BY ApplyNone
  <2>3. P(<<>>)
    BY <2>1, <2>2 DEF Alike
  <2> HIDE DEF P
  <2> QED
    BY <2>1, <2>3
<1>2. ASSUME NEW s \in Seq(Op), NEW op \in Op, s \in G PROVE Append(s, op) \in G
  <2> DEFINE a == ApplyAll(t, s)
             b == ApplyAll(u, s)
             more == Append(s, op)
  <2>1. a \in Tree /\ b \in Tree
    BY ApplyAllType
  <2>2. ApplyAll(t, more) = Apply(a, op) /\ ApplyAll(u, more) = Apply(b, op)
    BY ApplyAppend
  <2>3. /\ OpNames(more, n) <=> OpNames(s, n) \/ op.node = n
        /\ OnlySets(more, n) <=> OnlySets(s, n) /\ (op.node = n => op.do = "set")
    BY OpsAppend
  <2>4. more \in Seq(Op)
    OBVIOUS
  <2>5. /\ Apply(a, op)[n] = IF op.node # n \/ (op.do = "set" /\ a[n] = Gone)
                             THEN a[n] ELSE op.value
        /\ Apply(b, op)[n] = IF op.node # n \/ (op.do = "set" /\ b[n] = Gone)
                             THEN b[n] ELSE op.value
    <3> HIDE DEF a, b
    <3> QED
      BY <2>1, ApplyCell
  <2>6. op.do = "set" => op.value # Gone
    BY UiAssumption DEF Op
  <2>7. P(s)
    BY <1>2
  <2>8. P(more)
    <3> HIDE DEF more
    <3>1. t[n] = u[n] => a[n] = b[n]
      BY <2>7
    <3>2. Alike(t, u, n) => Alike(a, b, n)
      BY <2>7
    <3>3. Alike(t, u, n) /\ OpNames(s, n) => a[n] = b[n]
      BY <2>7
    <3>4. ~OpNames(s, n) => a[n] = t[n]
      BY <2>7
    <3>5. OnlySets(s, n) => Alike(a, t, n)
      BY <2>7
    <3> HIDE DEF a, b
    <3> QED
      BY <3>1, <3>2, <3>3, <3>4, <3>5, <2>2, <2>3, <2>5, <2>6 DEF Alike
  <2> HIDE DEF P
  <2> QED
    BY <2>4, <2>8
<1>3. ops \in G
  <2> HIDE DEF G
  <2>1. \A s \in Seq(Op) : s \in G
    BY <1>1, <1>2, EverySequence
  <2> QED
    BY <2>1
<1> QED
  BY <1>3

\* Ops in a row do what they do one list after the other.
LEMMA ApplyConcat ==
    ASSUME NEW t \in Tree, NEW a \in Seq(Op), NEW b \in Seq(Op)
    PROVE  ApplyAll(t, a \o b) = ApplyAll(ApplyAll(t, a), b)
<1> DEFINE P(s) == ApplyAll(t, a \o s) = ApplyAll(ApplyAll(t, a), s)
           G == {s \in Seq(Op) : P(s)}
<1>1. <<>> \in G
  <2>1. a \o <<>> = a /\ <<>> \in Seq(Op)
    OBVIOUS
  <2>2. ApplyAll(t, a) \in Tree
    BY ApplyAllType
  <2>3. ApplyAll(ApplyAll(t, a), <<>>) = ApplyAll(t, a)
    BY <2>2, ApplyNone
  <2>4. P(<<>>)
    BY <2>1, <2>3
  <2> HIDE DEF P
  <2> QED
    BY <2>1, <2>4
<1>2. ASSUME NEW s \in Seq(Op), NEW op \in Op, s \in G PROVE Append(s, op) \in G
  <2>1. a \o Append(s, op) = Append(a \o s, op) /\ a \o s \in Seq(Op)
    OBVIOUS
  <2>2. ApplyAll(t, Append(a \o s, op)) = Apply(ApplyAll(t, a \o s), op)
    BY <2>1, ApplyAppend
  <2>3. ApplyAll(ApplyAll(t, a), Append(s, op)) = Apply(ApplyAll(ApplyAll(t, a), s), op)
    BY ApplyAppend, ApplyAllType
  <2>4. ApplyAll(t, a \o s) = ApplyAll(ApplyAll(t, a), s)
    BY <1>2
  <2>5. P(Append(s, op))
    BY <2>1, <2>2, <2>3, <2>4
  <2>6. Append(s, op) \in Seq(Op)
    OBVIOUS
  <2> HIDE DEF P
  <2> QED
    BY <2>5, <2>6
<1>3. b \in G
  <2> HIDE DEF G
  <2>1. \A s \in Seq(Op) : s \in G
    BY <1>1, <1>2, EverySequence
  <2> QED
    BY <2>1
<1> QED
  BY <1>3

-----------------------------------------------------------------------------
(* A tree after frames.                                                    *)

\* The frame names n, or decides whether n is there.
Names(f, n) == OpNames(f.ops, n)
Marks(f, n) == f.reset \/ ~OnlySets(f.ops, n)

\* A frame makes a tree of a tree.
LEMMA ShownType ==
    ASSUME NEW t \in Tree, NEW f \in Frame
    PROVE  Shown(t, f) \in Tree
<1>1. EmptyTree \in Tree /\ f.ops \in Seq(Op)
  BY DEF EmptyTree, Tree, Frame
<1> QED
  BY <1>1, ApplyAllType DEF Shown

\* What a frame shows of one node.
LEMMA ShownCell ==
    ASSUME NEW t \in Tree, NEW u \in Tree, NEW f \in Frame, NEW n \in Nodes
    PROVE  /\ t[n] = u[n] => Shown(t, f)[n] = Shown(u, f)[n]
           /\ Alike(t, u, n) => Alike(Shown(t, f), Shown(u, f), n)
           /\ Alike(t, u, n) /\ Names(f, n) => Shown(t, f)[n] = Shown(u, f)[n]
           /\ f.reset => Shown(t, f) = Shown(u, f)
           /\ ~f.reset /\ ~Names(f, n) => Shown(t, f)[n] = t[n]
           /\ f.reset /\ ~Names(f, n) => Shown(t, f)[n] = Gone
           /\ ~Marks(f, n) => Alike(Shown(t, f), t, n)
<1>1. EmptyTree \in Tree /\ EmptyTree[n] = Gone /\ f.ops \in Seq(Op)
  BY DEF EmptyTree, Tree, Frame
<1>2. CASE f.reset
  <2>1. Shown(t, f) = ApplyAll(EmptyTree, f.ops) /\ Shown(u, f) = ApplyAll(EmptyTree, f.ops)
    BY <1>2 DEF Shown
  <2>2. ~OpNames(f.ops, n) => ApplyAll(EmptyTree, f.ops)[n] = Gone
    BY <1>1, ApplyAllCell
  <2> QED
    BY <1>2, <2>1, <2>2 DEF Names, Marks, Alike
<1>3. CASE ~f.reset
  <2>1. Shown(t, f) = ApplyAll(t, f.ops) /\ Shown(u, f) = ApplyAll(u, f.ops)
    BY <1>3 DEF Shown
  <2> QED
    BY <1>1, <1>3, <2>1, ApplyAllCell DEF Names, Marks
<1> QED
  BY <1>2, <1>3

FrameSteps(fs) == [i \in 1..Len(fs) |-> [u \in Tree |-> Shown(u, fs[i])]]

\* `ShownAll` walks through the frames.
LEMMA ShownAllWalks ==
    ASSUME NEW t \in Tree, NEW fs \in Seq(Frame)
    PROVE  \E g : /\ Walk(Tree, t, Len(fs), FrameSteps(fs), g)
                 /\ ShownAll(t, fs) = g[Len(fs)]
<1> DEFINE F == FrameSteps(fs)
           H(g) == [i \in 0..Len(fs) |->
                      IF i = 0 THEN t ELSE Shown(g[i - 1], fs[i])]
<1>1. F \in [1..Len(fs) -> [Tree -> Tree]]
  BY ShownType DEF FrameSteps
<1>2. \E g : Walk(Tree, t, Len(fs), F, g)
  <2> HIDE DEF F
  <2> QED
    BY <1>1, WalkExists
<1>3. ASSUME NEW g, Walk(Tree, t, Len(fs), F, g) PROVE g = H(g)
  <2>1. ASSUME NEW i \in 0..Len(fs) PROVE g[i] = H(g)[i]
    <3>1. CASE i = 0
      BY <3>1, <1>3 DEF Walk
    <3>2. CASE i # 0
      <4>1. i \in 1..Len(fs) /\ i - 1 \in 0..Len(fs)
        BY <3>2
      <4>2. g[i - 1] \in Tree
        BY <4>1, <1>3 DEF Walk
      <4>3. g[i] = Shown(g[i - 1], fs[i])
        BY <4>1, <4>2, <1>3 DEF Walk, FrameSteps
      <4> QED
        BY <4>3, <3>2
    <3> QED
      BY <3>1, <3>2
  <2>2. g \in [0..Len(fs) -> Tree]
    BY <1>3 DEF Walk
  <2> QED
    BY <2>1, <2>2
<1>4. ASSUME NEW g, g = H(g) PROVE Walk(Tree, t, Len(fs), F, g)
  <2> DEFINE G == {i \in 0..Len(fs) : g[i] \in Tree}
  <2>0. \A i \in 0..Len(fs) : g[i] = IF i = 0 THEN t ELSE Shown(g[i - 1], fs[i])
    BY <1>4
  <2>1. 0 \in G
    BY <2>0
  <2>2. ASSUME NEW i \in 0..Len(fs), i # Len(fs), i \in G PROVE i + 1 \in G
    <3>1. i + 1 \in 1..Len(fs) /\ i + 1 # 0 /\ (i + 1) - 1 = i
      BY <2>2
    <3>2. g[i + 1] = Shown(g[i], fs[i + 1])
      BY <2>0, <3>1
    <3> QED
      BY <2>2, <3>1, <3>2, ShownType
  <2>3. \A i \in 0..Len(fs) : i \in G
    <3> HIDE DEF G
    <3> QED
      BY <2>1, <2>2, ReachesAll
  <2>4. g \in [0..Len(fs) -> Tree]
    BY <1>4, <2>3
  <2>5. ASSUME NEW i \in 1..Len(fs) PROVE g[i] = F[i][g[i - 1]]
    BY <2>0, <2>3 DEF FrameSteps
  <2> QED
    BY <2>0, <2>4, <2>5 DEF Walk
<1> DEFINE C == CHOOSE g : g = H(g)
<1>5. C = H(C)
  <2>1. \E g : g = H(g)
    BY <1>2, <1>3
  <2> HIDE DEF H
  <2> QED
    BY <2>1
<1>6. ShownAll(t, fs) = C[Len(fs)]
  BY DEF ShownAll
<1> QED
  <2> HIDE DEF C, H, F
  <2>1. Walk(Tree, t, Len(fs), F, C)
    BY <1>4, <1>5
  <2> QED
    BY <2>1, <1>6 DEF F

\* Frames make a tree of a tree.
LEMMA ShownAllType ==
    ASSUME NEW t \in Tree, NEW fs \in Seq(Frame)
    PROVE  ShownAll(t, fs) \in Tree
  BY ShownAllWalks DEF Walk

\* No frames leave the tree as it is.
LEMMA ShownNone ==
    ASSUME NEW t \in Tree
    PROVE  ShownAll(t, <<>>) = t
<1>1. <<>> \in Seq(Frame) /\ Len(<<>>) = 0
  OBVIOUS
<1> QED
  BY <1>1, ShownAllWalks DEF Walk

\* The last frame is played last.
LEMMA ShownAppend ==
    ASSUME NEW t \in Tree, NEW fs \in Seq(Frame), NEW f \in Frame
    PROVE  ShownAll(t, Append(fs, f)) = Shown(ShownAll(t, fs), f)
<1> DEFINE l == Len(fs)
           more == Append(fs, f)
<1>1. more \in Seq(Frame) /\ Len(more) = l + 1 /\ more[l + 1] = f
      /\ \A i \in 1..l : more[i] = fs[i]
  OBVIOUS
<1>2. PICK g : Walk(Tree, t, l, FrameSteps(fs), g) /\ ShownAll(t, fs) = g[l]
  BY ShownAllWalks
<1>3. PICK h : Walk(Tree, t, l + 1, FrameSteps(more), h) /\ ShownAll(t, more) = h[l + 1]
  <2> HIDE DEF more
  <2> QED
    BY <1>1, ShownAllWalks
<1>4. \A i \in 1..l : FrameSteps(fs)[i] = FrameSteps(more)[i]
  <2> HIDE DEF more
  <2> QED
    BY <1>1 DEF FrameSteps
<1>5. \A i \in 0..l : g[i] = h[i]
  <2> DEFINE A == FrameSteps(fs)
             B == FrameSteps(more)
             k == l + 1
  <2>1. l \in Nat /\ k \in Nat /\ l <= k
    OBVIOUS
  <2>2. SameSteps(l, A, B)
    BY <1>4 DEF SameSteps
  <2>3. Walk(Tree, t, l, A, g) /\ Walk(Tree, t, k, B, h)
    BY <1>2, <1>3
  <2> HIDE DEF l, more, A, B, k
  <2>4. \A i \in 0..l : g[i] = h[i]
    BY <2>1, <2>2, <2>3, WalksAgree
  <2> QED
    BY <2>4
<1>6. h[l + 1] = Shown(h[l], f)
  <2>1. l + 1 \in 1..Len(more) /\ (l + 1) - 1 = l /\ l \in 0..(l + 1) /\ l + 1 \in 1..(l + 1)
    BY <1>1
  <2> HIDE DEF more, l
  <2>2. h[l] \in Tree /\ h[l + 1] = FrameSteps(more)[l + 1][h[(l + 1) - 1]]
    BY <1>3, <2>1 DEF Walk
  <2> QED
    BY <1>1, <2>1, <2>2 DEF FrameSteps
<1>7. l \in 0..l
  OBVIOUS
<1> HIDE DEF more, l
<1>8. ShownAll(t, more) = Shown(ShownAll(t, fs), f)
  BY <1>2, <1>3, <1>5, <1>6, <1>7
<1> QED
  BY <1>8 DEF more

\* Frames in a row show what they show one list after the other.
LEMMA ShownConcat ==
    ASSUME NEW t \in Tree, NEW a \in Seq(Frame), NEW b \in Seq(Frame)
    PROVE  ShownAll(t, a \o b) = ShownAll(ShownAll(t, a), b)
<1> DEFINE P(s) == ShownAll(t, a \o s) = ShownAll(ShownAll(t, a), s)
           G == {s \in Seq(Frame) : P(s)}
<1>1. <<>> \in G
  <2>1. a \o <<>> = a /\ <<>> \in Seq(Frame)
    OBVIOUS
  <2>2. ShownAll(t, a) \in Tree
    BY ShownAllType
  <2>3. ShownAll(ShownAll(t, a), <<>>) = ShownAll(t, a)
    BY <2>2, ShownNone
  <2>4. P(<<>>)
    BY <2>1, <2>3
  <2> HIDE DEF P
  <2> QED
    BY <2>1, <2>4
<1>2. ASSUME NEW s \in Seq(Frame), NEW f \in Frame, s \in G PROVE Append(s, f) \in G
  <2>1. a \o Append(s, f) = Append(a \o s, f) /\ a \o s \in Seq(Frame)
    OBVIOUS
  <2>2. ShownAll(t, Append(a \o s, f)) = Shown(ShownAll(t, a \o s), f)
    BY <2>1, ShownAppend
  <2>3. ShownAll(ShownAll(t, a), Append(s, f)) = Shown(ShownAll(ShownAll(t, a), s), f)
    BY ShownAppend, ShownAllType
  <2>4. ShownAll(t, a \o s) = ShownAll(ShownAll(t, a), s)
    BY <1>2
  <2>5. P(Append(s, f))
    BY <2>1, <2>2, <2>3, <2>4
  <2>6. Append(s, f) \in Seq(Frame)
    OBVIOUS
  <2> HIDE DEF P
  <2> QED
    BY <2>5, <2>6
<1>3. b \in G
  <2> HIDE DEF G
  <2>1. \A s \in Seq(Frame) : s \in G
    BY <1>1, <1>2, EverySequence
  <2> QED
    BY <2>1
<1> QED
  BY <1>3

Some(fs, A) == \E k \in DOMAIN fs : fs[k] \in A

\* One more frame is one more candidate.
LEMMA SomeAppend ==
    ASSUME NEW S, NEW fs \in Seq(S), NEW f \in S, NEW A
    PROVE  Some(Append(fs, f), A) <=> Some(fs, A) \/ f \in A
<1> DEFINE more == Append(fs, f)
           l == Len(fs)
<1>1. /\ l \in Nat /\ DOMAIN fs = 1..l /\ DOMAIN more = 1..(l + 1)
      /\ more[l + 1] = f /\ \A i \in 1..l : more[i] = fs[i]
  OBVIOUS
<1> HIDE DEF more, l
<1>2. \A i \in 1..(l + 1) : i = l + 1 \/ i \in 1..l
  BY <1>1
<1>3. l + 1 \in 1..(l + 1) /\ \A i \in 1..l : i \in 1..(l + 1)
  BY <1>1
<1>4. Some(more, A) <=> Some(fs, A) \/ f \in A
  BY <1>1, <1>2, <1>3 DEF Some
<1> QED
  BY <1>4 DEF more

Resetting == {f \in Frame : f.reset}
Naming(n) == {f \in Frame : Names(f, n)}
Marking(n) == {f \in Frame : Marks(f, n)}

\* What frames show of n follows from what is shown before; frames that reset
\* forget it, those that name it show the same in trees that both have it or
\* both lack it, and those that do not mark it leave it there or gone.
LEMMA ShownAllCell ==
    ASSUME NEW t \in Tree, NEW u \in Tree, NEW fs \in Seq(Frame), NEW n \in Nodes
    PROVE  /\ t[n] = u[n] => ShownAll(t, fs)[n] = ShownAll(u, fs)[n]
           /\ Alike(t, u, n) => Alike(ShownAll(t, fs), ShownAll(u, fs), n)
           /\ Alike(t, u, n) /\ Some(fs, Naming(n)) => ShownAll(t, fs)[n] = ShownAll(u, fs)[n]
           /\ Some(fs, Resetting) => ShownAll(t, fs)[n] = ShownAll(u, fs)[n]
           /\ ~Some(fs, Naming(n)) /\ ~Some(fs, Resetting) => ShownAll(t, fs)[n] = t[n]
           /\ ~Some(fs, Naming(n)) /\ Some(fs, Resetting) => ShownAll(t, fs)[n] = Gone
           /\ ~Some(fs, Marking(n)) => Alike(ShownAll(t, fs), t, n)
<1> DEFINE P(s) == /\ t[n] = u[n] => ShownAll(t, s)[n] = ShownAll(u, s)[n]
                   /\ Alike(t, u, n) => Alike(ShownAll(t, s), ShownAll(u, s), n)
                   /\ Alike(t, u, n) /\ Some(s, Naming(n))
                        => ShownAll(t, s)[n] = ShownAll(u, s)[n]
                   /\ Some(s, Resetting) => ShownAll(t, s)[n] = ShownAll(u, s)[n]
                   /\ ~Some(s, Naming(n)) /\ ~Some(s, Resetting) => ShownAll(t, s)[n] = t[n]
                   /\ ~Some(s, Naming(n)) /\ Some(s, Resetting) => ShownAll(t, s)[n] = Gone
                   /\ ~Some(s, Marking(n)) => Alike(ShownAll(t, s), t, n)
           G == {s \in Seq(Frame) : P(s)}
<1>1. <<>> \in G
  <2>1. <<>> \in Seq(Frame) /\ \A A : ~Some(<<>>, A)
    BY DEF Some
  <2>2. ShownAll(t, <<>>) = t /\ ShownAll(u, <<>>) = u
    BY ShownNone
  <2>3. P(<<>>)
    BY <2>1, <2>2 DEF Alike
  <2> HIDE DEF P
  <2> QED
    BY <2>1, <2>3
<1>2. ASSUME NEW s \in Seq(Frame), NEW f \in Frame, s \in G PROVE Append(s, f) \in G
  <2> DEFINE a == ShownAll(t, s)
             b == ShownAll(u, s)
             more == Append(s, f)
  <2>1. a \in Tree /\ b \in Tree
    BY ShownAllType
  <2>2. ShownAll(t, more) = Shown(a, f) /\ ShownAll(u, more) = Shown(b, f)
    BY ShownAppend
  <2>3. /\ Some(more, Naming(n)) <=> Some(s, Naming(n)) \/ Names(f, n)
        /\ Some(more, Resetting) <=> Some(s, Resetting) \/ f.reset
        /\ Some(more, Marking(n)) <=> Some(s, Marking(n)) \/ Marks(f, n)
    BY SomeAppend DEF Naming, Resetting, Marking
  <2>4. more \in Seq(Frame)
    OBVIOUS
  <2>5. /\ a[n] = b[n] => Shown(a, f)[n] = Shown(b, f)[n]
        /\ Alike(a, b, n) => Alike(Shown(a, f), Shown(b, f), n)
        /\ Alike(a, b, n) /\ Names(f, n) => Shown(a, f)[n] = Shown(b, f)[n]
        /\ f.reset => Shown(a, f) = Shown(b, f)
        /\ ~f.reset /\ ~Names(f, n) => Shown(a, f)[n] = a[n]
        /\ f.reset /\ ~Names(f, n) => Shown(a, f)[n] = Gone
        /\ ~Marks(f, n) => Alike(Shown(a, f), a, n)
    <3> HIDE DEF a, b
    <3> QED
      BY <2>1, ShownCell
  <2>7. P(s)
    BY <1>2
  <2>8. P(more)
    <3> HIDE DEF more
    <3>1. t[n] = u[n] => a[n] = b[n]
      BY <2>7
    <3>2. Alike(t, u, n) => Alike(a, b, n)
      BY <2>7
    <3>3. Alike(t, u, n) /\ Some(s, Naming(n)) => a[n] = b[n]
      BY <2>7
    <3>4. Some(s, Resetting) => a[n] = b[n]
      BY <2>7
    <3>5. ~Some(s, Naming(n)) /\ ~Some(s, Resetting) => a[n] = t[n]
      BY <2>7
    <3>6. ~Some(s, Naming(n)) /\ Some(s, Resetting) => a[n] = Gone
      BY <2>7
    <3>7. ~Some(s, Marking(n)) => Alike(a, t, n)
      BY <2>7
    <3> HIDE DEF a, b
    <3> QED
      BY <3>1, <3>2, <3>3, <3>4, <3>5, <3>6, <3>7, <2>2, <2>3, <2>5 DEF Alike
  <2> HIDE DEF P
  <2> QED
    BY <2>4, <2>8
<1>3. fs \in G
  <2> HIDE DEF G
  <2>1. \A s \in Seq(Frame) : s \in G
    BY <1>1, <1>2, EverySequence
  <2> QED
    BY <2>1
<1> QED
  BY <1>3

\* A node that no frame names from a reset on is gone.
LEMMA ShownAfterReset ==
    ASSUME NEW t \in Tree, NEW fs \in Seq(Frame), NEW n \in Nodes,
           NEW r \in DOMAIN fs, fs[r].reset,
           \A k \in DOMAIN fs : k >= r => ~Names(fs[k], n)
    PROVE  ShownAll(t, fs)[n] = Gone
<1> DEFINE l == Len(fs)
           a == SubSeq(fs, 1, r - 1)
           b == SubSeq(fs, r, l)
<1>1. r \in 1..l /\ l \in Nat /\ DOMAIN fs = 1..l
  OBVIOUS
<1>2. a \in Seq(Frame) /\ b \in Seq(Frame) /\ fs = a \o b
  <2>1. r - 1 \in 0..l /\ (r - 1) + 1 = r
    BY <1>1
  <2> QED
    BY <2>1, Split
<1>3. /\ DOMAIN b = 1..(l - r + 1)
      /\ \A i \in 1..(l - r + 1) : b[i] = fs[r + i - 1]
  BY <1>1
<1>4. \A i \in 1..(l - r + 1) : r + i - 1 \in 1..l /\ r + i - 1 >= r
  BY <1>1
<1>5. fs[r] \in Frame /\ 1 \in 1..(l - r + 1) /\ r + 1 - 1 = r
  BY <1>1
<1> HIDE DEF a, b, l
<1>6. ~Some(b, Naming(n))
  BY <1>1, <1>3, <1>4 DEF Some, Naming
<1>7. Some(b, Resetting)
  <2>1. b[1] = fs[r]
    BY <1>3, <1>5
  <2> QED
    BY <1>3, <1>5, <2>1 DEF Some, Resetting
<1>8. ShownAll(t, fs) = ShownAll(ShownAll(t, a), b)
  BY <1>2, ShownConcat
<1> QED
  BY <1>2, <1>6, <1>7, <1>8, ShownAllType, ShownAllCell

-----------------------------------------------------------------------------
(* The order of frames.                                                    *)

\* No later frame resets.
Fresh(fs, i) == \A k \in DOMAIN fs : k > i => ~fs[k].reset

\* k resets, or cancels what was drawn for the time of i.
Undoes(fs, i, k) == fs[k].reset \/ (fs[k].cancel /\ fs[k].at < fs[i].at)

\* Frames that decide whether n is there are in the order of their times.
InOrder(fs, at, n) ==
    \A i \in DOMAIN fs : Marks(fs[i], n) /\ Fresh(fs, i) =>
        fs[i].at <= at /\ \A j \in DOMAIN fs : j > i => fs[i].at <= fs[j].at

\* A frame for later than `at` that names n is undone.
Undone(fs, at, n) ==
    \A i \in DOMAIN fs : Names(fs[i], n) /\ fs[i].at > at =>
        \E k \in DOMAIN fs : k > i /\ Undoes(fs, i, k)

LastNaming(fs, m, n) == Names(fs[m], n) /\ \A k \in DOMAIN fs : k > m => ~Names(fs[k], n)

\* The last frame that names n is also the last to be shown of those: it is for
\* `at` or earlier, and frames for later than it that came before it are undone.
LastStands(fs, at, n) ==
    \A m \in DOMAIN fs : LastNaming(fs, m, n) =>
        /\ fs[m].at <= at
        /\ \A k \in DOMAIN fs : k > m => fs[m].at <= fs[k].at
        /\ \A i \in DOMAIN fs : i < m /\ Names(fs[i], n) /\ fs[i].at > fs[m].at =>
               \E k \in DOMAIN fs : i < k /\ k <= m /\ Undoes(fs, i, k)

\* When a frame resets there is a last one that does.
LEMMA LastReset ==
    ASSUME NEW fs \in Seq(Frame), NEW k \in DOMAIN fs, fs[k].reset
    PROVE  \E r \in DOMAIN fs : r >= k /\ fs[r].reset /\ Fresh(fs, r)
<1> DEFINE l == Len(fs)
           B == {r \in 1..l : fs[r].reset}
           T == {l - r : r \in B}
<1>1. l \in Nat /\ DOMAIN fs = 1..l /\ k \in B
  OBVIOUS
<1>2. T \in SUBSET Nat /\ T # {}
  BY <1>1
<1>3. PICK x \in T : \A y \in T : x <= y
  <2> HIDE DEF T
  <2> QED
    BY <1>2, Least
<1>4. PICK r \in B : x = l - r
  OBVIOUS
<1>5. ASSUME NEW i \in B PROVE i <= r
  <2>1. l - r <= l - i
    BY <1>3, <1>4
  <2> QED
    BY <1>1, <2>1
<1>6. r \in 1..l /\ fs[r].reset /\ r >= k
  BY <1>1, <1>5
<1>7. Fresh(fs, r)
  BY <1>1, <1>5, <1>6 DEF Fresh
<1> QED
  BY <1>1, <1>6, <1>7

\* The types of frames.
LEMMA FrameFacts ==
    ASSUME NEW fs \in Seq(Frame)
    PROVE  /\ Len(fs) \in Nat /\ DOMAIN fs = 1..Len(fs) /\ DOMAIN fs \subseteq Nat
           /\ \A i \in DOMAIN fs : /\ fs[i] \in Frame /\ fs[i].at \in Nat
                                  /\ fs[i].ops \in Seq(Op)
                                  /\ fs[i].reset \in BOOLEAN /\ fs[i].cancel \in BOOLEAN
<1>1. Times \subseteq Nat
  BY UiAssumption DEF Times
<1>2. Len(fs) \in Nat /\ DOMAIN fs = 1..Len(fs) /\ DOMAIN fs \subseteq Nat
  OBVIOUS
<1>3. ASSUME NEW i \in DOMAIN fs
      PROVE  /\ fs[i] \in Frame /\ fs[i].at \in Nat /\ fs[i].ops \in Seq(Op)
             /\ fs[i].reset \in BOOLEAN /\ fs[i].cancel \in BOOLEAN
  <2>1. fs[i] \in Frame
    OBVIOUS
  <2> QED
    BY <1>1, <2>1 DEF Frame
<1> QED
  BY <1>2, <1>3

\* The client takes the p-th frame out of the channel and puts it into its
\* queue, the first p - 1 frames: what it then has are the frames pi says,
\* without those of the queue that the new one undoes.
Taken(fs, gs, p, pi) ==
    /\ p \in DOMAIN fs
    /\ \A i, j \in DOMAIN fs : i < j /\ j < p => fs[i].at <= fs[j].at
    /\ \A i \in DOMAIN fs : i < p => ~fs[i].cancel
    /\ \A i \in DOMAIN gs :
          /\ pi[i] \in DOMAIN fs
          /\ gs[i].at = fs[pi[i]].at /\ gs[i].ops = fs[pi[i]].ops
          /\ gs[i].reset = fs[pi[i]].reset
          /\ pi[i] # p => gs[i].cancel = fs[pi[i]].cancel
          /\ pi[i] < p => /\ ~fs[p].reset
                          /\ fs[p].cancel => fs[pi[i]].at <= fs[p].at
    /\ \A i, j \in DOMAIN gs : i < j =>
          \/ pi[i] < pi[j]
          \/ pi[i] = p /\ pi[j] < p /\ fs[pi[j]].at > fs[p].at
    /\ \A k \in DOMAIN fs :
          \/ \E i \in DOMAIN gs : pi[i] = k
          \/ k < p /\ (fs[p].reset \/ (fs[p].cancel /\ fs[k].at > fs[p].at))

\* A frame of the queue for later than the new one that decides whether n is
\* there is overtaken by a reset.
LEMMA TakenMarks ==
    ASSUME NEW fs \in Seq(Frame), NEW gs \in Seq(Frame), NEW p, NEW pi, Taken(fs, gs, p, pi),
           ~fs[p].reset, NEW n, NEW at \in Nat, InOrder(fs, at, n),
           NEW k \in DOMAIN fs, k < p, Marks(fs[k], n), fs[k].at > fs[p].at
    PROVE  \E r \in DOMAIN fs : r > p /\ fs[r].reset
<1>1. DOMAIN fs \subseteq Nat /\ p \in DOMAIN fs /\ \A i \in DOMAIN fs : fs[i].at \in Nat
  BY FrameFacts DEF Taken
<1>2. ~Fresh(fs, k)
  BY <1>1 DEF InOrder
<1>3. PICK j \in DOMAIN fs : j > k /\ fs[j].reset
  BY <1>2 DEF Fresh
<1>4. PICK r \in DOMAIN fs : r >= j /\ fs[r].reset /\ Fresh(fs, r)
  BY <1>3, LastReset
<1>5. r > k
  BY <1>1, <1>3, <1>4
<1>6. ASSUME r < p PROVE FALSE
  <2>1. fs[k].at <= fs[r].at
    BY <1>5, <1>6 DEF Taken
  <2>2. fs[r].at <= fs[p].at
    BY <1>1, <1>4, <1>6 DEF InOrder, Marks
  <2> QED
    BY <1>1, <2>1, <2>2
<1>7. r # p
  BY <1>4
<1> QED
  BY <1>1, <1>4, <1>6, <1>7

\* A reset that is still on its way stays behind what the client keeps.
LEMMA TakenReset ==
    ASSUME NEW fs \in Seq(Frame), NEW gs \in Seq(Frame), NEW p, NEW pi, Taken(fs, gs, p, pi),
           NEW r \in DOMAIN fs, r > p, fs[r].reset,
           NEW i \in DOMAIN gs, pi[i] <= p
    PROVE  \E j \in DOMAIN gs : j > i /\ pi[j] = r /\ gs[j].reset
<1>1. /\ DOMAIN fs \subseteq Nat /\ DOMAIN gs \subseteq Nat
      /\ p \in DOMAIN fs /\ pi[i] \in DOMAIN fs
  <2>1. DOMAIN fs \subseteq Nat /\ DOMAIN gs \subseteq Nat
    BY FrameFacts
  <2>2. p \in DOMAIN fs /\ pi[i] \in DOMAIN fs
    BY DEF Taken
  <2> QED
    BY <2>1, <2>2
<1>2. PICK j \in DOMAIN gs : pi[j] = r
  <2>1. ~(r < p)
    BY <1>1
  <2>2. \A k \in DOMAIN fs : (\E j \in DOMAIN gs : pi[j] = k) \/ k < p
    BY DEF Taken
  <2> QED
    BY <2>1, <2>2
<1>3. gs[j].reset
  BY <1>2 DEF Taken
<1>4. j # i
  BY <1>1, <1>2
<1>5. ~(j < i)
  BY <1>1, <1>2 DEF Taken
<1> QED
  BY <1>1, <1>2, <1>3, <1>4, <1>5

\* What undid a frame that the client keeps still does, or a later reset does.
LEMMA TakenUndoes ==
    ASSUME NEW fs \in Seq(Frame), NEW gs \in Seq(Frame), NEW p, NEW pi, Taken(fs, gs, p, pi),
           NEW n, NEW at \in Nat, InOrder(fs, at, n),
           NEW i \in DOMAIN gs, NEW k \in DOMAIN fs, k > pi[i], Undoes(fs, pi[i], k)
    PROVE  \E j \in DOMAIN gs : /\ j > i /\ Undoes(gs, i, j)
                                /\ pi[j] = k \/ (pi[j] > p /\ fs[pi[j]].reset)
<1>1. /\ DOMAIN fs \subseteq Nat /\ DOMAIN gs \subseteq Nat
      /\ p \in DOMAIN fs /\ pi[i] \in DOMAIN fs
      /\ \A j \in DOMAIN fs : fs[j].at \in Nat
  BY FrameFacts DEF Taken
<1>2. pi[i] < p => ~fs[p].reset /\ (fs[p].cancel => fs[pi[i]].at <= fs[p].at)
  BY DEF Taken
<1>3. k # p
  BY <1>1, <1>2 DEF Undoes
<1>4. CASE \E j \in DOMAIN gs : pi[j] = k
  <2>1. PICK j \in DOMAIN gs : pi[j] = k
    BY <1>4
  <2>2. ~(j < i)
    BY <1>1, <1>3, <2>1 DEF Taken
  <2>3. j > i
    BY <1>1, <2>1, <2>2
  <2>4. Undoes(gs, i, j)
    BY <1>3, <2>1 DEF Undoes, Taken
  <2> QED
    BY <2>1, <2>3, <2>4
<1>5. CASE ~\E j \in DOMAIN gs : pi[j] = k
  <2>1. k < p /\ (fs[p].reset \/ (fs[p].cancel /\ fs[k].at > fs[p].at))
    BY <1>5 DEF Taken
  <2>2. pi[i] < p
    BY <1>1, <2>1
  <2>3. ~fs[p].reset /\ fs[k].at > fs[p].at /\ fs[k].reset
    BY <1>2, <2>1, <2>2 DEF Undoes, Taken
  <2>4. PICK r \in DOMAIN fs : r > p /\ fs[r].reset
    BY <2>1, <2>3, TakenMarks DEF Marks
  <2>5. PICK j \in DOMAIN gs : j > i /\ pi[j] = r /\ gs[j].reset
    BY <1>1, <2>2, <2>4, TakenReset
  <2> QED
    BY <2>4, <2>5 DEF Undoes
<1> QED
  BY <1>4, <1>5

\* The frames that decide whether n is there stay in order.
LEMMA TakenInOrder ==
    ASSUME NEW fs \in Seq(Frame), NEW gs \in Seq(Frame), NEW p, NEW pi, Taken(fs, gs, p, pi),
           NEW n, NEW at \in Nat, InOrder(fs, at, n)
    PROVE  InOrder(gs, at, n)
<1>1. /\ DOMAIN fs \subseteq Nat /\ DOMAIN gs \subseteq Nat /\ p \in DOMAIN fs
      /\ \A i \in DOMAIN gs : pi[i] \in DOMAIN fs
      /\ \A j \in DOMAIN fs : fs[j].at \in Nat
  BY FrameFacts DEF Taken
<1> SUFFICES ASSUME NEW i \in DOMAIN gs, Marks(gs[i], n), Fresh(gs, i)
             PROVE  gs[i].at <= at /\ \A j \in DOMAIN gs : j > i => gs[i].at <= gs[j].at
  BY DEF InOrder
<1>2. Marks(fs[pi[i]], n)
  BY DEF Taken, Marks
<1>3. Fresh(fs, pi[i])
  <2> SUFFICES ASSUME NEW k \in DOMAIN fs, k > pi[i], fs[k].reset PROVE FALSE
    BY DEF Fresh
  <2>1. PICK j \in DOMAIN gs : /\ j > i /\ Undoes(gs, i, j)
                               /\ pi[j] = k \/ (pi[j] > p /\ fs[pi[j]].reset)
    BY TakenUndoes DEF Undoes
  <2>2. gs[j].reset
    BY <2>1 DEF Taken
  <2> QED
    BY <2>1, <2>2 DEF Fresh
<1>4. /\ fs[pi[i]].at <= at
      /\ \A j \in DOMAIN fs : j > pi[i] => fs[pi[i]].at <= fs[j].at
  BY <1>1, <1>2, <1>3 DEF InOrder
<1>5. gs[i].at <= at
  BY <1>4 DEF Taken
<1>6. ASSUME NEW j \in DOMAIN gs, j > i PROVE gs[i].at <= gs[j].at
  <2>1. gs[i].at = fs[pi[i]].at /\ gs[j].at = fs[pi[j]].at
    BY DEF Taken
  <2>2. pi[i] < pi[j] \/ (pi[i] = p /\ fs[pi[j]].at > fs[p].at)
    BY <1>1, <1>6 DEF Taken
  <2> QED
    BY <1>1, <1>4, <2>1, <2>2
<1> QED
  BY <1>5, <1>6

\* What is for later stays undone.
LEMMA TakenUndone ==
    ASSUME NEW fs \in Seq(Frame), NEW gs \in Seq(Frame), NEW p, NEW pi, Taken(fs, gs, p, pi),
           NEW n, NEW at \in Nat, InOrder(fs, at, n), Undone(fs, at, n)
    PROVE  Undone(gs, at, n)
<1> SUFFICES ASSUME NEW i \in DOMAIN gs, Names(gs[i], n), gs[i].at > at
             PROVE  \E k \in DOMAIN gs : k > i /\ Undoes(gs, i, k)
  BY DEF Undone
<1>1. pi[i] \in DOMAIN fs /\ Names(fs[pi[i]], n) /\ fs[pi[i]].at > at
  BY DEF Taken, Names
<1>2. PICK k \in DOMAIN fs : k > pi[i] /\ Undoes(fs, pi[i], k)
  BY <1>1 DEF Undone
<1> QED
  BY <1>2, TakenUndoes

\* When no reset follows the last frame that names n, the client keeps that one
\* and it stays the last.
LEMMA TakenLast ==
    ASSUME NEW fs \in Seq(Frame), NEW gs \in Seq(Frame), NEW p, NEW pi, Taken(fs, gs, p, pi),
           NEW n, NEW at \in Nat, InOrder(fs, at, n), LastStands(fs, at, n),
           NEW m \in DOMAIN fs, LastNaming(fs, m, n),
           \A k \in DOMAIN fs : k > m => ~fs[k].reset
    PROVE  /\ \E i \in DOMAIN gs : pi[i] = m
           /\ \A i \in DOMAIN gs : LastNaming(gs, i, n) => pi[i] = m
<1>1. /\ DOMAIN fs \subseteq Nat /\ DOMAIN gs \subseteq Nat /\ p \in DOMAIN fs
      /\ \A i \in DOMAIN gs : pi[i] \in DOMAIN fs
      /\ \A j \in DOMAIN fs : fs[j].at \in Nat
  BY FrameFacts DEF Taken
<1>2. /\ \A k \in DOMAIN fs : k > m => fs[m].at <= fs[k].at
      /\ \A i \in DOMAIN fs : i < m /\ Names(fs[i], n) /\ fs[i].at > fs[m].at =>
             \E k \in DOMAIN fs : i < k /\ k <= m /\ Undoes(fs, i, k)
  BY DEF LastStands
<1>3. \E i \in DOMAIN gs : pi[i] = m
  <2> SUFFICES ASSUME ~\E i \in DOMAIN gs : pi[i] = m PROVE FALSE
    OBVIOUS
  <2>1. m < p /\ (fs[p].reset \/ fs[m].at > fs[p].at)
    BY DEF Taken
  <2>2. ~fs[p].reset /\ fs[m].at <= fs[p].at
    BY <1>1, <1>2, <2>1
  <2> QED
    BY <1>1, <2>1, <2>2
<1>4. ASSUME NEW i \in DOMAIN gs, LastNaming(gs, i, n), pi[i] # m PROVE FALSE
  <2>1. PICK j \in DOMAIN gs : pi[j] = m
    BY <1>3
  <2>2. Names(gs[j], n)
    BY <2>1 DEF Taken, Names, LastNaming
  <2>3. j < i
    BY <1>1, <1>4, <2>1, <2>2 DEF LastNaming
  <2>4. Names(fs[pi[i]], n)
    BY <1>4 DEF Taken, Names, LastNaming
  <2>5. pi[i] < m
    BY <1>1, <1>4, <2>4 DEF LastNaming
  <2>6. m = p /\ fs[pi[i]].at > fs[p].at
    BY <1>1, <2>1, <2>3, <2>5 DEF Taken
  <2>7. PICK k \in DOMAIN fs : pi[i] < k /\ k <= m /\ Undoes(fs, pi[i], k)
    BY <1>1, <1>2, <2>4, <2>5, <2>6
  <2>8. ~fs[p].reset
    BY <2>5, <2>6 DEF Taken
  <2>9. k # p
    BY <1>1, <2>5, <2>6, <2>7, <2>8 DEF Undoes, Taken
  <2>10. k < p /\ fs[k].reset
    BY <1>1, <2>6, <2>7, <2>9 DEF Undoes, Taken
  <2>11. fs[k].at > fs[p].at
    <3>1. fs[pi[i]].at <= fs[k].at
      BY <1>1, <2>7, <2>10 DEF Taken
    <3> QED
      BY <1>1, <2>6, <3>1
  <2>12. PICK r \in DOMAIN fs : r > p /\ fs[r].reset
    BY <2>8, <2>10, <2>11, TakenMarks DEF Marks
  <2> QED
    BY <2>6, <2>12
<1> QED
  BY <1>3, <1>4

\* The last frame that names n stays the last to be shown.
LEMMA TakenLastStands ==
    ASSUME NEW fs \in Seq(Frame), NEW gs \in Seq(Frame), NEW p, NEW pi, Taken(fs, gs, p, pi),
           NEW n, NEW at \in Nat, InOrder(fs, at, n), LastStands(fs, at, n),
           NEW m \in DOMAIN fs, LastNaming(fs, m, n),
           \A k \in DOMAIN fs : k > m => ~fs[k].reset
    PROVE  LastStands(gs, at, n)
<1>1. /\ DOMAIN fs \subseteq Nat /\ DOMAIN gs \subseteq Nat /\ p \in DOMAIN fs
      /\ \A i \in DOMAIN gs : pi[i] \in DOMAIN fs
      /\ \A j \in DOMAIN fs : fs[j].at \in Nat
  BY FrameFacts DEF Taken
<1>2. /\ fs[m].at <= at
      /\ \A k \in DOMAIN fs : k > m => fs[m].at <= fs[k].at
      /\ \A i \in DOMAIN fs : i < m /\ Names(fs[i], n) /\ fs[i].at > fs[m].at =>
             \E k \in DOMAIN fs : i < k /\ k <= m /\ Undoes(fs, i, k)
  BY DEF LastStands
<1> SUFFICES ASSUME NEW l \in DOMAIN gs, LastNaming(gs, l, n)
             PROVE  /\ gs[l].at <= at
                    /\ \A k \in DOMAIN gs : k > l => gs[l].at <= gs[k].at
                    /\ \A i \in DOMAIN gs : i < l /\ Names(gs[i], n) /\ gs[i].at > gs[l].at =>
                           \E k \in DOMAIN gs : i < k /\ k <= l /\ Undoes(gs, i, k)
  BY DEF LastStands
<1>3. pi[l] = m
  BY TakenLast
<1>4. gs[l].at = fs[m].at
  BY <1>3 DEF Taken
<1>5. ASSUME NEW k \in DOMAIN gs, k > l PROVE gs[l].at <= gs[k].at
  <2>1. gs[k].at = fs[pi[k]].at
    BY DEF Taken
  <2>2. m < pi[k] \/ fs[pi[k]].at > fs[m].at
    BY <1>1, <1>3, <1>5 DEF Taken
  <2> QED
    BY <1>1, <1>2, <1>4, <2>1, <2>2
<1>6. ASSUME NEW i \in DOMAIN gs, i < l, Names(gs[i], n), gs[i].at > gs[l].at
      PROVE  \E k \in DOMAIN gs : i < k /\ k <= l /\ Undoes(gs, i, k)
  <2>1. gs[i].at = fs[pi[i]].at /\ Names(fs[pi[i]], n)
    BY <1>6 DEF Taken, Names
  <2>2. pi[i] < m
    BY <1>1, <1>3, <1>4, <1>6, <2>1 DEF Taken
  <2>3. PICK k \in DOMAIN fs : pi[i] < k /\ k <= m /\ Undoes(fs, pi[i], k)
    BY <1>1, <1>2, <1>4, <1>6, <2>1, <2>2
  <2>4. PICK j \in DOMAIN gs : /\ j > i /\ Undoes(gs, i, j)
                               /\ pi[j] = k \/ (pi[j] > p /\ fs[pi[j]].reset)
    BY <2>3, TakenUndoes
  <2>5. pi[j] <= m
    BY <1>1, <2>3, <2>4
  <2>6. ASSUME j > l PROVE FALSE
    <3>1. m = p /\ pi[j] < p /\ fs[pi[j]].at > fs[p].at
      BY <1>1, <1>3, <2>5, <2>6 DEF Taken
    <3>2. pi[j] = k /\ ~fs[p].reset
      BY <1>1, <2>4, <3>1 DEF Taken
    <3>3. fs[k].reset
      BY <1>1, <2>3, <3>1, <3>2 DEF Undoes, Taken
    <3>4. PICK r \in DOMAIN fs : r > p /\ fs[r].reset
      BY <3>1, <3>2, <3>3, TakenMarks DEF Marks
    <3> QED
      BY <3>1, <3>4
  <2>7. j <= l
    BY <1>1, <2>6
  <2> QED
    BY <2>4, <2>7
<1> QED
  BY <1>2, <1>4, <1>5, <1>6

\* A frame comes last, or takes the place of the one that waited for room.
Added(fs, gs, l) ==
    /\ l \in Nat /\ DOMAIN gs = 1..(l + 1) /\ DOMAIN fs \in {1..l, 1..(l + 1)}
    /\ \A i \in 1..l : gs[i] = fs[i]
    /\ l + 1 \in DOMAIN fs => /\ fs[l + 1].reset => gs[l + 1].reset
                              /\ fs[l + 1].cancel => gs[l + 1].cancel \/ gs[l + 1].reset

\* Where the new frame is, and what stays.
LEMMA AddedFacts ==
    ASSUME NEW fs \in Seq(Frame), NEW gs \in Seq(Frame), NEW l, Added(fs, gs, l)
    PROVE  /\ l \in Nat /\ l + 1 \in DOMAIN gs /\ DOMAIN fs \subseteq Nat /\ DOMAIN gs \subseteq Nat
           /\ \A i \in DOMAIN gs : i = l + 1 \/ i \in 1..l
           /\ \A i \in DOMAIN fs : i = l + 1 \/ i \in 1..l
           /\ \A i \in 1..l : i \in DOMAIN fs /\ i \in DOMAIN gs /\ i < l + 1 /\ gs[i] = fs[i]
           /\ \A i \in DOMAIN fs : fs[i].at \in Nat
           /\ \A i \in DOMAIN gs : gs[i].at \in Nat
<1>1. /\ \A i \in DOMAIN fs : fs[i].at \in Nat
      /\ \A i \in DOMAIN gs : gs[i].at \in Nat
  BY FrameFacts
<1>2. /\ l \in Nat /\ DOMAIN gs = 1..(l + 1) /\ (DOMAIN fs = 1..l \/ DOMAIN fs = 1..(l + 1))
      /\ \A i \in 1..l : gs[i] = fs[i]
  BY DEF Added
<1>3. /\ l + 1 \in 1..(l + 1) /\ 1..l \subseteq Nat /\ 1..(l + 1) \subseteq Nat
      /\ \A i \in 1..(l + 1) : i = l + 1 \/ i \in 1..l
      /\ \A i \in 1..l : i \in 1..(l + 1) /\ i < l + 1
  BY <1>2
<1> QED
  BY <1>1, <1>2, <1>3

\* The frames that decide whether n is there stay in order.
LEMMA AddedInOrder ==
    ASSUME NEW fs \in Seq(Frame), NEW gs \in Seq(Frame), NEW l, Added(fs, gs, l),
           NEW n, NEW at \in Nat, NEW then \in Nat, at <= then, at <= gs[l + 1].at,
           InOrder(fs, at, n), Marks(gs[l + 1], n) => gs[l + 1].at <= then
    PROVE  InOrder(gs, then, n)
<1>1. /\ l \in Nat /\ l + 1 \in DOMAIN gs /\ DOMAIN fs \subseteq Nat /\ DOMAIN gs \subseteq Nat
      /\ \A i \in DOMAIN gs : i = l + 1 \/ i \in 1..l
      /\ \A i \in DOMAIN fs : i = l + 1 \/ i \in 1..l
      /\ \A i \in 1..l : i \in DOMAIN fs /\ i \in DOMAIN gs /\ i < l + 1 /\ gs[i] = fs[i]
      /\ \A i \in DOMAIN fs : fs[i].at \in Nat
      /\ \A i \in DOMAIN gs : gs[i].at \in Nat
  BY AddedFacts
<1> SUFFICES ASSUME NEW i \in DOMAIN gs, Marks(gs[i], n), Fresh(gs, i)
             PROVE  gs[i].at <= then /\ \A j \in DOMAIN gs : j > i => gs[i].at <= gs[j].at
  BY DEF InOrder
<1>2. CASE i = l + 1
  BY <1>1, <1>2
<1>3. CASE i # l + 1
  <2>1. i \in 1..l /\ i \in DOMAIN fs /\ gs[i] = fs[i] /\ i < l + 1
    BY <1>1, <1>3
  <2>2. Fresh(fs, i)
    <3> SUFFICES ASSUME NEW k \in DOMAIN fs, k > i, fs[k].reset PROVE FALSE
      BY DEF Fresh
    <3>1. k = l + 1 => gs[k].reset
      BY DEF Added
    <3>2. k # l + 1 => gs[k].reset
      BY <1>1
    <3> QED
      BY <1>1, <3>1, <3>2 DEF Fresh
  <2>3. fs[i].at <= at /\ \A j \in DOMAIN fs : j > i => fs[i].at <= fs[j].at
    BY <2>1, <2>2 DEF InOrder
  <2>4. ASSUME NEW j \in DOMAIN gs, j > i PROVE gs[i].at <= gs[j].at
    <3>1. CASE j = l + 1
      BY <1>1, <2>1, <2>3, <3>1
    <3>2. CASE j # l + 1
      <4>1. j \in DOMAIN fs /\ gs[j] = fs[j]
        BY <1>1, <3>2
      <4> QED
        BY <2>1, <2>3, <2>4, <4>1
    <3> QED
      BY <3>1, <3>2
  <2>5. gs[i].at <= then
    BY <1>1, <2>1, <2>3
  <2> QED
    BY <2>4, <2>5
<1> QED
  BY <1>2, <1>3

\* What is for later stays undone.
LEMMA AddedUndone ==
    ASSUME NEW fs \in Seq(Frame), NEW gs \in Seq(Frame), NEW l, Added(fs, gs, l),
           NEW n, NEW at \in Nat, NEW then \in Nat, at <= then,
           Undone(fs, at, n), Names(gs[l + 1], n) \/ l + 1 \in DOMAIN fs => gs[l + 1].at <= then
    PROVE  Undone(gs, then, n)
<1>1. /\ l \in Nat /\ l + 1 \in DOMAIN gs /\ DOMAIN fs \subseteq Nat /\ DOMAIN gs \subseteq Nat
      /\ \A i \in DOMAIN gs : i = l + 1 \/ i \in 1..l
      /\ \A i \in DOMAIN fs : i = l + 1 \/ i \in 1..l
      /\ \A i \in 1..l : i \in DOMAIN fs /\ i \in DOMAIN gs /\ i < l + 1 /\ gs[i] = fs[i]
      /\ \A i \in DOMAIN fs : fs[i].at \in Nat
      /\ \A i \in DOMAIN gs : gs[i].at \in Nat
  BY AddedFacts
<1> SUFFICES ASSUME NEW i \in DOMAIN gs, Names(gs[i], n), gs[i].at > then
             PROVE  \E k \in DOMAIN gs : k > i /\ Undoes(gs, i, k)
  BY DEF Undone
<1>2. i # l + 1
  BY <1>1
<1>3. i \in 1..l /\ i \in DOMAIN fs /\ gs[i] = fs[i] /\ fs[i].at > at
  BY <1>1, <1>2
<1>4. PICK k \in DOMAIN fs : k > i /\ Undoes(fs, i, k)
  BY <1>3 DEF Undone
<1>5. CASE k = l + 1
  <2>1. gs[l + 1].reset \/ gs[l + 1].cancel
    BY <1>4, <1>5 DEF Undoes, Added
  <2>2. gs[l + 1].at < gs[i].at
    BY <1>1, <1>4, <1>5
  <2> QED
    BY <1>1, <1>4, <1>5, <2>1, <2>2 DEF Undoes
<1>6. CASE k # l + 1
  <2>1. k \in DOMAIN gs /\ gs[k] = fs[k]
    BY <1>1, <1>6
  <2> QED
    BY <1>3, <1>4, <2>1 DEF Undoes
<1> QED
  BY <1>5, <1>6

\* A last frame that cancels or resets undoes all for later than it.
LEMMA AddedCancels ==
    ASSUME NEW fs \in Seq(Frame), NEW gs \in Seq(Frame), NEW l, Added(fs, gs, l),
           NEW n, NEW then \in Nat,
           gs[l + 1].cancel \/ gs[l + 1].reset, gs[l + 1].at <= then
    PROVE  Undone(gs, then, n)
<1>1. /\ l \in Nat /\ l + 1 \in DOMAIN gs
      /\ \A i \in DOMAIN gs : i = l + 1 \/ i \in 1..l
      /\ \A i \in 1..l : i < l + 1
      /\ \A i \in DOMAIN gs : gs[i].at \in Nat
  BY AddedFacts
<1> SUFFICES ASSUME NEW i \in DOMAIN gs, Names(gs[i], n), gs[i].at > then
             PROVE  \E k \in DOMAIN gs : k > i /\ Undoes(gs, i, k)
  BY DEF Undone
<1>2. i # l + 1
  BY <1>1
<1>3. gs[l + 1].at < gs[i].at /\ l + 1 > i
  BY <1>1, <1>2
<1> QED
  BY <1>1, <1>3 DEF Undoes

\* After a frame that resets only it decides whether n is there.
LEMMA AddedReset ==
    ASSUME NEW fs \in Seq(Frame), NEW gs \in Seq(Frame), NEW l, Added(fs, gs, l),
           NEW n, NEW then \in Nat, gs[l + 1].reset, gs[l + 1].at <= then
    PROVE  InOrder(gs, then, n)
<1>1. /\ l \in Nat /\ l + 1 \in DOMAIN gs
      /\ \A i \in DOMAIN gs : i = l + 1 \/ i \in 1..l
      /\ \A i \in 1..l : i < l + 1
      /\ \A i \in DOMAIN gs : gs[i].at \in Nat
  BY AddedFacts
<1> SUFFICES ASSUME NEW i \in DOMAIN gs, Fresh(gs, i)
             PROVE  gs[i].at <= then /\ \A j \in DOMAIN gs : j > i => gs[i].at <= gs[j].at
  BY DEF InOrder
<1>2. i = l + 1
  BY <1>1 DEF Fresh
<1>3. \A j \in DOMAIN gs : ~(j > i)
  BY <1>1, <1>2
<1> QED
  BY <1>2, <1>3

\* A new frame that names n is the last to be shown when what is for later is
\* undone.
LEMMA AddedNames ==
    ASSUME NEW fs \in Seq(Frame), NEW gs \in Seq(Frame), NEW l, Added(fs, gs, l),
           NEW n, NEW then \in Nat, gs[l + 1].at <= then,
           Names(gs[l + 1], n), Undone(gs, gs[l + 1].at, n)
    PROVE  LastStands(gs, then, n)
<1>1. /\ l \in Nat /\ l + 1 \in DOMAIN gs /\ DOMAIN gs \subseteq Nat
      /\ \A i \in DOMAIN gs : i = l + 1 \/ i \in 1..l
      /\ \A i \in 1..l : i < l + 1
      /\ \A i \in DOMAIN gs : gs[i].at \in Nat
  BY AddedFacts
<1> SUFFICES ASSUME NEW m \in DOMAIN gs, LastNaming(gs, m, n)
             PROVE  /\ gs[m].at <= then
                    /\ \A k \in DOMAIN gs : k > m => gs[m].at <= gs[k].at
                    /\ \A i \in DOMAIN gs : i < m /\ Names(gs[i], n) /\ gs[i].at > gs[m].at =>
                           \E k \in DOMAIN gs : i < k /\ k <= m /\ Undoes(gs, i, k)
  BY DEF LastStands
<1>2. m = l + 1
  BY <1>1 DEF LastNaming
<1>3. \A k \in DOMAIN gs : k <= m
  BY <1>1, <1>2
<1>4. \A k \in DOMAIN gs : ~(k > m)
  BY <1>1, <1>3
<1>5. ASSUME NEW i \in DOMAIN gs, Names(gs[i], n), gs[i].at > gs[m].at
      PROVE  \E k \in DOMAIN gs : i < k /\ k <= m /\ Undoes(gs, i, k)
  <2>1. PICK k \in DOMAIN gs : k > i /\ Undoes(gs, i, k)
    BY <1>2, <1>5 DEF Undone
  <2> QED
    BY <1>1, <1>3, <2>1
<1> QED
  BY <1>2, <1>4, <1>5

\* A new frame that does not name n changes nothing about the last that does.
LEMMA AddedLastStands ==
    ASSUME NEW fs \in Seq(Frame), NEW gs \in Seq(Frame), NEW l, Added(fs, gs, l),
           NEW n, NEW at \in Nat, NEW then \in Nat, at <= then, at <= gs[l + 1].at,
           LastStands(fs, at, n), ~Names(gs[l + 1], n),
           l + 1 \in DOMAIN fs => ~Names(fs[l + 1], n)
    PROVE  LastStands(gs, then, n)
<1>1. /\ l \in Nat /\ l + 1 \in DOMAIN gs /\ DOMAIN fs \subseteq Nat /\ DOMAIN gs \subseteq Nat
      /\ \A i \in DOMAIN gs : i = l + 1 \/ i \in 1..l
      /\ \A i \in DOMAIN fs : i = l + 1 \/ i \in 1..l
      /\ \A i \in 1..l : i \in DOMAIN fs /\ i \in DOMAIN gs /\ i < l + 1 /\ gs[i] = fs[i]
      /\ \A i \in DOMAIN fs : fs[i].at \in Nat
      /\ \A i \in DOMAIN gs : gs[i].at \in Nat
  BY AddedFacts
<1> SUFFICES ASSUME NEW m \in DOMAIN gs, LastNaming(gs, m, n)
             PROVE  /\ gs[m].at <= then
                    /\ \A k \in DOMAIN gs : k > m => gs[m].at <= gs[k].at
                    /\ \A i \in DOMAIN gs : i < m /\ Names(gs[i], n) /\ gs[i].at > gs[m].at =>
                           \E k \in DOMAIN gs : i < k /\ k <= m /\ Undoes(gs, i, k)
  BY DEF LastStands
<1>2. m \in 1..l /\ m \in DOMAIN fs /\ gs[m] = fs[m] /\ m < l + 1
  BY <1>1 DEF LastNaming
<1>3. LastNaming(fs, m, n)
  <2> SUFFICES ASSUME NEW k \in DOMAIN fs, k > m, Names(fs[k], n) PROVE FALSE
    BY <1>2 DEF LastNaming
  <2>1. k # l + 1
    OBVIOUS
  <2>2. k \in DOMAIN gs /\ gs[k] = fs[k]
    BY <1>1, <2>1
  <2> QED
    BY <2>2 DEF LastNaming
<1>4. /\ fs[m].at <= at
      /\ \A k \in DOMAIN fs : k > m => fs[m].at <= fs[k].at
      /\ \A i \in DOMAIN fs : i < m /\ Names(fs[i], n) /\ fs[i].at > fs[m].at =>
             \E k \in DOMAIN fs : i < k /\ k <= m /\ Undoes(fs, i, k)
  BY <1>2, <1>3 DEF LastStands
<1>5. gs[m].at <= then
  BY <1>1, <1>2, <1>4
<1>6. ASSUME NEW k \in DOMAIN gs, k > m PROVE gs[m].at <= gs[k].at
  <2>1. CASE k = l + 1
    BY <1>1, <1>2, <1>4, <2>1
  <2>2. CASE k # l + 1
    <3>1. k \in DOMAIN fs /\ gs[k] = fs[k]
      BY <1>1, <2>2
    <3> QED
      BY <1>2, <1>4, <1>6, <3>1
  <2> QED
    BY <2>1, <2>2
<1>7. ASSUME NEW i \in DOMAIN gs, i < m, Names(gs[i], n), gs[i].at > gs[m].at
      PROVE  \E k \in DOMAIN gs : i < k /\ k <= m /\ Undoes(gs, i, k)
  <2>1. i \in 1..l /\ i \in DOMAIN fs /\ gs[i] = fs[i]
    BY <1>1, <1>2, <1>7
  <2>2. PICK k \in DOMAIN fs : i < k /\ k <= m /\ Undoes(fs, i, k)
    BY <1>2, <1>4, <1>7, <2>1
  <2>3. k # l + 1
    BY <1>1, <1>2, <2>2
  <2>4. k \in DOMAIN gs /\ gs[k] = fs[k]
    BY <1>1, <2>3
  <2> QED
    BY <2>1, <2>2, <2>4 DEF Undoes
<1> QED
  BY <1>5, <1>6, <1>7

\* The first c frames were shown, and time may have passed.
Dropped(fs, gs, c) ==
    /\ c \in Nat
    /\ \A i \in DOMAIN gs : i + c \in DOMAIN fs /\ gs[i] = fs[i + c]
    /\ \A i \in DOMAIN fs : i > c => i - c \in DOMAIN gs

\* Frames that were shown, and time that passes, disturb nothing.
LEMMA DroppedKeeps ==
    ASSUME NEW fs \in Seq(Frame), NEW gs \in Seq(Frame), NEW c, Dropped(fs, gs, c),
           NEW n, NEW at \in Nat, NEW then \in Nat, at <= then
    PROVE  /\ InOrder(fs, at, n) => InOrder(gs, then, n)
           /\ Undone(fs, at, n) => Undone(gs, then, n)
           /\ LastStands(fs, at, n) => LastStands(gs, then, n)
<1>1. /\ c \in Nat /\ DOMAIN fs \subseteq Nat /\ DOMAIN gs \subseteq Nat
      /\ \A i \in DOMAIN fs : fs[i].at \in Nat
      /\ \A i \in DOMAIN gs : gs[i].at \in Nat
      /\ \A i \in DOMAIN gs : i + c \in DOMAIN fs /\ gs[i] = fs[i + c] /\ i + c > c
  <2>1. /\ DOMAIN fs \subseteq Nat /\ DOMAIN gs \subseteq Nat /\ DOMAIN gs = 1..Len(gs)
        /\ \A i \in DOMAIN fs : fs[i].at \in Nat
        /\ \A i \in DOMAIN gs : gs[i].at \in Nat
    BY FrameFacts
  <2>2. c \in Nat /\ \A i \in DOMAIN gs : i + c \in DOMAIN fs /\ gs[i] = fs[i + c]
    BY DEF Dropped
  <2>3. \A i \in DOMAIN gs : i + c > c
    BY <2>1, <2>2
  <2> QED
    BY <2>1, <2>2, <2>3
<1>2. \A i, j \in DOMAIN gs : j > i <=> j + c > i + c
  BY <1>1
<1>3. ASSUME NEW k \in DOMAIN fs, k > c
      PROVE  k - c \in DOMAIN gs /\ gs[k - c] = fs[k] /\ (k - c) + c = k
  <2>1. k - c \in DOMAIN gs
    BY <1>3 DEF Dropped
  <2>2. (k - c) + c = k
    BY <1>1
  <2> QED
    BY <1>1, <2>1, <2>2
<1>4. ASSUME InOrder(fs, at, n) PROVE InOrder(gs, then, n)
  <2> SUFFICES ASSUME NEW i \in DOMAIN gs, Marks(gs[i], n), Fresh(gs, i)
               PROVE  gs[i].at <= then /\ \A j \in DOMAIN gs : j > i => gs[i].at <= gs[j].at
    BY DEF InOrder
  <2>1. Fresh(fs, i + c)
    <3> SUFFICES ASSUME NEW k \in DOMAIN fs, k > i + c, fs[k].reset PROVE FALSE
      BY DEF Fresh
    <3>1. k > c
      BY <1>1
    <3>2. k - c \in DOMAIN gs /\ gs[k - c] = fs[k] /\ (k - c) + c = k
      BY <1>3, <3>1
    <3> QED
      BY <1>2, <3>2 DEF Fresh
  <2>2. /\ fs[i + c].at <= at
        /\ \A j \in DOMAIN fs : j > i + c => fs[i + c].at <= fs[j].at
    BY <1>1, <1>4, <2>1 DEF InOrder
  <2>3. gs[i].at <= then
    BY <1>1, <2>2
  <2>4. \A j \in DOMAIN gs : j > i => gs[i].at <= gs[j].at
    BY <1>1, <1>2, <2>2
  <2> QED
    BY <2>3, <2>4
<1>5. ASSUME Undone(fs, at, n) PROVE Undone(gs, then, n)
  <2> SUFFICES ASSUME NEW i \in DOMAIN gs, Names(gs[i], n), gs[i].at > then
               PROVE  \E k \in DOMAIN gs : k > i /\ Undoes(gs, i, k)
    BY DEF Undone
  <2>1. fs[i + c].at > at
    BY <1>1
  <2>2. PICK k \in DOMAIN fs : k > i + c /\ Undoes(fs, i + c, k)
    BY <1>1, <1>5, <2>1 DEF Undone
  <2>3. k > c
    BY <1>1, <2>2
  <2>4. k - c \in DOMAIN gs /\ gs[k - c] = fs[k] /\ (k - c) + c = k
    BY <1>3, <2>3
  <2>5. k - c > i
    BY <1>2, <2>2, <2>4
  <2> QED
    BY <1>1, <2>2, <2>4, <2>5 DEF Undoes
<1>6. ASSUME LastStands(fs, at, n) PROVE LastStands(gs, then, n)
  <2> SUFFICES ASSUME NEW m \in DOMAIN gs, LastNaming(gs, m, n)
               PROVE  /\ gs[m].at <= then
                      /\ \A k \in DOMAIN gs : k > m => gs[m].at <= gs[k].at
                      /\ \A i \in DOMAIN gs : i < m /\ Names(gs[i], n) /\ gs[i].at > gs[m].at =>
                             \E k \in DOMAIN gs : i < k /\ k <= m /\ Undoes(gs, i, k)
    BY DEF LastStands
  <2>1. LastNaming(fs, m + c, n)
    <3> SUFFICES ASSUME NEW k \in DOMAIN fs, k > m + c, Names(fs[k], n) PROVE FALSE
      BY <1>1 DEF LastNaming
    <3>1. k > c
      BY <1>1
    <3>2. k - c \in DOMAIN gs /\ gs[k - c] = fs[k] /\ (k - c) + c = k
      BY <1>3, <3>1
    <3> QED
      BY <1>2, <3>2 DEF LastNaming
  <2>2. /\ fs[m + c].at <= at
        /\ \A k \in DOMAIN fs : k > m + c => fs[m + c].at <= fs[k].at
        /\ \A i \in DOMAIN fs : i < m + c /\ Names(fs[i], n) /\ fs[i].at > fs[m + c].at =>
               \E k \in DOMAIN fs : i < k /\ k <= m + c /\ Undoes(fs, i, k)
    BY <1>1, <1>6, <2>1 DEF LastStands
  <2>3. gs[m].at <= then
    BY <1>1, <2>2
  <2>4. \A k \in DOMAIN gs : k > m => gs[m].at <= gs[k].at
    BY <1>1, <1>2, <2>2
  <2>5. ASSUME NEW i \in DOMAIN gs, i < m, Names(gs[i], n), gs[i].at > gs[m].at
        PROVE  \E k \in DOMAIN gs : i < k /\ k <= m /\ Undoes(gs, i, k)
    <3>1. i + c < m + c /\ Names(fs[i + c], n) /\ fs[i + c].at > fs[m + c].at
      BY <1>1, <1>2, <2>5
    <3>2. PICK k \in DOMAIN fs : i + c < k /\ k <= m + c /\ Undoes(fs, i + c, k)
      BY <1>1, <2>2, <3>1
    <3>3. k > c
      BY <1>1, <3>2
    <3>4. k - c \in DOMAIN gs /\ gs[k - c] = fs[k] /\ (k - c) + c = k
      BY <1>3, <3>3
    <3>5. k - c > i /\ k - c <= m
      BY <1>1, <3>2
    <3> QED
      BY <1>1, <3>2, <3>4, <3>5 DEF Undoes
  <2> QED
    BY <2>3, <2>4, <2>5
<1> QED
  BY <1>4, <1>5, <1>6

-----------------------------------------------------------------------------
(* One op for each node.                                                   *)

\* Each kept node's op is one for it.
OneEach(ops, keep) == \A n \in keep : ops[n] \in Op /\ ops[n].node = n
AllSet(ops, keep) == \A n \in keep : ops[n].do = "set"

\* The ops for each kept node do to it what its op does, and nothing to others.
DoesEach(s, ops, keep) ==
    \A u \in Tree, n \in Nodes :
        ApplyAll(u, s)[n] = IF n \in keep THEN Apply(u, ops[n])[n] ELSE u[n]

KeepSteps(ops, keep) ==
    [n \in 1..MaxNodes |->
       [s \in Seq(Op) |-> IF n \in keep THEN Append(s, ops[n]) ELSE s]]

\* `PerNode` walks through the nodes.
LEMMA PerNodeWalks ==
    ASSUME NEW keep \in SUBSET Nodes, NEW ops, \A n \in keep : ops[n] \in Op
    PROVE  \E g : /\ Walk(Seq(Op), <<>>, MaxNodes, KeepSteps(ops, keep), g)
                 /\ PerNode(ops, keep) = g[MaxNodes]
<1> DEFINE F == KeepSteps(ops, keep)
           Next1(s, n) == IF n \in keep THEN Append(s, ops[n]) ELSE s
           H(g) == [n \in 0..MaxNodes |->
                      IF n = 0 THEN <<>>
                      ELSE IF n \in keep THEN Append(g[n - 1], ops[n]) ELSE g[n - 1]]
<1>0. MaxNodes \in Nat /\ Nodes = 1..MaxNodes
  BY UiAssumption DEF Nodes
<1>1. ASSUME NEW s \in Seq(Op), NEW n \in 1..MaxNodes PROVE Next1(s, n) \in Seq(Op)
  OBVIOUS
<1>2. F \in [1..MaxNodes -> [Seq(Op) -> Seq(Op)]]
  BY <1>1 DEF KeepSteps
<1>3. \A n \in 1..MaxNodes, s \in Seq(Op) : F[n][s] = Next1(s, n)
  BY DEF KeepSteps
<1>4. \E g : Walk(Seq(Op), <<>>, MaxNodes, F, g)
  <2>1. <<>> \in Seq(Op)
    OBVIOUS
  <2> HIDE DEF F
  <2> QED
    BY <1>0, <1>2, <2>1, WalkExists
<1>5. ASSUME NEW g, Walk(Seq(Op), <<>>, MaxNodes, F, g) PROVE g = H(g)
  <2>1. ASSUME NEW i \in 0..MaxNodes PROVE g[i] = H(g)[i]
    <3>1. CASE i = 0
      BY <3>1, <1>5 DEF Walk
    <3>2. CASE i # 0
      <4>1. i \in 1..MaxNodes /\ i - 1 \in 0..MaxNodes
        BY <1>0, <3>2
      <4>2. g[i - 1] \in Seq(Op)
        BY <4>1, <1>5 DEF Walk
      <4>3. g[i] = F[i][g[i - 1]]
        BY <4>1, <1>5 DEF Walk
      <4>4. g[i] = Next1(g[i - 1], i)
        <5> HIDE DEF F, Next1
        <5> QED
          BY <1>3, <4>1, <4>2, <4>3
      <4> QED
        BY <4>4, <3>2
    <3> QED
      BY <3>1, <3>2
  <2>2. g \in [0..MaxNodes -> Seq(Op)]
    BY <1>5 DEF Walk
  <2> QED
    BY <2>1, <2>2
<1>6. ASSUME NEW g, g = H(g) PROVE Walk(Seq(Op), <<>>, MaxNodes, F, g)
  <2> DEFINE G == {i \in 0..MaxNodes : g[i] \in Seq(Op)}
  <2>0. /\ g[0] = <<>>
        /\ \A i \in 1..MaxNodes : g[i] = Next1(g[i - 1], i)
    <3>1. \A i \in 0..MaxNodes : g[i] = H(g)[i]
      BY <1>6
    <3>2. 0 \in 0..MaxNodes /\ \A i \in 1..MaxNodes : i \in 0..MaxNodes /\ i # 0
      BY <1>0
    <3> QED
      BY <3>1, <3>2
  <2>1. 0 \in G
    <3>1. <<>> \in Seq(Op) /\ 0 \in 0..MaxNodes
      BY <1>0
    <3> QED
      BY <2>0, <3>1
  <2>2. ASSUME NEW i \in 0..MaxNodes, i # MaxNodes, i \in G PROVE i + 1 \in G
    <3>1. i + 1 \in 1..MaxNodes /\ i + 1 \in 0..MaxNodes /\ (i + 1) - 1 = i
      BY <1>0, <2>2
    <3>2. g[i + 1] = Next1(g[i], i + 1)
      BY <2>0, <3>1
    <3>3. g[i] \in Seq(Op)
      BY <2>2
    <3>4. g[i + 1] \in Seq(Op)
      <4> HIDE DEF Next1
      <4> QED
        BY <1>1, <3>1, <3>2, <3>3
    <3> QED
      BY <3>1, <3>4
  <2>3. \A i \in 0..MaxNodes : i \in G
    <3> HIDE DEF G
    <3> QED
      BY <1>0, <2>1, <2>2, ReachesAll
  <2>4. g \in [0..MaxNodes -> Seq(Op)]
    BY <1>6, <2>3
  <2>5. ASSUME NEW i \in 1..MaxNodes PROVE g[i] = F[i][g[i - 1]]
    <3>1. g[i - 1] \in Seq(Op)
      <4>1. i - 1 \in 0..MaxNodes
        BY <1>0
      <4> QED
        BY <2>3, <4>1
    <3>2. g[i] = Next1(g[i - 1], i)
      BY <2>0
    <3> HIDE DEF F, Next1
    <3> QED
      BY <1>3, <3>1, <3>2
  <2> QED
    BY <2>0, <2>4, <2>5 DEF Walk
<1> DEFINE C == CHOOSE g : g = H(g)
<1>7. C = H(C)
  <2>1. \E g : g = H(g)
    BY <1>4, <1>5
  <2> HIDE DEF H
  <2> QED
    BY <2>1
<1>8. PerNode(ops, keep) = C[MaxNodes]
  BY DEF PerNode
<1> QED
  <2> HIDE DEF C, H, F
  <2>1. Walk(Seq(Op), <<>>, MaxNodes, F, C)
    BY <1>6, <1>7
  <2> QED
    BY <2>1, <1>8 DEF F

\* Each kept node gets its op, and the others stay as they are.
LEMMA PerNodeFacts ==
    ASSUME NEW keep \in SUBSET Nodes, NEW ops, OneEach(ops, keep)
    PROVE  /\ PerNode(ops, keep) \in Seq(Op)
           /\ \A n \in Nodes : OpNames(PerNode(ops, keep), n) <=> n \in keep
           /\ AllSet(ops, keep) => \A n \in Nodes : OnlySets(PerNode(ops, keep), n)
           /\ DoesEach(PerNode(ops, keep), ops, keep)
<1>0. MaxNodes \in Nat /\ Nodes = 1..MaxNodes
  BY UiAssumption DEF Nodes
<1>1. PICK g : /\ Walk(Seq(Op), <<>>, MaxNodes, KeepSteps(ops, keep), g)
               /\ PerNode(ops, keep) = g[MaxNodes]
  BY PerNodeWalks DEF OneEach
<1> DEFINE P(m) ==
             /\ \A n \in Nodes : OpNames(g[m], n) <=> n \in keep /\ n <= m
             /\ \A n \in Nodes : AllSet(ops, keep) => OnlySets(g[m], n)
             /\ \A u \in Tree, n \in Nodes :
                  ApplyAll(u, g[m])[n]
                    = IF n \in keep /\ n <= m THEN Apply(u, ops[n])[n] ELSE u[n]
           G == {m \in 0..MaxNodes : P(m)}
<1>2. g[0] = <<>> /\ \A m \in 0..MaxNodes : g[m] \in Seq(Op)
  BY <1>1 DEF Walk
<1>3. ASSUME NEW m \in 1..MaxNodes
      PROVE  g[m] = IF m \in keep THEN Append(g[m - 1], ops[m]) ELSE g[m - 1]
  <2>1. g[m] = KeepSteps(ops, keep)[m][g[m - 1]]
    BY <1>1 DEF Walk
  <2>2. g[m - 1] \in Seq(Op)
    <3>1. m - 1 \in 0..MaxNodes
      BY <1>0
    <3> QED
      BY <1>2, <3>1
  <2> QED
    BY <2>1, <2>2 DEF KeepSteps
<1>4. 0 \in G
  <2>1. \A n : ~OpNames(<<>>, n) /\ OnlySets(<<>>, n)
    BY DEF OpNames, OnlySets
  <2>2. \A u \in Tree : ApplyAll(u, <<>>) = u
    BY ApplyNone
  <2>3. \A n \in Nodes : ~(n <= 0)
    BY <1>0
  <2>4. P(0)
    BY <1>2, <2>1, <2>2, <2>3
  <2> HIDE DEF P
  <2> QED
    BY <1>0, <2>4
<1>5. ASSUME NEW m \in 0..MaxNodes, m # MaxNodes, m \in G PROVE m + 1 \in G
  <2>1. m + 1 \in 1..MaxNodes /\ m + 1 \in 0..MaxNodes /\ (m + 1) - 1 = m /\ m + 1 \in Nodes
    BY <1>0, <1>5
  <2>2. P(m)
    BY <1>5
  <2>3. \A n \in Nodes : n <= m + 1 <=> n <= m \/ n = m + 1
    BY <1>0
  <2>4. ~(m + 1 <= m)
    BY <1>0
  <2>5. g[m] \in Seq(Op)
    BY <1>2
  <2>6. CASE m + 1 \notin keep
    <3>1. g[m + 1] = g[m]
      BY <1>3, <2>1, <2>6
    <3>2. P(m + 1)
      BY <2>2, <2>3, <2>6, <3>1
    <3> HIDE DEF P
    <3> QED
      BY <2>1, <3>2
  <2>7. CASE m + 1 \in keep
    <3> DEFINE op == ops[m + 1]
               a == g[m]
    <3>1. g[m + 1] = Append(a, op) /\ op \in Op /\ op.node = m + 1
      BY <1>3, <2>1, <2>7 DEF OneEach
    <3>2. a \in Seq(Op)
      BY <2>5
    <3> HIDE DEF a, op
    <3>3. ASSUME NEW n \in Nodes
          PROVE  /\ OpNames(g[m + 1], n) <=> OpNames(a, n) \/ n = m + 1
                 /\ OnlySets(g[m + 1], n) <=> OnlySets(a, n) /\ (n = m + 1 => op.do = "set")
      BY <3>1, <3>2, OpsAppend
    <3>4. \A n \in Nodes : OpNames(g[m + 1], n) <=> n \in keep /\ n <= m + 1
      BY <2>2, <2>3, <2>7, <3>3 DEF a
    <3>5. \A n \in Nodes : AllSet(ops, keep) => OnlySets(g[m + 1], n)
      BY <2>2, <2>7, <3>3 DEF a, op, AllSet
    <3>6. ASSUME NEW u \in Tree, NEW n \in Nodes
          PROVE  ApplyAll(u, g[m + 1])[n]
                   = IF n \in keep /\ n <= m + 1 THEN Apply(u, ops[n])[n] ELSE u[n]
      <4> DEFINE b == ApplyAll(u, a)
      <4>1. b \in Tree /\ ApplyAll(u, g[m + 1]) = Apply(b, op)
        BY <3>1, <3>2, ApplyAllType, ApplyAppend
      <4>2. b[n] = IF n \in keep /\ n <= m THEN Apply(u, ops[n])[n] ELSE u[n]
        BY <2>2 DEF a
      <4> HIDE DEF b
      <4>3. Apply(b, op)[n] = IF op.node # n \/ (op.do = "set" /\ b[n] = Gone)
                              THEN b[n] ELSE op.value
        BY <3>1, <4>1, ApplyCell
      <4>4. Apply(u, op)[n] = IF op.node # n \/ (op.do = "set" /\ u[n] = Gone)
                              THEN u[n] ELSE op.value
        BY <3>1, ApplyCell
      <4>5. CASE n = m + 1
        <5>1. b[n] = u[n]
          BY <2>4, <4>2, <4>5
        <5>2. Apply(b, op)[n] = Apply(u, op)[n]
          BY <4>3, <4>4, <5>1
        <5>3. n \in keep /\ n <= m + 1 /\ op = ops[n]
          BY <2>3, <2>7, <4>5 DEF op
        <5> QED
          BY <4>1, <5>2, <5>3
      <4>6. CASE n # m + 1
        <5>1. Apply(b, op)[n] = b[n]
          BY <3>1, <4>3, <4>6
        <5>2. n <= m + 1 <=> n <= m
          BY <2>3, <4>6
        <5> QED
          BY <4>1, <4>2, <5>1, <5>2
      <4> QED
        BY <4>5, <4>6
    <3>7. P(m + 1)
      BY <3>4, <3>5, <3>6
    <3> HIDE DEF P
    <3> QED
      BY <2>1, <3>7
  <2> QED
    BY <2>6, <2>7
<1>6. P(MaxNodes)
  <2>1. \A m \in 0..MaxNodes : m \in G
    <3> HIDE DEF G
    <3> QED
      BY <1>0, <1>4, <1>5, ReachesAll
  <2>2. MaxNodes \in 0..MaxNodes
    BY <1>0
  <2> QED
    BY <2>1, <2>2
<1>7. \A n \in Nodes : n <= MaxNodes
  BY <1>0
<1>8. g[MaxNodes] \in Seq(Op)
  BY <1>0, <1>2
<1> QED
  BY <1>1, <1>6, <1>7, <1>8 DEF DoesEach

\* A snapshot builds the tree from nothing.
LEMMA SnapshotFacts ==
    ASSUME NEW t \in Tree
    PROVE  /\ Snapshot(t) \in Seq(Op)
           /\ \A n \in Nodes : OpNames(Snapshot(t), n) <=> t[n] # Gone
           /\ ApplyAll(EmptyTree, Snapshot(t)) = t
<1> DEFINE ops == [n \in Nodes |-> Create(n, t[n])]
<1>1. \A n \in Present(t) : ops[n] \in Op /\ ops[n].node = n
  BY DEF Present, Create, Tree, Op
<1>2. Present(t) \in SUBSET Nodes
  BY DEF Present
<1>3. EmptyTree \in Tree
  BY DEF EmptyTree, Tree
<1>4. ASSUME NEW n \in Nodes
      PROVE  (IF n \in Present(t) THEN Apply(EmptyTree, ops[n])[n] ELSE EmptyTree[n]) = t[n]
  <2>1. CASE n \in Present(t)
    <3>1. Apply(EmptyTree, ops[n])[n]
            = IF ops[n].node # n \/ (ops[n].do = "set" /\ EmptyTree[n] = Gone)
              THEN EmptyTree[n] ELSE ops[n].value
      <4> DEFINE op == ops[n]
      <4>1. op \in Op
        BY <1>1, <2>1
      <4> HIDE DEF op
      <4>2. Apply(EmptyTree, op)[n]
              = IF op.node # n \/ (op.do = "set" /\ EmptyTree[n] = Gone)
                THEN EmptyTree[n] ELSE op.value
        BY <1>3, <4>1, ApplyCell
      <4> QED
        BY <4>2 DEF op
    <3>2. ops[n].node = n /\ ops[n].do = "create" /\ ops[n].value = t[n]
      BY DEF Create
    <3> QED
      BY <2>1, <3>1, <3>2
  <2>2. CASE n \notin Present(t)
    BY <2>2 DEF Present, EmptyTree
  <2> QED
    BY <2>1, <2>2
<1>5. Snapshot(t) = PerNode(ops, Present(t))
  BY DEF Snapshot
<1> HIDE DEF ops
<1>9. OneEach(ops, Present(t))
  BY <1>1 DEF OneEach
<1>6. /\ Snapshot(t) \in Seq(Op)
      /\ \A n \in Nodes : OpNames(Snapshot(t), n) <=> n \in Present(t)
      /\ \A n \in Nodes : ApplyAll(EmptyTree, Snapshot(t))[n] = t[n]
  <2>2. PerNode(ops, Present(t)) \in Seq(Op)
    BY <1>2, <1>9, PerNodeFacts
  <2>3. \A n \in Nodes : OpNames(PerNode(ops, Present(t)), n) <=> n \in Present(t)
    BY <1>2, <1>9, PerNodeFacts
  <2>4. AllSet(ops, Present(t)) => \A n \in Nodes : OnlySets(PerNode(ops, Present(t)), n)
    BY <1>2, <1>9, PerNodeFacts
  <2>5. DoesEach(PerNode(ops, Present(t)), ops, Present(t))
    BY <1>2, <1>9, PerNodeFacts
  <2> QED
    BY <2>2, <2>3, <2>4, <2>5, <1>3, <1>4, <1>5 DEF DoesEach
<1>7. ApplyAll(EmptyTree, Snapshot(t)) \in Tree
  BY <1>3, <1>6, ApplyAllType
<1>8. ApplyAll(EmptyTree, Snapshot(t)) = t
  <2> DEFINE a == ApplyAll(EmptyTree, Snapshot(t))
  <2>1. a \in Tree /\ \A n \in Nodes : a[n] = t[n]
    BY <1>6, <1>7
  <2> HIDE DEF a
  <2>2. a = t
    BY <2>1 DEF Tree
  <2> QED
    BY <2>2 DEF a
<1> QED
  BY <1>6, <1>8 DEF Present

\* The present values go to the nodes that are there and no others.
LEMMA CurrentFacts ==
    ASSUME NEW t \in Tree, NEW keys \in SUBSET Nodes
    PROVE  /\ Current(t, keys) \in Seq(Op)
           /\ \A n \in Nodes : OpNames(Current(t, keys), n) <=> n \in keys /\ t[n] # Gone
           /\ \A n \in Nodes : OnlySets(Current(t, keys), n)
           /\ \A u \in Tree, n \in Nodes :
                ApplyAll(u, Current(t, keys))[n]
                  = IF n \in keys /\ t[n] # Gone /\ u[n] # Gone THEN t[n] ELSE u[n]
<1> DEFINE ops == [n \in Nodes |-> Set(n, t[n])]
           keep == keys \intersect Present(t)
<1>1. \A n \in keep : ops[n] \in Op /\ ops[n].node = n /\ ops[n].do = "set"
                      /\ ops[n].value = t[n]
  BY DEF Present, Set, Tree, Op
<1>2. keep \in SUBSET Nodes
  BY DEF Present
<1>3. Current(t, keys) = PerNode(ops, keep)
  BY DEF Current
<1>4. \A n \in Nodes : n \in keep <=> n \in keys /\ t[n] # Gone
  BY DEF Present
<1> HIDE DEF ops, keep
<1>7. OneEach(ops, keep) /\ AllSet(ops, keep)
  BY <1>1 DEF OneEach, AllSet
<1>5. /\ Current(t, keys) \in Seq(Op)
      /\ \A n \in Nodes : OpNames(Current(t, keys), n) <=> n \in keep
      /\ \A n \in Nodes : OnlySets(Current(t, keys), n)
      /\ \A u \in Tree, n \in Nodes :
           ApplyAll(u, Current(t, keys))[n]
             = IF n \in keep THEN Apply(u, ops[n])[n] ELSE u[n]
  <2>2. PerNode(ops, keep) \in Seq(Op)
    BY <1>2, <1>7, PerNodeFacts
  <2>3. \A n \in Nodes : OpNames(PerNode(ops, keep), n) <=> n \in keep
    BY <1>2, <1>7, PerNodeFacts
  <2>4. AllSet(ops, keep) => \A n \in Nodes : OnlySets(PerNode(ops, keep), n)
    BY <1>2, <1>7, PerNodeFacts
  <2>5. DoesEach(PerNode(ops, keep), ops, keep)
    BY <1>2, <1>7, PerNodeFacts
  <2> QED
    BY <2>2, <2>3, <2>4, <2>5, <1>3, <1>7 DEF DoesEach
<1>6. ASSUME NEW u \in Tree, NEW n \in keep
      PROVE  Apply(u, ops[n])[n] = IF u[n] # Gone THEN t[n] ELSE u[n]
  <2>1. n \in Nodes
    BY <1>2
  <2>2. Apply(u, ops[n])[n]
          = IF ops[n].node # n \/ (ops[n].do = "set" /\ u[n] = Gone)
            THEN u[n] ELSE ops[n].value
    BY <1>1, <2>1, ApplyCell
  <2> QED
    BY <1>1, <2>2
<1> QED
  BY <1>4, <1>5, <1>6

-----------------------------------------------------------------------------
(* The client's queue.                                                     *)

Sorted(q) == \A i, j \in DOMAIN q : i < j => q[i].at <= q[j].at

Splits(q, d, at) ==
    /\ \A i \in 1..d : q[i].at <= at
    /\ \A i \in (d + 1)..Len(q) : q[i].at > at

\* The frames that are due come first.
LEMMA DueFacts ==
    ASSUME NEW q \in Seq(Frame), Sorted(q), NEW at \in Nat
    PROVE  DueCount(q, at) \in 0..Len(q) /\ Splits(q, DueCount(q, at), at)
<1> DEFINE l == Len(q)
           Fits(k) == /\ \A i \in 1..k : q[i].at <= at
                      /\ k < l => q[k + 1].at > at
           T == {k \in 0..l : k < l => q[k + 1].at > at}
<1>1. l \in Nat /\ DOMAIN q = 1..l /\ \A i \in 1..l : q[i].at \in Nat
  BY FrameFacts
<1>2. PICK k \in T : \A j \in T : k <= j
  <2>1. l \in T /\ T \in SUBSET Nat
    BY <1>1
  <2> HIDE DEF T
  <2> QED
    BY <2>1, Least
<1>3. Fits(k)
  <2>1. ASSUME NEW i \in 1..k PROVE q[i].at <= at
    <3>1. k \in 0..l /\ i - 1 \in 0..l /\ i - 1 < l /\ ~(k <= i - 1) /\ (i - 1) + 1 = i /\ i \in 1..l
      BY <1>1
    <3>2. i - 1 \notin T
      BY <1>2, <3>1
    <3>3. ~(q[i].at > at)
      BY <3>1, <3>2
    <3> QED
      BY <1>1, <3>1, <3>3
  <2>2. k < l => q[k + 1].at > at
    OBVIOUS
  <2> QED
    BY <2>1, <2>2
<1>4. \E c \in 0..l : Fits(c)
  BY <1>3
<1>5. DueCount(q, at) = CHOOSE c \in 0..l : Fits(c)
  BY DEF DueCount
<1> DEFINE c == DueCount(q, at)
<1>6. c \in 0..l /\ Fits(c)
  <2> HIDE DEF Fits, l
  <2> QED
    BY <1>4, <1>5
<1> HIDE DEF c
<1>7. ASSUME NEW i \in (c + 1)..l PROVE q[i].at > at
  <2>1. c < l /\ c + 1 \in 1..l /\ i \in 1..l
    BY <1>1, <1>6
  <2>2. q[c + 1].at > at
    BY <1>6, <2>1
  <2>3. q[c + 1].at <= q[i].at
    <3>1. CASE i = c + 1
      BY <1>1, <2>1, <3>1
    <3>2. CASE i # c + 1
      <4>1. c + 1 < i
        BY <1>1, <1>6, <3>2
      <4> QED
        BY <1>1, <2>1, <4>1 DEF Sorted
    <3> QED
      BY <3>1, <3>2
  <2> QED
    BY <1>1, <2>1, <2>2, <2>3
<1>8. c \in 0..l /\ Splits(q, c, at)
  BY <1>6, <1>7 DEF Splits
<1> QED
  BY <1>8 DEF c

\* Where a queue splits is where the frames that are due end.
LEMMA DueIs ==
    ASSUME NEW q \in Seq(Frame), Sorted(q), NEW at \in Nat,
           NEW d \in 0..Len(q), Splits(q, d, at)
    PROVE  DueCount(q, at) = d
<1> DEFINE c == DueCount(q, at)
<1>1. c \in 0..Len(q) /\ Splits(q, c, at)
  BY DueFacts
<1> HIDE DEF c
<1>2. Len(q) \in Nat /\ \A i \in 1..Len(q) : q[i].at \in Nat
  BY FrameFacts
<1>3. ~(c < d)
  <2> SUFFICES ASSUME c < d PROVE FALSE
    OBVIOUS
  <2>1. d \in 1..d /\ d \in (c + 1)..Len(q) /\ d \in 1..Len(q)
    BY <1>1, <1>2
  <2> QED
    BY <1>1, <1>2, <2>1 DEF Splits
<1>4. ~(d < c)
  <2> SUFFICES ASSUME d < c PROVE FALSE
    OBVIOUS
  <2>1. c \in 1..c /\ c \in (d + 1)..Len(q) /\ c \in 1..Len(q)
    BY <1>1, <1>2
  <2> QED
    BY <1>1, <1>2, <2>1 DEF Splits
<1>5. c = d
  BY <1>1, <1>2, <1>3, <1>4
<1> QED
  BY <1>5 DEF c

Uncancelled(f) == [f EXCEPT !.cancel = FALSE]

\* What of its queue the client keeps when f comes, and what of it stays behind f.
Kept(q, f) == IF f.reset THEN <<>> ELSE IF f.cancel THEN Due(q, f.at) ELSE q

Behind(q, f, d) == IF f.reset \/ f.cancel THEN <<>> ELSE SubSeq(q, d + 1, Len(q))

Queues(q, f, r, d) ==
    /\ d \in 0..Len(q)
    /\ f.reset => d = 0
    /\ ~f.reset => Splits(q, d, f.at)
    /\ r = (SubSeq(q, 1, d) \o <<Uncancelled(f)>>) \o Behind(q, f, d)

\* A frame in the queue is what came, without its cancel.
LEMMA UncancelledFacts ==
    ASSUME NEW f \in Frame
    PROVE  LET g == Uncancelled(f)
           IN  /\ g \in Frame /\ g.at = f.at /\ g.reset = f.reset /\ g.ops = f.ops
               /\ g.cancel = FALSE
  BY DEF Uncancelled, Frame

\* Where a frame that came goes.
LEMMA QueuedFacts ==
    ASSUME NEW q \in Seq(Frame), Sorted(q), NEW f \in Frame
    PROVE  \E d : Queues(q, f, Queued(Kept(q, f), Uncancelled(f)), d)
<1> DEFINE g == Uncancelled(f)
           l == Len(q)
<1>1. g \in Frame /\ g.at = f.at
  BY UncancelledFacts
<1>2. f.at \in Nat /\ l \in Nat
  BY UiAssumption DEF Frame, Times
<1>3. CASE f.reset
  <2>1. <<>> \in Seq(Frame) /\ Len(<<>>) = 0 /\ 0 \in 0..0
    OBVIOUS
  <2>2. Sorted(<<>>) /\ Splits(<<>>, 0, f.at)
    BY DEF Sorted, Splits
  <2>3. DueCount(<<>>, f.at) = 0
    BY <1>2, <2>1, <2>2, DueIs
  <2>4. Due(<<>>, g.at) = <<>> /\ Later(<<>>, g.at) = <<>>
    BY <1>1, <2>3 DEF Due, Later
  <2>5. Queued(Kept(q, f), g) = (<<>> \o <<g>>) \o <<>>
    BY <1>3, <2>4 DEF Queued, Kept
  <2>6. SubSeq(q, 1, 0) = <<>> /\ Behind(q, f, 0) = <<>>
    BY <1>3 DEF Behind
  <2>7. 0 \in 0..l
    BY <1>2
  <2>8. Queues(q, f, Queued(Kept(q, f), g), 0)
    BY <1>3, <2>5, <2>6, <2>7 DEF Queues
  <2> QED
    BY <2>8
<1>4. CASE ~f.reset /\ f.cancel
  <2> DEFINE d == DueCount(q, f.at)
             a == SubSeq(q, 1, d)
  <2>1. d \in 0..l /\ Splits(q, d, f.at)
    BY <1>2, DueFacts
  <2>2. a \in Seq(Frame) /\ Len(a) = d /\ \A i \in 1..d : a[i] = q[i]
    BY <2>1, Split
  <2>3. DOMAIN a = 1..d /\ d \in 0..Len(a) /\ d \in Nat /\ DOMAIN q = 1..l
    BY <1>2, <2>1, <2>2
  <2>4. Kept(q, f) = a
    BY <1>4 DEF Kept, Due
  <2> HIDE DEF d, a, l
  <2>5. Sorted(a)
    BY <1>2, <2>1, <2>2, <2>3 DEF Sorted
  <2>6. Splits(a, d, f.at)
    BY <2>1, <2>2, <2>3 DEF Splits
  <2>7. DueCount(a, g.at) = d
    BY <1>1, <1>2, <2>2, <2>3, <2>5, <2>6, DueIs
  <2>8. Due(a, g.at) = a
    BY <2>2, <2>7, SubSeqFull DEF Due
  <2>9. Later(a, g.at) = <<>>
    BY <2>2, <2>3, <2>7 DEF Later
  <2>10. Queued(Kept(q, f), g) = (a \o <<g>>) \o <<>>
    BY <2>4, <2>8, <2>9 DEF Queued
  <2>11. Behind(q, f, d) = <<>>
    BY <1>4 DEF Behind
  <2>12. Queues(q, f, Queued(Kept(q, f), g), d)
    BY <1>4, <2>1, <2>10, <2>11 DEF Queues, a, l
  <2> QED
    BY <2>12
<1>5. CASE ~f.reset /\ ~f.cancel
  <2> DEFINE d == DueCount(q, f.at)
  <2>1. d \in 0..l /\ Splits(q, d, f.at)
    BY <1>2, DueFacts
  <2>2. Kept(q, f) = q
    BY <1>5 DEF Kept
  <2>3. Due(q, g.at) = SubSeq(q, 1, d) /\ Later(q, g.at) = SubSeq(q, d + 1, Len(q))
    BY <1>1 DEF Due, Later
  <2>4. Behind(q, f, d) = SubSeq(q, d + 1, Len(q))
    BY <1>5 DEF Behind
  <2>5. Queued(Kept(q, f), g) = (SubSeq(q, 1, d) \o <<g>>) \o Behind(q, f, d)
    BY <2>2, <2>3, <2>4 DEF Queued
  <2> HIDE DEF d
  <2>6. Queues(q, f, Queued(Kept(q, f), g), d)
    BY <1>5, <2>1, <2>5 DEF Queues
  <2> QED
    BY <2>6
<1> QED
  BY <1>3, <1>4, <1>5

\* What the queue holds then.
LEMMA BehindFacts ==
    ASSUME NEW q \in Seq(Frame), NEW f \in Frame, NEW r, NEW d, Queues(q, f, r, d)
    PROVE  LET e == Len(Behind(q, f, d))
           IN  /\ e \in Nat /\ d \in Nat /\ Len(q) \in Nat /\ d <= Len(q)
               /\ IF f.reset \/ f.cancel THEN e = 0 ELSE e = Len(q) - d
               /\ r \in Seq(Frame) /\ Len(r) = d + 1 + e /\ DOMAIN r = 1..(d + 1 + e)
               /\ \A i \in 1..d : r[i] = q[i]
               /\ r[d + 1] = Uncancelled(f)
               /\ \A i \in 1..e : r[d + 1 + i] = q[d + i]
<1> DEFINE g == Uncancelled(f)
           a == SubSeq(q, 1, d)
           b == Behind(q, f, d)
           c == SubSeq(q, d + 1, Len(q))
           l == Len(q)
           e == Len(b)
<1>1. /\ d \in 0..l /\ l \in Nat /\ d \in Nat /\ d <= l /\ r = (a \o <<g>>) \o b
  BY DEF Queues
<1>2. g \in Frame
  BY UncancelledFacts
<1>3. /\ a \in Seq(Frame) /\ Len(a) = d /\ \A i \in 1..d : a[i] = q[i]
      /\ c \in Seq(Frame) /\ Len(c) = l - d /\ \A i \in 1..(l - d) : c[i] = q[d + i]
  BY <1>1, Split
<1>4. /\ b \in Seq(Frame) /\ e \in Nat
      /\ IF f.reset \/ f.cancel THEN e = 0 ELSE e = l - d
      /\ \A i \in 1..e : b[i] = q[d + i]
  <2>1. CASE f.reset \/ f.cancel
    <3>1. b = <<>>
      BY <2>1 DEF Behind
    <3> QED
      BY <2>1, <3>1
  <2>2. CASE ~(f.reset \/ f.cancel)
    <3>1. b = c
      BY <2>2 DEF Behind
    <3>2. l - d \in Nat
      BY <1>1
    <3> HIDE DEF b, c
    <3> QED
      BY <1>3, <2>2, <3>1, <3>2
  <2> QED
    BY <2>1, <2>2
<1> DEFINE ag == a \o <<g>>
<1> HIDE DEF g, a, b, c
<1>5. /\ ag \in Seq(Frame) /\ Len(ag) = d + 1 /\ ag[d + 1] = g
      /\ \A i \in 1..d : ag[i] = q[i]
  BY <1>1, <1>2, <1>3
<1>6. r = ag \o b
  BY <1>1
<1> HIDE DEF ag, e, l
<1>7. /\ r \in Seq(Frame) /\ Len(r) = d + 1 + Len(b) /\ DOMAIN r = 1..Len(r)
      /\ \A i \in 1..(d + 1 + Len(b)) : r[i] = IF i <= d + 1 THEN ag[i] ELSE b[i - (d + 1)]
  BY <1>4, <1>5, <1>6, ConcatProperties
<1>8. /\ r \in Seq(Frame) /\ Len(r) = d + 1 + e /\ DOMAIN r = 1..(d + 1 + e)
      /\ \A i \in 1..(d + 1 + e) : r[i] = IF i <= d + 1 THEN ag[i] ELSE b[i - (d + 1)]
  BY <1>7 DEF e
<1>9. ASSUME NEW i \in 1..d PROVE r[i] = q[i]
  <2>1. i \in 1..(d + 1 + e) /\ i <= d + 1
    BY <1>1, <1>4
  <2> QED
    BY <1>5, <1>8, <2>1
<1>10. r[d + 1] = g
  <2>1. d + 1 \in 1..(d + 1 + e) /\ d + 1 <= d + 1
    BY <1>1, <1>4
  <2> QED
    BY <1>5, <1>8, <2>1
<1>11. ASSUME NEW i \in 1..e PROVE r[d + 1 + i] = q[d + i]
  <2>1. /\ d + 1 + i \in 1..(d + 1 + e) /\ ~(d + 1 + i <= d + 1)
        /\ (d + 1 + i) - (d + 1) = i
    BY <1>1, <1>4
  <2> QED
    BY <1>4, <1>8, <2>1
<1> QED
  BY <1>1, <1>4, <1>8, <1>9, <1>10, <1>11 DEF e, b, g, l

\* The queue stays in the order of the times, without cancels.
LEMMA QueuesSorted ==
    ASSUME NEW q \in Seq(Frame), Sorted(q), \A i \in DOMAIN q : ~q[i].cancel,
           NEW f \in Frame, NEW r, NEW d, Queues(q, f, r, d)
    PROVE  Sorted(r) /\ \A i \in DOMAIN r : ~r[i].cancel
<1> DEFINE e == Len(Behind(q, f, d))
           l == Len(q)
           g == Uncancelled(f)
<1>1. /\ e \in Nat /\ d \in Nat /\ l \in Nat /\ d <= l
      /\ IF f.reset \/ f.cancel THEN e = 0 ELSE e = l - d
      /\ r \in Seq(Frame) /\ DOMAIN r = 1..(d + 1 + e)
      /\ \A i \in 1..d : r[i] = q[i]
      /\ r[d + 1] = g
      /\ \A i \in 1..e : r[d + 1 + i] = q[d + i]
  BY BehindFacts
<1>2. g.at = f.at /\ ~g.cancel /\ f.at \in Nat /\ DOMAIN q = 1..l
      /\ \A i \in 1..l : q[i].at \in Nat
  <2>1. g.at = f.at /\ ~g.cancel
    BY UncancelledFacts
  <2>2. f.at \in Nat
    BY UiAssumption DEF Frame, Times
  <2>3. DOMAIN q = 1..l /\ \A i \in 1..l : q[i].at \in Nat
    BY FrameFacts
  <2> QED
    BY <2>1, <2>2, <2>3
<1>3. /\ f.reset => d = 0
      /\ ~f.reset => Splits(q, d, f.at)
  BY DEF Queues
<1> HIDE DEF e, l, g
<1>4. ASSUME NEW i \in DOMAIN r
      PROVE  \/ i \in 1..d /\ i \in DOMAIN q /\ r[i] = q[i] /\ q[i].at <= f.at
             \/ i = d + 1 /\ r[i] = g
             \/ /\ i > d + 1 /\ i - 1 \in DOMAIN q /\ r[i] = q[i - 1]
                /\ q[i - 1].at > f.at
  <2>1. CASE i <= d
    <3>1. i \in 1..d /\ i \in 1..l
      BY <1>1, <2>1
    <3>2. ~f.reset
      BY <1>1, <1>3, <3>1
    <3> QED
      BY <1>1, <1>2, <1>3, <3>1, <3>2 DEF Splits
  <2>2. CASE i = d + 1
    BY <1>1, <2>2
  <2>3. CASE i > d + 1
    <3>0. i \in Nat /\ i <= d + 1 + e /\ d \in Nat /\ e \in Nat
      BY <1>1
    <3>1. i - (d + 1) \in 1..e /\ d + 1 + (i - (d + 1)) = i /\ d + (i - (d + 1)) = i - 1
      BY <2>3, <3>0
    <3>2. r[i] = q[i - 1]
      BY <1>1, <3>1
    <3>3. ~f.reset /\ e = l - d
      BY <1>1, <3>1
    <3>4. i - 1 \in (d + 1)..l /\ i - 1 \in 1..l
      BY <1>1, <2>3, <3>1, <3>3
    <3>5. q[i - 1].at > f.at
      BY <1>3, <3>3, <3>4 DEF Splits, l
    <3> QED
      BY <1>2, <2>3, <3>2, <3>4, <3>5
  <2> QED
    BY <1>1, <2>1, <2>2, <2>3
<1>5. \A i \in DOMAIN r : ~r[i].cancel
  BY <1>2, <1>4
<1>6. ASSUME NEW i \in DOMAIN r, NEW j \in DOMAIN r, i < j PROVE r[i].at <= r[j].at
  <2>1. CASE i \in 1..d /\ j \in 1..d
    BY <1>1, <1>4, <1>6, <2>1 DEF Sorted
  <2>2. CASE i \in 1..d /\ j = d + 1
    BY <1>1, <1>2, <1>4, <2>2
  <2>3. CASE i \in 1..d /\ j > d + 1
    <3>1. /\ i \in DOMAIN q /\ r[i] = q[i] /\ q[i].at <= f.at
      BY <1>1, <1>4, <2>3
    <3>2. j - 1 \in DOMAIN q /\ r[j] = q[j - 1] /\ q[j - 1].at > f.at
      BY <1>1, <1>4, <2>3
    <3> QED
      BY <1>2, <3>1, <3>2
  <2>4. CASE i = d + 1 /\ j > d + 1
    <3>1. j - 1 \in DOMAIN q /\ r[j] = q[j - 1] /\ q[j - 1].at > f.at
      BY <1>1, <1>4, <2>4
    <3> QED
      BY <1>1, <1>2, <2>4, <3>1
  <2>5. CASE i > d + 1 /\ j > d + 1
    <3>1. /\ i - 1 \in DOMAIN q /\ r[i] = q[i - 1] /\ j - 1 \in DOMAIN q /\ r[j] = q[j - 1]
      BY <1>1, <1>4, <2>5
    <3>2. i - 1 < j - 1
      BY <1>1, <1>6
    <3> QED
      BY <3>1, <3>2 DEF Sorted
  <2> QED
    BY <1>1, <1>6, <2>1, <2>2, <2>3, <2>4, <2>5
<1> QED
  BY <1>5, <1>6 DEF Sorted

\* The frames that are the client's before and after f came: its queue, and
\* what is still on the way.
Before(q, f, rest) == (q \o <<f>>) \o rest
After(r, rest) == r \o rest

StartsWith(fs, q) == \A i \in 1..Len(q) : fs[i] = q[i]
HasAt(fs, k, f) == fs[k] = f
GoesOnWith(fs, c, q) == \A i \in 1..Len(q) : fs[c + i] = q[i]

\* What was on its way, frame by frame.
LEMMA BeforeFacts ==
    ASSUME NEW q \in Seq(Frame), NEW f \in Frame, NEW rest \in Seq(Frame),
           NEW fs, fs = Before(q, f, rest)
    PROVE  /\ Len(q) \in Nat /\ Len(rest) \in Nat
           /\ fs \in Seq(Frame) /\ DOMAIN fs = 1..(Len(q) + 1 + Len(rest))
           /\ StartsWith(fs, q) /\ HasAt(fs, Len(q) + 1, f) /\ GoesOnWith(fs, Len(q) + 1, rest)
<1> DEFINE l == Len(q)
           m == Len(rest)
           qf == q \o <<f>>
<1>1. /\ qf \in Seq(Frame) /\ Len(qf) = l + 1 /\ qf[l + 1] = f /\ l \in Nat /\ m \in Nat
      /\ \A i \in 1..l : qf[i] = q[i]
  OBVIOUS
<1> HIDE DEF qf
<1>2. /\ fs \in Seq(Frame) /\ Len(fs) = Len(qf) + m
      /\ \A i \in 1..(Len(qf) + m) : fs[i] = IF i <= Len(qf) THEN qf[i] ELSE rest[i - Len(qf)]
  BY <1>1, ConcatProperties DEF Before, qf
<1>3. DOMAIN fs = 1..Len(fs)
  BY <1>2
<1> HIDE DEF l, m
<1>4. /\ DOMAIN fs = 1..(l + 1 + m)
      /\ \A i \in 1..(l + 1 + m) : fs[i] = IF i <= l + 1 THEN qf[i] ELSE rest[i - (l + 1)]
  BY <1>1, <1>2, <1>3
<1>5. ASSUME NEW i \in 1..l PROVE fs[i] = q[i]
  <2>1. i \in 1..(l + 1 + m) /\ i <= l + 1
    BY <1>1
  <2> QED
    BY <1>1, <1>4, <2>1
<1>6. fs[l + 1] = f
  <2>1. l + 1 \in 1..(l + 1 + m) /\ l + 1 <= l + 1
    BY <1>1
  <2> QED
    BY <1>1, <1>4, <2>1
<1>7. ASSUME NEW i \in 1..m PROVE fs[l + 1 + i] = rest[i]
  <2>1. l + 1 + i \in 1..(l + 1 + m) /\ ~(l + 1 + i <= l + 1) /\ (l + 1 + i) - (l + 1) = i
    BY <1>1
  <2> QED
    BY <1>4, <2>1
<1> QED
  BY <1>1, <1>2, <1>4, <1>5, <1>6, <1>7 DEF l, m, StartsWith, HasAt, GoesOnWith

\* What is on its way then, frame by frame.
LEMMA AfterFacts ==
    ASSUME NEW r \in Seq(Frame), NEW rest \in Seq(Frame), NEW gs, gs = After(r, rest)
    PROVE  /\ Len(r) \in Nat /\ Len(rest) \in Nat
           /\ gs \in Seq(Frame) /\ DOMAIN gs = 1..(Len(r) + Len(rest))
           /\ StartsWith(gs, r) /\ GoesOnWith(gs, Len(r), rest)
<1> DEFINE l == Len(r)
           m == Len(rest)
<1>1. /\ gs \in Seq(Frame) /\ Len(gs) = l + m /\ DOMAIN gs = 1..Len(gs) /\ l \in Nat /\ m \in Nat
      /\ \A i \in 1..(l + m) : gs[i] = IF i <= l THEN r[i] ELSE rest[i - l]
  BY ConcatProperties DEF After
<1> HIDE DEF l, m
<1>2. ASSUME NEW i \in 1..l PROVE gs[i] = r[i]
  <2>1. i \in 1..(l + m) /\ i <= l
    BY <1>1
  <2> QED
    BY <1>1, <2>1
<1>3. ASSUME NEW i \in 1..m PROVE gs[l + i] = rest[i]
  <2>1. l + i \in 1..(l + m) /\ ~(l + i <= l) /\ (l + i) - l = i
    BY <1>1
  <2> QED
    BY <1>1, <2>1
<1> QED
  BY <1>1, <1>2, <1>3 DEF l, m, StartsWith, GoesOnWith

\* Where each frame of the client's was.
Places(d, e, l, m) ==
    [i \in 1..(d + 1 + e + m) |->
       IF i <= d THEN i
       ELSE IF i = d + 1 THEN l + 1
       ELSE IF i <= d + 1 + e THEN i - 1 ELSE i - (d + 1 + e) + (l + 1)]

\* Taking a frame out of the channel is what `Taken` says.
LEMMA ReceivedTaken ==
    ASSUME NEW q \in Seq(Frame), Sorted(q), \A i \in DOMAIN q : ~q[i].cancel,
           NEW f \in Frame, NEW r, NEW d, Queues(q, f, r, d), NEW rest \in Seq(Frame)
    PROVE  \E pi : Taken(Before(q, f, rest), After(r, rest), Len(q) + 1, pi)
<1> DEFINE e == Len(Behind(q, f, d))
           l == Len(q)
           m == Len(rest)
           g == Uncancelled(f)
           fs == Before(q, f, rest)
           gs == After(r, rest)
           p == l + 1
           pi == Places(d, e, l, m)
<1>1. /\ e \in Nat /\ d \in Nat /\ l \in Nat /\ d <= l
      /\ IF f.reset \/ f.cancel THEN e = 0 ELSE e = l - d
      /\ r \in Seq(Frame) /\ Len(r) = d + 1 + e
      /\ \A i \in 1..d : r[i] = q[i]
      /\ r[d + 1] = g
      /\ \A i \in 1..e : r[d + 1 + i] = q[d + i]
  BY BehindFacts
<1>2. /\ m \in Nat /\ fs \in Seq(Frame) /\ DOMAIN fs = 1..(l + 1 + m)
      /\ \A i \in 1..l : fs[i] = q[i]
      /\ fs[l + 1] = f
      /\ \A i \in 1..m : fs[l + 1 + i] = rest[i]
  <2>1. /\ Len(rest) \in Nat /\ fs \in Seq(Frame)
        /\ DOMAIN fs = 1..(Len(q) + 1 + Len(rest))
        /\ StartsWith(fs, q) /\ HasAt(fs, Len(q) + 1, f) /\ GoesOnWith(fs, Len(q) + 1, rest)
    <3>1. fs = Before(q, f, rest)
      OBVIOUS
    <3> HIDE DEF fs
    <3> QED
      BY <3>1, BeforeFacts
  <2> HIDE DEF fs
  <2> QED
    BY <2>1 DEF StartsWith, HasAt, GoesOnWith
<1>3. /\ gs \in Seq(Frame) /\ DOMAIN gs = 1..(d + 1 + e + m)
      /\ \A i \in 1..(d + 1 + e) : gs[i] = r[i]
      /\ \A i \in 1..m : gs[d + 1 + e + i] = rest[i]
  <2>1. /\ gs \in Seq(Frame) /\ DOMAIN gs = 1..(Len(r) + Len(rest))
        /\ StartsWith(gs, r) /\ GoesOnWith(gs, Len(r), rest)
    <3>1. gs = After(r, rest)
      OBVIOUS
    <3> HIDE DEF gs
    <3> QED
      BY <1>1, <3>1, AfterFacts
  <2> HIDE DEF gs, e
  <2> QED
    BY <1>1, <2>1 DEF StartsWith, GoesOnWith
<1>4. g.at = f.at /\ g.ops = f.ops /\ g.reset = f.reset /\ ~g.cancel /\ f.at \in Nat
  <2>1. g.at = f.at /\ g.ops = f.ops /\ g.reset = f.reset /\ ~g.cancel
    BY UncancelledFacts
  <2>2. f.at \in Nat
    BY UiAssumption DEF Frame, Times
  <2> QED
    BY <2>1, <2>2
<1>5. /\ DOMAIN q = 1..l /\ \A i \in 1..l : ~q[i].cancel /\ q[i].at \in Nat
      /\ \A i, j \in 1..l : i < j => q[i].at <= q[j].at
  BY FrameFacts DEF Sorted
<1>6. /\ f.reset => d = 0
      /\ ~f.reset => /\ \A i \in 1..d : q[i].at <= f.at
                     /\ \A i \in (d + 1)..l : q[i].at > f.at
  BY DEF Queues, Splits
<1>0. e \in Nat /\ d \in Nat /\ l \in Nat /\ m \in Nat /\ d <= l
  BY <1>1, <1>2
<1> HIDE DEF e, l, m, g, fs, gs, pi
<1>7. /\ \A i \in 1..d : pi[i] = i
      /\ pi[d + 1] = l + 1
      /\ \A i \in 1..e : pi[d + 1 + i] = d + i
      /\ \A i \in 1..m : pi[d + 1 + e + i] = l + 1 + i
  <2>1. ASSUME NEW i \in 1..d PROVE pi[i] = i
    <3>1. i \in 1..(d + 1 + e + m) /\ i <= d
      BY <1>1, <1>2
    <3> QED
      BY <3>1 DEF pi, Places
  <2>2. pi[d + 1] = l + 1
    <3>1. d + 1 \in 1..(d + 1 + e + m) /\ ~(d + 1 <= d)
      BY <1>1, <1>2
    <3> QED
      BY <3>1 DEF pi, Places
  <2>3. ASSUME NEW i \in 1..e PROVE pi[d + 1 + i] = d + i
    <3>1. /\ d + 1 + i \in 1..(d + 1 + e + m) /\ ~(d + 1 + i <= d) /\ d + 1 + i # d + 1
          /\ d + 1 + i <= d + 1 + e /\ (d + 1 + i) - 1 = d + i
      BY <1>1, <1>2
    <3> QED
      BY <3>1 DEF pi, Places
  <2>4. ASSUME NEW i \in 1..m PROVE pi[d + 1 + e + i] = l + 1 + i
    <3>1. /\ d + 1 + e + i \in 1..(d + 1 + e + m) /\ ~(d + 1 + e + i <= d)
          /\ d + 1 + e + i # d + 1 /\ ~(d + 1 + e + i <= d + 1 + e)
          /\ (d + 1 + e + i) - (d + 1 + e) + (l + 1) = l + 1 + i
      BY <1>1, <1>2
    <3> QED
      BY <3>1 DEF pi, Places
  <2> QED
    BY <2>1, <2>2, <2>3, <2>4
<1>8. ASSUME NEW i \in DOMAIN gs
      PROVE  \/ i \in 1..d
             \/ i = d + 1
             \/ \E j \in 1..e : i = d + 1 + j
             \/ \E j \in 1..m : i = d + 1 + e + j
  <2>0. i \in Nat /\ i >= 1 /\ i <= d + 1 + e + m
    BY <1>1, <1>2, <1>3
  <2>1. CASE i <= d + 1
    BY <1>1, <2>0, <2>1
  <2>2. CASE i > d + 1 /\ i <= d + 1 + e
    <3>1. i - (d + 1) \in 1..e /\ i = d + 1 + (i - (d + 1))
      BY <1>1, <2>0, <2>2
    <3> QED
      BY <3>1
  <2>3. CASE i > d + 1 + e
    <3>1. i - (d + 1 + e) \in 1..m /\ i = d + 1 + e + (i - (d + 1 + e))
      BY <1>0, <2>0, <2>3
    <3> QED
      BY <3>1
  <2> QED
    BY <1>1, <2>0, <2>1, <2>2, <2>3
<1>9. p \in DOMAIN fs
  BY <1>1, <1>2
<1>10. \A i, j \in DOMAIN fs : i < j /\ j < p => fs[i].at <= fs[j].at
  <2> SUFFICES ASSUME NEW i \in DOMAIN fs, NEW j \in DOMAIN fs, i < j, j < p
               PROVE  fs[i].at <= fs[j].at
    OBVIOUS
  <2>1. i \in 1..l /\ j \in 1..l
    BY <1>1, <1>2
  <2> QED
    BY <1>2, <1>5, <2>1
<1>11. \A i \in DOMAIN fs : i < p => ~fs[i].cancel
  <2> SUFFICES ASSUME NEW i \in DOMAIN fs, i < p PROVE ~fs[i].cancel
    OBVIOUS
  <2>1. i \in 1..l
    BY <1>1, <1>2
  <2> QED
    BY <1>2, <1>5, <2>1
<1>12. ASSUME NEW i \in DOMAIN gs
       PROVE  /\ pi[i] \in DOMAIN fs
              /\ gs[i].at = fs[pi[i]].at /\ gs[i].ops = fs[pi[i]].ops
              /\ gs[i].reset = fs[pi[i]].reset
              /\ pi[i] # p => gs[i].cancel = fs[pi[i]].cancel
              /\ pi[i] < p => /\ ~fs[p].reset
                              /\ fs[p].cancel => fs[pi[i]].at <= fs[p].at
  <2>1. CASE i \in 1..d
    <3>1. i \in 1..(d + 1 + e) /\ i \in 1..l /\ i \in 1..(l + 1 + m) /\ d # 0
      BY <1>1, <1>2, <2>1
    <3>2. pi[i] = i /\ gs[i] = q[i] /\ fs[i] = q[i] /\ i \in DOMAIN fs
      BY <1>1, <1>2, <1>3, <1>7, <2>1, <3>1
    <3>3. ~f.reset /\ q[i].at <= f.at
      BY <1>6, <2>1, <3>1
    <3> QED
      BY <1>2, <3>2, <3>3
  <2>2. CASE i = d + 1
    <3>1. i \in 1..(d + 1 + e) /\ ~(l + 1 < l + 1)
      BY <1>1, <2>2
    <3>2. pi[i] = p /\ gs[i] = g /\ fs[p] = f
      BY <1>1, <1>2, <1>3, <1>7, <2>2, <3>1
    <3> QED
      BY <1>4, <1>9, <3>1, <3>2
  <2>3. CASE \E j \in 1..e : i = d + 1 + j
    <3>1. PICK j \in 1..e : i = d + 1 + j
      BY <2>3
    <3>2. /\ i \in 1..(d + 1 + e) /\ e # 0
      BY <1>1, <3>1
    <3>3. ~f.reset /\ ~f.cancel /\ e = l - d
      BY <1>1, <3>2
    <3>4. d + j \in 1..l /\ d + j \in 1..(l + 1 + m)
      BY <1>1, <1>2, <3>3
    <3>5. pi[i] = d + j /\ gs[i] = q[d + j] /\ fs[d + j] = q[d + j] /\ d + j \in DOMAIN fs
      BY <1>1, <1>2, <1>3, <1>7, <3>1, <3>2, <3>4
    <3> QED
      BY <1>2, <3>3, <3>5
  <2>4. CASE \E j \in 1..m : i = d + 1 + e + j
    <3>1. PICK j \in 1..m : i = d + 1 + e + j
      BY <2>4
    <3>2. l + 1 + j \in 1..(l + 1 + m) /\ ~(l + 1 + j < l + 1)
      BY <1>1, <1>2
    <3>3. /\ pi[i] = l + 1 + j /\ gs[i] = rest[j] /\ fs[l + 1 + j] = rest[j]
          /\ l + 1 + j \in DOMAIN fs
      BY <1>2, <1>3, <1>7, <3>1, <3>2
    <3> QED
      BY <3>2, <3>3
  <2> QED
    BY <1>8, <2>1, <2>2, <2>3, <2>4
<1>13. ASSUME NEW i \in DOMAIN gs, NEW j \in DOMAIN gs, i < j
       PROVE  \/ pi[i] < pi[j]
              \/ pi[i] = p /\ pi[j] < p /\ fs[pi[j]].at > fs[p].at
  <2>1. CASE i \in 1..d
    <3>1. pi[i] = i
      BY <1>7, <2>1
    <3>2. CASE j \in 1..d
      BY <1>7, <1>13, <3>1, <3>2
    <3>3. CASE j = d + 1
      <4>1. pi[j] = l + 1 /\ i < l + 1
        BY <1>0, <1>7, <2>1, <3>3
      <4> QED
        BY <3>1, <4>1
    <3>4. CASE \E k \in 1..e : j = d + 1 + k
      <4>1. PICK k \in 1..e : j = d + 1 + k
        BY <3>4
      <4>2. pi[j] = d + k
        BY <1>7, <4>1
      <4>3. i < d + k
        BY <1>0, <2>1
      <4> QED
        BY <3>1, <4>2, <4>3
    <3>5. CASE \E k \in 1..m : j = d + 1 + e + k
      <4>1. PICK k \in 1..m : j = d + 1 + e + k
        BY <3>5
      <4>2. pi[j] = l + 1 + k /\ i < l + 1 + k
        BY <1>0, <1>7, <2>1, <4>1
      <4> QED
        BY <3>1, <4>2
    <3> QED
      BY <1>8, <3>2, <3>3, <3>4, <3>5
  <2>2. CASE i = d + 1
    <3>1. pi[i] = p
      BY <1>7, <2>2
    <3>2. CASE \E k \in 1..e : j = d + 1 + k
      <4>1. PICK k \in 1..e : j = d + 1 + k
        BY <3>2
      <4>2. ~f.reset /\ ~f.cancel /\ e = l - d
        BY <1>1
      <4>3. d + k \in (d + 1)..l /\ d + k \in 1..l /\ d + k < l + 1
        BY <1>1, <4>2
      <4>4. pi[j] = d + k /\ fs[d + k] = q[d + k] /\ q[d + k].at > f.at
        BY <1>2, <1>6, <1>7, <4>1, <4>2, <4>3
      <4> QED
        BY <1>2, <3>1, <4>3, <4>4
    <3>3. CASE \E k \in 1..m : j = d + 1 + e + k
      <4>1. PICK k \in 1..m : j = d + 1 + e + k
        BY <3>3
      <4>2. pi[j] = l + 1 + k /\ l + 1 < l + 1 + k
        BY <1>1, <1>2, <1>7, <4>1
      <4> QED
        BY <3>1, <4>2
    <3>4. j \notin 1..d /\ j # d + 1
      BY <1>1, <1>13, <2>2
    <3> QED
      BY <1>8, <3>2, <3>3, <3>4
  <2>3. CASE \E k \in 1..e : i = d + 1 + k
    <3>1. PICK k \in 1..e : i = d + 1 + k
      BY <2>3
    <3>2. pi[i] = d + k
      BY <1>7, <3>1
    <3>3. CASE \E h \in 1..e : j = d + 1 + h
      <4>1. PICK h \in 1..e : j = d + 1 + h
        BY <3>3
      <4>2. k < h
        BY <1>0, <1>13, <3>1, <4>1
      <4>3. pi[j] = d + h
        BY <1>7, <4>1
      <4>4. d + k < d + h
        BY <1>0, <4>2
      <4> QED
        BY <3>2, <4>3, <4>4
    <3>4. CASE \E h \in 1..m : j = d + 1 + e + h
      <4>1. PICK h \in 1..m : j = d + 1 + e + h
        BY <3>4
      <4>2. e = l - d
        BY <1>1, <3>1
      <4>3. pi[j] = l + 1 + h
        BY <1>7, <4>1
      <4>4. d + k < l + 1 + h
        BY <1>0, <4>2
      <4> QED
        BY <3>2, <4>3, <4>4
    <3>5. j \notin 1..d /\ j # d + 1
      BY <1>1, <1>13, <3>1
    <3> QED
      BY <1>8, <3>3, <3>4, <3>5
  <2>4. CASE \E k \in 1..m : i = d + 1 + e + k
    <3>1. PICK k \in 1..m : i = d + 1 + e + k
      BY <2>4
    <3>2. pi[i] = l + 1 + k
      BY <1>7, <3>1
    <3>3. PICK h \in 1..m : j = d + 1 + e + h
      <4>1. j \notin 1..d /\ j # d + 1 /\ ~\E h \in 1..e : j = d + 1 + h
        BY <1>1, <1>2, <1>13, <3>1
      <4> QED
        BY <1>8, <4>1
    <3>4. pi[j] = l + 1 + h /\ l + 1 + k < l + 1 + h
      BY <1>1, <1>2, <1>7, <1>13, <3>1, <3>3
    <3> QED
      BY <3>2, <3>4
  <2> QED
    BY <1>8, <2>1, <2>2, <2>3, <2>4
<1>14. ASSUME NEW k \in DOMAIN fs
       PROVE  \/ \E i \in DOMAIN gs : pi[i] = k
              \/ k < p /\ (fs[p].reset \/ (fs[p].cancel /\ fs[k].at > fs[p].at))
  <2>0. k \in Nat /\ k >= 1 /\ k <= l + 1 + m
    BY <1>1, <1>2
  <2>1. CASE k \in 1..d
    <3>1. k \in DOMAIN gs /\ pi[k] = k
      BY <1>1, <1>2, <1>3, <1>7, <2>1
    <3> QED
      BY <3>1
  <2>2. CASE k \in (d + 1)..l
    <3>1. k \in 1..l /\ k < p /\ fs[k] = q[k]
      BY <1>1, <1>2, <2>2
    <3>2. CASE f.reset \/ f.cancel
      BY <1>2, <1>6, <2>2, <3>1, <3>2
    <3>3. CASE ~(f.reset \/ f.cancel)
      <4>1. e = l - d
        BY <1>1, <3>3
      <4>2. k - d \in 1..e /\ d + (k - d) = k /\ d + 1 + (k - d) \in 1..(d + 1 + e + m)
        BY <1>1, <1>2, <2>2, <4>1
      <4>3. pi[d + 1 + (k - d)] = k
        BY <1>7, <4>2
      <4> QED
        BY <1>3, <4>2, <4>3
    <3> QED
      BY <3>2, <3>3
  <2>3. CASE k = l + 1
    <3>1. d + 1 \in DOMAIN gs /\ pi[d + 1] = k
      BY <1>1, <1>2, <1>3, <1>7, <2>3
    <3> QED
      BY <3>1
  <2>4. CASE k > l + 1
    <3>1. /\ k - (l + 1) \in 1..m /\ l + 1 + (k - (l + 1)) = k
          /\ d + 1 + e + (k - (l + 1)) \in 1..(d + 1 + e + m)
      BY <1>0, <2>0, <2>4
    <3>2. pi[d + 1 + e + (k - (l + 1))] = k
      BY <1>7, <3>1
    <3> QED
      BY <1>3, <3>1, <3>2
  <2> QED
    BY <1>1, <2>0, <2>1, <2>2, <2>3, <2>4
<1> HIDE DEF p
<1>15. Taken(fs, gs, p, pi)
  BY <1>9, <1>10, <1>11, <1>12, <1>13, <1>14 DEF Taken
<1>16. p = Len(q) + 1
  BY DEF p, l
<1> QED
  BY <1>15, <1>16 DEF fs, gs

\* When a frame names n there is a last one that does.
LEMMA LastNamed ==
    ASSUME NEW fs \in Seq(Frame), NEW n, NEW k \in DOMAIN fs, Names(fs[k], n)
    PROVE  \E m \in DOMAIN fs : m >= k /\ LastNaming(fs, m, n)
<1> DEFINE l == Len(fs)
           B == {r \in 1..l : Names(fs[r], n)}
           T == {l - r : r \in B}
<1>1. l \in Nat /\ DOMAIN fs = 1..l /\ k \in B
  OBVIOUS
<1>2. T \in SUBSET Nat /\ T # {}
  BY <1>1
<1>3. PICK x \in T : \A y \in T : x <= y
  <2> HIDE DEF T
  <2> QED
    BY <1>2, Least
<1>4. PICK r \in B : x = l - r
  OBVIOUS
<1>5. ASSUME NEW i \in B PROVE i <= r
  <2>1. l - r <= l - i
    BY <1>3, <1>4
  <2> QED
    BY <1>1, <2>1
<1>6. r \in 1..l /\ Names(fs[r], n) /\ r >= k
  BY <1>1, <1>5
<1>7. LastNaming(fs, r, n)
  BY <1>1, <1>5, <1>6 DEF LastNaming
<1> QED
  BY <1>1, <1>6, <1>7

\* What a frame that came shows of n in the end is the same wherever the client
\* puts it: there or gone, and with the same value.
LEMMA ReceivedShown ==
    ASSUME NEW q \in Seq(Frame), Sorted(q), \A i \in DOMAIN q : ~q[i].cancel,
           NEW f \in Frame, NEW r, NEW d, Queues(q, f, r, d), NEW rest \in Seq(Frame),
           NEW t \in Tree, NEW n \in Nodes, NEW at \in Nat,
           InOrder(Before(q, f, rest), at, n)
    PROVE  /\ Alike(ShownAll(t, After(r, rest)), ShownAll(t, Before(q, f, rest)), n)
           /\ LastStands(Before(q, f, rest), at, n)
                => ShownAll(t, After(r, rest))[n] = ShownAll(t, Before(q, f, rest))[n]
<1> DEFINE l == Len(q)
           p == l + 1
           fs == Before(q, f, rest)
           gs == After(r, rest)
           g == Uncancelled(f)
           D == SubSeq(q, 1, d)
           L == SubSeq(q, d + 1, Len(q))
           E == Behind(q, f, d)
           a == ShownAll(t, D)
           b == ShownAll(a, L)
           c == Shown(a, f)
           X == Shown(b, f)
           Y == ShownAll(c, E)
<1>1. /\ d \in 0..l /\ l \in Nat /\ d \in Nat /\ r = (D \o <<g>>) \o E
      /\ f.reset => d = 0
      /\ ~f.reset => Splits(q, d, f.at)
  BY DEF Queues
<1>2. /\ D \in Seq(Frame) /\ L \in Seq(Frame) /\ q = D \o L
      /\ Len(L) = l - d /\ \A i \in 1..(l - d) : L[i] = q[d + i]
  BY <1>1, Split
<1>3. E \in Seq(Frame) /\ (f.reset \/ f.cancel => E = <<>>) /\ (~(f.reset \/ f.cancel) => E = L)
  <2>1. <<>> \in Seq(Frame)
    OBVIOUS
  <2> QED
    BY <1>2, <2>1 DEF Behind
<1>4. g \in Frame /\ g.at = f.at /\ g.reset = f.reset /\ g.ops = f.ops
  BY UncancelledFacts
<1>5. a \in Tree /\ b \in Tree /\ c \in Tree /\ X \in Tree /\ Y \in Tree
  <2>1. a \in Tree
    BY <1>2, ShownAllType
  <2> HIDE DEF a
  <2>2. b \in Tree /\ c \in Tree
    BY <1>2, <2>1, ShownAllType, ShownType
  <2> HIDE DEF b, c
  <2> QED
    BY <1>3, <2>1, <2>2, ShownAllType, ShownType
<1>6. fs \in Seq(Frame) /\ DOMAIN fs = 1..(l + 1 + Len(rest)) /\ Len(rest) \in Nat
      /\ (\A i \in 1..l : fs[i] = q[i]) /\ fs[p] = f
      /\ \A i \in 1..Len(rest) : fs[p + i] = rest[i]
  <2>1. fs = Before(q, f, rest)
    OBVIOUS
  <2> HIDE DEF fs
  <2>2. fs \in Seq(Frame) /\ DOMAIN fs = 1..(Len(q) + 1 + Len(rest)) /\ Len(rest) \in Nat
        /\ StartsWith(fs, q) /\ HasAt(fs, Len(q) + 1, f) /\ GoesOnWith(fs, Len(q) + 1, rest)
    BY <2>1, BeforeFacts
  <2> QED
    BY <2>2 DEF StartsWith, HasAt, GoesOnWith
<1>7. ShownAll(t, fs) = ShownAll(X, rest)
  <2>1. q \o <<f>> = Append(q, f) /\ Append(q, f) \in Seq(Frame)
    OBVIOUS
  <2>2. ShownAll(t, Append(q, f) \o rest) = ShownAll(ShownAll(t, Append(q, f)), rest)
    BY <2>1, ShownConcat
  <2>3. ShownAll(t, Append(q, f)) = Shown(ShownAll(t, q), f)
    BY ShownAppend
  <2>4. ShownAll(t, q) = b
    <3> HIDE DEF D, L
    <3> QED
      BY <1>2, ShownConcat
  <2> QED
    BY <2>1, <2>2, <2>3, <2>4 DEF Before
<1>8. ShownAll(t, gs) = ShownAll(Y, rest)
  <2> HIDE DEF D, E, g
  <2>1. D \o <<g>> = Append(D, g) /\ Append(D, g) \in Seq(Frame)
    BY <1>2, <1>4
  <2>2. r = Append(D, g) \o E /\ r \in Seq(Frame)
    BY <1>1, <1>3, <2>1
  <2>3. ShownAll(t, r \o rest) = ShownAll(ShownAll(t, r), rest)
    BY <2>2, ShownConcat
  <2>4. ShownAll(t, r) = ShownAll(ShownAll(t, Append(D, g)), E)
    BY <1>3, <2>1, <2>2, ShownConcat
  <2>5. ShownAll(t, Append(D, g)) = Shown(ShownAll(t, D), g)
    BY <1>2, <1>4, ShownAppend
  <2>6. Shown(ShownAll(t, D), g) = c
    BY <1>4 DEF Shown
  <2> QED
    BY <2>3, <2>4, <2>5, <2>6 DEF After
<1>9. PICK pi : Taken(fs, gs, p, pi)
  BY ReceivedTaken
<1>10. r \in Seq(Frame) /\ gs \in Seq(Frame)
  <2>1. r \in Seq(Frame)
    BY BehindFacts
  <2> QED
    BY <2>1 DEF After
<1> HIDE DEF l, fs, gs, g, D, L, E, a, b, c, X, Y
<1>11. CASE Some(rest, Resetting)
  BY <1>5, <1>7, <1>8, <1>11, ShownAllCell DEF Alike, fs, gs
<1>12. CASE f.reset
  <2>1. X = c
    BY <1>5, <1>12, ShownCell DEF X, c
  <2>2. Y = c
    BY <1>3, <1>5, <1>12, ShownNone DEF Y
  <2> QED
    BY <1>7, <1>8, <2>1, <2>2 DEF Alike, fs, gs
<1>13. CASE ~f.reset /\ ~Some(rest, Resetting)
  <2>1. \A k \in DOMAIN fs : k > p => ~fs[k].reset
    <3> SUFFICES ASSUME NEW k \in DOMAIN fs, k > p, fs[k].reset PROVE FALSE
      OBVIOUS
    <3> DEFINE N == Len(rest)
    <3>0. k \in 1..(p + N) /\ p \in Nat /\ N \in Nat
      BY <1>1, <1>6 DEF l
    <3> HIDE DEF N
    <3>1. k - p \in 1..N /\ p + (k - p) = k
      BY <3>0
    <3> USE DEF N
    <3>2. fs[k] = rest[k - p] /\ fs[k] \in Frame
      BY <1>6, <3>1
    <3>3. k - p \in DOMAIN rest
      BY <3>1
    <3> QED
      BY <1>13, <3>2, <3>3 DEF Some, Resetting
  <2>2. ASSUME NEW i \in 1..(l - d)
        PROVE  /\ d + i \in DOMAIN fs /\ d + i < p /\ fs[d + i] = L[i]
               /\ fs[d + i].at > fs[p].at
    <3>1. d + i \in 1..l /\ d + i < p /\ d + i \in 1..(l + 1 + Len(rest)) /\ d + i \in (d + 1)..l
      BY <1>1, <1>6
    <3>2. q[d + i].at > f.at
      BY <1>1, <1>13, <3>1 DEF Splits, l
    <3> QED
      BY <1>2, <1>6, <3>1, <3>2
  <2>3. ASSUME NEW k \in DOMAIN fs, k < p, fs[k].at > fs[p].at PROVE ~Marks(fs[k], n)
    <3> SUFFICES ASSUME Marks(fs[k], n) PROVE FALSE
      OBVIOUS
    <3>1. \E h \in DOMAIN fs : h > p /\ fs[h].reset
      BY <1>6, <1>9, <1>10, <1>13, <2>3, TakenMarks DEF fs
    <3> QED
      BY <2>1, <3>1
  <2>4. ~Some(L, Marking(n)) /\ ~Some(L, Resetting)
    <3>1. DOMAIN L = 1..(l - d)
      BY <1>2
    <3>2. ASSUME NEW i \in DOMAIN L PROVE ~Marks(L[i], n)
      <4>1. fs[d + i] = L[i] /\ ~Marks(fs[d + i], n)
        BY <2>2, <2>3, <3>1
      <4> QED
        BY <4>1
    <3> QED
      BY <3>2 DEF Some, Marking, Resetting, Marks
  <2>5. Alike(b, a, n)
    BY <1>2, <1>5, <2>4, ShownAllCell DEF b
  <2>6. Alike(X, c, n)
    BY <1>5, <2>5, ShownCell DEF X, c
  <2>7. Alike(Y, c, n)
    <3>1. CASE E = <<>>
      <4>1. Y = c
        BY <1>5, <3>1, ShownNone DEF Y
      <4> QED
        BY <4>1 DEF Alike
    <3>2. CASE E = L
      BY <1>2, <1>5, <2>4, <3>2, ShownAllCell DEF Y
    <3> QED
      BY <1>3, <3>1, <3>2
  <2>8. Alike(Y, X, n)
    BY <2>6, <2>7 DEF Alike
  <2>9. Alike(ShownAll(t, gs), ShownAll(t, fs), n)
    BY <1>5, <1>7, <1>8, <2>8, ShownAllCell
  <2>10. ASSUME LastStands(fs, at, n) PROVE ShownAll(t, gs)[n] = ShownAll(t, fs)[n]
    <3>1. CASE Some(rest, Naming(n))
      BY <1>5, <1>7, <1>8, <2>8, <3>1, ShownAllCell
    <3>2. CASE ~Some(rest, Naming(n)) /\ Some(L, Naming(n))
      <4>1. PICK i \in DOMAIN L : Names(L[i], n)
        BY <3>2 DEF Some, Naming
      <4>2. i \in 1..(l - d)
        BY <1>2
      <4> DEFINE k == d + i
      <4>3. k \in DOMAIN fs /\ k < p /\ Names(fs[k], n) /\ fs[k].at > fs[p].at
        BY <2>2, <4>1, <4>2
      <4> HIDE DEF k
      <4>4. PICK m \in DOMAIN fs : m >= k /\ LastNaming(fs, m, n)
        BY <1>6, <4>3, LastNamed
      <4>5. /\ \A h \in DOMAIN fs : h > m => fs[m].at <= fs[h].at
            /\ \A h \in DOMAIN fs : h < m /\ Names(fs[h], n) /\ fs[h].at > fs[m].at =>
                 \E j \in DOMAIN fs : h < j /\ j <= m /\ Undoes(fs, h, j)
        BY <2>10, <4>4 DEF LastStands
      <4>6. p \in DOMAIN fs /\ DOMAIN fs \subseteq Nat /\ \A h \in DOMAIN fs : fs[h].at \in Nat
        BY <1>1, <1>6, FrameFacts
      <4>7. ~(m > p)
        <5> SUFFICES ASSUME m > p PROVE FALSE
          OBVIOUS
        <5>1. m - p \in 1..Len(rest) /\ p + (m - p) = m
          BY <1>1, <1>6
        <5>2. fs[m] = rest[m - p] /\ fs[m] \in Frame
          BY <1>6, <5>1
        <5>3. m - p \in DOMAIN rest
          BY <5>1
        <5> QED
          BY <3>2, <4>4, <5>2, <5>3 DEF Some, Naming, LastNaming
      <4>8. ~(m < p)
        <5> SUFFICES ASSUME m < p PROVE FALSE
          OBVIOUS
        <5>1. fs[m].at <= fs[p].at
          BY <4>5, <4>6
        <5>2. fs[k].at <= fs[m].at
          <6>1. k \in 1..l /\ m \in 1..l
            BY <1>1, <1>6, <4>3, <4>6
          <6>2. k = m \/ k < m
            BY <4>4, <4>6, <6>1
          <6>3. fs[k] = q[k] /\ fs[m] = q[m] /\ k \in DOMAIN q /\ m \in DOMAIN q
            BY <1>6, <6>1 DEF l
          <6> QED
            BY <4>6, <6>2, <6>3 DEF Sorted
        <5> QED
          BY <4>3, <4>6, <5>1, <5>2
      <4>9. m = p
        BY <4>6, <4>7, <4>8
      <4>10. Names(f, n)
        BY <1>6, <4>4, <4>9 DEF LastNaming
      <4>11. PICK j \in DOMAIN fs : k < j /\ j <= p /\ Undoes(fs, k, j)
        BY <4>3, <4>5, <4>9
      <4>12. f.cancel
        <5> SUFFICES ASSUME ~f.cancel PROVE FALSE
          OBVIOUS
        <5>1. j # p
          BY <1>6, <1>13, <4>11 DEF Undoes
        <5>2. j < p
          BY <4>6, <4>11, <5>1
        <5>3. ~fs[j].cancel
          BY <1>9, <5>2 DEF Taken
        <5>4. fs[j].reset
          BY <4>11, <5>3 DEF Undoes
        <5>5. fs[k].at <= fs[j].at
          BY <1>9, <4>3, <4>11, <5>2 DEF Taken
        <5>6. fs[j].at > fs[p].at
          BY <4>3, <4>6, <5>5
        <5> QED
          BY <2>3, <5>2, <5>4, <5>6 DEF Marks
      <4>13. Y = c
        BY <1>3, <1>5, <4>12, ShownNone DEF Y
      <4>14. X[n] = c[n]
        BY <1>5, <2>5, <4>10, ShownCell DEF X, c
      <4> QED
        BY <1>5, <1>7, <1>8, <4>13, <4>14, ShownAllCell
    <3>3. CASE ~Some(rest, Naming(n)) /\ ~Some(L, Naming(n))
      <4>1. b[n] = a[n]
        BY <1>2, <1>5, <2>4, <3>3, ShownAllCell DEF b
      <4>2. X[n] = c[n]
        BY <1>5, <4>1, ShownCell DEF X, c
      <4>3. Y[n] = c[n]
        <5>1. CASE E = <<>>
          BY <1>5, <5>1, ShownNone DEF Y
        <5>2. CASE E = L
          BY <1>2, <1>5, <2>4, <3>3, <5>2, ShownAllCell DEF Y
        <5> QED
          BY <1>3, <5>1, <5>2
      <4> QED
        BY <1>5, <1>7, <1>8, <4>2, <4>3, ShownAllCell
    <3> QED
      BY <3>1, <3>2, <3>3
  <2> QED
    BY <2>9, <2>10 DEF fs, gs
<1> QED
  BY <1>11, <1>12, <1>13

-----------------------------------------------------------------------------
(* The client's copy of one node.                                          *)

DocumentType ==
    [tree : Tree, next : 1..MaxNodes + 1, pending : Seq(Op), reset : BOOLEAN,
     capturing : BOOLEAN, captured : Seq(Op), undo : Seq(Op)]

\* What the client shows once it played the frames on their way and got what
\* the document has pending.
Final(t, fs, d) == ApplyAll(ShownAll(t, fs), d.pending)

\* The document without what is drawn right now.
Base(d) == ApplyAll(d.tree, Reverse(d.undo))

\* The client will have n or lack it as the document does.
There(t, fs, at, d, n) ==
    /\ InOrder(fs, at, n)
    /\ ~d.reset => Alike(Final(t, fs, d), d.tree, n)

\* It will show the document's value of n.
Same(t, fs, at, d, n) ==
    /\ Undone(fs, at, n)
    /\ ~d.reset => Final(t, fs, d)[n] = Base(d)[n]
    /\ ~d.reset /\ d.tree[n] # Gone /\ ~OpNames(d.pending, n) => LastStands(fs, at, n)

\* What is set last is set back first.
LEMMA ReverseFacts ==
    ASSUME NEW ops \in Seq(Op)
    PROVE  /\ Reverse(ops) \in Seq(Op)
           /\ \A n : (\A j \in DOMAIN ops : ops[j].do = "set") => OnlySets(Reverse(ops), n)
           /\ \A op \in Op : Reverse(Append(ops, op)) = <<op>> \o Reverse(ops)
<1>1. Len(ops) \in Nat /\ DOMAIN ops = 1..Len(ops)
  OBVIOUS
<1>2. \A i \in 1..Len(ops) : Len(ops) - i + 1 \in 1..Len(ops)
  BY <1>1
<1>3. Reverse(ops) \in Seq(Op) /\ Len(Reverse(ops)) = Len(ops)
  BY <1>1, <1>2 DEF Reverse
<1>4. ASSUME NEW n, \A j \in DOMAIN ops : ops[j].do = "set"
      PROVE  OnlySets(Reverse(ops), n)
  BY <1>1, <1>2, <1>4 DEF Reverse, OnlySets
<1>5. ASSUME NEW op \in Op PROVE Reverse(Append(ops, op)) = <<op>> \o Reverse(ops)
  <2> DEFINE l == Len(ops)
             a == Reverse(Append(ops, op))
             b == <<op>> \o Reverse(ops)
  <2>1. Append(ops, op) \in Seq(Op) /\ Len(Append(ops, op)) = l + 1
    BY <1>1
  <2>2. \A i \in 1..(l + 1) : l + 1 - i + 1 \in 1..(l + 1)
    BY <1>1
  <2>3. a \in Seq(Op) /\ Len(a) = l + 1
    BY <2>1, <2>2 DEF Reverse
  <2>4. b \in Seq(Op) /\ Len(b) = l + 1
    BY <1>3
  <2>5. ASSUME NEW i \in 1..(l + 1) PROVE a[i] = b[i]
    <3>1. a[i] = Append(ops, op)[l + 1 - i + 1]
      BY <2>1 DEF Reverse
    <3>2. CASE i = 1
      <4>1. l + 1 - i + 1 = l + 1
        BY <1>1, <3>2
      <4> QED
        BY <1>1, <3>1, <3>2, <4>1, <1>3
    <3>3. CASE i # 1
      <4>1. l + 1 - i + 1 \in 1..l /\ i - 1 \in 1..l /\ l - (i - 1) + 1 = l + 1 - i + 1
        BY <1>1, <3>3
      <4>2. a[i] = ops[l + 1 - i + 1]
        BY <1>1, <3>1, <4>1
      <4>3. b[i] = Reverse(ops)[i - 1]
        BY <1>1, <1>3, <3>3
      <4>4. Reverse(ops)[i - 1] = ops[l - (i - 1) + 1]
        BY <4>1 DEF Reverse
      <4> QED
        BY <4>1, <4>2, <4>3, <4>4
    <3> QED
      BY <3>2, <3>3
  <2> HIDE DEF a, b, l
  <2>6. a = b
    BY <2>3, <2>4, <2>5, <1>1, SeqEqual DEF l
  <2> QED
    BY <2>6 DEF a, b
<1> QED
  BY <1>3, <1>4, <1>5

\* Both are trees.
LEMMA TreesOf ==
    ASSUME NEW t \in Tree, NEW fs \in Seq(Frame), NEW d \in DocumentType
    PROVE  Final(t, fs, d) \in Tree /\ Base(d) \in Tree
<1>1. d.tree \in Tree /\ d.pending \in Seq(Op) /\ d.undo \in Seq(Op)
  BY DEF DocumentType
<1> QED
  BY <1>1, ShownAllType, ApplyAllType, ReverseFacts DEF Final, Base

\* Time passes.
LEMMA TimePasses ==
    ASSUME NEW t, NEW fs \in Seq(Frame), NEW at \in Nat, NEW then \in Nat, at <= then,
           NEW d, NEW n
    PROVE  /\ There(t, fs, at, d, n) => There(t, fs, then, d, n)
           /\ Same(t, fs, at, d, n) => Same(t, fs, then, d, n)
<1>1. Dropped(fs, fs, 0)
  BY FrameFacts DEF Dropped
<1>2. /\ InOrder(fs, at, n) => InOrder(fs, then, n)
      /\ Undone(fs, at, n) => Undone(fs, then, n)
      /\ LastStands(fs, at, n) => LastStands(fs, then, n)
  BY <1>1, DroppedKeeps
<1> QED
  BY <1>2 DEF There, Same

\* What the document records.
LEMMA RecordFacts ==
    ASSUME NEW d \in DocumentType, NEW op \in Op
    PROVE  LET r == Record(d, op)
           IN  /\ r \in DocumentType
               /\ r.tree = Apply(d.tree, op) /\ r.reset = d.reset /\ r.capturing = d.capturing
               /\ r.next = d.next
               /\ r.pending = IF d.capturing \/ d.reset THEN d.pending
                              ELSE Append(d.pending, op)
               /\ r.captured = IF d.capturing THEN Append(d.captured, op) ELSE d.captured
               /\ r.undo = IF d.capturing THEN d.undo \o InverseOf(d, op) ELSE d.undo
<1>1. d.tree \in Tree /\ d.pending \in Seq(Op) /\ d.undo \in Seq(Op) /\ d.captured \in Seq(Op)
  BY DEF DocumentType
<1>2. Apply(d.tree, op) \in Tree
  BY <1>1, ApplyType
<1>3. InverseOf(d, op) \in Seq(Op)
  <2>1. CASE op.do = "set" /\ d.tree[op.node] # Gone
    <3>1. Set(op.node, d.tree[op.node]) \in Op
      BY <1>1, <2>1 DEF Set, Op, Tree
    <3> QED
      BY <2>1, <3>1 DEF InverseOf
  <2>2. CASE ~(op.do = "set" /\ d.tree[op.node] # Gone)
    BY <2>2 DEF InverseOf
  <2> QED
    BY <2>1, <2>2
<1>4. d.undo \o InverseOf(d, op) \in Seq(Op) /\ Append(d.captured, op) \in Seq(Op)
      /\ Append(d.pending, op) \in Seq(Op)
  BY <1>1, <1>3
<1> QED
  BY <1>1, <1>2, <1>4 DEF Record, DocumentType

\* An op that the document records, but for one that creates or destroys n
\* while a frame is drawn.
LEMMA RecordKeeps ==
    ASSUME NEW t \in Tree, NEW fs \in Seq(Frame), NEW at, NEW n \in Nodes,
           NEW d \in DocumentType, ~d.capturing => d.undo = <<>>,
           NEW op \in Op, ~d.capturing \/ op.node # n \/ op.do = "set"
    PROVE  /\ There(t, fs, at, d, n) => There(t, fs, at, Record(d, op), n)
           /\ Same(t, fs, at, d, n) => Same(t, fs, at, Record(d, op), n)
<1> DEFINE r == Record(d, op)
           inv == InverseOf(d, op)
           shown == ShownAll(t, fs)
<1>1. /\ r \in DocumentType /\ r.tree = Apply(d.tree, op) /\ r.reset = d.reset
      /\ r.pending = IF d.capturing \/ d.reset THEN d.pending ELSE Append(d.pending, op)
      /\ r.undo = IF d.capturing THEN d.undo \o inv ELSE d.undo
  BY RecordFacts
<1>2. d.tree \in Tree /\ d.pending \in Seq(Op) /\ d.undo \in Seq(Op)
  BY DEF DocumentType
<1>3. shown \in Tree
  BY ShownAllType
<1> HIDE DEF r, inv, shown
<1>4. CASE d.reset
  BY <1>1, <1>4 DEF There, Same, r
<1>5. CASE ~d.reset /\ ~d.capturing
  <2>1. Final(t, fs, r) = Apply(Final(t, fs, d), op)
    BY <1>1, <1>2, <1>3, <1>5, ApplyAppend DEF Final, shown
  <2>2. Base(d) = d.tree /\ Base(r) = r.tree
    <3>1. d.undo = <<>> /\ r.undo = <<>>
      BY <1>1, <1>5
    <3>2. Reverse(<<>>) = <<>>
      BY DEF Reverse
    <3>3. r.tree \in Tree
      BY <1>1 DEF DocumentType
    <3> QED
      BY <1>2, <3>1, <3>2, <3>3, ApplyNone DEF Base
  <2>3. Final(t, fs, d) \in Tree
    BY TreesOf
  <2>4. Alike(Final(t, fs, d), d.tree, n) => Alike(Final(t, fs, r), r.tree, n)
    BY <1>1, <1>2, <2>1, <2>3, ApplyCell DEF Alike
  <2>5. Final(t, fs, d)[n] = Base(d)[n] => Final(t, fs, r)[n] = Base(r)[n]
    BY <1>1, <1>2, <2>1, <2>2, <2>3, ApplyCell
  <2>6. ~OpNames(r.pending, n) => ~OpNames(d.pending, n) /\ r.tree[n] = d.tree[n]
    BY <1>1, <1>2, <1>5, ApplyCell, OpsAppend
  <2> QED
    BY <1>1, <1>5, <2>4, <2>5, <2>6 DEF There, Same, r
<1>6. CASE ~d.reset /\ d.capturing
  <2>1. Final(t, fs, r) = Final(t, fs, d) /\ r.pending = d.pending /\ r.undo = d.undo \o inv
    BY <1>1, <1>6 DEF Final
  <2>2. Alike(r.tree, d.tree, n)
    <3>1. op.do = "set" => op.value # Gone
      BY UiAssumption DEF Op
    <3> QED
      BY <1>1, <1>2, <1>6, <3>1, ApplyCell DEF Alike
  <2>3. Reverse(d.undo) \in Seq(Op)
    BY <1>2, ReverseFacts
  <2>4. Base(r)[n] = Base(d)[n]
    <3>1. CASE op.do = "set" /\ d.tree[op.node] # Gone
      <4> DEFINE x == Set(op.node, d.tree[op.node])
      <4>1. x \in Op /\ op.node \in Nodes /\ op.value # Gone
        BY <1>2, <3>1, UiAssumption DEF Set, Op, Tree
      <4>2. x.do = "set" /\ x.node = op.node /\ x.value = d.tree[op.node]
        BY DEF Set
      <4>3. r.undo = Append(d.undo, x)
        BY <1>2, <2>1, <3>1, <4>1 DEF inv, InverseOf
      <4> HIDE DEF x
      <4>4. Reverse(r.undo) = <<x>> \o Reverse(d.undo)
        BY <1>2, <4>1, <4>3, ReverseFacts
      <4>5. <<x>> \in Seq(Op) /\ <<>> \in Seq(Op) /\ <<x>> = Append(<<>>, x)
        BY <4>1
      <4>6. r.tree \in Tree
        BY <1>1 DEF DocumentType
      <4>7. ApplyAll(r.tree, <<x>>) = Apply(r.tree, x)
        BY <4>1, <4>5, <4>6, ApplyAppend, ApplyNone
      <4>8. Apply(r.tree, x) = d.tree
        <5>1. r.tree = [d.tree EXCEPT ![op.node] = op.value]
          BY <1>1, <3>1 DEF Apply
        <5>2. r.tree[op.node] # Gone
          BY <1>2, <4>1, <5>1 DEF Tree
        <5>3. Apply(r.tree, x) = [r.tree EXCEPT ![op.node] = d.tree[op.node]]
          BY <4>2, <5>2 DEF Apply
        <5> QED
          BY <1>2, <4>1, <5>1, <5>3 DEF Tree
      <4>9. Base(r) = ApplyAll(d.tree, Reverse(d.undo))
        <5>1. ApplyAll(r.tree, <<x>> \o Reverse(d.undo))
                = ApplyAll(ApplyAll(r.tree, <<x>>), Reverse(d.undo))
          BY <2>3, <4>5, <4>6, ApplyConcat
        <5> QED
          BY <4>4, <4>7, <4>8, <5>1 DEF Base
      <4> QED
        BY <4>9 DEF Base
    <3>2. CASE ~(op.do = "set" /\ d.tree[op.node] # Gone)
      <4>1. inv = <<>>
        BY <3>2 DEF inv, InverseOf
      <4>2. r.undo = d.undo
        BY <1>2, <2>1, <4>1
      <4>3. r.tree[n] = d.tree[n] /\ r.tree \in Tree
        <5>1. r.tree \in Tree
          BY <1>1 DEF DocumentType
        <5> QED
          BY <1>1, <1>2, <1>6, <3>2, <5>1, ApplyCell
      <4> QED
        BY <1>2, <2>3, <4>2, <4>3, ApplyAllCell DEF Base
    <3> QED
      BY <3>1, <3>2
  <2> QED
    BY <1>1, <1>6, <2>1, <2>2, <2>4 DEF There, Same, r, Alike
<1> QED
  BY <1>4, <1>5, <1>6

\* A frame function's run ends, and what it set is taken back.
LEMMA CaptureEndKeeps ==
    ASSUME NEW t \in Tree, NEW fs \in Seq(Frame), NEW at, NEW n \in Nodes,
           NEW d \in DocumentType, \A j \in DOMAIN d.undo : d.undo[j].do = "set"
    PROVE  LET c == CaptureEnd(d)
           IN  /\ c \in DocumentType /\ c.undo = <<>> /\ c.captured = <<>> /\ ~c.capturing
               /\ c.reset = d.reset /\ c.pending = d.pending /\ c.next = d.next
               /\ There(t, fs, at, d, n) => There(t, fs, at, c, n)
               /\ Same(t, fs, at, d, n) => Same(t, fs, at, c, n)
<1> DEFINE c == CaptureEnd(d)
<1>1. d.tree \in Tree /\ d.pending \in Seq(Op) /\ d.undo \in Seq(Op)
  BY DEF DocumentType
<1>2. Reverse(d.undo) \in Seq(Op) /\ OnlySets(Reverse(d.undo), n)
  BY <1>1, ReverseFacts
<1>3. Base(d) \in Tree
  BY TreesOf
<1>4. /\ c \in DocumentType /\ c.undo = <<>> /\ c.captured = <<>> /\ ~c.capturing
      /\ c.reset = d.reset /\ c.pending = d.pending /\ c.next = d.next /\ c.tree = Base(d)
  <2>1. c = [d EXCEPT !.tree = Base(d), !.undo = <<>>, !.captured = <<>>, !.capturing = FALSE]
    BY DEF CaptureEnd, Base
  <2>2. <<>> \in Seq(Op)
    OBVIOUS
  <2> HIDE DEF c
  <2> QED
    BY <1>3, <2>1, <2>2 DEF DocumentType
<1>5. Alike(Base(d), d.tree, n)
  BY <1>1, <1>2, ApplyAllCell DEF Base
<1> HIDE DEF c
<1>6. Base(c) = Base(d)
  <2>1. Reverse(<<>>) = <<>>
    BY DEF Reverse
  <2> QED
    BY <1>3, <1>4, <2>1, ApplyNone DEF Base
<1>7. Final(t, fs, c) = Final(t, fs, d)
  BY <1>4 DEF Final
<1>8. There(t, fs, at, d, n) => There(t, fs, at, c, n)
  BY <1>4, <1>5, <1>7 DEF There, Alike
<1>9. Same(t, fs, at, d, n) => Same(t, fs, at, c, n)
  BY <1>4, <1>5, <1>6, <1>7 DEF Same, Alike
<1> QED
  BY <1>4, <1>8, <1>9 DEF c

\* A frame drawn ahead, whose ops only set, follows what waits.
LEMMA DrawnKeeps ==
    ASSUME NEW t \in Tree, NEW fs \in Seq(Frame), NEW at \in Nat, NEW n \in Nodes,
           NEW d \in DocumentType, NEW f \in Frame, ~f.reset, ~f.cancel, f.at >= at,
           ~Marks(f, n)
    PROVE  /\ There(t, fs, at, d, n) => There(t, Append(fs, f), at, d, n)
           /\ Same(t, fs, at, d, n) /\ ~Names(f, n) => Same(t, Append(fs, f), at, d, n)
<1> DEFINE gs == Append(fs, f)
           l == Len(fs)
           x == ShownAll(t, fs)
           y == ShownAll(t, gs)
<1>1. gs \in Seq(Frame) /\ l \in Nat /\ gs[l + 1] = f /\ f.at \in Nat
  BY UiAssumption DEF Frame, Times
<1>2. Added(fs, gs, l) /\ ~(l + 1 \in DOMAIN fs)
  BY DEF Added
<1>3. y = Shown(x, f)
  BY ShownAppend
<1>4. x \in Tree /\ y \in Tree
  BY <1>1, ShownAllType
<1>5. d.pending \in Seq(Op)
  BY DEF DocumentType
<1> HIDE DEF gs, l, x, y
<1>6. Alike(y, x, n) /\ (~Names(f, n) => y[n] = x[n])
  BY <1>3, <1>4, ShownCell
<1>7. Alike(Final(t, gs, d), Final(t, fs, d), n)
      /\ (~Names(f, n) => Final(t, gs, d)[n] = Final(t, fs, d)[n])
  BY <1>4, <1>5, <1>6, ApplyAllCell DEF Final, x, y
<1>8. InOrder(fs, at, n) => InOrder(gs, at, n)
  BY <1>1, <1>2, AddedInOrder
<1>9. ~Names(f, n) => /\ Undone(fs, at, n) => Undone(gs, at, n)
                      /\ LastStands(fs, at, n) => LastStands(gs, at, n)
  BY <1>1, <1>2, AddedUndone, AddedLastStands
<1>10. There(t, fs, at, d, n) => There(t, gs, at, d, n)
  BY <1>7, <1>8 DEF There, Alike
<1>11. Same(t, fs, at, d, n) /\ ~Names(f, n) => Same(t, gs, at, d, n)
  BY <1>7, <1>9 DEF Same
<1> QED
  BY <1>10, <1>11 DEF gs

\* The client plays the frames that are due.
LEMMA PlayKeeps ==
    ASSUME NEW t \in Tree, NEW q \in Seq(Frame), Sorted(q), NEW at \in Nat, NEW then \in Nat,
           NEW rest \in Seq(Frame), NEW d, NEW n
    PROVE  LET u == ShownAll(t, Due(q, then))
               later == Later(q, then)
           IN  /\ u \in Tree /\ later \in Seq(Frame) /\ Sorted(later)
               /\ \A i \in DOMAIN later : later[i] \in {q[k] : k \in DOMAIN q}
               /\ There(t, q \o rest, at, d, n) => There(u, later \o rest, at, d, n)
               /\ Same(t, q \o rest, at, d, n) => Same(u, later \o rest, at, d, n)
<1> DEFINE c == DueCount(q, then)
           due == Due(q, then)
           later == Later(q, then)
           u == ShownAll(t, due)
           fs == q \o rest
           gs == later \o rest
<1>1. c \in 0..Len(q) /\ c \in Nat /\ Len(q) \in Nat /\ Len(rest) \in Nat
  BY DueFacts
<1>2. /\ due \in Seq(Frame) /\ later \in Seq(Frame) /\ q = due \o later
      /\ Len(later) = Len(q) - c /\ \A i \in 1..(Len(q) - c) : later[i] = q[c + i]
  BY <1>1, Split DEF Due, Later
<1>3. u \in Tree
  BY <1>2, ShownAllType
<1>4. fs \in Seq(Frame) /\ gs \in Seq(Frame)
  BY <1>2
<1>5. DOMAIN later = 1..(Len(q) - c) /\ DOMAIN q = 1..Len(q)
  BY <1>2
<1>6. \A i \in DOMAIN later : c + i \in DOMAIN q /\ later[i] = q[c + i]
  BY <1>1, <1>2, <1>5
<1>7. Sorted(later)
  <2> SUFFICES ASSUME NEW i \in DOMAIN later, NEW j \in DOMAIN later, i < j
               PROVE  later[i].at <= later[j].at
    BY DEF Sorted
  <2>1. c + i < c + j
    BY <1>1, <1>5
  <2> QED
    BY <1>6, <2>1 DEF Sorted
<1>8. Dropped(fs, gs, c)
  <2>1. /\ Len(fs) = Len(q) + Len(rest) /\ DOMAIN fs = 1..(Len(q) + Len(rest))
        /\ \A i \in 1..Len(q) : fs[i] = q[i]
        /\ \A i \in 1..Len(rest) : fs[Len(q) + i] = rest[i]
    OBVIOUS
  <2>2. /\ DOMAIN gs = 1..(Len(later) + Len(rest))
        /\ \A i \in 1..Len(later) : gs[i] = later[i]
        /\ \A i \in 1..Len(rest) : gs[Len(later) + i] = rest[i]
    <3>1. later \in Seq(Frame)
      BY <1>2
    <3> HIDE DEF later
    <3> QED
      BY <3>1
  <2> HIDE DEF fs, gs, later, due, c
  <2> DEFINE N == Len(q)
             R == Len(rest)
  <2>3. N \in Nat /\ R \in Nat /\ c \in 0..N /\ Len(later) = N - c
    BY <1>1, <1>2
  <2>4. DOMAIN fs = 1..(N + R) /\ DOMAIN gs = 1..((N - c) + R)
    BY <2>1, <2>2, <2>3
  <2> HIDE DEF N, R
  <2>5. ASSUME NEW i \in DOMAIN gs PROVE i + c \in DOMAIN fs /\ gs[i] = fs[i + c]
    <3>1. i + c \in 1..(N + R) /\ i \in Nat
      BY <2>3, <2>4
    <3>2. CASE i <= N - c
      <4>1. i \in 1..(N - c) /\ i + c \in 1..N /\ c + i = i + c
        BY <2>3, <2>4, <3>2
      <4>2. gs[i] = later[i] /\ later[i] = q[c + i] /\ fs[i + c] = q[i + c]
        BY <1>2, <2>1, <2>2, <2>3, <4>1 DEF N
      <4> QED
        BY <2>4, <3>1, <4>1, <4>2
    <3>3. CASE i > N - c
      <4> DEFINE j == i - (N - c)
      <4>1. j \in 1..R /\ i = (N - c) + j /\ i + c = N + j
        BY <2>3, <2>4, <3>3
      <4> HIDE DEF j
      <4>2. gs[i] = rest[j] /\ fs[i + c] = rest[j]
        BY <2>1, <2>2, <2>3, <4>1 DEF N, R
      <4> QED
        BY <2>4, <3>1, <4>2
    <3> QED
      BY <2>3, <3>1, <3>2, <3>3
  <2>6. \A i \in DOMAIN fs : i > c => i - c \in DOMAIN gs
    BY <2>3, <2>4
  <2> QED
    BY <1>1, <2>5, <2>6 DEF Dropped
<1>9. ShownAll(t, fs) = ShownAll(u, gs)
  <2> HIDE DEF due, later
  <2>1. fs = due \o gs
    BY <1>2
  <2>2. ShownAll(t, due \o gs) = ShownAll(ShownAll(t, due), gs)
    BY <1>2, <1>4, ShownConcat
  <2> QED
    BY <2>1, <2>2
<1> HIDE DEF c, due, later, u, fs, gs
<1>10. /\ InOrder(fs, at, n) => InOrder(gs, at, n)
       /\ Undone(fs, at, n) => Undone(gs, at, n)
       /\ LastStands(fs, at, n) => LastStands(gs, at, n)
  <2>1. at <= at
    OBVIOUS
  <2> QED
    BY <1>4, <1>8, <2>1, DroppedKeeps
<1>11. Final(u, gs, d) = Final(t, fs, d)
  BY <1>9 DEF Final
<1>12. There(t, fs, at, d, n) => There(u, gs, at, d, n)
  BY <1>10, <1>11 DEF There
<1>13. Same(t, fs, at, d, n) => Same(u, gs, at, d, n)
  BY <1>10, <1>11 DEF Same
<1>14. \A i \in DOMAIN later : later[i] \in {q[k] : k \in DOMAIN q}
  BY <1>6
<1> QED
  BY <1>2, <1>3, <1>7, <1>12, <1>13, <1>14 DEF u, later, due, fs, gs

\* A frame comes out of the channel.
LEMMA ReceiveKeeps ==
    ASSUME NEW q \in Seq(Frame), Sorted(q), \A i \in DOMAIN q : ~q[i].cancel,
           NEW f \in Frame, NEW r, NEW e, Queues(q, f, r, e), NEW rest \in Seq(Frame),
           NEW t \in Tree, NEW n \in Nodes, NEW at \in Nat, NEW d \in DocumentType,
           There(t, Before(q, f, rest), at, d, n)
    PROVE  /\ There(t, After(r, rest), at, d, n)
           /\ Same(t, Before(q, f, rest), at, d, n) => Same(t, After(r, rest), at, d, n)
<1> DEFINE fs == Before(q, f, rest)
           gs == After(r, rest)
           x == ShownAll(t, fs)
           y == ShownAll(t, gs)
<1>1. PICK pi : Taken(fs, gs, Len(q) + 1, pi)
  BY ReceivedTaken
<1>2. fs \in Seq(Frame) /\ gs \in Seq(Frame)
  <2>1. r \in Seq(Frame)
    BY BehindFacts
  <2> QED
    BY <2>1 DEF After, Before
<1>3. InOrder(fs, at, n)
  BY DEF There
<1>4. InOrder(gs, at, n)
  BY <1>1, <1>2, <1>3, TakenInOrder
<1>5. x \in Tree /\ y \in Tree /\ d.pending \in Seq(Op)
  BY <1>2, ShownAllType DEF DocumentType
<1>6. Alike(y, x, n) /\ (LastStands(fs, at, n) => y[n] = x[n])
  BY <1>3, ReceivedShown
<1> HIDE DEF fs, gs, x, y
<1>7. /\ Alike(Final(t, gs, d), Final(t, fs, d), n)
      /\ y[n] = x[n] \/ OpNames(d.pending, n) => Final(t, gs, d)[n] = Final(t, fs, d)[n]
  BY <1>5, <1>6, ApplyAllCell DEF Final, x, y
<1>8. There(t, gs, at, d, n)
  BY <1>4, <1>7 DEF There, fs, Alike
<1>9. ASSUME Same(t, fs, at, d, n) PROVE Same(t, gs, at, d, n)
  <2>1. Undone(gs, at, n)
    BY <1>1, <1>2, <1>3, <1>9, TakenUndone DEF Same
  <2>2. ASSUME ~d.reset PROVE Final(t, gs, d)[n] = Final(t, fs, d)[n]
    <3>1. CASE d.tree[n] # Gone /\ ~OpNames(d.pending, n)
      BY <1>6, <1>7, <1>9, <2>2, <3>1 DEF Same
    <3>2. CASE OpNames(d.pending, n)
      BY <1>7, <3>2
    <3>3. CASE d.tree[n] = Gone
      <4>1. Final(t, fs, d)[n] = Gone
        BY <2>2, <3>3 DEF There, fs, Alike
      <4> QED
        BY <1>7, <4>1 DEF Alike
    <3> QED
      BY <3>1, <3>2, <3>3
  <2>3. ASSUME ~d.reset, d.tree[n] # Gone, ~OpNames(d.pending, n)
        PROVE  LastStands(gs, at, n)
    <3>1. LastStands(fs, at, n)
      BY <1>9, <2>3 DEF Same
    <3>2. x[n] # Gone
      <4>1. Final(t, fs, d)[n] # Gone
        BY <2>3 DEF There, fs, Alike
      <4> QED
        BY <1>5, <2>3, <4>1, ApplyAllCell DEF Final, x
    <3>3. CASE \E k \in DOMAIN fs : Names(fs[k], n)
      <4>1. PICK m \in DOMAIN fs : LastNaming(fs, m, n)
        BY <1>2, <3>3, LastNamed
      <4>2. DOMAIN fs \subseteq Nat
        BY <1>2, FrameFacts
      <4>3. \A k \in DOMAIN fs : k > m => ~fs[k].reset
        <5> SUFFICES ASSUME NEW k \in DOMAIN fs, k > m, fs[k].reset PROVE FALSE
          OBVIOUS
        <5>1. \A j \in DOMAIN fs : j >= k => ~Names(fs[j], n)
          BY <4>1, <4>2 DEF LastNaming
        <5>2. x[n] = Gone
          BY <1>2, <5>1, ShownAfterReset DEF x
        <5> QED
          BY <3>2, <5>2
      <4> QED
        BY <1>1, <1>2, <1>3, <3>1, <4>1, <4>3, TakenLastStands
    <3>4. CASE \A k \in DOMAIN fs : ~Names(fs[k], n)
      <4>1. \A i \in DOMAIN gs : ~Names(gs[i], n)
        BY <1>1, <3>4 DEF Taken, Names
      <4> QED
        BY <4>1 DEF LastStands, LastNaming
    <3> QED
      BY <3>3, <3>4
  <2> QED
    BY <1>9, <2>1, <2>2, <2>3 DEF Same
<1> QED
  BY <1>8, <1>9 DEF fs, gs

-----------------------------------------------------------------------------
(* What the loop gathers.                                                  *)

\* g brings ops to a client that has the frames w on their way, and merges the
\* one that waited for room, when one did.
Brings(fs, w, g, ops) ==
    \/ fs = w /\ ~g.reset /\ g.ops = ops
    \/ \E late \in Frame :
          /\ fs = Append(w, late)
          /\ g.ops = late.ops \o ops /\ g.reset = late.reset
          /\ late.cancel => g.cancel

\* The merged frame shows what the one that waited and the new one show.
LEMMA BringsFacts ==
    ASSUME NEW t \in Tree, NEW w \in Seq(Frame), NEW fs, NEW g \in Frame, NEW ops \in Seq(Op),
           Brings(fs, w, g, ops)
    PROVE  /\ fs \in Seq(Frame) /\ Added(fs, Append(w, g), Len(w))
           /\ ShownAll(t, Append(w, g)) = ApplyAll(ShownAll(t, fs), ops)
           /\ \A n \in Nodes : ~Names(g, n) =>
                /\ ~OpNames(ops, n)
                /\ Len(w) + 1 \in DOMAIN fs => ~Names(fs[Len(w) + 1], n)
<1> DEFINE gs == Append(w, g)
           x == ShownAll(t, w)
<1>1. gs \in Seq(Frame) /\ Len(w) \in Nat /\ DOMAIN gs = 1..(Len(w) + 1)
      /\ gs[Len(w) + 1] = g /\ \A i \in 1..Len(w) : gs[i] = w[i]
  OBVIOUS
<1>2. x \in Tree
  BY ShownAllType
<1>3. ShownAll(t, gs) = Shown(x, g)
  BY ShownAppend
<1>4. CASE fs = w /\ ~g.reset /\ g.ops = ops
  <2>1. Added(fs, gs, Len(w)) /\ ~(Len(w) + 1 \in DOMAIN fs)
    BY <1>1, <1>4 DEF Added
  <2>2. Shown(x, g) = ApplyAll(x, ops)
    BY <1>4 DEF Shown
  <2>3. \A n \in Nodes : ~Names(g, n) => ~OpNames(ops, n)
    BY <1>4 DEF Names
  <2> QED
    BY <1>3, <1>4, <2>1, <2>2, <2>3
<1>5. ASSUME NEW late \in Frame, fs = Append(w, late),
             g.ops = late.ops \o ops, g.reset = late.reset, late.cancel => g.cancel
      PROVE  /\ fs \in Seq(Frame) /\ Added(fs, gs, Len(w))
             /\ ShownAll(t, gs) = ApplyAll(ShownAll(t, fs), ops)
             /\ \A n \in Nodes : ~Names(g, n) =>
                  /\ ~OpNames(ops, n)
                  /\ Len(w) + 1 \in DOMAIN fs => ~Names(fs[Len(w) + 1], n)
  <2>1. fs \in Seq(Frame) /\ DOMAIN fs = 1..(Len(w) + 1)
        /\ fs[Len(w) + 1] = late /\ \A i \in 1..Len(w) : fs[i] = w[i]
    BY <1>5
  <2>2. Added(fs, gs, Len(w))
    BY <1>1, <1>5, <2>1 DEF Added
  <2>3. late.ops \in Seq(Op)
    BY DEF Frame
  <2>4. ShownAll(t, fs) = Shown(x, late)
    BY <1>5, ShownAppend
  <2> DEFINE b == IF late.reset THEN EmptyTree ELSE x
  <2>5. b \in Tree
    BY <1>2 DEF EmptyTree, Tree
  <2>6. Shown(x, g) = ApplyAll(b, late.ops \o ops) /\ Shown(x, late) = ApplyAll(b, late.ops)
    BY <1>5 DEF Shown
  <2> HIDE DEF b, gs, x
  <2>7. Shown(x, g) = ApplyAll(Shown(x, late), ops)
    BY <2>3, <2>5, <2>6, ApplyConcat
  <2>8. ASSUME NEW n \in Nodes, ~Names(g, n)
        PROVE  ~OpNames(ops, n) /\ ~Names(late, n)
    BY <1>5, <2>3, <2>8, OpsConcat DEF Names
  <2> QED
    BY <1>3, <2>1, <2>2, <2>4, <2>7, <2>8
<1> HIDE DEF gs, x
<1> QED
  BY <1>4, <1>5 DEF Brings, gs

\* The document when its changes were taken.
LEMMA TakeFacts ==
    ASSUME NEW d \in DocumentType, d.undo = <<>>
    PROVE  LET k == TakePending(d)
           IN  /\ k \in DocumentType /\ k.tree = d.tree /\ k.undo = <<>> /\ k.pending = <<>>
               /\ ~k.reset /\ k.next = d.next /\ k.capturing = d.capturing
               /\ k.captured = d.captured
               /\ Base(k) = d.tree /\ Base(d) = d.tree
               /\ \A t \in Tree, fs \in Seq(Frame) : Final(t, fs, k) = ShownAll(t, fs)
<1> DEFINE k == TakePending(d)
<1>1. /\ k \in DocumentType /\ k.tree = d.tree /\ k.undo = <<>> /\ k.pending = <<>>
      /\ ~k.reset /\ k.next = d.next /\ k.capturing = d.capturing /\ k.captured = d.captured
  <2>1. <<>> \in Seq(Op)
    OBVIOUS
  <2> QED
    BY <2>1 DEF TakePending, DocumentType
<1>2. d.tree \in Tree
  BY DEF DocumentType
<1>3. Reverse(<<>>) = <<>>
  BY DEF Reverse
<1> HIDE DEF k
<1>4. Base(k) = d.tree /\ Base(d) = d.tree
  BY <1>1, <1>2, <1>3, ApplyNone DEF Base
<1>5. \A t \in Tree, fs \in Seq(Frame) : Final(t, fs, k) = ShownAll(t, fs)
  BY <1>1, ShownAllType, ApplyNone DEF Final
<1> QED
  BY <1>1, <1>4, <1>5 DEF k

\* After a reset the frame holds the whole document.
LEMMA GatherResets ==
    ASSUME NEW t \in Tree, NEW w \in Seq(Frame), NEW fs \in Seq(Frame), NEW g \in Frame,
           Added(fs, Append(w, g), Len(w)),
           NEW d \in DocumentType, d.undo = <<>>, g.reset, g.ops = Snapshot(d.tree),
           NEW n \in Nodes
    PROVE  /\ There(t, Append(w, g), g.at, TakePending(d), n)
           /\ Same(t, Append(w, g), g.at, TakePending(d), n)
<1> DEFINE gs == Append(w, g)
           k == TakePending(d)
           l == Len(w)
<1>1. gs \in Seq(Frame) /\ l \in Nat /\ gs[l + 1] = g /\ g.at \in Nat
  BY UiAssumption DEF Frame, Times
<1>2. d.tree \in Tree
  BY DEF DocumentType
<1>3. ShownAll(t, gs) = d.tree
  <2>1. ShownAll(t, gs) = Shown(ShownAll(t, w), g)
    BY ShownAppend
  <2>2. Shown(ShownAll(t, w), g) = ApplyAll(EmptyTree, Snapshot(d.tree))
    BY DEF Shown
  <2> QED
    BY <1>2, <2>1, <2>2, SnapshotFacts
<1>4. /\ k.tree = d.tree /\ ~k.reset /\ Base(k) = d.tree
      /\ \A u \in Tree, hs \in Seq(Frame) : Final(u, hs, k) = ShownAll(u, hs)
  BY TakeFacts
<1>5. Added(fs, gs, l)
  OBVIOUS
<1> HIDE DEF gs, k, l
<1>6. Final(t, gs, k) = d.tree
  BY <1>1, <1>3, <1>4
<1>7. g.at <= g.at
  BY <1>1
<1>8. InOrder(gs, g.at, n) /\ Undone(gs, g.at, n)
  BY <1>1, <1>5, <1>7, AddedReset, AddedCancels
<1>9. ASSUME d.tree[n] # Gone PROVE LastStands(gs, g.at, n)
  <2>1. Names(g, n)
    BY <1>2, <1>9, SnapshotFacts DEF Names
  <2> QED
    BY <1>1, <1>5, <1>7, <1>8, <2>1, AddedNames
<1>10. There(t, gs, g.at, k, n)
  BY <1>4, <1>6, <1>8 DEF There, Alike
<1>11. Same(t, gs, g.at, k, n)
  BY <1>4, <1>6, <1>8, <1>9 DEF Same
<1> QED
  BY <1>10, <1>11 DEF gs, k

\* Otherwise it holds what is pending, and the present values of what an
\* animation set that stopped.
LEMMA GatherKeeps ==
    ASSUME NEW t \in Tree, NEW w \in Seq(Frame), NEW fs, NEW g \in Frame,
           NEW d \in DocumentType, d.undo = <<>>, ~d.reset,
           NEW back \in Seq(Op), NEW n \in Nodes, OnlySets(back, n),
           Brings(fs, w, g, d.pending \o back),
           There(t, fs, g.at, d, n)
    PROVE  /\ There(t, Append(w, g), g.at, TakePending(d), n)
           /\ /\ ApplyAll(Final(t, fs, d), back)[n] = d.tree[n]
              /\ g.cancel \/ Same(t, fs, g.at, d, n)
              /\ OpNames(back, n) \/ d.tree[n] = Gone \/ Same(t, fs, g.at, d, n)
              => Same(t, Append(w, g), g.at, TakePending(d), n)
<1> DEFINE gs == Append(w, g)
           k == TakePending(d)
           l == Len(w)
           ops == d.pending \o back
<1>1. gs \in Seq(Frame) /\ l \in Nat /\ gs[l + 1] = g /\ g.at \in Nat /\ g.at <= g.at
  BY UiAssumption DEF Frame, Times
<1>2. d.tree \in Tree /\ d.pending \in Seq(Op)
  BY DEF DocumentType
<1>3. ops \in Seq(Op) /\ (OpNames(ops, n) <=> OpNames(d.pending, n) \/ OpNames(back, n))
  BY <1>2, OpsConcat
<1>4. /\ k.tree = d.tree /\ ~k.reset /\ Base(k) = d.tree /\ Base(d) = d.tree
      /\ \A u \in Tree, hs \in Seq(Frame) : Final(u, hs, k) = ShownAll(u, hs)
  BY TakeFacts
<1>5. Brings(fs, w, g, ops)
  OBVIOUS
<1> HIDE DEF ops
<1>6. /\ fs \in Seq(Frame) /\ Added(fs, gs, l)
      /\ ShownAll(t, gs) = ApplyAll(ShownAll(t, fs), ops)
      /\ ~Names(g, n) => /\ ~OpNames(ops, n)
                         /\ l + 1 \in DOMAIN fs => ~Names(fs[l + 1], n)
  BY <1>3, <1>5, BringsFacts
<1> HIDE DEF gs, k, l
<1>7. Final(t, gs, k) = ApplyAll(Final(t, fs, d), back)
  <2>1. ShownAll(t, fs) \in Tree
    BY <1>6, ShownAllType
  <2>2. ApplyAll(ShownAll(t, fs), ops) = ApplyAll(ApplyAll(ShownAll(t, fs), d.pending), back)
    BY <1>2, <2>1, ApplyConcat DEF ops
  <2> QED
    BY <1>1, <1>4, <1>6, <2>2 DEF Final
<1>8. Final(t, fs, d) \in Tree
  BY <1>6, TreesOf
<1>9. Alike(Final(t, gs, k), Final(t, fs, d), n)
  BY <1>7, <1>8, ApplyAllCell
<1>10. InOrder(gs, g.at, n)
  <2>1. InOrder(fs, g.at, n)
    BY DEF There
  <2> QED
    BY <1>1, <1>6, <2>1, AddedInOrder
<1>11. There(t, gs, g.at, k, n)
  BY <1>4, <1>9, <1>10 DEF There, Alike
<1>12. ASSUME ApplyAll(Final(t, fs, d), back)[n] = d.tree[n],
              g.cancel \/ Same(t, fs, g.at, d, n),
              OpNames(back, n) \/ d.tree[n] = Gone \/ Same(t, fs, g.at, d, n)
       PROVE  Same(t, gs, g.at, k, n)
  <2>1. Undone(gs, g.at, n)
    <3>1. CASE g.cancel
      BY <1>1, <1>6, <3>1, AddedCancels
    <3>2. CASE Same(t, fs, g.at, d, n)
      <4>1. Undone(fs, g.at, n)
        BY <3>2 DEF Same
      <4> QED
        BY <1>1, <1>6, <4>1, AddedUndone
    <3> QED
      BY <1>12, <3>1, <3>2
  <2>2. ASSUME d.tree[n] # Gone PROVE LastStands(gs, g.at, n)
    <3>1. CASE Names(g, n)
      BY <1>1, <1>6, <2>1, <3>1, AddedNames
    <3>2. CASE ~Names(g, n)
      <4>1. ~OpNames(back, n) /\ ~OpNames(d.pending, n)
        BY <1>3, <1>6, <3>2
      <4>2. LastStands(fs, g.at, n)
        BY <1>12, <2>2, <4>1 DEF Same
      <4> QED
        BY <1>1, <1>6, <3>2, <4>2, AddedLastStands
    <3> QED
      BY <3>1, <3>2
  <2> QED
    BY <1>4, <1>7, <1>12, <2>1, <2>2 DEF Same
<1> QED
  BY <1>11, <1>12 DEF gs, k

-----------------------------------------------------------------------------
(* The inductive invariant.                                                *)

HubState ==
    /\ installed \in Scripts /\ setting \in {"no", "reset", "open"}
    /\ sub \in {"no", "inserted", "read", "open"} /\ reader \in Scripts \union {None}
    /\ alive \subseteq Scripts /\ anim \subseteq Scripts /\ steps \in 0..MaxSteps
    /\ events \in 0..MaxEvents
    /\ openedBy \subseteq Scripts
    /\ sub = "no" <=> pc = "off"
    /\ sub = "read" => reader \in Scripts

Flags == cancel \in BOOLEAN /\ resume \in BOOLEAN

LoopState ==
    /\ now \in 0..MaxNow
    /\ pc \in {"off", "wait", "gather", "draw", "ahead", "render", "rendered"}
    /\ tick \in [now : 0..MaxNow, animating : BOOLEAN, cancel : BOOLEAN]
    /\ tick.now <= now
    /\ touched \subseteq Nodes /\ adrift \subseteq Nodes
    /\ ahead \in Times /\ drawer \in Scripts \union {None}
    /\ pc = "ahead" => ahead + 1 >= tick.now
    /\ pc \in {"render", "rendered"} => ahead >= tick.now
    /\ pc \in {"ahead", "render", "rendered"} => drawer \in Scripts
    /\ backlog \in Frame \union {None}
    /\ pc \notin {"off", "wait", "gather"} => backlog = None

\* What is captured only sets, but for the nodes in s.
Captures(d, s) ==
    /\ ~d.capturing => d.captured = <<>> /\ d.undo = <<>>
    /\ \A j \in DOMAIN d.captured : d.captured[j].do = "set" \/ d.captured[j].node \in s
    /\ \A j \in DOMAIN d.undo : d.undo[j].do = "set"

DocumentState ==
    /\ doc \in DocumentType
    /\ doc.capturing => pc \in {"render", "rendered"}
    /\ Captures(doc, adrift)

ClientState ==
    /\ channel \in Seq(Frame) /\ Len(channel) <= Queue
    /\ client \in [tree : Tree, queue : Seq(Frame)]
    /\ Sorted(client.queue)
    /\ \A i \in DOMAIN client.queue : ~client.queue[i].cancel

UiState == Flags /\ HubState /\ LoopState /\ DocumentState /\ ClientState

\* Frames on their way to the client's tree, in the order in which they were
\* made; one that waits for room comes last.
Late == IF backlog = None THEN <<>> ELSE <<backlog>>
Flow == (client.queue \o channel) \o Late

\* The time for which the loop gathers: later for no frame but those drawn ahead.
Moment == IF pc \in {"off", "wait"} THEN now ELSE tick.now

\* The client will have the nodes the document has, and show the document's
\* values but for the nodes that animations set.
Copies ==
    \A n \in Nodes \ adrift :
        /\ There(client.tree, Flow, Moment, doc, n)
        /\ n \notin touched => Same(client.tree, Flow, Moment, doc, n)

UiInv == UiState /\ Copies

\* The types of all the variables.
LEMMA StateTypes == UiState => UiTypeOK
  BY DEF UiState, Flags, HubState, LoopState, DocumentState, ClientState, UiTypeOK, DocumentType, Sorted

\* They hold at first.
LEMMA InitState == UiInit => UiState
<1> SUFFICES ASSUME UiInit PROVE UiState
  OBVIOUS
<1>1. EmptyTree \in Tree
  BY DEF EmptyTree, Tree
<1>2. <<>> \in Seq(Op) /\ <<>> \in Seq(Frame)
  OBVIOUS
<1>3. MaxNow \in Nat /\ MaxSteps \in Nat /\ MaxEvents \in Nat /\ MaxNodes \in Nat /\ Lead \in Nat
      /\ MaxScripts \in Nat /\ 1 \in Scripts /\ Queue \in Nat
  BY UiAssumption DEF Scripts
<1>4. HubState
  BY <1>3 DEF UiInit, HubState
<1>5. LoopState
  BY <1>3 DEF UiInit, LoopState, NoTick, Times
<1>6. DocumentState
  BY <1>1, <1>2, <1>3 DEF UiInit, DocumentState, Captures, NewDocument, DocumentType
<1>7. ClientState
  BY <1>1, <1>2, <1>3 DEF UiInit, ClientState, Sorted
<1>8. Flags
  BY Zenon DEF UiInit, Flags
<1> QED
  BY <1>4, <1>5, <1>6, <1>7, <1>8 DEF UiState

\* The types of the bounds.
LEMMA Bounds ==
    /\ MaxNow \in Nat /\ MaxSteps \in Nat /\ MaxEvents \in Nat /\ MaxNodes \in Nat
    /\ Lead \in Nat /\ MaxScripts \in Nat /\ Queue \in Nat
    /\ \A m \in 0..MaxNow : m \in Times /\ m \in Nat
    /\ Times \subseteq Nat
  BY UiAssumption DEF Times

\* Between two ticks nothing is read.
LEMMA NoTickFacts ==
    /\ NoTick \in [now : 0..MaxNow, animating : BOOLEAN, cancel : BOOLEAN]
    /\ NoTick.now = 0
<1>1. FALSE \in BOOLEAN /\ 0 \in 0..MaxNow
  BY Bounds
<1> QED
  BY <1>1 DEF NoTick

\* Steps that leave the document and the frames alone.
LEMMA QuietState ==
    UiState
    /\ (\/ Elapse \/ Insert \/ ReadScript \/ Subscribed \/ Install \/ OpenAgain \/ Event
        \/ Tick \/ Draw \/ DrawnAhead
        \/ \E g \in Scripts : AddFrames(g) \/ StopFrames(g)
        \/ UNCHANGED uiVars)
    => UiState'
<1> SUFFICES ASSUME UiState
             PROVE  (\/ Elapse \/ Insert \/ ReadScript \/ Subscribed \/ Install \/ OpenAgain
                     \/ Event \/ Tick \/ Draw \/ DrawnAhead
                     \/ \E g \in Scripts : AddFrames(g) \/ StopFrames(g)
                     \/ UNCHANGED uiVars) => UiState'
  OBVIOUS
<1>0. Flags /\ HubState /\ LoopState /\ DocumentState /\ ClientState
  BY DEF UiState
<1>1. ASSUME Elapse PROVE UiState'
  <2>1. HubState'
    BY <1>0, <1>1, Bounds DEF HubState, Elapse, hub, scripts, loop, history
  <2>2. LoopState'
    BY <1>0, <1>1, Bounds DEF HubState, LoopState, Elapse, hub, scripts, loop, history
  <2>3. DocumentState'
    BY <1>0, <1>1 DEF DocumentState, Elapse, hub, scripts, loop, history
  <2>4. ClientState'
    BY <1>0, <1>1 DEF ClientState, Elapse, hub, scripts, loop, history
  <2>5. Flags'
    BY <1>0, <1>1, Zenon DEF Flags, Elapse, hub, scripts, loop, history
  <2> QED
    BY <2>1, <2>2, <2>3, <2>4, <2>5 DEF UiState
<1>2. ASSUME Insert PROVE UiState'
  <2>1. HubState'
    BY <1>0, <1>2 DEF HubState, Insert, hub, scripts, loop, history
  <2>2. LoopState'
    BY <1>0, <1>2 DEF LoopState, Insert, history
  <2>3. DocumentState'
    <3>1. pc = "off"
      BY <1>0, <1>2 DEF HubState, Insert
    <3> QED
      BY <1>0, <1>2, <3>1 DEF DocumentState, Insert, history
  <2>4. ClientState'
    BY <1>0, <1>2 DEF ClientState, Insert, hub, scripts, loop, history
  <2>5. Flags'
    BY <1>0, <1>2, Zenon DEF Flags, Insert, hub, scripts, loop, history
  <2> QED
    BY <2>1, <2>2, <2>3, <2>4, <2>5 DEF UiState
<1>3. ASSUME ReadScript PROVE UiState'
  <2>1. HubState'
    BY <1>0, <1>3 DEF HubState, ReadScript, hub, scripts, loop, history
  <2>2. LoopState'
    BY <1>0, <1>3 DEF HubState, LoopState, ReadScript, hub, scripts, loop, history
  <2>3. DocumentState'
    BY <1>0, <1>3 DEF DocumentState, ReadScript, hub, scripts, loop, history
  <2>4. ClientState'
    BY <1>0, <1>3 DEF ClientState, ReadScript, hub, scripts, loop, history
  <2>5. Flags'
    BY <1>0, <1>3, Zenon DEF Flags, ReadScript, hub, scripts, loop, history
  <2> QED
    BY <2>1, <2>2, <2>3, <2>4, <2>5 DEF UiState
<1>4. ASSUME Subscribed PROVE UiState'
  <2>1. HubState'
    BY <1>0, <1>4 DEF HubState, Subscribed, Calls, hub, scripts, loop, history
  <2>2. LoopState'
    BY <1>0, <1>4 DEF HubState, LoopState, Subscribed, Calls, hub, scripts, loop, history
  <2>3. DocumentState'
    BY <1>0, <1>4 DEF DocumentState, Subscribed, Calls, hub, scripts, loop, history
  <2>4. ClientState'
    BY <1>0, <1>4 DEF ClientState, Subscribed, Calls, hub, scripts, loop, history
  <2>5. Flags'
    BY <1>0, <1>4, Zenon DEF Flags, Subscribed, Calls, hub, scripts, loop, history
  <2> QED
    BY <2>1, <2>2, <2>3, <2>4, <2>5 DEF UiState
<1>5. ASSUME Install PROVE UiState'
  <2>1. HubState'
    BY <1>0, <1>5, Bounds DEF HubState, Install, hub, scripts, loop, history, Scripts
  <2>2. LoopState'
    BY <1>0, <1>5, Bounds DEF HubState, LoopState, Install, hub, scripts, loop, history, Scripts
  <2>3. DocumentState'
    BY <1>0, <1>5 DEF DocumentState, Install, hub, scripts, loop, history
  <2>4. ClientState'
    BY <1>0, <1>5 DEF ClientState, Install, hub, scripts, loop, history
  <2>5. Flags'
    BY <1>0, <1>5, Zenon DEF Flags, Install, hub, scripts, loop, history
  <2> QED
    BY <2>1, <2>2, <2>3, <2>4, <2>5 DEF UiState
<1>6. ASSUME OpenAgain PROVE UiState'
  <2>1. HubState'
    BY <1>0, <1>6 DEF HubState, OpenAgain, Calls, hub, scripts, loop, history
  <2>2. LoopState'
    BY <1>0, <1>6 DEF HubState, LoopState, OpenAgain, Calls, hub, scripts, loop, history
  <2>3. DocumentState'
    BY <1>0, <1>6 DEF DocumentState, OpenAgain, Calls, hub, scripts, loop, history
  <2>4. ClientState'
    BY <1>0, <1>6 DEF ClientState, OpenAgain, Calls, hub, scripts, loop, history
  <2>5. Flags'
    BY <1>0, <1>6, Zenon DEF Flags, OpenAgain, Calls, hub, scripts, loop, history
  <2> QED
    BY <2>1, <2>2, <2>3, <2>4, <2>5 DEF UiState
<1>7. ASSUME Event PROVE UiState'
  <2>1. HubState'
    BY <1>0, <1>7, Bounds DEF HubState, Event, hub, scripts, loop, history
  <2>2. LoopState'
    BY <1>0, <1>7, Bounds DEF HubState, LoopState, Event, hub, scripts, loop, history
  <2>3. DocumentState'
    BY <1>0, <1>7 DEF DocumentState, Event, hub, scripts, loop, history
  <2>4. ClientState'
    BY <1>0, <1>7 DEF ClientState, Event, hub, scripts, loop, history
  <2>5. Flags'
    BY <1>0, <1>7, Zenon DEF Flags, Event, hub, scripts, loop, history
  <2> QED
    BY <2>1, <2>2, <2>3, <2>4, <2>5 DEF UiState
<1>8. ASSUME Tick PROVE UiState'
  <2>1. HubState'
    BY <1>0, <1>8 DEF HubState, Tick, hub, scripts, loop, history
  <2>2. LoopState'
    BY <1>0, <1>8 DEF HubState, LoopState, Tick, hub, scripts, loop, history
  <2>3. DocumentState'
    BY <1>0, <1>8 DEF DocumentState, Tick, hub, scripts, loop, history
  <2>4. ClientState'
    BY <1>0, <1>8 DEF ClientState, Tick, hub, scripts, loop, history
  <2>5. Flags'
    BY <1>0, <1>8, Zenon DEF Flags, Tick, hub, scripts, loop, history
  <2> QED
    BY <2>1, <2>2, <2>3, <2>4, <2>5 DEF UiState
<1>9. ASSUME Draw PROVE UiState'
  <2>1. HubState'
    BY <1>0, <1>9, Bounds, NoTickFacts DEF HubState, Draw, EndTick, hub, scripts, loop, history
  <2>2. LoopState'
    BY <1>0, <1>9, Bounds, NoTickFacts DEF HubState, LoopState, Draw, EndTick, hub, scripts, loop, history
  <2>3. DocumentState'
    BY <1>0, <1>9 DEF DocumentState, Draw, EndTick, hub, scripts, loop, history
  <2>4. ClientState'
    BY <1>0, <1>9 DEF ClientState, Draw, EndTick, hub, scripts, loop, history
  <2>5. Flags'
    BY <1>0, <1>9, Zenon DEF Flags, Draw, EndTick, hub, scripts, loop, history
  <2> QED
    BY <2>1, <2>2, <2>3, <2>4, <2>5 DEF UiState
<1>10. ASSUME DrawnAhead PROVE UiState'
  <2>1. HubState'
    BY <1>0, <1>10, NoTickFacts DEF HubState, DrawnAhead, EndTick, hub, scripts, loop, history
  <2>2. LoopState'
    BY <1>0, <1>10, NoTickFacts DEF HubState, LoopState, DrawnAhead, EndTick, hub, scripts, loop, history
  <2>3. DocumentState'
    BY <1>0, <1>10 DEF DocumentState, DrawnAhead, EndTick, hub, scripts, loop, history
  <2>4. ClientState'
    BY <1>0, <1>10 DEF ClientState, DrawnAhead, EndTick, hub, scripts, loop, history
  <2>5. Flags'
    BY <1>0, <1>10, Zenon DEF Flags, DrawnAhead, EndTick, hub, scripts, loop, history
  <2> QED
    BY <2>1, <2>2, <2>3, <2>4, <2>5 DEF UiState
<1>11. ASSUME NEW g \in Scripts, AddFrames(g) \/ StopFrames(g) PROVE UiState'
  <2>1. HubState'
    BY <1>0, <1>11, Bounds DEF HubState, AddFrames, StopFrames, Runs, hub, scripts, loop, history
  <2>2. LoopState'
    BY <1>0, <1>11, Bounds DEF HubState, LoopState, AddFrames, StopFrames, Runs, hub, scripts, loop, history
  <2>3. DocumentState'
    BY <1>0, <1>11 DEF DocumentState, AddFrames, StopFrames, Runs, hub, scripts, loop, history
  <2>4. ClientState'
    BY <1>0, <1>11 DEF ClientState, AddFrames, StopFrames, Runs, hub, scripts, loop, history
  <2>5. Flags'
    BY <1>0, <1>11, Zenon DEF Flags, AddFrames, StopFrames, Runs, hub, scripts, loop, history
  <2> QED
    BY <2>1, <2>2, <2>3, <2>4, <2>5 DEF UiState
<1>12. ASSUME UNCHANGED uiVars PROVE UiState'
  BY <1>12 DEF uiVars, UiState, Flags, HubState, LoopState, DocumentState, ClientState, hub, scripts, loop, history
<1> QED
  BY <1>1, <1>2, <1>3, <1>4, <1>5, <1>6, <1>7, <1>8, <1>9, <1>10, <1>11, <1>12

\* A new document is to be sent as a whole.
LEMMA NewDocumentFacts ==
    /\ NewDocument \in DocumentType /\ NewDocument.reset /\ ~NewDocument.capturing
    /\ NewDocument.tree = EmptyTree
    /\ \A s : Captures(NewDocument, s)
<1>1. EmptyTree \in Tree
  BY DEF EmptyTree, Tree
<1>2. <<>> \in Seq(Op) /\ 1 \in 1..MaxNodes + 1
  BY Bounds
<1> QED
  BY <1>1, <1>2 DEF NewDocument, DocumentType, Captures

\* The types of ops.
LEMMA OpFacts ==
    ASSUME NEW n \in Nodes, NEW v \in Values
    PROVE  /\ Create(n, v) \in Op /\ Create(n, v).node = n
           /\ Set(n, v) \in Op /\ Set(n, v).node = n /\ Set(n, v).do = "set"
           /\ Destroy(n) \in Op /\ Destroy(n).node = n
  BY DEF Create, Set, Destroy, Op

\* A recorded op keeps what is known of the captured ones.
LEMMA RecordCaptures ==
    ASSUME NEW d \in DocumentType, NEW s, Captures(d, s), NEW op \in Op,
           NEW more, s \subseteq more, ~d.capturing \/ op.do = "set" \/ op.node \in more
    PROVE  Captures(Record(d, op), more)
<1> DEFINE r == Record(d, op)
           inv == InverseOf(d, op)
<1>1. /\ r.capturing = d.capturing
      /\ r.captured = IF d.capturing THEN Append(d.captured, op) ELSE d.captured
      /\ r.undo = IF d.capturing THEN d.undo \o inv ELSE d.undo
  BY RecordFacts
<1>2. d.undo \in Seq(Op) /\ d.captured \in Seq(Op)
  BY DEF DocumentType
<1> HIDE DEF r
<1>3. CASE ~d.capturing
  BY <1>1, <1>3 DEF Captures, r
<1>4. CASE d.capturing
  <2>1. \A j \in DOMAIN r.captured : r.captured[j].do = "set" \/ r.captured[j].node \in more
    BY <1>1, <1>2, <1>4 DEF Captures
  <2>2. CASE op.do = "set" /\ d.tree[op.node] # Gone
    <3> DEFINE x == Set(op.node, d.tree[op.node])
    <3>1. inv = <<x>> /\ x.do = "set"
      BY <2>2 DEF InverseOf, Set
    <3> HIDE DEF inv, x
    <3>2. d.undo \o inv = Append(d.undo, x)
      BY <1>2, <3>1
    <3>3. \A j \in DOMAIN r.undo : r.undo[j].do = "set"
      BY <1>1, <1>2, <1>4, <3>1, <3>2 DEF Captures
    <3> QED
      BY <1>1, <1>4, <2>1, <3>3 DEF Captures, r
  <2>3. CASE ~(op.do = "set" /\ d.tree[op.node] # Gone)
    <3>1. inv = <<>>
      BY <2>3 DEF InverseOf
    <3>2. r.undo = d.undo
      BY <1>1, <1>2, <3>1
    <3> QED
      BY <1>1, <1>4, <2>1, <3>2 DEF Captures, r
  <2> QED
    BY <2>2, <2>3
<1> QED
  BY <1>3, <1>4

\* A node that is set is recorded or has the value already.
LEMMA SetNodeFacts ==
    ASSUME NEW d \in DocumentType, NEW s, Captures(d, s), NEW n \in Nodes, NEW v \in Values
    PROVE  LET e == SetNode(d, n, v)
           IN  /\ e = d \/ e = Record(d, Set(n, v))
               /\ e \in DocumentType /\ e.capturing = d.capturing /\ Captures(e, s)
<1>1. Set(n, v) \in Op /\ Set(n, v).do = "set"
  BY OpFacts
<1>2. Captures(Record(d, Set(n, v)), s)
  BY <1>1, RecordCaptures
<1> QED
  BY <1>1, <1>2, RecordFacts DEF SetNode

\* What the loop gathers.
Back == IF tick.cancel /\ ~tick.animating THEN Current(doc.tree, touched) ELSE <<>>

\* The types of what is on its way.
LEMMA FlowFacts ==
    ASSUME UiState
    PROVE  /\ client.tree \in Tree /\ client.queue \in Seq(Frame) /\ channel \in Seq(Frame)
           /\ Late \in Seq(Frame) /\ client.queue \o channel \in Seq(Frame)
           /\ Flow \in Seq(Frame) /\ Moment \in Nat /\ tick.now \in Nat
<1>1. client.tree \in Tree /\ client.queue \in Seq(Frame) /\ channel \in Seq(Frame)
  BY DEF UiState, ClientState
<1>2. Late \in Seq(Frame)
  <2>1. backlog # None => backlog \in Frame
    BY DEF UiState, LoopState
  <2>2. <<>> \in Seq(Frame)
    OBVIOUS
  <2> QED
    BY <2>1, <2>2 DEF Late
<1>3. client.queue \o channel \in Seq(Frame)
  BY <1>1
<1>4. Flow \in Seq(Frame)
  BY <1>2, <1>3 DEF Flow
<1>5. tick.now \in Nat /\ now \in Nat
  BY Bounds DEF UiState, LoopState
<1> QED
  BY <1>1, <1>2, <1>3, <1>4, <1>5 DEF Moment

\* The frame that the loop gathers brings what is pending, or everything.
LEMMA GatheredFacts ==
    ASSUME UiState
    PROVE  LET g == GatheredFrame
               w == client.queue \o channel
           IN  /\ g \in Frame /\ g.at = tick.now
               /\ tick.cancel => g.cancel
               /\ doc.reset => g.reset /\ g.ops = Snapshot(doc.tree)
                               /\ Added(Flow, Append(w, g), Len(w))
               /\ ~doc.reset => Brings(Flow, w, g, doc.pending \o Back)
               /\ Back \in Seq(Op) /\ \A n \in Nodes : OnlySets(Back, n)
               /\ ~doc.reset => Gathered = doc.pending \o Back
<1> DEFINE frame == [at |-> tick.now, reset |-> doc.reset, cancel |-> tick.cancel,
                     ops |-> Gathered]
           g == GatheredFrame
           w == client.queue \o channel
<1>1. /\ doc.tree \in Tree /\ doc.pending \in Seq(Op) /\ doc.reset \in BOOLEAN
      /\ tick.now \in Times /\ tick.cancel \in BOOLEAN /\ touched \subseteq Nodes
      /\ backlog # None => backlog \in Frame
  BY Bounds DEF UiState, LoopState, DocumentState, DocumentType
<1>2. Back \in Seq(Op) /\ \A n \in Nodes : OnlySets(Back, n)
  <2>1. <<>> \in Seq(Op) /\ \A n \in Nodes : OnlySets(<<>>, n)
    BY DEF OnlySets
  <2> QED
    BY <1>1, <2>1, CurrentFacts DEF Back
<1>3. Gathered \in Seq(Op) /\ (~doc.reset => Gathered = doc.pending \o Back)
      /\ (doc.reset => Gathered = Snapshot(doc.tree))
  <2>1. CASE doc.reset
    BY <1>1, <2>1, SnapshotFacts DEF Gathered
  <2>2. CASE ~doc.reset
    BY <1>1, <1>2, <2>2, OpsConcat DEF Gathered, Back
  <2> QED
    BY <2>1, <2>2
<1>4. frame \in Frame /\ frame.at = tick.now /\ frame.reset = doc.reset
      /\ frame.cancel = tick.cancel /\ frame.ops = Gathered
  BY <1>1, <1>3 DEF Frame
<1>5. g = IF backlog # None /\ ~doc.reset THEN Merged(backlog, frame) ELSE frame
  BY DEF GatheredFrame
<1> HIDE DEF g, frame
<1>6. w \in Seq(Frame) /\ Flow = w \o Late
  BY FlowFacts DEF Flow
<1> HIDE DEF w
<1>7. Late \in {<<>>, <<backlog>>}
  BY DEF Late
<1>8. CASE doc.reset
  <2>1. g = frame
    BY <1>5, <1>8
  <2>2. Added(Flow, Append(w, g), Len(w))
    <3>1. g \in Frame
      BY <1>4, <2>1
    <3>2. /\ Len(w) \in Nat /\ DOMAIN Append(w, g) = 1..(Len(w) + 1)
          /\ Append(w, g)[Len(w) + 1] = g /\ \A i \in 1..Len(w) : Append(w, g)[i] = w[i]
      BY <1>6, <3>1
    <3>3. CASE Late = <<>>
      <4>1. Flow = w
        BY <1>6, <3>3
      <4> QED
        BY <1>4, <1>6, <1>8, <2>1, <3>2, <4>1 DEF Added
    <3>4. CASE Late # <<>>
      <4>1. backlog \in Frame /\ Flow = Append(w, backlog)
        BY <1>1, <1>6, <3>4 DEF Late
      <4>2. DOMAIN Flow = 1..(Len(w) + 1) /\ \A i \in 1..Len(w) : Flow[i] = w[i]
        BY <1>6, <4>1
      <4> QED
        BY <1>4, <1>8, <2>1, <3>2, <4>2 DEF Added
    <3> QED
      BY <3>3, <3>4
  <2> QED
    BY <1>2, <1>3, <1>4, <1>8, <2>1, <2>2 DEF g, w
<1>9. CASE ~doc.reset /\ backlog = None
  <2>1. g = frame /\ Flow = w
    BY <1>5, <1>6, <1>9 DEF Late
  <2>2. Brings(Flow, w, g, doc.pending \o Back)
    BY <1>3, <1>4, <1>9, <2>1 DEF Brings
  <2> QED
    BY <1>2, <1>3, <1>4, <1>9, <2>1, <2>2 DEF g, w
<1>10. CASE ~doc.reset /\ backlog # None
  <2>1. backlog \in Frame /\ g = Merged(backlog, frame)
    BY <1>1, <1>5, <1>10
  <2>2. Flow = Append(w, backlog)
    BY <1>6, <1>10, <2>1 DEF Late
  <2>3. backlog.ops \in Seq(Op) /\ backlog.ops \o Gathered \in Seq(Op)
    BY <1>3, <2>1, OpsConcat DEF Frame
  <2>4. /\ g \in Frame /\ g.at = tick.now /\ g.reset = backlog.reset
        /\ g.cancel = (tick.cancel \/ backlog.cancel)
        /\ g.ops = backlog.ops \o Gathered
    BY <1>4, <2>1, <2>3 DEF Merged, Frame
  <2>5. Brings(Flow, w, g, doc.pending \o Back)
    BY <1>3, <1>10, <2>1, <2>2, <2>4 DEF Brings
  <2> QED
    BY <1>2, <1>3, <1>10, <2>4, <2>5 DEF g, w
<1> QED
  BY <1>8, <1>9, <1>10

\* Steps that change the document or the frames.
LEMMA BusyState ==
    UiState
    /\ (\/ ResetChat
        \/ \E g \in Scripts :
              \/ \E v \in Values : CreateNode(g, v)
              \/ \E n \in Nodes, v \in Values : ChangeNode(g, n, v)
              \/ \E n \in Nodes : DestroyNode(g, n)
        \/ Gather \/ RenderBegin \/ RenderSet \/ (\E failed \in BOOLEAN : RenderEnd(failed))
        \/ Receive \/ Play)
    => UiState'
<1> SUFFICES ASSUME UiState
             PROVE  (\/ ResetChat
                     \/ \E g \in Scripts :
                           \/ \E v \in Values : CreateNode(g, v)
                           \/ \E n \in Nodes, v \in Values : ChangeNode(g, n, v)
                           \/ \E n \in Nodes : DestroyNode(g, n)
                     \/ Gather \/ RenderBegin \/ RenderSet
                     \/ (\E failed \in BOOLEAN : RenderEnd(failed))
                     \/ Receive \/ Play) => UiState'
  OBVIOUS
<1>0. Flags /\ HubState /\ LoopState /\ DocumentState /\ ClientState
  BY DEF UiState
<1>1. ASSUME ResetChat PROVE UiState'
  <2>1. HubState'
    BY <1>0, <1>1 DEF HubState, ResetChat, scripts, loop
  <2>2. LoopState'
    BY <1>0, <1>1 DEF LoopState, ResetChat, loop
  <2>3. DocumentState'
    BY <1>0, <1>1, NewDocumentFacts DEF DocumentState, ResetChat, loop
  <2>4. ClientState'
    BY <1>0, <1>1 DEF ClientState, ResetChat
  <2>5. Flags'
    BY <1>0, <1>1, Zenon DEF Flags, ResetChat, loop
  <2> QED
    BY <2>1, <2>2, <2>3, <2>4, <2>5 DEF UiState
<1>2. ASSUME NEW g \in Scripts,
             \/ \E v \in Values : CreateNode(g, v)
             \/ \E n \in Nodes, v \in Values : ChangeNode(g, n, v)
             \/ \E n \in Nodes : DestroyNode(g, n)
      PROVE  UiState'
  <2>1. /\ Runs(g)
        /\ UNCHANGED anim
        /\ adrift \subseteq adrift' /\ adrift' \subseteq Nodes
        /\ doc' \in DocumentType /\ doc'.capturing = doc.capturing
        /\ Captures(doc', adrift')
    <3>0. doc \in DocumentType /\ Captures(doc, adrift) /\ adrift \subseteq Nodes
      BY <1>0 DEF DocumentState, LoopState
    <3>1. CASE \E v \in Values : CreateNode(g, v)
      <4>1. PICK v \in Values : CreateNode(g, v)
        BY <3>1
      <4> DEFINE n == doc.next
                 r == Record(doc, Create(n, v))
      <4>2. n \in Nodes /\ doc' = [r EXCEPT !.next = @ + 1] /\ Strays(n) /\ Runs(g)
            /\ UNCHANGED anim
        BY <4>1 DEF CreateNode
      <4>3. Create(n, v) \in Op /\ Create(n, v).node = n
        BY <4>2, OpFacts
      <4>4. adrift \subseteq adrift' /\ adrift' \subseteq Nodes
            /\ (doc.capturing => n \in adrift')
        BY <3>0, <4>2 DEF Strays
      <4>5. r \in DocumentType /\ r.capturing = doc.capturing /\ r.next = n
        BY <3>0, <4>3, RecordFacts
      <4>6. Captures(r, adrift')
        BY <3>0, <4>3, <4>4, RecordCaptures
      <4>7. n + 1 \in 1..MaxNodes + 1
        BY <4>2, Bounds DEF Nodes
      <4> HIDE DEF r, n
      <4>8. doc' \in DocumentType /\ doc'.capturing = r.capturing
            /\ doc'.captured = r.captured /\ doc'.undo = r.undo
        BY <4>2, <4>5, <4>7 DEF DocumentType
      <4>9. Captures(doc', adrift')
        BY <4>6, <4>8 DEF Captures
      <4> QED
        BY <4>2, <4>4, <4>5, <4>8, <4>9
    <3>2. CASE \E n \in Nodes, v \in Values : ChangeNode(g, n, v)
      <4>1. PICK n \in Nodes, v \in Values : ChangeNode(g, n, v)
        BY <3>2
      <4>2. doc' = SetNode(doc, n, v) /\ Runs(g) /\ UNCHANGED <<anim, adrift>>
        BY <4>1 DEF ChangeNode
      <4> QED
        BY <3>0, <4>2, SetNodeFacts
    <3>3. CASE \E n \in Nodes : DestroyNode(g, n)
      <4>1. PICK n \in Nodes : DestroyNode(g, n)
        BY <3>3
      <4>2. doc' = Record(doc, Destroy(n)) /\ Strays(n) /\ Runs(g) /\ UNCHANGED anim
        BY <4>1 DEF DestroyNode
      <4>3. Destroy(n) \in Op /\ Destroy(n).node = n
        BY DEF Destroy, Op
      <4>4. adrift \subseteq adrift' /\ adrift' \subseteq Nodes
            /\ (doc.capturing => n \in adrift')
        BY <3>0, <4>2 DEF Strays
      <4> QED
        BY <3>0, <4>2, <4>3, <4>4, RecordFacts, RecordCaptures
    <3> QED
      BY <1>2, <3>1, <3>2, <3>3
  <2>2. HubState'
    BY <1>0, <2>1, Bounds DEF HubState, Runs, hub, loop
  <2>3. LoopState'
    BY <1>0, <2>1 DEF LoopState, Runs, loop
  <2>4. DocumentState'
    BY <1>0, <2>1 DEF DocumentState, Runs, loop
  <2>5. ClientState'
    BY <1>0, <2>1 DEF ClientState, Runs
  <2>6. Flags'
    BY <1>0, <2>1, Zenon DEF Flags, Runs, loop
  <2> QED
    BY <2>2, <2>3, <2>4, <2>5, <2>6 DEF UiState
<1>3. ASSUME Gather PROVE UiState'
  <2>1. GatheredFrame \in Frame
    BY GatheredFacts
  <2>2. pc' \in {"wait", "draw"} /\ (pc' = "wait" => tick' = NoTick /\ drawer' = None)
        /\ (pc' = "draw" => UNCHANGED <<tick, drawer>> /\ backlog' = None)
        /\ backlog' \in Frame \union {None}
    BY <1>3, <2>1 DEF Gather, EndTick
  <2>3. HubState'
    <3>1. pc # "off" /\ pc' # "off"
      BY <1>3, <2>2 DEF Gather
    <3>2. UNCHANGED <<installed, setting, sub, reader, alive, anim, steps, events, openedBy>>
      BY <1>3 DEF Gather, hub, scripts
    <3> QED
      BY <1>0, <3>1, <3>2 DEF HubState
  <2>4. LoopState'
    <3>1. touched' \subseteq Nodes /\ adrift' \subseteq Nodes /\ ahead' \in Times
      <4>1. 0 \in Times
        BY Bounds
      <4> QED
        BY <1>0, <1>3, <4>1 DEF Gather, LoopState
    <3>2. UNCHANGED now
      BY <1>3 DEF Gather
    <3>3. NoTick.now <= now
      BY <1>0, NoTickFacts, Bounds DEF LoopState
    <3> QED
      BY <1>0, <2>2, <3>1, <3>2, <3>3, NoTickFacts DEF LoopState
  <2>5. DocumentState'
    <3>1. ~doc.capturing /\ doc.undo = <<>> /\ doc.captured = <<>> /\ doc \in DocumentType
      BY <1>0, <1>3 DEF DocumentState, Captures, Gather
    <3>2. doc' = TakePending(doc)
      BY <1>3 DEF Gather
    <3>3. /\ doc' \in DocumentType /\ ~doc'.capturing /\ doc'.undo = <<>> /\ doc'.captured = <<>>
      BY <3>1, <3>2, TakeFacts
    <3> QED
      BY <3>3 DEF DocumentState, Captures
  <2>6. ClientState'
    <3>1. channel' \in Seq(Frame) /\ Len(channel') <= Queue
      BY <1>0, <1>3, <2>1, Bounds DEF ClientState, Gather, HasRoom
    <3>2. client' = client
      BY <1>3 DEF Gather
    <3> QED
      BY <1>0, <3>1, <3>2 DEF ClientState
  <2>7. Flags'
    <3>1. resume' = (resume \/ (tick.cancel \/ doc.reset)) /\ cancel' = cancel
      BY <1>3 DEF Gather
    <3> QED
      BY <1>0, <3>1, Zenon DEF Flags
  <2> QED
    BY <2>3, <2>4, <2>5, <2>6, <2>7 DEF UiState
<1>4. ASSUME RenderBegin PROVE UiState'
  <2>1. HubState'
    BY <1>0, <1>4 DEF HubState, RenderBegin, hub, scripts, history
  <2>2. LoopState'
    <3>1. ahead + 1 \in Times /\ ahead + 1 \in Nat /\ ahead \in Nat /\ tick.now \in Nat
      BY <1>0, <1>4, Bounds DEF LoopState, RenderBegin, DrawnFarEnough, Times
    <3> QED
      BY <1>0, <1>4, <3>1 DEF LoopState, RenderBegin, history
  <2>3. DocumentState'
    <3>1. /\ CaptureBegin(doc) \in DocumentType /\ Captures(CaptureBegin(doc), adrift)
      BY <1>0 DEF DocumentState, CaptureBegin, DocumentType, Captures
    <3> QED
      BY <1>0, <1>4, <3>1 DEF DocumentState, RenderBegin, history
  <2>4. ClientState'
    BY <1>0, <1>4 DEF ClientState, RenderBegin
  <2>5. Flags'
    BY <1>0, <1>4, Zenon DEF Flags, RenderBegin
  <2> QED
    BY <2>1, <2>2, <2>3, <2>4, <2>5 DEF UiState
<1>5. ASSUME RenderSet PROVE UiState'
  <2>1. HubState'
    BY <1>0, <1>5 DEF HubState, RenderSet, hub, scripts, history
  <2>2. LoopState'
    BY <1>0, <1>5 DEF LoopState, RenderSet, history
  <2>3. DocumentState'
    <3>1. drawer \in Scripts /\ ahead \in Times
      BY <1>0, <1>5 DEF LoopState, RenderSet
    <3>2. Draws[<<drawer, ahead>>] \in Nodes \X Values
      BY <3>1, UiAssumption DEF Scripts, Times, Nodes
    <3> DEFINE n == Draws[<<drawer, ahead>>][1]
               v == Draws[<<drawer, ahead>>][2]
    <3>3. n \in Nodes /\ v \in Values
      BY <3>2
    <3>4. doc' = SetNode(doc, n, v) /\ adrift' = adrift /\ pc' = "rendered"
      BY <1>5 DEF RenderSet, history
    <3> HIDE DEF n, v
    <3> QED
      BY <1>0, <3>3, <3>4, SetNodeFacts DEF DocumentState
  <2>4. ClientState'
    BY <1>0, <1>5 DEF ClientState, RenderSet
  <2>5. Flags'
    BY <1>0, <1>5, Zenon DEF Flags, RenderSet
  <2> QED
    BY <2>1, <2>2, <2>3, <2>4, <2>5 DEF UiState
<1>6. ASSUME NEW failed \in BOOLEAN, RenderEnd(failed) PROVE UiState'
  <2> DEFINE f == [at |-> ahead, reset |-> FALSE, cancel |-> FALSE, ops |-> doc.captured]
  <2>1. f \in Frame
    BY <1>0 DEF LoopState, DocumentState, DocumentType, Frame
  <2> HIDE DEF f
  <2>2. pc \in {"render", "rendered"} /\ pc' \in {"wait", "ahead"}
        /\ (pc' = "wait" => tick' = NoTick /\ drawer' = None)
        /\ (pc' = "ahead" => UNCHANGED <<tick, drawer>>)
    BY <1>6 DEF RenderEnd, EndTick
  <2>3. HubState'
    <3>1. steps' \in 0..MaxSteps /\ anim' \subseteq Scripts
      BY <1>0, <1>6, Bounds DEF RenderEnd, HubState
    <3>2. UNCHANGED <<installed, setting, sub, reader, alive, events, openedBy>>
      BY <1>6 DEF RenderEnd, hub, history
    <3> QED
      BY <1>0, <2>2, <3>1, <3>2 DEF HubState
  <2>4. LoopState'
    <3>1. SetBy(doc.captured) \subseteq Nodes
      BY <1>0 DEF DocumentState, DocumentType, SetBy, Op
    <3>2. touched' \subseteq Nodes /\ UNCHANGED <<now, adrift, ahead, backlog>>
      BY <1>0, <1>6, <3>1 DEF RenderEnd, LoopState, history
    <3>3. NoTick.now <= now /\ ahead \in Nat /\ tick.now \in Nat
      BY <1>0, NoTickFacts, Bounds DEF LoopState
    <3>4. ahead + 1 >= tick.now /\ backlog = None /\ drawer \in Scripts
      BY <1>0, <2>2, <3>3 DEF LoopState
    <3> QED
      BY <1>0, <2>2, <3>2, <3>3, <3>4, NoTickFacts DEF LoopState
  <2>5. DocumentState'
    <3>1. doc' = CaptureEnd(doc) /\ doc \in DocumentType
          /\ \A j \in DOMAIN doc.undo : doc.undo[j].do = "set"
      BY <1>0, <1>6 DEF RenderEnd, DocumentState, Captures
    <3>2. CaptureEnd(doc) = [doc EXCEPT !.tree = Base(doc), !.undo = <<>>,
                                        !.captured = <<>>, !.capturing = FALSE]
      BY DEF CaptureEnd, Base
    <3>3. Base(doc) \in Tree /\ <<>> \in Seq(Op)
      <4>1. doc.tree \in Tree /\ doc.undo \in Seq(Op)
        BY <3>1 DEF DocumentType
      <4> QED
        BY <4>1, ReverseFacts, ApplyAllType DEF Base
    <3>4. /\ doc' \in DocumentType /\ ~doc'.capturing /\ doc'.undo = <<>> /\ doc'.captured = <<>>
      BY <3>1, <3>2, <3>3 DEF DocumentType
    <3> QED
      BY <3>4 DEF DocumentState, Captures
  <2>6. ClientState'
    <3>1. channel' \in Seq(Frame) /\ Len(channel') <= Queue
      BY <1>0, <1>6, <2>1, Bounds DEF ClientState, RenderEnd, HasRoom, f
    <3>2. client' = client
      BY <1>6 DEF RenderEnd
    <3> QED
      BY <1>0, <3>1, <3>2 DEF ClientState
  <2>7. Flags'
    BY <1>0, <1>6, Zenon DEF Flags, RenderEnd
  <2> QED
    BY <2>3, <2>4, <2>5, <2>6, <2>7 DEF UiState
<1>7. ASSUME Receive PROVE UiState'
  <2> DEFINE f == Head(channel)
             q == client.queue
             r == Queued(Kept(q, f), Uncancelled(f))
  <2>1. channel \in Seq(Frame) /\ channel # <<>> /\ q \in Seq(Frame) /\ Sorted(q)
        /\ (\A i \in DOMAIN q : ~q[i].cancel) /\ client \in [tree : Tree, queue : Seq(Frame)]
    BY <1>0, <1>7 DEF ClientState, Receive
  <2>2. f \in Frame /\ Tail(channel) \in Seq(Frame) /\ Len(Tail(channel)) <= Len(channel)
    BY <2>1
  <2>3. channel' = Tail(channel) /\ client' = [client EXCEPT !.queue = r]
    BY <1>7 DEF Receive, Kept, Uncancelled
  <2> HIDE DEF f, q
  <2>4. PICK e : Queues(q, f, r, e)
    BY <2>1, <2>2, QueuedFacts
  <2> HIDE DEF r
  <2>5. r \in Seq(Frame) /\ Sorted(r) /\ \A i \in DOMAIN r : ~r[i].cancel
    BY <2>1, <2>2, <2>4, BehindFacts, QueuesSorted
  <2>6. ClientState'
    <3>1. Len(channel) \in Nat /\ Len(Tail(channel)) \in Nat /\ Len(channel) <= Queue
      BY <1>0, <2>1, <2>2 DEF ClientState
    <3>2. Len(channel') <= Queue /\ channel' \in Seq(Frame)
      BY <2>2, <2>3, <3>1, Bounds
    <3>3. client'.queue = r /\ client' \in [tree : Tree, queue : Seq(Frame)]
      BY <2>1, <2>3, <2>5
    <3> QED
      BY <2>5, <3>2, <3>3 DEF ClientState
  <2>7. HubState'
    BY <1>0, <1>7 DEF HubState, Receive, hub, scripts, loop, history
  <2>8. LoopState'
    BY <1>0, <1>7 DEF LoopState, Receive, loop, history
  <2>9. DocumentState'
    BY <1>0, <1>7 DEF DocumentState, Receive, loop, history
  <2>10. Flags'
    BY <1>0, <1>7, Zenon DEF Flags, Receive, loop
  <2> QED
    BY <2>6, <2>7, <2>8, <2>9, <2>10 DEF UiState
<1>8. ASSUME Play PROVE UiState'
  <2> DEFINE q == client.queue
             u == ShownAll(client.tree, Due(q, now))
             later == Later(q, now)
  <2>1. q \in Seq(Frame) /\ Sorted(q) /\ (\A i \in DOMAIN q : ~q[i].cancel)
        /\ client.tree \in Tree /\ now \in Nat
    BY <1>0, Bounds DEF ClientState, LoopState
  <2>2. client' = [tree |-> u, queue |-> later]
    BY <1>8 DEF Play
  <2> HIDE DEF q
  <2>3. u \in Tree /\ later \in Seq(Frame) /\ Sorted(later)
        /\ \A i \in DOMAIN later : later[i] \in {q[k] : k \in DOMAIN q}
    <3>1. <<>> \in Seq(Frame)
      OBVIOUS
    <3> QED
      BY <2>1, <3>1, PlayKeeps
  <2> HIDE DEF u, later
  <2>4. ClientState'
    <3>1. client'.queue = later /\ client' \in [tree : Tree, queue : Seq(Frame)]
      BY <2>2, <2>3
    <3>2. \A i \in DOMAIN later : ~later[i].cancel
      BY <2>1, <2>3
    <3>3. channel' = channel
      BY <1>8 DEF Play
    <3> QED
      BY <1>0, <2>3, <3>1, <3>2, <3>3 DEF ClientState
  <2>5. HubState'
    BY <1>0, <1>8 DEF HubState, Play, hub, scripts, loop, history
  <2>6. LoopState'
    BY <1>0, <1>8 DEF LoopState, Play, loop, history
  <2>7. DocumentState'
    BY <1>0, <1>8 DEF DocumentState, Play, loop, history
  <2>8. Flags'
    BY <1>0, <1>8, Zenon DEF Flags, Play, loop
  <2> QED
    BY <2>4, <2>5, <2>6, <2>7, <2>8 DEF UiState
<1> QED
  BY <1>1, <1>2, <1>3, <1>4, <1>5, <1>6, <1>7, <1>8

-----------------------------------------------------------------------------
(* Each step keeps the invariant.                                          *)

\* No step goes back in time.
LEMMA MomentGrows == UiState /\ [UiNext]_uiVars => Moment <= Moment'
<1> SUFFICES ASSUME UiState, [UiNext]_uiVars PROVE Moment <= Moment'
  OBVIOUS
<1>1. now \in Nat /\ tick.now \in Nat /\ tick.now <= now
  BY Bounds DEF UiState, LoopState
<1>2. CASE Elapse
  BY <1>1, <1>2 DEF Moment, Elapse, loop
<1>3. CASE Subscribe
  <2>1. now' = now
    BY <1>3 DEF Subscribe, Insert, ReadScript, Subscribed, loop
  <2>2. tick' = tick /\ (pc' = pc \/ pc' = "wait")
    BY <1>3 DEF Subscribe, Insert, ReadScript, Subscribed, loop
  <2> QED
    BY <1>1, <2>1, <2>2 DEF Moment
<1>4. CASE SetScript
  <2>1. now' = now
    BY <1>4 DEF SetScript, Install, ResetChat, OpenAgain, loop
  <2>2. tick' = tick /\ pc' = pc
    BY <1>4 DEF SetScript, Install, ResetChat, OpenAgain, loop
  <2> QED
    BY <1>1, <2>1, <2>2 DEF Moment
<1>5. CASE Event
  <2>1. now' = now
    BY <1>5 DEF Event, loop
  <2>2. tick' = tick /\ pc' = pc
    BY <1>5 DEF Event, loop
  <2> QED
    BY <1>1, <2>1, <2>2 DEF Moment
<1>6. CASE Handler
  <2>1. now' = now
    BY <1>6 DEF Handler, CreateNode, ChangeNode, DestroyNode, AddFrames, StopFrames, Runs, loop
  <2>2. tick' = tick /\ pc' = pc
    BY <1>6 DEF Handler, CreateNode, ChangeNode, DestroyNode, AddFrames, StopFrames, Runs, loop
  <2> QED
    BY <1>1, <2>1, <2>2 DEF Moment
<1>7. CASE Tick
  <2>1. now' = now
    BY <1>7 DEF Tick
  <2>2. pc = "wait" /\ pc' = "gather" /\ tick'.now = now
    BY <1>7 DEF Tick
  <2> QED
    BY <1>1, <2>1, <2>2 DEF Moment
<1>8. CASE Gather
  <2>1. now' = now
    BY <1>8 DEF Gather, EndTick
  <2>2. pc \notin {"off", "wait"} /\ (pc' = "wait" \/ tick' = tick)
    BY <1>8 DEF Gather, EndTick
  <2> QED
    BY <1>1, <2>1, <2>2 DEF Moment
<1>9. CASE Draw
  <2>1. now' = now
    BY <1>9 DEF Draw, EndTick
  <2>2. pc \notin {"off", "wait"} /\ (pc' = "wait" \/ tick' = tick)
    BY <1>9 DEF Draw, EndTick
  <2> QED
    BY <1>1, <2>1, <2>2 DEF Moment
<1>10. CASE DrawnAhead
  <2>1. now' = now
    BY <1>10 DEF DrawnAhead, EndTick
  <2>2. pc \notin {"off", "wait"} /\ (pc' = "wait" \/ tick' = tick)
    BY <1>10 DEF DrawnAhead, EndTick
  <2> QED
    BY <1>1, <2>1, <2>2 DEF Moment
<1>11. CASE Render
  <2>1. now' = now
    BY <1>11 DEF Render, RenderBegin, RenderSet, RenderEnd, EndTick
  <2>2. pc \notin {"off", "wait"} /\ (pc' = "wait" \/ tick' = tick)
    BY <1>11 DEF Render, RenderBegin, RenderSet, RenderEnd, EndTick
  <2> QED
    BY <1>1, <2>1, <2>2 DEF Moment
<1>12. CASE Receive
  <2>1. now' = now
    BY <1>12 DEF Receive, loop
  <2>2. tick' = tick /\ pc' = pc
    BY <1>12 DEF Receive, loop
  <2> QED
    BY <1>1, <2>1, <2>2 DEF Moment
<1>13. CASE Play
  <2>1. now' = now
    BY <1>13 DEF Play, loop
  <2>2. tick' = tick /\ pc' = pc
    BY <1>13 DEF Play, loop
  <2> QED
    BY <1>1, <2>1, <2>2 DEF Moment
<1>14. CASE UNCHANGED uiVars
  <2>1. now' = now
    BY <1>14 DEF uiVars, loop
  <2>2. tick' = tick /\ pc' = pc
    BY <1>14 DEF uiVars, loop
  <2> QED
    BY <1>1, <2>1, <2>2 DEF Moment
<1> QED
  BY <1>2, <1>3, <1>4, <1>5, <1>6, <1>7, <1>8, <1>9, <1>10, <1>11, <1>12, <1>13, <1>14 DEF UiNext, Loop

\* A step that leaves the frames and the document alone.
LEMMA CopiesStand ==
    ASSUME UiState, UiState', Copies, Moment <= Moment',
           Flow' = Flow, client'.tree = client.tree,
           doc'.tree = doc.tree, doc'.pending = doc.pending,
           doc'.reset = doc.reset, doc'.undo = doc.undo,
           touched \subseteq touched', adrift \subseteq adrift'
    PROVE  Copies'
<1> SUFFICES ASSUME NEW n \in Nodes, n \notin adrift'
             PROVE  /\ There(client'.tree, Flow', Moment', doc', n)
                    /\ n \notin touched' => Same(client'.tree, Flow', Moment', doc', n)
  BY DEF Copies
<1>1. There(client.tree, Flow, Moment, doc, n)
      /\ (n \notin touched' => Same(client.tree, Flow, Moment, doc, n))
  BY DEF Copies
<1>2. Flow \in Seq(Frame) /\ Moment \in Nat /\ Moment' \in Nat
  <2>1. (UiState => Moment \in Nat)'
    BY FlowFacts, PTL
  <2> QED
    BY <2>1, FlowFacts
<1>3. There(client.tree, Flow, Moment', doc, n)
      /\ (n \notin touched' => Same(client.tree, Flow, Moment', doc, n))
  BY <1>1, <1>2, TimePasses
<1>4. /\ \A t, fs : Final(t, fs, doc') = Final(t, fs, doc)
      /\ Base(doc') = Base(doc)
  BY DEF Final, Base
<1> QED
  BY <1>3, <1>4 DEF There, Same

\* At first nothing is on its way and the document is to be sent.
LEMMA InitCopies == UiInit => Copies
<1> SUFFICES ASSUME UiInit PROVE Copies
  OBVIOUS
<1>1. Flow = <<>> /\ doc.reset
  BY DEF UiInit, Flow, Late, NewDocument
<1>2. ASSUME NEW n, NEW at
      PROVE  There(client.tree, Flow, at, doc, n) /\ Same(client.tree, Flow, at, doc, n)
  BY <1>1 DEF There, Same, InOrder, Undone
<1> QED
  BY <1>2 DEF Copies

\* Queue, channel and late frame in a row.
LEMMA Joins ==
    ASSUME NEW a \in Seq(Frame), NEW b \in Seq(Frame), NEW c \in Seq(Frame), NEW e \in Frame
    PROVE  /\ (a \o b) \o c = a \o (b \o c)
           /\ (a \o Append(b, e)) \o <<>> = Append(a \o b, e)
           /\ (a \o (<<e>> \o b)) \o c = Before(a, e, b \o c)
<1>1. (a \o b) \o c = a \o (b \o c)
  BY ConcatAssociative
<1>2. <<e>> \in Seq(Frame) /\ a \o b \in Seq(Frame)
  OBVIOUS
<1>3. (a \o Append(b, e)) \o <<>> = Append(a \o b, e)
  <2>1. Append(b, e) = b \o <<e>> /\ Append(b, e) \in Seq(Frame)
    BY AppendIsConcat
  <2>2. Append(a \o b, e) = (a \o b) \o <<e>>
    BY <1>2, AppendIsConcat
  <2>3. a \o (b \o <<e>>) = (a \o b) \o <<e>>
    BY <1>2, ConcatAssociative
  <2>4. a \o Append(b, e) \in Seq(Frame)
    BY <2>1
  <2>5. (a \o Append(b, e)) \o <<>> = a \o Append(b, e)
    BY <2>4, ConcatEmptySeq
  <2> QED
    BY <2>1, <2>2, <2>3, <2>5
<1>4. (a \o (<<e>> \o b)) \o c = Before(a, e, b \o c)
  <2>1. a \o <<e>> \in Seq(Frame)
    BY <1>2
  <2>2. a \o (<<e>> \o b) = (a \o <<e>>) \o b
    BY <1>2, ConcatAssociative
  <2>3. ((a \o <<e>>) \o b) \o c = (a \o <<e>>) \o (b \o c)
    BY <2>1, ConcatAssociative
  <2> QED
    BY <2>2, <2>3 DEF Before
<1> QED
  BY <1>1, <1>3, <1>4

\* The frames on their way when the loop sends one, and when it keeps one.
LEMMA SentFlow ==
    ASSUME UiState, UiState', NEW f \in Frame, client' = client,
           \/ channel' = Append(channel, f) /\ backlog' = None
           \/ channel' = channel /\ backlog' = f
    PROVE  Flow' = Append(client.queue \o channel, f)
<1>1. client.queue \in Seq(Frame) /\ channel \in Seq(Frame)
  BY FlowFacts
<1>2. CASE channel' = Append(channel, f) /\ backlog' = None
  <2>1. Flow' = (client.queue \o Append(channel, f)) \o <<>>
    BY <1>2 DEF Flow, Late
  <2> QED
    BY <1>1, <2>1, Joins
<1>3. CASE channel' = channel /\ backlog' = f
  <2>1. f # None
    BY NoneAssumption
  <2>2. Flow' = (client.queue \o channel) \o <<f>>
    BY <1>3, <2>1 DEF Flow, Late
  <2> QED
    BY <1>1, <2>2
<1> QED
  BY <1>2, <1>3

\* The types of both ends of a step.
LEMMA MomentsFacts ==
    ASSUME UiState, UiState'
    PROVE  /\ Flow \in Seq(Frame) /\ Moment \in Nat /\ Moment' \in Nat
           /\ client.tree \in Tree /\ client'.tree \in Tree /\ Flow' \in Seq(Frame)
<1>1. (UiState => Moment \in Nat /\ client.tree \in Tree /\ Flow \in Seq(Frame))'
  BY FlowFacts, PTL
<1> QED
  BY <1>1, FlowFacts

\* A reload resets the document.
LEMMA ResetCopies ==
    ASSUME UiState, UiState', Copies, Moment <= Moment', ResetChat
    PROVE  Copies'
<1>1. Flow' = Flow /\ client' = client /\ touched' = touched /\ adrift' = adrift
  BY DEF ResetChat, Flow, Late, loop
<1>2. CASE doc' = doc
  BY <1>1, <1>2, CopiesStand
<1>3. CASE doc' = NewDocument
  <2> SUFFICES ASSUME NEW n \in Nodes, n \notin adrift
               PROVE  /\ There(client.tree, Flow, Moment', doc', n)
                      /\ n \notin touched => Same(client.tree, Flow, Moment', doc', n)
    BY <1>1 DEF Copies
  <2>1. There(client.tree, Flow, Moment', doc, n)
        /\ (n \notin touched => Same(client.tree, Flow, Moment', doc, n))
    BY MomentsFacts, TimePasses DEF Copies
  <2>2. doc'.reset
    BY <1>3, NewDocumentFacts
  <2> QED
    BY <2>1, <2>2 DEF There, Same
<1> QED
  BY <1>2, <1>3 DEF ResetChat

\* Handlers and frame functions change the document.
LEMMA RecordCopies ==
    ASSUME UiState, UiState', Copies, Moment <= Moment', Flow' = Flow, client' = client,
           touched' = touched, adrift \subseteq adrift', NEW op \in Op,
           doc'.tree = Record(doc, op).tree, doc'.pending = Record(doc, op).pending,
           doc'.reset = Record(doc, op).reset, doc'.undo = Record(doc, op).undo,
           ~doc.capturing \/ op.do = "set" \/ op.node \in adrift'
    PROVE  Copies'
<1> DEFINE r == Record(doc, op)
<1> SUFFICES ASSUME NEW n \in Nodes, n \notin adrift'
             PROVE  /\ There(client.tree, Flow, Moment', doc', n)
                    /\ n \notin touched => Same(client.tree, Flow, Moment', doc', n)
  BY DEF Copies
<1>1. There(client.tree, Flow, Moment', doc, n)
      /\ (n \notin touched => Same(client.tree, Flow, Moment', doc, n))
  BY MomentsFacts, TimePasses DEF Copies
<1>2. doc \in DocumentType /\ (~doc.capturing => doc.undo = <<>>)
  BY DEF UiState, DocumentState, Captures
<1>3. ~doc.capturing \/ op.node # n \/ op.do = "set"
  OBVIOUS
<1>4. There(client.tree, Flow, Moment', r, n)
      /\ (n \notin touched => Same(client.tree, Flow, Moment', r, n))
  BY <1>1, <1>2, <1>3, MomentsFacts, RecordKeeps
<1> HIDE DEF r
<1>5. /\ \A t, fs : Final(t, fs, doc') = Final(t, fs, r)
      /\ Base(doc') = Base(r)
  BY DEF Final, Base, r
<1> QED
  BY <1>4, <1>5 DEF There, Same, r

\* A handler changes the document.
LEMMA HandlerCopies ==
    ASSUME UiState, UiState', Copies, Moment <= Moment', Handler
    PROVE  Copies'
<1>1. PICK g \in Scripts :
         \/ \E v \in Values : CreateNode(g, v)
         \/ \E n \in Nodes, v \in Values : ChangeNode(g, n, v)
         \/ \E n \in Nodes : DestroyNode(g, n)
         \/ AddFrames(g)
         \/ StopFrames(g)
  BY DEF Handler
<1>2. Runs(g)
  BY <1>1 DEF CreateNode, ChangeNode, DestroyNode, AddFrames, StopFrames
<1>3. Flow' = Flow /\ client' = client /\ touched' = touched
  BY <1>2 DEF Runs, Flow, Late, loop
<1>4. doc \in DocumentType
  BY DEF UiState, DocumentState
<1>5. ASSUME NEW v \in Values, CreateNode(g, v) PROVE Copies'
  <2> DEFINE n == doc.next
             r == Record(doc, Create(n, v))
  <2>1. n \in Nodes /\ doc' = [r EXCEPT !.next = @ + 1] /\ Strays(n)
    BY <1>5 DEF CreateNode
  <2>2. Create(n, v) \in Op /\ Create(n, v).node = n
    BY <2>1, OpFacts
  <2>3. r \in DocumentType
    BY <1>4, <2>2, RecordFacts
  <2>4. adrift \subseteq adrift' /\ (doc.capturing => n \in adrift')
    BY <2>1 DEF Strays
  <2>5. doc'.tree = r.tree /\ doc'.pending = r.pending /\ doc'.reset = r.reset
        /\ doc'.undo = r.undo
    <3> HIDE DEF r
    <3> QED
      BY <2>1, <2>3 DEF DocumentType
  <2> QED
    BY <1>3, <2>2, <2>4, <2>5, RecordCopies
<1>6. ASSUME NEW n \in Nodes, NEW v \in Values, ChangeNode(g, n, v) PROVE Copies'
  <2>1. doc' = SetNode(doc, n, v) /\ adrift' = adrift
    BY <1>6 DEF ChangeNode
  <2>2. Set(n, v) \in Op /\ Set(n, v).do = "set"
    BY OpFacts
  <2>3. CASE doc' = doc
    BY <1>3, <2>1, <2>3, CopiesStand
  <2>4. CASE doc' = Record(doc, Set(n, v))
    BY <1>3, <2>1, <2>2, <2>4, RecordCopies
  <2> QED
    BY <2>1, <2>3, <2>4 DEF SetNode
<1>7. ASSUME NEW n \in Nodes, DestroyNode(g, n) PROVE Copies'
  <2>1. doc' = Record(doc, Destroy(n)) /\ Strays(n)
    BY <1>7 DEF DestroyNode
  <2>2. Destroy(n) \in Op /\ Destroy(n).node = n
    BY DEF Destroy, Op
  <2>3. adrift \subseteq adrift' /\ (doc.capturing => n \in adrift')
    BY <2>1 DEF Strays
  <2> QED
    BY <1>3, <2>1, <2>2, <2>3, RecordCopies
<1>8. CASE AddFrames(g) \/ StopFrames(g)
  <2>1. doc' = doc /\ adrift' = adrift
    BY <1>8 DEF AddFrames, StopFrames
  <2> QED
    BY <1>3, <2>1, CopiesStand
<1> QED
  BY <1>1, <1>5, <1>6, <1>7, <1>8

\* The loop gathers the changes.
LEMMA GatherCopies ==
    ASSUME UiState, UiState', Copies, Moment <= Moment', Gather
    PROVE  Copies'
<1> DEFINE g == GatheredFrame
           w == client.queue \o channel
           t == client.tree
           again == tick.cancel \/ doc.reset
           sends == again \/ Gathered # <<>> \/ backlog # None
           k == TakePending(doc)
<1>1. pc = "gather" /\ doc' = k /\ client' = client
  BY DEF Gather
<1>2. doc \in DocumentType /\ doc.undo = <<>> /\ tick.cancel \in BOOLEAN /\ doc.tree \in Tree
      /\ touched \subseteq Nodes /\ doc.pending \in Seq(Op)
  BY <1>1 DEF UiState, LoopState, DocumentState, Captures, DocumentType
<1>3. Moment = tick.now
  BY <1>1 DEF Moment
<1>4. /\ g \in Frame /\ g.at = Moment /\ (tick.cancel => g.cancel)
      /\ doc.reset => g.reset /\ g.ops = Snapshot(doc.tree) /\ Added(Flow, Append(w, g), Len(w))
      /\ ~doc.reset => Brings(Flow, w, g, doc.pending \o Back)
      /\ Back \in Seq(Op) /\ \A n \in Nodes : OnlySets(Back, n)
      /\ ~doc.reset => Gathered = doc.pending \o Back
  BY <1>3, GatheredFacts
<1>5. w \in Seq(Frame) /\ t \in Tree /\ Flow \in Seq(Frame) /\ Moment \in Nat /\ Moment' \in Nat
  BY FlowFacts, MomentsFacts
<1>6. touched' = (IF again THEN {} ELSE touched)
      /\ adrift' = (IF doc.reset THEN {}
                    ELSE IF tick.cancel /\ tick.animating THEN adrift \union touched
                    ELSE adrift)
  BY DEF Gather
<1>7. sends => Flow' = Append(w, g)
  <2> SUFFICES ASSUME sends PROVE Flow' = Append(w, g)
    OBVIOUS
  <2>1. \/ channel' = Append(channel, g) /\ backlog' = None
        \/ channel' = channel /\ backlog' = g
    BY DEF Gather
  <2> HIDE DEF g
  <2> QED
    BY <1>1, <1>4, <2>1, SentFlow
<1>8. CASE ~sends
  <2>1. doc.pending \o Back = <<>> /\ ~doc.reset /\ ~tick.cancel /\ backlog = None
    BY <1>4, <1>8
  <2>2. doc.pending = <<>>
    BY <1>2, <1>4, <2>1
  <2>3. Flow' = Flow
    BY <1>1, <1>8, <2>1 DEF Flow, Late, Gather
  <2>4. doc'.tree = doc.tree /\ doc'.pending = doc.pending
        /\ doc'.reset = doc.reset /\ doc'.undo = doc.undo
    <3>1. doc.reset \in BOOLEAN
      BY <1>2 DEF DocumentType
    <3>2. /\ k.tree = doc.tree /\ k.pending = <<>> /\ ~k.reset /\ k.undo = <<>>
          /\ k \in DocumentType
      BY <1>2, TakeFacts
    <3> HIDE DEF k
    <3>3. k.reset \in BOOLEAN
      BY <3>2 DEF DocumentType
    <3>4. k.reset = doc.reset
      BY <2>1, <3>1, <3>2, <3>3, Zenon
    <3> QED
      BY <1>1, <1>2, <2>2, <3>2, <3>4
  <2> QED
    BY <1>1, <1>6, <2>1, <2>3, <2>4, CopiesStand
<1> HIDE DEF g, w, k, sends
<1>9. CASE sends
  <2> SUFFICES ASSUME NEW n \in Nodes, n \notin adrift'
               PROVE  /\ There(t, Flow', Moment', doc', n)
                      /\ n \notin touched' => Same(t, Flow', Moment', doc', n)
    BY <1>1 DEF Copies
  <2>1. There(t, Append(w, g), g.at, k, n)
        /\ (n \notin touched' => Same(t, Append(w, g), g.at, k, n))
    <3>1. CASE doc.reset
      BY <1>2, <1>4, <1>5, <3>1, GatherResets DEF k
    <3>2. CASE ~doc.reset
      <4>1. n \notin adrift /\ There(t, Flow, g.at, doc, n)
            /\ (n \notin touched => Same(t, Flow, g.at, doc, n))
        BY <1>4, <1>6, <3>2 DEF Copies
      <4>2. There(t, Append(w, g), g.at, k, n)
            /\ (/\ ApplyAll(Final(t, Flow, doc), Back)[n] = doc.tree[n]
                /\ g.cancel \/ Same(t, Flow, g.at, doc, n)
                /\ OpNames(Back, n) \/ doc.tree[n] = Gone \/ Same(t, Flow, g.at, doc, n)
                => Same(t, Append(w, g), g.at, k, n))
        BY <1>2, <1>4, <1>5, <3>2, <4>1, GatherKeeps DEF k
      <4>3. Base(doc) = doc.tree /\ Final(t, Flow, doc) \in Tree
        BY <1>2, <1>5, TakeFacts, TreesOf
      <4>4. CASE tick.cancel /\ ~tick.animating
        <5>1. Back = Current(doc.tree, touched)
          BY <4>4 DEF Back
        <5>2. /\ OpNames(Back, n) <=> n \in touched /\ doc.tree[n] # Gone
              /\ ApplyAll(Final(t, Flow, doc), Back)[n]
                  = IF n \in touched /\ doc.tree[n] # Gone /\ Final(t, Flow, doc)[n] # Gone
                    THEN doc.tree[n] ELSE Final(t, Flow, doc)[n]
          BY <1>2, <4>3, <5>1, CurrentFacts
        <5>3. Alike(Final(t, Flow, doc), doc.tree, n)
              /\ (n \notin touched => Final(t, Flow, doc)[n] = doc.tree[n])
          BY <3>2, <4>1, <4>3 DEF There, Same
        <5>4. ApplyAll(Final(t, Flow, doc), Back)[n] = doc.tree[n]
          BY <5>2, <5>3 DEF Alike
        <5> QED
          BY <1>4, <4>1, <4>2, <4>4, <5>2, <5>4
      <4>5. CASE ~(tick.cancel /\ ~tick.animating)
        <5>1. Back = <<>>
          BY <4>5 DEF Back
        <5>2. ApplyAll(Final(t, Flow, doc), Back)[n] = Final(t, Flow, doc)[n]
          BY <4>3, <5>1, ApplyNone
        <5>3. n \notin touched' => n \notin touched
          BY <1>6, <3>2, <4>5
        <5>4. ASSUME n \notin touched' PROVE Same(t, Append(w, g), g.at, k, n)
          <6>1. Same(t, Flow, g.at, doc, n)
            BY <4>1, <5>3, <5>4
          <6>2. Final(t, Flow, doc)[n] = doc.tree[n]
            BY <3>2, <4>3, <6>1 DEF Same
          <6> QED
            BY <4>2, <5>2, <6>1, <6>2
        <5> QED
          BY <4>2, <5>4
      <4> QED
        BY <4>4, <4>5
    <3> QED
      BY <3>1, <3>2
  <2>2. Append(w, g) \in Seq(Frame)
    BY <1>4, <1>5
  <2>3. There(t, Append(w, g), Moment', k, n)
        /\ (n \notin touched' => Same(t, Append(w, g), Moment', k, n))
    BY <1>4, <1>5, <2>1, <2>2, TimePasses
  <2> QED
    BY <1>1, <1>7, <1>9, <2>3
<1> QED
  BY <1>8, <1>9

\* A frame function draws.
LEMMA RenderCopies ==
    ASSUME UiState, UiState', Copies, Moment <= Moment', Render
    PROVE  Copies'
<1>1. client' = client /\ adrift' = adrift
  BY DEF Render, RenderBegin, RenderSet, RenderEnd, history
<1>2. doc \in DocumentType /\ Captures(doc, adrift)
  BY DEF UiState, DocumentState
<1>3. CASE RenderBegin
  <2>1. Flow' = Flow /\ touched' = touched
    BY <1>1, <1>3 DEF RenderBegin, Flow, Late
  <2>2. doc' = doc \/ doc' = CaptureBegin(doc)
    BY <1>3 DEF RenderBegin
  <2>3. doc'.tree = doc.tree /\ doc'.pending = doc.pending
        /\ doc'.reset = doc.reset /\ doc'.undo = doc.undo
    BY <1>2, <2>2 DEF CaptureBegin, DocumentType
  <2> QED
    BY <1>1, <2>1, <2>3, CopiesStand
<1>4. CASE RenderSet
  <2>1. Flow' = Flow /\ touched' = touched
    BY <1>1, <1>4 DEF RenderSet, Flow, Late
  <2>2. drawer \in Scripts /\ ahead \in Times
    BY <1>4 DEF RenderSet, UiState, LoopState
  <2>3. Draws[<<drawer, ahead>>] \in Nodes \X Values
    BY <2>2, UiAssumption DEF Scripts, Times, Nodes
  <2> DEFINE n == Draws[<<drawer, ahead>>][1]
             v == Draws[<<drawer, ahead>>][2]
  <2>4. n \in Nodes /\ v \in Values /\ doc' = SetNode(doc, n, v)
    BY <1>4, <2>3 DEF RenderSet
  <2> HIDE DEF n, v
  <2>5. Set(n, v) \in Op /\ Set(n, v).do = "set"
    BY <2>4, OpFacts
  <2>6. CASE doc' = doc
    BY <1>1, <2>1, <2>6, CopiesStand
  <2>7. CASE doc' = Record(doc, Set(n, v))
    BY <1>1, <2>1, <2>5, <2>7, RecordCopies
  <2> QED
    BY <2>4, <2>6, <2>7 DEF SetNode
<1>5. ASSUME NEW failed \in BOOLEAN, RenderEnd(failed) PROVE Copies'
  <2> DEFINE ops == doc.captured
             f == [at |-> ahead, reset |-> FALSE, cancel |-> FALSE, ops |-> ops]
             c == CaptureEnd(doc)
             t == client.tree
  <2>1. pc \in {"render", "rendered"} /\ doc' = c /\ touched' = touched \union SetBy(ops)
        /\ backlog' = backlog
        /\ channel' \in {channel, Append(channel, f)}
    BY <1>5 DEF RenderEnd
  <2>2. ahead \in Nat /\ tick.now \in Nat /\ ahead >= tick.now /\ backlog = None
        /\ ahead \in Times /\ ops \in Seq(Op)
    BY <1>2, <2>1, Bounds DEF UiState, LoopState, DocumentType
  <2>3. f \in Frame /\ ~f.reset /\ ~f.cancel /\ f.at = ahead /\ f.ops = ops
    BY <2>2 DEF Frame
  <2>4. Moment = tick.now /\ Moment \in Nat /\ Moment' \in Nat /\ t \in Tree
        /\ Flow \in Seq(Frame) /\ Flow' \in Seq(Frame)
    BY <2>1, MomentsFacts DEF Moment
  <2>5. Flow' \in {Flow, Append(Flow, f)}
    <3>1. client.queue \o channel \in Seq(Frame)
      BY FlowFacts
    <3>2. Flow = client.queue \o channel
      BY <2>2, <3>1 DEF Flow, Late
    <3>3. CASE channel' = channel
      BY <1>1, <2>1, <3>3 DEF Flow, Late
    <3>4. CASE channel' = Append(channel, f)
      <4> HIDE DEF f
      <4>1. Flow' = Append(client.queue \o channel, f)
        BY <1>1, <2>1, <2>2, <2>3, <3>4, SentFlow
      <4> QED
        BY <3>2, <4>1
    <3> QED
      BY <2>1, <3>3, <3>4
  <2> HIDE DEF f, c
  <2> SUFFICES ASSUME NEW n \in Nodes, n \notin adrift
               PROVE  /\ There(t, Flow', Moment', c, n)
                      /\ n \notin touched' => Same(t, Flow', Moment', c, n)
    BY <1>1, <2>1 DEF Copies
  <2>6. There(t, Flow, Moment, doc, n) /\ (n \notin touched => Same(t, Flow, Moment, doc, n))
    BY DEF Copies
  <2>7. c \in DocumentType /\ There(t, Flow, Moment, c, n)
        /\ (n \notin touched => Same(t, Flow, Moment, c, n))
    BY <1>2, <2>4, <2>6, CaptureEndKeeps DEF Captures, c
  <2>8. ~Marks(f, n)
    BY <1>2, <2>3 DEF Marks, OnlySets, Captures
  <2>9. n \notin touched' => n \notin touched /\ ~Names(f, n)
    BY <1>2, <2>1, <2>3 DEF Names, OpNames, SetBy, Captures
  <2>10. There(t, Flow', Moment, c, n)
         /\ (n \notin touched' => Same(t, Flow', Moment, c, n))
    <3>1. CASE Flow' = Flow
      BY <2>7, <2>9, <3>1
    <3>2. CASE Flow' = Append(Flow, f)
      <4>1. There(t, Append(Flow, f), Moment, c, n)
            /\ (Same(t, Flow, Moment, c, n) /\ ~Names(f, n)
                => Same(t, Append(Flow, f), Moment, c, n))
        BY <2>2, <2>3, <2>4, <2>7, <2>8, DrawnKeeps
      <4> QED
        BY <2>7, <2>9, <3>2, <4>1
    <3> QED
      BY <2>5, <3>1, <3>2
  <2> QED
    BY <2>4, <2>10, TimePasses
<1> QED
  BY <1>3, <1>4, <1>5 DEF Render

\* The client takes a frame.
LEMMA ReceiveCopies ==
    ASSUME UiState, UiState', Copies, Moment <= Moment', Receive
    PROVE  Copies'
<1> DEFINE f == Head(channel)
           q == client.queue
           t == client.tree
           r == Queued(Kept(q, f), Uncancelled(f))
           rest == Tail(channel) \o Late
<1>1. channel # <<>> /\ channel' = Tail(channel) /\ client' = [client EXCEPT !.queue = r]
      /\ doc' = doc /\ UNCHANGED <<loop, history>>
  BY DEF Receive, Kept, Uncancelled
<1>2. q \in Seq(Frame) /\ Sorted(q) /\ (\A i \in DOMAIN q : ~q[i].cancel)
      /\ client \in [tree : Tree, queue : Seq(Frame)] /\ doc \in DocumentType
      /\ channel \in Seq(Frame) /\ Late \in Seq(Frame) /\ t \in Tree
  BY FlowFacts DEF UiState, ClientState, DocumentState
<1>3. f \in Frame /\ Tail(channel) \in Seq(Frame) /\ channel = <<f>> \o Tail(channel)
  BY <1>1, <1>2
<1>4. rest \in Seq(Frame)
  BY <1>2, <1>3
<1>5. Flow = Before(q, f, rest)
  <2> HIDE DEF f, q
  <2>1. Flow = (q \o (<<f>> \o Tail(channel))) \o Late
    BY <1>3 DEF Flow, q
  <2>2. q \in Seq(Frame)
    BY <1>2 DEF q
  <2> QED
    BY <1>2, <1>3, <2>1, <2>2, Joins
<1>6. PICK e : Queues(q, f, r, e)
  BY <1>2, <1>3, QueuedFacts
<1>7. r \in Seq(Frame)
  BY <1>2, <1>3, <1>6, BehindFacts
<1>8. client'.tree = t /\ client'.queue = r
  <2> HIDE DEF r
  <2> QED
    BY <1>1, <1>2
<1>9. Flow' = After(r, rest)
  <2>1. Late' = Late
    BY <1>1 DEF Late, loop
  <2> HIDE DEF r
  <2>2. Flow' = (r \o Tail(channel)) \o Late
    BY <1>1, <1>8, <2>1 DEF Flow
  <2> QED
    BY <1>2, <1>3, <1>7, <2>2 DEF After
<1> HIDE DEF f, q, r, rest
<1> SUFFICES ASSUME NEW n \in Nodes, n \notin adrift
             PROVE  /\ There(t, After(r, rest), Moment', doc, n)
                    /\ n \notin touched => Same(t, After(r, rest), Moment', doc, n)
  BY <1>1, <1>8, <1>9 DEF Copies, loop, history
<1>10. There(t, Before(q, f, rest), Moment', doc, n)
       /\ (n \notin touched => Same(t, Before(q, f, rest), Moment', doc, n))
  BY <1>5, MomentsFacts, TimePasses DEF Copies
<1>11. Moment' \in Nat
  BY MomentsFacts
<1> QED
  BY <1>2, <1>3, <1>4, <1>6, <1>10, <1>11, ReceiveKeeps

\* The client plays what is due.
LEMMA PlayCopies ==
    ASSUME UiState, UiState', Copies, Moment <= Moment', Play
    PROVE  Copies'
<1> DEFINE q == client.queue
           t == client.tree
           u == ShownAll(t, Due(q, now))
           later == Later(q, now)
           rest == channel \o Late
<1>1. client' = [tree |-> u, queue |-> later] /\ doc' = doc /\ channel' = channel
      /\ UNCHANGED <<loop, history>>
  BY DEF Play
<1>2. q \in Seq(Frame) /\ Sorted(q) /\ t \in Tree /\ now \in Nat
      /\ channel \in Seq(Frame) /\ Late \in Seq(Frame)
  BY FlowFacts, Bounds DEF UiState, ClientState, LoopState
<1>3. rest \in Seq(Frame)
  BY <1>2
<1>4. later \in Seq(Frame)
  BY <1>2, <1>3, PlayKeeps
<1>5. client'.tree = u /\ client'.queue = later
  BY <1>1
<1> HIDE DEF u, later
<1>6. Flow = q \o rest /\ Flow' = later \o rest
  <2>1. Late' = Late
    BY <1>1 DEF Late, loop
  <2>2. Flow = (q \o channel) \o Late /\ Flow' = (later \o channel) \o Late
    BY <1>1, <1>5, <2>1 DEF Flow
  <2> HIDE DEF q
  <2> QED
    BY <1>2, <1>4, <2>2, ConcatAssociative
<1> HIDE DEF q, rest
<1> SUFFICES ASSUME NEW n \in Nodes, n \notin adrift
             PROVE  /\ There(u, later \o rest, Moment', doc, n)
                    /\ n \notin touched => Same(u, later \o rest, Moment', doc, n)
  BY <1>1, <1>5, <1>6 DEF Copies, loop, history
<1>7. There(t, q \o rest, Moment', doc, n)
      /\ (n \notin touched => Same(t, q \o rest, Moment', doc, n))
  BY <1>6, MomentsFacts, TimePasses DEF Copies
<1>8. Moment' \in Nat
  BY MomentsFacts
<1> QED
  BY <1>2, <1>3, <1>7, <1>8, PlayKeeps DEF u, later

\* Every step.
LEMMA NextCopies ==
    ASSUME UiState, UiState', Copies, [UiNext]_uiVars
    PROVE  Copies'
<1>1. Moment <= Moment'
  BY MomentGrows
<1>2. CASE Elapse \/ Subscribe \/ Install \/ OpenAgain \/ Event \/ Tick \/ Draw \/ DrawnAhead
           \/ UNCHANGED uiVars
  <2>1. client' = client /\ channel' = channel /\ backlog' = backlog /\ doc' = doc
        /\ touched' = touched /\ adrift' = adrift
    BY <1>2 DEF Elapse, Subscribe, Insert, ReadScript, Subscribed, Install, OpenAgain, Event,
                Tick, Draw, DrawnAhead, uiVars, loop, history
  <2>2. Flow' = Flow
    BY <2>1 DEF Flow, Late
  <2> QED
    BY <1>1, <2>1, <2>2, CopiesStand
<1> QED
  BY <1>1, <1>2, ResetCopies, HandlerCopies, GatherCopies, RenderCopies, ReceiveCopies,
     PlayCopies DEF UiNext, SetScript, Loop

-----------------------------------------------------------------------------
(* The theorems.                                                           *)

\* Every step keeps the types.
LEMMA NextState == UiState /\ [UiNext]_uiVars => UiState'
  BY QuietState, BusyState DEF UiNext, Subscribe, SetScript, Handler, Loop, Render

\* The invariant holds: whatever is on its way leads the client's copy of every
\* node that is not in `adrift` to the document.
THEOREM ClientFollowsDocument == UiSpec => [](UiState /\ Copies)
<1>1. UiInit => UiState /\ Copies
  BY InitState, InitCopies
<1>2. UiState /\ Copies /\ [UiNext]_uiVars => (UiState /\ Copies)'
  BY NextState, NextCopies
<1> QED
  BY <1>1, <1>2, PTL DEF UiSpec

\* Every variable has its type, for every size of the queue, every lead and
\* every number of nodes, scripts and steps.
THEOREM UiTypeCorrect == UiSpec => []UiTypeOK
  BY ClientFollowsDocument, StateTypes, PTL

\* Nothing on its way leaves the copy equal to the document.
LEMMA SettledCopies == UiState /\ Copies => SettlesOnTheDocument
<1> SUFFICES ASSUME UiState, Copies, Settled, NEW n \in Nodes, n \notin adrift
             PROVE  client.tree[n] = doc.tree[n]
  BY DEF SettlesOnTheDocument
<1>1. Flow = <<>> /\ n \notin touched /\ ~doc.reset /\ doc.pending = <<>> /\ pc = "wait"
  BY DEF Settled, Flow, Late
<1>2. doc \in DocumentType /\ doc.undo = <<>>
  BY <1>1 DEF UiState, DocumentState, Captures
<1>3. doc.tree \in Tree /\ client.tree \in Tree
  BY <1>2, FlowFacts DEF DocumentType
<1>4. Final(client.tree, Flow, doc) = client.tree
  BY <1>1, <1>3, ShownNone, ApplyNone DEF Final
<1>5. Base(doc) = doc.tree
  BY <1>2, TakeFacts
<1>6. Same(client.tree, Flow, Moment, doc, n)
  BY <1>1 DEF Copies
<1> QED
  BY <1>1, <1>4, <1>5, <1>6 DEF Same

\* When nothing is under way the client shows the document, but for `adrift`:
\* frames drawn ahead, cancelled, merged for want of room or overtaken by a
\* reset leave nothing behind.
THEOREM SettlesCorrect == UiSpec => []SettlesOnTheDocument
  BY ClientFollowsDocument, SettledCopies, PTL

\* A subscription that read the scripts before a reload reads the scripts in
\* force, or the reload found the chat and opens it again.
Building ==
    setting = "no" =>
        /\ sub = "read" => reader = installed \/ installed \in openedBy
        /\ sub = "open" => installed \in openedBy

\* Whichever way a subscription and a reload interleave, afterwards the scripts
\* in force have opened the chat.
THEOREM BuiltCorrect == UiSpec => []BuiltByTheScriptsInForce
<1>1. UiInit => Building
  BY DEF UiInit, Building
<1>2. Building /\ [UiNext]_uiVars => Building'
  <2> SUFFICES ASSUME Building, [UiNext]_uiVars PROVE Building'
    OBVIOUS
  <2>1. CASE Insert
    BY <2>1 DEF Building, Insert
  <2>2. CASE ReadScript
    BY <2>2 DEF Building, ReadScript
  <2>3. CASE Subscribed
    BY <2>3 DEF Building, Subscribed, Calls
  <2>4. CASE Install
    BY <2>4 DEF Building, Install
  <2>5. CASE ResetChat
    BY <2>5 DEF Building, ResetChat, Listed
  <2>6. CASE OpenAgain
    BY <2>6 DEF Building, OpenAgain, Calls
  <2>7. CASE Elapse \/ Event \/ Handler \/ Loop \/ Receive \/ Play \/ UNCHANGED uiVars
    <3>1. UNCHANGED <<setting, sub, reader, installed, openedBy>>
      BY <2>7 DEF Elapse, Event, Handler, CreateNode, ChangeNode, DestroyNode, AddFrames,
                  StopFrames, Runs, Loop, Tick, Gather, Draw, DrawnAhead, Render, RenderBegin,
                  RenderSet, RenderEnd, Receive, Play, uiVars, hub, history
    <3> QED
      BY <3>1 DEF Building
  <2> QED
    BY <2>1, <2>2, <2>3, <2>4, <2>5, <2>6, <2>7 DEF UiNext, Subscribe, SetScript
<1>3. Building => BuiltByTheScriptsInForce
  BY DEF Building, BuiltByTheScriptsInForce
<1> QED
  BY <1>1, <1>2, <1>3, PTL DEF UiSpec
=============================================================================
