---------------------------- MODULE ScriptTasks ----------------------------
(***************************************************************************)
(* The script scheduler: coroutines that take turns on the one Lua state,  *)
(* background tasks made by async(fn) and awaited through their handles,   *)
(* and the channels that carry messages between them                       *)
(* (crates/scripting/src/scheduler.rs, channels.rs, and async_spawn,       *)
(* await_internal and start_async_runtime of lib.rs).                      *)
(*                                                                         *)
(* A step of a coroutine, from a resume to the next yield, holds the Lua   *)
(* mutex (`lua`).  Everything else, waiting on a handle or a channel or on *)
(* I/O, happens outside of it.  What a script computes and which value a   *)
(* task returns are left out; a message is the number of its send.         *)
(***************************************************************************)
EXTENDS Naturals, Sequences, FiniteSets

CONSTANTS
    InitLua,         \* init.lua while it loads: code outside of any coroutine
    Roots,           \* handlers and services, driven by whoever called them
    Asyncs,          \* the coroutines async(fn) makes
    NoTask,
    Chans,
    Does,            \* the operations a task's script uses
    HandlesOf,       \* the handles a task's script awaits
    Slots,           \* MAX_IN_FLIGHT
    MaxSends,        \* bound: messages sent on a channel
    MaxYields        \* bound: yields of one task

Tasks == {InitLua} \cup Roots \cup Asyncs

ASSUME TasksAreApart ==
    /\ InitLua \notin Roots \cup Asyncs
    /\ Roots \cap Asyncs = {}
    /\ NoTask \notin Tasks
Operations == {"io", "async", "await", "send", "close", "recv", "try_recv"}

ASSUME ScriptsAreKnown == Does \in [Tasks -> SUBSET Operations]
ASSUME HandlesAreOfAsyncs == HandlesOf \in [Tasks -> SUBSET Asyncs]
ASSUME BoundsAreNat == Slots \in Nat \ {0} /\ MaxSends \in Nat /\ MaxYields \in Nat

VARIABLES
    lua,         \* the task whose step holds the Lua mutex
    phase,       \* where each task stands
    on,          \* the handle or channel a waiting task waits on
    left,        \* how often each task may still yield (bound)
    asyncOn,     \* the sender to the background driver is in app data
    pending,     \* spawned tasks the background driver has not started
    settled,     \* tasks whose handle holds a result
    notified,    \* waiters on a handle that have been woken
    cancelled,   \* roots dropped in the middle of a step
    queue,       \* messages sent and not received, per channel
    open,        \* the sending half exists, per channel
    rx,          \* the holder of the receiver lock, per channel
    line,        \* the tasks waiting for that lock, in order, per channel
    sent, got    \* history: sends so far, and messages in order of receipt

handleVars == <<settled, notified>>
chanVars == <<queue, open, rx, line, sent, got>>
vars == <<lua, phase, on, left, asyncOn, pending, handleVars, cancelled, chanVars>>

Phases == {"unborn", "queued", "ready", "running", "io", "register", "read",
           "parked", "locking", "receiving", "settling", "notifying", "done"}

Init ==
    /\ lua = InitLua
    /\ phase = [t \in Tasks |-> IF t = InitLua THEN "running" ELSE "unborn"]
    /\ on = [t \in Tasks |-> NoTask]
    /\ left = [t \in Tasks |-> MaxYields]
    /\ asyncOn = TRUE
    /\ pending = <<>>
    /\ settled = {}
    /\ notified = {}
    /\ cancelled = {}
    /\ queue = [c \in Chans |-> <<>>]
    /\ open = [c \in Chans |-> TRUE]
    /\ rx = [c \in Chans |-> NoTask]
    /\ line = [c \in Chans |-> <<>>]
    /\ sent = [c \in Chans |-> 0]
    /\ got = [c \in Chans |-> <<>>]

-----------------------------------------------------------------------------
(* Steps.                                                                  *)

InStep(t) == lua = t /\ phase[t] = "running"

\* A handler or service is called: its coroutine is made and driven.
CallHandler(t) ==
    /\ t \in Roots /\ phase[t] = "unborn" /\ phase[InitLua] = "done"
    /\ phase' = [phase EXCEPT ![t] = "ready"]
    /\ UNCHANGED <<lua, on, left, asyncOn, pending, handleVars, cancelled, chanVars>>

\* The blocking thread gets the mutex and resumes the coroutine.
Resume(t) ==
    /\ lua = NoTask /\ phase[t] = "ready"
    /\ lua' = t
    /\ phase' = [phase EXCEPT ![t] = "running"]
    /\ UNCHANGED <<on, left, asyncOn, pending, handleVars, cancelled, chanVars>>

\* A step ends with a yield.  Code outside of a coroutine cannot yield: it
\* blocks its thread and keeps the mutex.  What a dropped caller's last step
\* yields is thrown away.
Yields(t, to, what) ==
    /\ InStep(t) /\ left[t] > 0
    /\ left' = [left EXCEPT ![t] = @ - 1]
    /\ lua' = IF t = InitLua THEN lua ELSE NoTask
    /\ phase' = [phase EXCEPT ![t] = IF t \in cancelled THEN "done" ELSE to]
    /\ on' = [on EXCEPT ![t] = IF t \in cancelled THEN NoTask ELSE what]

\* What a waiter got is handed to the coroutine at its next resume; code that
\* blocked its thread goes on at once.
Returns(t) ==
    /\ phase' = [phase EXCEPT ![t] = IF t = InitLua THEN "running" ELSE "ready"]
    /\ on' = [on EXCEPT ![t] = NoTask]

\* http, shell, ai, sleep and the other operations whose answer comes from
\* outside of the scripts.
Perform(t) ==
    /\ t # InitLua /\ "io" \in Does[t]
    /\ Yields(t, "io", NoTask)
    /\ UNCHANGED <<asyncOn, pending, handleVars, cancelled, chanVars>>

Performed(t) ==
    /\ phase[t] = "io"
    /\ Returns(t)
    /\ UNCHANGED <<lua, left, asyncOn, pending, handleVars, cancelled, chanVars>>

\* The body returns or raises, or the step's deadline raises for it.  A
\* background task has its handle to settle before it is over.
Finish(t) ==
    /\ InStep(t)
    /\ lua' = NoTask
    /\ phase' = [phase EXCEPT ![t] = IF t \in Asyncs THEN "settling" ELSE "done"]
    /\ UNCHANGED <<on, left, asyncOn, pending, handleVars, cancelled, chanVars>>

-----------------------------------------------------------------------------
(* async(fn), its driver, and await(handle).                               *)

\* async(fn): the new task goes to the driver's queue.
Spawn(t, u) ==
    /\ InStep(t) /\ "async" \in Does[t] /\ asyncOn
    /\ u \in Asyncs /\ phase[u] = "unborn"
    /\ phase' = [phase EXCEPT ![u] = "queued"]
    /\ pending' = Append(pending, u)
    /\ UNCHANGED <<lua, on, left, asyncOn, handleVars, cancelled, chanVars>>

\* The background tasks that hold one of the slots: from the start of their
\* drive until their handle's waiters have been notified.
InFlight == {u \in Asyncs : phase[u] \notin {"unborn", "queued", "done"}}

\* The driver takes the oldest task once a slot is free.
StartQueued ==
    /\ pending # <<>> /\ Cardinality(InFlight) < Slots
    /\ phase' = [phase EXCEPT ![Head(pending)] = "ready"]
    /\ pending' = Tail(pending)
    /\ UNCHANGED <<lua, on, left, asyncOn, handleVars, cancelled, chanVars>>

Await(t, h) ==
    /\ "await" \in Does[t] /\ h \in HandlesOf[t] /\ phase[h] # "unborn"
    /\ Yields(t, "register", h)
    /\ UNCHANGED <<asyncOn, pending, handleVars, cancelled, chanVars>>

\* One round of the waiting loop: make the waiter known, read the handle, and
\* sleep until woken if it holds nothing.
Register(t) ==
    /\ phase[t] = "register"
    /\ phase' = [phase EXCEPT ![t] = "read"]
    /\ notified' = notified \ {t}
    /\ UNCHANGED <<lua, on, left, asyncOn, pending, settled, cancelled, chanVars>>

ReadHandle(t) ==
    /\ phase[t] = "read"
    /\ IF on[t] \in settled
         THEN Returns(t)
         ELSE phase' = [phase EXCEPT ![t] = "parked"] /\ UNCHANGED on
    /\ UNCHANGED <<lua, left, asyncOn, pending, handleVars, cancelled, chanVars>>

Wake(t) ==
    /\ phase[t] = "parked" /\ t \in notified
    /\ phase' = [phase EXCEPT ![t] = "register"]
    /\ UNCHANGED <<lua, on, left, asyncOn, pending, handleVars, cancelled, chanVars>>

\* The driver stores the result, wakes every registered waiter, and gives its
\* slot back.
Settle(u) ==
    /\ u \in Asyncs /\ phase[u] = "settling"
    /\ settled' = settled \cup {u}
    /\ phase' = [phase EXCEPT ![u] = "notifying"]
    /\ UNCHANGED <<lua, on, left, asyncOn, pending, notified, cancelled, chanVars>>

Registered(u) == {t \in Tasks : phase[t] \in {"read", "parked"} /\ on[t] = u}

\* Mutant: only one of the waiters is woken.
WokenOne(u) ==
    IF Registered(u) = {} THEN {} ELSE {CHOOSE t \in Registered(u) : TRUE}

\* Whom the end of task u wakes.
Woken(u) == Registered(u)

NotifyWaiters(u) ==
    /\ u \in Asyncs /\ phase[u] = "notifying"
    /\ notified' = notified \cup Woken(u)
    /\ phase' = [phase EXCEPT ![u] = "done"]
    /\ UNCHANGED <<lua, on, left, asyncOn, pending, settled, cancelled, chanVars>>

\* Teardown takes the sender out of the Lua state: nothing more is spawned,
\* and what was queued is still driven.
ShutdownAsync ==
    /\ lua = NoTask /\ asyncOn
    /\ asyncOn' = FALSE
    /\ UNCHANGED <<lua, phase, on, left, pending, handleVars, cancelled, chanVars>>

-----------------------------------------------------------------------------
(* Channels.                                                               *)

Send(t, c) ==
    /\ InStep(t) /\ "send" \in Does[t] /\ open[c] /\ sent[c] < MaxSends
    /\ sent' = [sent EXCEPT ![c] = @ + 1]
    /\ queue' = [queue EXCEPT ![c] = Append(@, sent[c] + 1)]
    /\ UNCHANGED <<lua, phase, on, left, asyncOn, pending, handleVars, cancelled,
                   open, rx, line, got>>

Close(t, c) ==
    /\ InStep(t) /\ "close" \in Does[t]
    /\ open' = [open EXCEPT ![c] = FALSE]
    /\ UNCHANGED <<lua, phase, on, left, asyncOn, pending, handleVars, cancelled,
                   queue, rx, line, sent, got>>

Recv(t, c) ==
    /\ "recv" \in Does[t]
    /\ Yields(t, "locking", c)
    /\ UNCHANGED <<asyncOn, pending, handleVars, cancelled, chanVars>>

\* The receiver lock is fair: its waiters stand in line.
LockRx(t) ==
    /\ phase[t] = "locking"
    /\ phase' = [phase EXCEPT ![t] = "receiving"]
    /\ IF rx[on[t]] = NoTask
         THEN rx' = [rx EXCEPT ![on[t]] = t] /\ UNCHANGED line
         ELSE line' = [line EXCEPT ![on[t]] = Append(@, t)] /\ UNCHANGED rx
    /\ UNCHANGED <<lua, on, left, asyncOn, pending, handleVars, cancelled,
                   queue, open, sent, got>>

\* The lock goes to the first in line.
UnlockRx(c) ==
    /\ rx' = [rx EXCEPT ![c] = IF line[c] = <<>> THEN NoTask ELSE Head(line[c])]
    /\ line' = [line EXCEPT ![c] = IF @ = <<>> THEN @ ELSE Tail(@)]

\* Mutant: the message that was received stays in the queue.
TakeCopies(c) ==
    /\ got' = [got EXCEPT ![c] = Append(@, Head(queue[c]))]
    /\ UNCHANGED queue

\* The oldest message leaves the channel.
Take(c) ==
    /\ got' = [got EXCEPT ![c] = Append(@, Head(queue[c]))]
    /\ queue' = [queue EXCEPT ![c] = Tail(@)]

Deliver(t) ==
    LET c == on[t] IN
    /\ phase[t] = "receiving" /\ rx[c] = t /\ queue[c] # <<>>
    /\ Take(c)
    /\ UnlockRx(c)
    /\ Returns(t)
    /\ UNCHANGED <<lua, left, asyncOn, pending, handleVars, cancelled, open, sent>>

\* A drained and closed channel ends the wait with an error.
ReportClosed(t) ==
    LET c == on[t] IN
    /\ phase[t] = "receiving" /\ rx[c] = t /\ queue[c] = <<>> /\ ~open[c]
    /\ UnlockRx(c)
    /\ Returns(t)
    /\ UNCHANGED <<lua, left, asyncOn, pending, handleVars, cancelled, queue, open,
                   sent, got>>

\* try_recv never waits for the lock: it runs inside of a step.
TryRecv(t, c) ==
    /\ InStep(t) /\ "try_recv" \in Does[t]
    /\ rx[c] = NoTask /\ queue[c] # <<>>
    /\ Take(c)
    /\ UNCHANGED <<lua, phase, on, left, asyncOn, pending, handleVars, cancelled,
                   open, rx, line, sent>>

-----------------------------------------------------------------------------
(* A caller goes away: a service is aborted by a reload, a run cancelled.  *)

\* A line without one of those who stand in it.
Without(l, t) ==
    LET k == CHOOSE i \in 1 .. Len(l) : l[i] = t IN
    [i \in 1 .. Len(l) - 1 |-> IF i < k THEN l[i] ELSE l[i + 1]]

\* Mutant: a dropped receiver keeps the lock.
LeavesLineKeeping(t) ==
    LET c == on[t] IN
    /\ line' = [line EXCEPT ![c] = IF rx[c] = t THEN @ ELSE Without(@, t)]
    /\ UNCHANGED rx

\* A dropped receiver gives up the lock or its place in line.
LeavesLine(t) ==
    LET c == on[t] IN
    IF rx[c] = t
      THEN UnlockRx(c)
      ELSE /\ line' = [line EXCEPT ![c] = Without(@, t)]
           /\ UNCHANGED rx

\* Mutant: background tasks are dropped like their callers.
DroppableAll == Tasks

\* A background task belongs to nobody: only handlers and services go away
\* with the future that drives them.
Droppable == Roots

\* A step that has been handed to its thread runs to its end; a task that
\* waits is gone at once, with its place in whatever it waited for.
Abort(t) ==
    /\ t \in Droppable
    /\ \/ /\ phase[t] \in {"ready", "running"}
          /\ cancelled' = cancelled \cup {t}
          /\ UNCHANGED <<phase, on, rx, line>>
       \/ /\ phase[t] \in {"io", "register", "read", "parked", "locking"}
          /\ phase' = [phase EXCEPT ![t] = "done"]
          /\ on' = [on EXCEPT ![t] = NoTask]
          /\ UNCHANGED <<cancelled, rx, line>>
       \/ /\ phase[t] = "receiving"
          /\ phase' = [phase EXCEPT ![t] = "done"]
          /\ on' = [on EXCEPT ![t] = NoTask]
          /\ LeavesLine(t)
          /\ UNCHANGED cancelled
    /\ UNCHANGED <<lua, left, asyncOn, pending, handleVars, queue, open, sent, got>>

-----------------------------------------------------------------------------

\* What goes on by itself: the runtime polls what can make progress.
Runtime(t) ==
    \/ Resume(t) \/ Performed(t) \/ Register(t) \/ ReadHandle(t) \/ Wake(t)
    \/ Settle(t) \/ NotifyWaiters(t) \/ LockRx(t) \/ Deliver(t) \/ ReportClosed(t)

\* What a script chooses to do in a step.
Script(t) ==
    \/ Perform(t)
    \/ \E u \in Asyncs : Spawn(t, u) \/ Await(t, u)
    \/ \E c \in Chans : Send(t, c) \/ Close(t, c) \/ Recv(t, c) \/ TryRecv(t, c)

Next ==
    \/ \E t \in Tasks :
          CallHandler(t) \/ Runtime(t) \/ Script(t) \/ Finish(t) \/ Abort(t)
    \/ StartQueued
    \/ ShutdownAsync

Spec == Init /\ [][Next]_vars

\* The runtime polls what can make progress, the mutex comes round to every
\* resume, a step ends, by its deadline at the latest, and the driver goes on.
Fairness ==
    /\ \A t \in Tasks : WF_vars(Runtime(t) \/ Finish(t))
    /\ WF_vars(StartQueued)

FairSpec == Spec /\ Fairness

-----------------------------------------------------------------------------
(* Properties.                                                             *)

TypeOK ==
    /\ lua \in Tasks \cup {NoTask}
    /\ phase \in [Tasks -> Phases]
    /\ on \in [Tasks -> Asyncs \cup Chans \cup {NoTask}]
    /\ left \in [Tasks -> 0 .. MaxYields]
    /\ asyncOn \in BOOLEAN
    /\ pending \in Seq(Asyncs)
    /\ settled \subseteq Asyncs
    /\ notified \subseteq Tasks
    /\ cancelled \subseteq Roots
    /\ queue \in [Chans -> Seq(Nat \ {0})]
    /\ open \in [Chans -> BOOLEAN]
    /\ rx \in [Chans -> Tasks \cup {NoTask}]
    /\ line \in [Chans -> Seq(Tasks)]
    /\ sent \in [Chans -> 0 .. MaxSends]
    /\ got \in [Chans -> Seq(Nat \ {0})]

\* Whatever tasks send, receive with or without waiting, close, or are dropped
\* in the middle of a receive, every message of a channel is received at most
\* once, in the order of the sends, and none is lost: what was received and
\* what is queued is what was sent (channels.rs, Op::ChannelRecv).
OnceInOrder ==
    \A c \in Chans : got[c] \o queue[c] = [i \in 1 .. sent[c] |-> i]

\* The receiver lock belongs to one task that is inside of recv on that very
\* channel, and nobody stands in line for a lock that is free, so a try_recv
\* that finds the lock free overtakes no waiting receiver (channels.rs,
\* channel_try_recv_internal).
ReceiverLock ==
    \A c \in Chans :
        /\ rx[c] = NoTask => line[c] = <<>>
        /\ rx[c] # NoTask => phase[rx[c]] = "receiving" /\ on[rx[c]] = c
        /\ \A i \in 1 .. Len(line[c]) :
              /\ line[c][i] # rx[c]
              /\ phase[line[c][i]] = "receiving" /\ on[line[c][i]] = c
              /\ \A j \in 1 .. Len(line[c]) : line[c][i] = line[c][j] => i = j
        /\ \A t \in Tasks : phase[t] = "receiving" /\ on[t] = c =>
              t = rx[c] \/ \E i \in 1 .. Len(line[c]) : line[c][i] = t

\* Nobody sleeps through the end of the task it awaits: a sleeper on a handle
\* that holds a result has been woken or is about to be, whichever way the
\* waiter's read and the driver's store fell (Op::Await, AsyncHandleState::set).
WakeUpsArrive ==
    \A t \in Tasks : phase[t] = "parked" =>
        on[t] \notin settled \/ phase[on[t]] = "notifying" \/ t \in notified

Users(op) == {t \in Tasks : op \in Does[t]}
Awaiting(t) == phase[t] \in {"register", "read", "parked"}
Receiving(t, c) == phase[t] \in {"locking", "receiving"} /\ on[t] = c

\* Every await comes back: the handle's task is started, ends, and wakes all
\* that wait for it, in whatever order they read the handle (Op::Await,
\* AsyncHandleState::set, start_async_runtime).
AwaitReturns ==
    \A t \in Users("await") : Awaiting(t) ~> ~Awaiting(t)

\* A message is not stranded while somebody receives on its channel, not even
\* when the receiver that held the lock is dropped, and a closed channel keeps
\* nobody waiting (channels.rs:20-21, ChannelState).
ReceiversGetOn ==
    \A c \in Chans :
        /\ \A n \in 1 .. MaxSends :
              (sent[c] >= n /\ Len(got[c]) < n /\ \E t \in Tasks : Receiving(t, c))
                ~> (Len(got[c]) >= n \/ ~ \E t \in Tasks : Receiving(t, c))
        /\ \A t \in Users("recv") : (~open[c] /\ Receiving(t, c)) ~> ~Receiving(t, c)
=============================================================================
