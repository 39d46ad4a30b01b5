------------------------------ MODULE ChatUi ------------------------------
(***************************************************************************)
(* An open chat's scripted UI: the hub and its frame loop (ui/src/hub.rs), *)
(* the document scripts change (ui/src/doc.rs, ui/src/tree.rs), the script *)
(* side of it (scripting/src/ui.rs) and the client that plays the frames   *)
(* (cli/src/tui/remote.rs).                                                *)
(*                                                                         *)
(* Scripts change a document.  A loop gathers the changes of every tick    *)
(* into a frame; while an animation runs it also draws frames ahead of     *)
(* time, taking what they set back out of the document.  An event cancels  *)
(* the frames drawn ahead.  A reload installs the next generation of       *)
(* scripts and resets the document; handlers of older ones still run.      *)
(*                                                                         *)
(* A node holds one property.  Notes, entry decorations, terminals and the *)
(* nesting of elements are left out.  Time counts animation steps, and     *)
(* stands still at its bound; any number of ticks fits into a step.        *)
(***************************************************************************)
EXTENDS Naturals, FiniteSets, SequencesExt

CONSTANTS Values,      \* what a property may hold
          Gone,        \* a node that does not exist
          None,
          Queue,       \* frames a slow client may have waiting (`QUEUE`)
          Lead,        \* steps drawn ahead (`LEAD_MS`)
          Draws,       \* the node and value each script's frame function sets,
                       \* for every time
          MaxNodes,    \* bound: nodes created between two resets
          MaxScripts,  \* bound: generations of scripts
          MaxSteps,    \* bound: what handlers do, and failures of frame functions
          MaxEvents,   \* bound: events
          MaxNow       \* bound: animation steps before time stands still

ASSUME UiAssumption ==
    /\ Gone \notin Values
    /\ Queue \in Nat \ {0} /\ Lead \in Nat \ {0}
    /\ {MaxNodes, MaxSteps, MaxEvents, MaxNow} \subseteq Nat
    /\ MaxScripts \in Nat \ {0}
    /\ Draws \in [(1..MaxScripts) \X (0..MaxNow + Lead) -> (1..MaxNodes) \X Values]

VARIABLES
    now,        \* the daemon's frame clock
    installed,  \* the generation of scripts in force (`Hub::script`)
    setting,    \* how far `set_script` is with the chat
    sub,        \* how far `subscribe` is
    reader,     \* the scripts `subscribe` read
    alive,      \* generations with handlers of this chat
    anim,       \* generations that animate it
    doc,        \* its document
    cancel,     \* an event came (`Chat::cancel`)
    pc,         \* where the frame loop is
    tick,       \* what the loop read in this tick
    touched,    \* nodes the frames drawn ahead set
    backlog,    \* a frame the client had no room for
    ahead,      \* the time drawn up to (`ahead_until`)
    resume,     \* draw again from the present
    drawer,     \* the scripts that draw
    channel,    \* frames on their way
    client,     \* the client's tree, and frames it has yet to play
    steps, events,
    openedBy,   \* history variable: scripts that opened the chat since its reset
    adrift      \* history variable: nodes whose copy the daemon lost track of

hub == <<installed, setting, sub, reader>>
scripts == <<alive, anim, steps>>
loop == <<pc, tick, touched, backlog, ahead, resume, drawer>>
history == <<openedBy, adrift>>
uiVars == <<now, hub, scripts, doc, cancel, events, loop, channel, client, history>>

Nodes == 1..MaxNodes
Scripts == 1..MaxScripts
Times == 0..MaxNow + Lead

-----------------------------------------------------------------------------
(* The document.  A tree says what each node holds.                        *)

Tree == [Nodes -> Values \union {Gone}]
Op == [do : {"create", "set"}, node : Nodes, value : Values]
        \union [do : {"destroy"}, node : Nodes, value : {Gone}]
EmptyTree == [n \in Nodes |-> Gone]

Create(n, v) == [do |-> "create", node |-> n, value |-> v]
Set(n, v) == [do |-> "set", node |-> n, value |-> v]
Destroy(n) == [do |-> "destroy", node |-> n, value |-> Gone]

\* An op naming an unknown node is ignored.
Apply(tree, op) ==
    IF op.do = "set" /\ tree[op.node] = Gone THEN tree
    ELSE [tree EXCEPT ![op.node] = op.value]

ApplyAll(tree, ops) ==
    LET applied[i \in 0..Len(ops)] ==
          IF i = 0 THEN tree ELSE Apply(applied[i - 1], ops[i])
    IN  applied[Len(ops)]

\* Of one op for each node, in the order of their ids, those for `keep`.
PerNode(ops, keep) ==
    LET taken[n \in 0..MaxNodes] ==
          IF n = 0 THEN <<>>
          ELSE IF n \in keep THEN Append(taken[n - 1], ops[n]) ELSE taken[n - 1]
    IN  taken[MaxNodes]

Present(tree) == {n \in Nodes : tree[n] # Gone}
Snapshot(tree) == PerNode([n \in Nodes |-> Create(n, tree[n])], Present(tree))

Current(tree, keys) ==
    PerNode([n \in Nodes |-> Set(n, tree[n])], keys \intersect Present(tree))

NewDocument ==
    [tree |-> EmptyTree, next |-> 1, pending |-> <<>>, reset |-> TRUE,
     capturing |-> FALSE, captured |-> <<>>, undo |-> <<>>]

InverseOf(d, op) ==
    IF op.do = "set" /\ d.tree[op.node] # Gone
    THEN <<Set(op.node, d.tree[op.node])>> ELSE <<>>

Record(d, op) ==
    [d EXCEPT !.tree = Apply(@, op),
              !.undo = IF d.capturing THEN @ \o InverseOf(d, op) ELSE @,
              !.captured = IF d.capturing THEN Append(@, op) ELSE @,
              !.pending = IF d.capturing \/ d.reset THEN @ ELSE Append(@, op)]

SetNode(d, n, v) == IF d.tree[n] = v THEN d ELSE Record(d, Set(n, v))

TakePending(d) == [d EXCEPT !.reset = FALSE, !.pending = <<>>]

CaptureBegin(d) == [d EXCEPT !.capturing = TRUE]

CaptureEnd(d) ==
    [d EXCEPT !.tree = ApplyAll(@, Reverse(d.undo)), !.undo = <<>>,
              !.captured = <<>>, !.capturing = FALSE]

-----------------------------------------------------------------------------
(* The frames.                                                             *)

Frame == [at : Times, reset : BOOLEAN, cancel : BOOLEAN, ops : Seq(Op)]

ASSUME NoneAssumption == None \notin Frame

\* Mutant: a client that fell behind gets the newest changes.
MergedNewest(late, frame) ==
    [frame EXCEPT !.reset = late.reset, !.cancel = @ \/ late.cancel]

\* A client that fell behind gets everything since in one frame.
Merged(late, frame) ==
    [frame EXCEPT !.reset = late.reset, !.cancel = @ \/ late.cancel,
                  !.ops = late.ops \o @]

HasRoom == Len(channel) < Queue

SetBy(ops) == {ops[i].node : i \in {j \in DOMAIN ops : ops[j].do = "set"}}

\* A tick's locals between two ticks.
NoTick == [now |-> 0, animating |-> FALSE, cancel |-> FALSE]

-----------------------------------------------------------------------------
UiInit ==
    /\ now = 0
    /\ installed = 1 /\ setting = "no" /\ sub = "no" /\ reader = None
    /\ alive = {} /\ anim = {} /\ steps = 0
    /\ doc = NewDocument /\ cancel = FALSE /\ events = 0
    /\ pc = "off" /\ tick = NoTick
    /\ touched = {} /\ backlog = None /\ ahead = 0 /\ resume = FALSE /\ drawer = None
    /\ channel = <<>>
    /\ client = [tree |-> EmptyTree, queue |-> <<>>]
    /\ openedBy = {} /\ adrift = {}

Elapse ==
    /\ now < MaxNow
    /\ now' = now + 1
    /\ UNCHANGED <<hub, scripts, doc, cancel, events, loop, channel, client, history>>

-----------------------------------------------------------------------------
(* Chats and scripts come.                                                 *)

Calls(g) ==
    /\ alive' = alive \union {g}
    /\ openedBy' = openedBy \union {g}

\* The chat is in the hub's list and its frame loop runs.
Insert ==
    /\ sub = "no"
    /\ sub' = "inserted" /\ pc' = "wait"
    /\ UNCHANGED <<now, installed, setting, reader, scripts, doc, cancel, events, tick,
                   touched, backlog, ahead, resume, drawer, channel, client, history>>

ReadScript ==
    /\ sub = "inserted"
    /\ sub' = "read" /\ reader' = installed
    /\ UNCHANGED <<now, installed, setting, scripts, doc, cancel, events, loop, channel,
                   client, history>>

Subscribed ==
    /\ sub = "read"
    /\ sub' = "open" /\ Calls(reader)
    /\ UNCHANGED <<now, installed, setting, reader, anim, steps, doc, cancel, events, loop,
                   channel, client, adrift>>

\* Mutant: a chat is listed once its handlers were called.
ListedLate == sub = "open"

\* `Hub::chats` has the chat.
Listed == sub # "no"

\* A freshly loaded runtime installs its scripts.
Install ==
    /\ setting = "no" /\ installed < MaxScripts
    /\ installed' = installed + 1 /\ setting' = "reset"
    /\ UNCHANGED <<now, sub, reader, scripts, doc, cancel, events, loop, channel, client,
                   history>>

ResetChat ==
    /\ setting = "reset"
    /\ IF Listed
       THEN /\ doc' = NewDocument
            /\ openedBy' = {}
            /\ setting' = "open"
       ELSE /\ setting' = "no"
            /\ UNCHANGED <<doc, openedBy>>
    /\ UNCHANGED <<now, installed, sub, reader, scripts, cancel, events, loop, channel,
                   client, adrift>>

OpenAgain ==
    /\ setting = "open"
    /\ setting' = "no" /\ Calls(installed)
    /\ UNCHANGED <<now, installed, sub, reader, anim, steps, doc, cancel, events, loop,
                   channel, client, adrift>>

\* The user does something.
Event ==
    /\ sub = "open" /\ events < MaxEvents
    /\ cancel' = TRUE /\ events' = events + 1
    /\ alive' = alive \union {installed}
    /\ UNCHANGED <<now, hub, anim, steps, doc, loop, channel, client, history>>

-----------------------------------------------------------------------------
(* A handler runs while its Lua state is not drawing.                      *)

Drawing(g) == pc \in {"render", "rendered"} /\ drawer = g

Runs(g) ==
    /\ g \in alive /\ ~Drawing(g) /\ steps < MaxSteps
    /\ steps' = steps + 1
    /\ UNCHANGED <<now, hub, alive, cancel, events, loop, channel, client, openedBy>>

\* An element that appears or goes while another Lua state draws is part of
\* a frame that may never be played.
Strays(n) == adrift' = IF doc.capturing THEN adrift \union {n} ELSE adrift

CreateNode(g, v) ==
    /\ Runs(g) /\ doc.next \in Nodes
    /\ doc' = [Record(doc, Create(doc.next, v)) EXCEPT !.next = @ + 1]
    /\ Strays(doc.next)
    /\ UNCHANGED anim

ChangeNode(g, n, v) ==
    /\ Runs(g)
    /\ doc' = SetNode(doc, n, v)
    /\ UNCHANGED <<anim, adrift>>

DestroyNode(g, n) ==
    /\ Runs(g) /\ doc.tree[n] # Gone
    /\ doc' = Record(doc, Destroy(n))
    /\ Strays(n)
    /\ UNCHANGED anim

AddFrames(g) ==
    /\ Runs(g) /\ g \notin anim
    /\ anim' = anim \union {g}
    /\ UNCHANGED <<doc, adrift>>

StopFrames(g) ==
    /\ Runs(g) /\ g \in anim
    /\ anim' = anim \ {g}
    /\ UNCHANGED <<doc, adrift>>

Handler ==
    \E g \in Scripts :
        \/ \E v \in Values : CreateNode(g, v)
        \/ \E n \in Nodes, v \in Values : ChangeNode(g, n, v)
        \/ \E n \in Nodes : DestroyNode(g, n)
        \/ AddFrames(g)
        \/ StopFrames(g)

-----------------------------------------------------------------------------
(* The frame loop.                                                         *)

\* Mutant: an animation that stopped is no reason to put anything back.
TickEventsOnly ==
    /\ pc = "wait"
    /\ tick' = [now |-> now, animating |-> installed \in anim, cancel |-> cancel]
    /\ cancel' = FALSE /\ pc' = "gather"
    /\ UNCHANGED <<now, hub, scripts, doc, events, touched, backlog, ahead, resume, drawer,
                   channel, client, history>>

\* An event, or an animation that stopped, cancels what was drawn ahead.
Tick ==
    LET animating == installed \in anim
    IN  /\ pc = "wait"
        /\ tick' = [now |-> now, animating |-> animating,
                    cancel |-> cancel \/ (~animating /\ touched # {})]
        /\ cancel' = FALSE /\ pc' = "gather"
        /\ UNCHANGED <<now, hub, scripts, doc, events, touched, backlog, ahead, resume,
                       drawer, channel, client, history>>

EndTick == pc' = "wait" /\ tick' = NoTick /\ drawer' = None

\* The changes since the last tick, or all of it after a reset.  When the
\* animation stopped, what it set goes back to the present values.
Gathered ==
    IF doc.reset THEN Snapshot(doc.tree)
    ELSE doc.pending \o IF tick.cancel /\ ~tick.animating
                        THEN Current(doc.tree, touched) ELSE <<>>

GatheredFrame ==
    LET frame == [at |-> tick.now, reset |-> doc.reset, cancel |-> tick.cancel,
                  ops |-> Gathered]
    IN  IF backlog # None /\ ~doc.reset THEN Merged(backlog, frame) ELSE frame

\* After an interruption frames are drawn again from the present, whatever
\* `ahead` was.  A frame there is no room for waits for the next tick.
Gather ==
    LET again == tick.cancel \/ doc.reset
        sends == again \/ Gathered # <<>> \/ backlog # None
    IN  /\ pc = "gather"
        /\ doc' = TakePending(doc)
        /\ touched' = IF again THEN {} ELSE touched
        /\ resume' = (resume \/ again)
        /\ ahead' = IF again THEN 0 ELSE ahead
        /\ channel' = IF sends /\ HasRoom THEN Append(channel, GatheredFrame) ELSE channel
        /\ backlog' = IF sends /\ ~HasRoom THEN GatheredFrame ELSE None
        /\ IF sends /\ ~HasRoom THEN EndTick ELSE pc' = "draw" /\ UNCHANGED <<tick, drawer>>
        /\ adrift' = IF doc.reset THEN {}
                     ELSE IF tick.cancel /\ tick.animating THEN adrift \union touched
                     ELSE adrift
        /\ UNCHANGED <<now, hub, scripts, cancel, events, client, openedBy>>

\* The scripts in force now draw, from the present after an interruption.
Draw ==
    /\ pc = "draw"
    /\ IF installed \in anim
       THEN /\ pc' = "ahead" /\ drawer' = installed /\ resume' = FALSE
            /\ ahead' = IF resume THEN tick.now
                        ELSE IF ahead + 1 < tick.now THEN tick.now - 1 ELSE ahead
            /\ UNCHANGED tick
       ELSE /\ EndTick
            /\ UNCHANGED <<resume, ahead>>
    /\ UNCHANGED <<now, hub, scripts, doc, cancel, events, touched, backlog, channel,
                   client, history>>

DrawnFarEnough == ahead + 1 > tick.now + Lead

DrawnAhead ==
    /\ pc = "ahead" /\ DrawnFarEnough
    /\ EndTick
    /\ UNCHANGED <<now, hub, scripts, doc, cancel, events, touched, backlog, ahead,
                   resume, channel, client, history>>

\* Without a frame function the frame is empty and not sent.
RenderBegin ==
    /\ pc = "ahead" /\ ~DrawnFarEnough
    /\ ahead' = ahead + 1
    /\ IF drawer \in anim
       THEN doc' = CaptureBegin(doc) /\ pc' = "render"
       ELSE UNCHANGED <<doc, pc>>
    /\ UNCHANGED <<now, hub, scripts, cancel, events, tick, touched, backlog, resume, drawer,
                   channel, client, history>>

\* The frame function sets a node.
RenderSet ==
    /\ pc = "render"
    /\ doc' = SetNode(doc, Draws[<<drawer, ahead>>][1], Draws[<<drawer, ahead>>][2])
    /\ pc' = "rendered"
    /\ UNCHANGED <<now, hub, scripts, cancel, events, tick, touched, backlog, ahead, resume,
                   drawer, channel, client, history>>

\* It returns, or fails and is stopped.  What it set is taken back.
RenderEnd(failed) ==
    LET ops == doc.captured
        frame == [at |-> ahead, reset |-> FALSE, cancel |-> FALSE, ops |-> ops]
    IN  /\ pc = "rendered" \/ (pc = "render" /\ failed)
        /\ steps' = IF failed THEN steps + 1 ELSE steps
        /\ steps' <= MaxSteps
        /\ doc' = CaptureEnd(doc)
        /\ anim' = IF failed THEN anim \ {drawer} ELSE anim
        /\ touched' = touched \union SetBy(ops)
        /\ channel' = IF ops # <<>> /\ HasRoom THEN Append(channel, frame) ELSE channel
        /\ IF ops = <<>> \/ HasRoom
           THEN pc' = "ahead" /\ UNCHANGED <<tick, drawer>> ELSE EndTick
        /\ UNCHANGED <<now, hub, alive, cancel, events, backlog, ahead, resume, client,
                       history>>

Render ==
    \/ RenderBegin
    \/ RenderSet
    \/ \E failed \in BOOLEAN : RenderEnd(failed)

Loop == Tick \/ Gather \/ Draw \/ DrawnAhead \/ Render

-----------------------------------------------------------------------------
(* The client.                                                             *)

\* How many of a queue's first frames are for `at` or earlier; the queue is in
\* the order of their times.
DueCount(queue, at) ==
    CHOOSE k \in 0..Len(queue) :
        /\ \A i \in 1..k : queue[i].at <= at
        /\ k < Len(queue) => queue[k + 1].at > at

Due(queue, at) == SubSeq(queue, 1, DueCount(queue, at))
Later(queue, at) == SubSeq(queue, DueCount(queue, at) + 1, Len(queue))

\* Mutant: a frame comes last in the queue, whatever its time.
QueuedLast(queue, frame) == Append(queue, frame)

\* In the order of their times, and as they came.
Queued(queue, frame) == Due(queue, frame.at) \o <<frame>> \o Later(queue, frame.at)

Receive ==
    LET frame == Head(channel)
        kept == IF frame.reset THEN <<>>
                ELSE IF frame.cancel THEN Due(client.queue, frame.at)
                ELSE client.queue
    IN  /\ channel # <<>>
        /\ channel' = Tail(channel)
        /\ client' = [client EXCEPT !.queue = Queued(kept, [frame EXCEPT !.cancel = FALSE])]
        /\ UNCHANGED <<now, hub, scripts, doc, cancel, events, loop, history>>

Shown(tree, frame) == ApplyAll(IF frame.reset THEN EmptyTree ELSE tree, frame.ops)

ShownAll(tree, frames) ==
    LET shown[i \in 0..Len(frames)] ==
          IF i = 0 THEN tree ELSE Shown(shown[i - 1], frames[i])
    IN  shown[Len(frames)]

\* Every frame that is due.
Play ==
    LET due == Due(client.queue, now)
    IN  /\ due # <<>>
        /\ client' = [tree |-> ShownAll(client.tree, due),
                      queue |-> Later(client.queue, now)]
        /\ UNCHANGED <<now, hub, scripts, doc, cancel, events, loop, channel, history>>

-----------------------------------------------------------------------------
Subscribe == Insert \/ ReadScript \/ Subscribed
SetScript == Install \/ ResetChat \/ OpenAgain

UiNext == Elapse \/ Subscribe \/ SetScript \/ Event \/ Handler \/ Loop \/ Receive \/ Play

UiFairness ==
    /\ WF_uiVars(Elapse) /\ WF_uiVars(Subscribe) /\ WF_uiVars(ResetChat \/ OpenAgain)
    /\ WF_uiVars(Loop) /\ WF_uiVars(Receive) /\ WF_uiVars(Play)

UiSpec == UiInit /\ [][UiNext]_uiVars /\ UiFairness

-----------------------------------------------------------------------------
(* Properties.                                                             *)

\* Every variable has its type; only a frame function's run captures; the
\* channel holds at most QUEUE frames; and the client keeps its frames in the
\* order of their times.
UiTypeOK ==
    /\ now \in 0..MaxNow
    /\ installed \in Scripts /\ setting \in {"no", "reset", "open"}
    /\ sub \in {"no", "inserted", "read", "open"} /\ reader \in Scripts \union {None}
    /\ alive \subseteq Scripts /\ anim \subseteq Scripts /\ steps \in 0..MaxSteps
    /\ doc.tree \in Tree /\ doc.next \in 1..MaxNodes + 1
    /\ {doc.pending, doc.captured, doc.undo} \subseteq Seq(Op)
    /\ doc.capturing => pc \in {"render", "rendered"}
    /\ cancel \in BOOLEAN /\ events \in 0..MaxEvents
    /\ pc \in {"off", "wait", "gather", "draw", "ahead", "render", "rendered"}
    /\ tick \in [now : 0..MaxNow, animating : BOOLEAN, cancel : BOOLEAN]
    /\ touched \subseteq Nodes /\ adrift \subseteq Nodes /\ openedBy \subseteq Scripts
    /\ backlog \in Frame \union {None}
    /\ ahead \in Times /\ drawer \in Scripts \union {None} /\ resume \in BOOLEAN
    /\ channel \in Seq(Frame) /\ Len(channel) <= Queue
    /\ client.tree \in Tree /\ client.queue \in Seq(Frame)
    /\ \A i, j \in DOMAIN client.queue : i < j => client.queue[i].at <= client.queue[j].at

\* Nothing is under way between the document and the client's copy of it.
Settled ==
    /\ pc = "wait" /\ installed \notin anim /\ ~cancel
    /\ ~doc.reset /\ doc.pending = <<>> /\ touched = {}
    /\ backlog = None /\ channel = <<>> /\ client.queue = <<>>

\* When nothing is under way the client shows the document, after frames
\* drawn ahead, cancelled and drawn again, dropped for want of room, or
\* overtaken by a reset; but for the nodes in `adrift`: those an animation had
\* set when an event cancelled its frames, and those that another generation's
\* handler created or destroyed while a frame was drawn.
SettlesOnTheDocument ==
    Settled => \A n \in Nodes \ adrift : client.tree[n] = doc.tree[n]

\* Once no reload and no subscription is at work the scripts in force have
\* opened the chat since it was last reset.
BuiltByTheScriptsInForce == setting = "no" /\ sub = "open" => installed \in openedBy

\* When animations end, the client shows the document in the end and from
\* then on, however slow it was.
ShownInTheEnd ==
    <>[](installed \notin anim)
        => <>[](\A n \in Nodes \ adrift : client.tree[n] = doc.tree[n])
=============================================================================
