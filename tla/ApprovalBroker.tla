--------------------------- MODULE ApprovalBroker ---------------------------
(***************************************************************************)
(* The interactive approval plane: crates/approvals (the broker), the id   *)
(* counter every executor draws its questions' ids from, and the /control  *)
(* connections that show questions and send verdicts back.                 *)
(*                                                                         *)
(* A question is one escalated permission decision.  It is minted by an    *)
(* executor, put to every connected approver by Broker::request, and ends  *)
(* with a verdict, a timeout, or the cancellation of the run that asked.   *)
(* The broker survives hot reloads (daemon Shared); executors do not, and  *)
(* runs in flight keep the executor they started on.                       *)
(***************************************************************************)
EXTENDS Naturals

CONSTANTS
    Questions,      \* every question that may be asked
    Approvers,      \* /control connections
    MaxExecutors    \* 1 + the number of hot reloads

ASSUME ExecutorsAssumption == MaxExecutors \in Nat \ {0}

Executors == 1 .. MaxExecutors
Allows    == {"AllowOnce", "AllowForever"}
Verdicts  == Allows \cup {"Deny"}
None      == "none"

VARIABLES
    live,       \* the executor new work goes to
    seq,        \* seq[e]: executor e's approval_seq, the next id it mints
    id,         \* id[q]: the id q carries, 0 before it is minted
    stage,      \* stage[q]: where q's requesting task is
    slot,       \* slot[q]: what q's oneshot receiver would see
    answer,     \* answer[q]: what Broker::request returned
    pending,    \* the questions whose sender is in State.pending, under id[q]
    approver,   \* approver[a]: "open", "closed" (receiver gone), or "away"
    inbox,      \* inbox[a]: the questions pushed to a's connection
    first       \* history: the first verdict an approver gave for q

brokerVars == <<slot, pending>>
peerVars   == <<approver, inbox>>
vars == <<live, seq, id, stage, slot, answer, pending, approver, inbox, first>>

Stages == {"idle", "minted", "waiting", "expired", "done", "cancelled"}

\* Mutant: the counter starts at 0, the value of a field never set.
FirstIdUnset == 0
\* Executor::new: approval_seq starts at 1.
FirstId == 1

Init ==
    /\ live = 1
    /\ seq = [e \in Executors |-> FirstId]
    /\ id = [q \in Questions |-> 0]
    /\ stage = [q \in Questions |-> "idle"]
    /\ slot = [q \in Questions |-> "open"]
    /\ answer = [q \in Questions |-> None]
    /\ pending = {}
    /\ approver = [a \in Approvers |-> "away"]
    /\ inbox = [a \in Approvers |-> {}]
    /\ first = [q \in Questions |-> None]

-----------------------------------------------------------------------------
(* The pending map. *)

\* Mutant: removing one entry clears the map.
EntryAny(i) == pending
\* The entry under id i: the map holds at most one sender per id.
Entry(i) == {q \in pending : id[q] = i}

\* Dropping the senders of D wakes those of D that still wait.
DropSenders(D) ==
    [q \in Questions |->
        IF q \in D /\ slot[q] = "open" THEN "dropped" ELSE slot[q]]

\* Sending v down the senders of D reaches the receivers that still exist.
SendVerdict(D, v) ==
    [q \in Questions |->
        IF q \in D /\ stage[q] = "waiting" THEN v ELSE slot[q]]

Finish(q, v) ==
    /\ stage' = [stage EXCEPT ![q] = "done"]
    /\ answer' = [answer EXCEPT ![q] = v]

-----------------------------------------------------------------------------
(* The requesting task. *)

\* Mutant: a load in place of the fetch_add.
NextIdStuck(e) == seq[e]
NextId(e) == seq[e] + 1

\* approval_seq.fetch_add: any executor that still runs may ask, a
\* superseded one on behalf of the runs it had in flight.
Mint(q, e) ==
    /\ stage[q] = "idle"
    /\ e <= live
    /\ id' = [id EXCEPT ![q] = seq[e]]
    /\ seq' = [seq EXCEPT ![e] = NextId(e)]
    /\ stage' = [stage EXCEPT ![q] = "minted"]
    /\ UNCHANGED <<live, answer, first, brokerVars, peerVars>>

\* Prune approvers whose receiver is gone.
Pruned == [a \in Approvers |-> IF approver[a] = "closed" THEN "away" ELSE approver[a]]

OpenApprovers == {a \in Approvers : approver[a] = "open"}

\* Nobody is connected: refused at once.
RequestRefused(q) ==
    /\ stage[q] = "minted"
    /\ OpenApprovers = {}
    /\ approver' = Pruned
    /\ Finish(q, "Deny")
    /\ UNCHANGED <<live, seq, id, slot, pending, inbox, first>>

\* The map insert replaces, and so drops, a sender already under this id.
RequestSent(q) ==
    /\ stage[q] = "minted"
    /\ OpenApprovers # {}
    /\ approver' = Pruned
    /\ slot' = DropSenders(Entry(id[q]))
    /\ pending' = (pending \ Entry(id[q])) \cup {q}
    /\ inbox' = [a \in Approvers |->
                    IF a \in OpenApprovers THEN inbox[a] \cup {q} ELSE inbox[a]]
    /\ stage' = [stage EXCEPT ![q] = "waiting"]
    /\ UNCHANGED <<live, seq, id, answer, first>>

\* A verdict is in the channel: timeout() polls the receiver first, so it is
\* returned even when the deadline has passed too.
TakeVerdict(q) ==
    /\ stage[q] = "waiting"
    /\ slot[q] \in Verdicts
    /\ Finish(q, slot[q])
    /\ UNCHANGED <<live, seq, id, first, brokerVars, peerVars>>

\* Mutant: the wait has no deadline.
ExpireNever(q) == FALSE
\* The deadline passed with nothing in the channel.
Expire(q) ==
    /\ stage[q] = "waiting"
    /\ slot[q] = "open"
    /\ stage' = [stage EXCEPT ![q] = "expired"]
    /\ UNCHANGED <<live, seq, id, answer, first, brokerVars, peerVars>>

\* The sender was dropped without a verdict.
SenderGone(q) ==
    /\ stage[q] = "waiting"
    /\ slot[q] = "dropped"
    /\ stage' = [stage EXCEPT ![q] = "expired"]
    /\ UNCHANGED <<live, seq, id, answer, first, brokerVars, peerVars>>

\* A wait that ends without a verdict fails closed.
OnExpiry == "Deny"

\* Take the lock again, remove whatever is under this id, and deny.
CleanUp(q) ==
    /\ stage[q] = "expired"
    /\ slot' = DropSenders(Entry(id[q]) \ {q})
    /\ pending' = pending \ Entry(id[q])
    /\ Finish(q, OnExpiry)
    /\ UNCHANGED <<live, seq, id, first, peerVars>>

\* The run is dropped while it waits: its deadline, its client or the daemon
\* ended it.  Nothing removes the map entry.
Cancel(q) ==
    /\ stage[q] \in {"minted", "waiting"}
    /\ stage' = [stage EXCEPT ![q] = "cancelled"]
    /\ UNCHANGED <<live, seq, id, answer, first, brokerVars, peerVars>>

-----------------------------------------------------------------------------
(* Approvers and the daemon. *)

\* A connection subscribes under a fresh approver id; a dead sender left by an
\* earlier one receives nothing, so a is taken to have one sender at a time.
Subscribe(a) ==
    /\ approver[a] # "open"
    /\ approver' = [approver EXCEPT ![a] = "open"]
    /\ UNCHANGED <<live, seq, id, stage, answer, inbox, first, brokerVars>>

\* The control loop ends and unsubscribes.
Unsubscribe(a) ==
    /\ approver[a] = "open"
    /\ approver' = [approver EXCEPT ![a] = "away"]
    /\ inbox' = [inbox EXCEPT ![a] = {}]
    /\ UNCHANGED <<live, seq, id, stage, answer, first, brokerVars>>

\* The connection task is dropped before it unsubscribes: the broker holds a
\* closed sender until the next request prunes it.
DropConnection(a) ==
    /\ approver[a] = "open"
    /\ approver' = [approver EXCEPT ![a] = "closed"]
    /\ inbox' = [inbox EXCEPT ![a] = {}]
    /\ UNCHANGED <<live, seq, id, stage, answer, first, brokerVars>>

\* Mutant: the entry is read, not removed, so a second verdict overtakes the
\* first one while the task has not woken up.
ResolveKeeps(a, q, v) ==
    /\ approver[a] = "open"
    /\ q \in inbox[a]
    /\ slot' = SendVerdict(Entry(id[q]), v)
    /\ first' = [first EXCEPT ![q] = IF @ = None THEN v ELSE @]
    /\ UNCHANGED <<live, seq, id, stage, answer, pending, peerVars>>
\* An approver answers a question it was shown, perhaps late, perhaps twice:
\* approvals.resolve names the question by its id.
Resolve(a, q, v) ==
    /\ approver[a] = "open"
    /\ q \in inbox[a]
    /\ slot' = SendVerdict(Entry(id[q]), v)
    /\ pending' = pending \ Entry(id[q])
    /\ first' = [first EXCEPT ![q] = IF @ = None THEN v ELSE @]
    /\ UNCHANGED <<live, seq, id, stage, answer, peerVars>>

\* A hot reload swaps in a new executor, whose counter starts at 1 again.
Reload ==
    /\ live < MaxExecutors
    /\ live' = live + 1
    /\ UNCHANGED <<seq, id, stage, answer, first, brokerVars, peerVars>>

-----------------------------------------------------------------------------

Request(q) == RequestRefused(q) \/ RequestSent(q)

Await(q) == TakeVerdict(q) \/ Expire(q) \/ SenderGone(q) \/ CleanUp(q)

Next ==
    \/ \E q \in Questions, e \in Executors : Mint(q, e)
    \/ \E q \in Questions : Request(q) \/ Await(q) \/ Cancel(q)
    \/ \E a \in Approvers : Subscribe(a) \/ Unsubscribe(a) \/ DropConnection(a)
    \/ \E a \in Approvers, q \in Questions, v \in Verdicts : Resolve(a, q, v)
    \/ Reload

Spec == Init /\ [][Next]_vars

\* The tokio runtime polls a ready task, and the deadline of a wait passes.
\* Nothing is assumed of approvers, reloads or new questions.
Fairness == \A q \in Questions : WF_vars(Request(q)) /\ WF_vars(Await(q))

FairSpec == Spec /\ Fairness

-----------------------------------------------------------------------------
(* Properties. *)

\* The types of the variables (State, the executors' counters, /control).
TypeOK ==
    /\ live \in Executors
    /\ seq \in [Executors -> Nat \ {0}]
    /\ id \in [Questions -> Nat]
    /\ stage \in [Questions -> Stages]
    /\ slot \in [Questions -> Verdicts \cup {"open", "dropped"}]
    /\ answer \in [Questions -> Verdicts \cup {None}]
    /\ pending \in SUBSET Questions
    /\ approver \in [Approvers -> {"open", "closed", "away"}]
    /\ inbox \in [Approvers -> SUBSET Questions]
    /\ first \in [Questions -> Verdicts \cup {None}]

\* A question is allowed only by the first verdict an approver gave for that
\* very question: never by a verdict meant for another one, never by a second
\* thought, never by a timeout (Broker::request, Broker::resolve).
AnsweredAsShown ==
    \A q \in Questions : answer[q] \in Allows => first[q] = answer[q]

\* Whatever the reloads, an allow comes from an approver who answered a
\* question carrying the same id: the broker itself never allows.
AllowNeedsApprover ==
    \A q \in Questions : answer[q] \in Allows =>
        \E r \in Questions : id[r] = id[q] /\ first[r] # None

\* A task that waits with nothing in its channel is still in the pending map,
\* so an approver can reach it and only the deadline can deny it.
WaiterIsReachable ==
    \A q \in Questions :
        stage[q] = "waiting" /\ slot[q] \in {"open", "dropped"} => q \in pending

\* A question that was answered or refused leaves nothing in the map.
FinishedIsForgotten ==
    \A q \in Questions : stage[q] = "done" => q \notin pending

\* Every question put to the broker ends: with an answer, or with the run.
EveryQuestionEnds ==
    \A q \in Questions : stage[q] = "minted" ~> stage[q] \in {"done", "cancelled"}

\* The requesting task seen as an asker of ApprovalAsk.
AskState ==
    [q \in Questions |->
        IF stage[q] = "idle" THEN "unasked"
        ELSE IF stage[q] = "done" THEN "answered"
        ELSE IF stage[q] = "cancelled" THEN "abandoned"
        ELSE "open"]

Ask == INSTANCE ApprovalAsk WITH
    state <- AskState, decided <- first, outcome <- answer

\* With one executor the broker keeps every promise of ApprovalAsk: the id map,
\* the channels, the timeout and the clean-up never let an answer reach a
\* question it was not given for.
ImplementsAsk == Ask!AskSpec

=============================================================================
