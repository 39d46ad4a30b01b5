----------------------------- MODULE SessionRun -----------------------------
(* Runner runs over stored sessions: run_runner_inner reads the session's    *)
(* row, takes the session for itself, loads its turns, folds the oldest into *)
(* a summary when there are many, runs the model and stores what was said,   *)
(* or what had been said when the run was stopped.  Other callers create,    *)
(* relabel and delete sessions meanwhile, and the daemon may die.            *)
(*                                                                           *)
(* Each executor keeps its own set of busy sessions.  A daemon has one       *)
(* executor, or several while runs of the time before a hot reload go on.    *)
EXTENDS SessionStore

CONSTANTS
    Runs,
    Executors,
    Policies,   \* compaction policies of the runners
    MaxSteps    \* tool-calling steps of a run, at most

ASSUME PolicyAssumption ==
    \A p \in Policies : p.after_turns \in Nat /\ p.keep_recent \in Nat

ASSUME NonEmptyAssumption == Sessions # {} /\ Executors # {} /\ Policies # {}

ASSUME StepsAssumption == MaxSteps \in Nat

\* A run's messages are its prompt, two per step, and its reply.
ASSUME MessageAssumption == Messages = Runs \X (1 .. 2 * MaxSteps + 2)

VARIABLES
    active_sessions,    \* per executor, the sessions with a run in flight
    stage,              \* where a run is
    on,                 \* the executor a run belongs to
    of,                 \* the session it runs on
    policy,             \* its runner's compaction policy
    count,              \* the turn count it read before taking the session
    history,            \* the turns it gives the model
    progress            \* the messages to keep if it stops now

runVars == <<active_sessions, stage, on, of, policy, count, history, progress>>
vars == <<storeVars, runVars>>

Stages == {"idle", "started", "holding", "summarizing", "ready", "running",
           "closing", "done"}

\* Between taking the session and giving it back.
Holding == {"holding", "summarizing", "ready", "running", "closing"}

TypeOK ==
    /\ StoreTypeOK
    /\ active_sessions \in [Executors -> SUBSET Sessions]
    /\ stage \in [Runs -> Stages]
    /\ on \in [Runs -> Executors]
    /\ of \in [Runs -> Sessions]
    /\ policy \in [Runs -> Policies]
    /\ count \in [Runs -> Nat]
    /\ \A r \in Runs :
           /\ DOMAIN history[r] \in SUBSET Nat
           /\ \A k \in DOMAIN history[r] : history[r][k] \in Turn
    /\ progress \in [Runs -> Seq(Turn)]

\* What the locals of a run hold when it is not in flight.
Unset == [on |-> CHOOSE e \in Executors : TRUE,
          of |-> CHOOSE s \in Sessions : TRUE,
          policy |-> CHOOSE p \in Policies : TRUE]

Init ==
    /\ StoreInit
    /\ active_sessions = [e \in Executors |-> {}]
    /\ stage = [r \in Runs |-> "idle"]
    /\ on = [r \in Runs |-> Unset.on]
    /\ of = [r \in Runs |-> Unset.of]
    /\ policy = [r \in Runs |-> Unset.policy]
    /\ count = [r \in Runs |-> 0]
    /\ history = [r \in Runs |-> NoTurns]
    /\ progress = [r \in Runs |-> <<>>]

\* Runs are over, and their locals dropped.
Ended(runs) ==
    /\ stage' = [r \in Runs |-> IF r \in runs THEN "done" ELSE stage[r]]
    /\ on' = [r \in Runs |-> IF r \in runs THEN Unset.on ELSE on[r]]
    /\ of' = [r \in Runs |-> IF r \in runs THEN Unset.of ELSE of[r]]
    /\ policy' = [r \in Runs |-> IF r \in runs THEN Unset.policy ELSE policy[r]]
    /\ count' = [r \in Runs |-> IF r \in runs THEN 0 ELSE count[r]]
    /\ history' = [r \in Runs |-> IF r \in runs THEN NoTurns ELSE history[r]]
    /\ progress' = [r \in Runs |-> IF r \in runs THEN <<>> ELSE progress[r]]

-----------------------------------------------------------------------------
(* Messages of a run, numbered in the order they are said.                   *)

Message(r, kind, n) == [kind |-> kind, holds |-> {<<r, n>>}]

Summary(table, n) ==
    [kind |-> "summary",
     holds |-> UNION {table[k].holds : k \in Oldest(table, n)}]

\* The closing message of a run, the model's reply or the note that it was
\* stopped.
Closed(r) == Append(progress[r], Message(r, "reply", Len(progress[r]) + 1))

\* Mutant: any message may be the first to survive.
CutsAnywhere(table, keep_recent) ==
    1 .. Cardinality(DOMAIN table) - keep_recent

\* Positions a history can be cut at so that keep_recent turns survive: what
\* survives starts with a message of the user.
Cuts(table, keep_recent) ==
    {p \in 1 .. Cardinality(DOMAIN table) - keep_recent :
        table[SeqAt(table, p)].kind \in {"user", "summary"}}

\* compaction_cut takes the last of them.
LastCut(table, keep_recent) ==
    {p \in Cuts(table, keep_recent) :
        \A q \in Cuts(table, keep_recent) : q <= p}

\* keep_recent = 0 looks one turn past the end of the history.
CutPanics(table, keep_recent) == keep_recent = 0 /\ DOMAIN table # {}

-----------------------------------------------------------------------------
(* One run.                                                                  *)

\* A request to run a runner on a session reads the session's row.
Start(r, e, s, p) ==
    /\ stage[r] = "idle"
    /\ s \in stored
    /\ stage' = [stage EXCEPT ![r] = "started"]
    /\ on' = [on EXCEPT ![r] = e]
    /\ of' = [of EXCEPT ![r] = s]
    /\ policy' = [policy EXCEPT ![r] = p]
    /\ count' = [count EXCEPT ![r] = meta[s].turn_count]
    /\ UNCHANGED <<storeVars, active_sessions, history, progress>>

\* Mutant: a run does not look whether the session is busy.
BusyNever(r) == FALSE

Busy(r) == of[r] \in active_sessions[on[r]]

Refuse(r) ==
    /\ stage[r] = "started"
    /\ Busy(r)
    /\ Ended({r})
    /\ UNCHANGED <<storeVars, active_sessions>>

Take(r) ==
    /\ stage[r] = "started"
    /\ ~Busy(r)
    /\ active_sessions' = [active_sessions EXCEPT ![on[r]] = @ \cup {of[r]}]
    /\ stage' = [stage EXCEPT ![r] = "holding"]
    /\ UNCHANGED <<storeVars, on, of, policy, count, history, progress>>

\* What the policy makes of the turns a run has just loaded.
AfterLoad(r) ==
    LET table == turns[of[r]]
        keep == policy[r].keep_recent
    IN  IF count[r] < policy[r].after_turns THEN "ready"
        ELSE IF CutPanics(table, keep) THEN "closing"
        ELSE IF Cuts(table, keep) = {} THEN "ready"
        ELSE "summarizing"

Load(r) ==
    /\ stage[r] = "holding"
    /\ of[r] \in stored
    /\ history' = [history EXCEPT ![r] = turns[of[r]]]
    /\ stage' = [stage EXCEPT ![r] = AfterLoad(r)]
    /\ UNCHANGED <<storeVars, active_sessions, on, of, policy, count, progress>>

\* The model has summarized: the store folds its oldest turns and the run
\* goes on with the summary and the turns it kept.
StoreSummary(r) ==
    /\ stage[r] = "summarizing"
    /\ \E n \in LastCut(history[r], policy[r].keep_recent) :
           LET summary == Summary(history[r], n)
           IN  /\ Compact(of[r], n, summary)
               /\ history' = [history EXCEPT ![r] = Folded(@, n, summary)]
    /\ stage' = [stage EXCEPT ![r] = "ready"]
    /\ UNCHANGED <<active_sessions, on, of, policy, count, progress>>

\* The summary cannot be made: the run goes on with the full history.
SummaryFails(r) ==
    /\ stage[r] = "summarizing"
    /\ stage' = [stage EXCEPT ![r] = "ready"]
    /\ UNCHANGED <<storeVars, active_sessions, on, of, policy, count, history, progress>>

\* The prompt is in the model's messages, and kept from here on.
Prompt(r) ==
    /\ stage[r] = "ready"
    /\ stage' = [stage EXCEPT ![r] = "running"]
    /\ progress' = [progress EXCEPT ![r] = <<Message(r, "user", 1)>>]
    /\ UNCHANGED <<storeVars, active_sessions, on, of, policy, count, history>>

\* The model called tools, and every call has returned.
Step(r) ==
    /\ stage[r] = "running"
    /\ Len(progress[r]) < 2 * MaxSteps
    /\ progress' = [progress EXCEPT ![r] =
                       @ \o <<Message(r, "calls", Len(@) + 1),
                              Message(r, "result", Len(@) + 2)>>]
    /\ UNCHANGED <<storeVars, active_sessions, stage, on, of, policy, count, history>>

\* The run is over before the model was asked: an error (no provider, a session
\* deleted before its turns are read or its summary is stored, a database that
\* fails either), or it is cancelled or dropped while it summarizes.  It has
\* nothing to keep.
GiveUp(r) ==
    /\ stage[r] \in {"holding", "summarizing", "ready"}
    /\ stage' = [stage EXCEPT ![r] = "closing"]
    /\ UNCHANGED <<storeVars, active_sessions, on, of, policy, count, history, progress>>

\* The model has replied, or the run stops (an error, its deadline, its
\* client): either way what was said is stored, unless the session is gone or
\* the database fails.  A failed write is not tried again, neither by the run
\* nor by KeepPartial.
Close(r) ==
    /\ stage[r] = "running"
    /\ stage' = [stage EXCEPT ![r] = "closing"]
    /\ \/ AppendTurns(of[r], Closed(r))
       \/ UNCHANGED storeVars
    /\ UNCHANGED <<active_sessions, on, of, policy, count, history, progress>>

\* Mutant: the session stays taken.
ReleaseNever(r) ==
    /\ stage[r] = "closing"
    /\ Ended({r})
    /\ UNCHANGED <<storeVars, active_sessions>>

Release(r) ==
    /\ stage[r] = "closing"
    /\ active_sessions' = [active_sessions EXCEPT ![on[r]] = @ \ {of[r]}]
    /\ Ended({r})
    /\ UNCHANGED storeVars

-----------------------------------------------------------------------------
(* Everything else.                                                          *)

\* The daemon dies and comes back: the database is all that is left.
Crash ==
    /\ Ended({r \in Runs : stage[r] # "idle"})
    /\ active_sessions' = [e \in Executors |-> {}]
    /\ UNCHANGED storeVars

\* Other callers at the store.
Manage ==
    /\ \E s \in Sessions :
           \/ \E o \in Owners, l \in Labels \cup {NoLabel} : Create(s, o, l)
           \/ \E l \in Labels \cup {NoLabel} : Relabel(s, l)
           \/ Delete(s)
    /\ UNCHANGED runVars

\* What a run in progress does next.
Advance(r) ==
    \/ Refuse(r) \/ Take(r) \/ Load(r)
    \/ StoreSummary(r) \/ SummaryFails(r) \/ GiveUp(r)
    \/ Prompt(r) \/ Step(r) \/ Close(r) \/ Release(r)

Next ==
    \/ \E r \in Runs :
           \/ \E e \in Executors, s \in Sessions, p \in Policies : Start(r, e, s, p)
           \/ Advance(r)
    \/ Manage
    \/ Crash

Spec == Init /\ [][Next]_vars

\* Runs are tasks the runtime polls; a provider answers each request or fails
\* (HTTP providers time out after ten minutes), and a model stops calling tools
\* after finitely many steps: nothing in the code bounds those of a session run.
Fairness == \A r \in Runs : WF_vars(Advance(r))

FairSpec == Spec /\ Fairness

-----------------------------------------------------------------------------
(* Properties.                                                               *)

\* A session has one run at a time: a second run is refused rather than
\* interleaved (active_sessions).
OneRunPerSession ==
    \A r, q \in Runs :
        stage[r] \in Holding /\ stage[q] \in Holding /\ of[r] = of[q] => r = q

\* A session is not taken for good: its run gives it back, also when the run
\* fails, panics, or the session is deleted under it.
SessionIsFreed ==
    \A e \in Executors, s \in Sessions :
        s \in active_sessions[e] ~> s \notin active_sessions[e]

\* What the run's model knows of the chat, from the moment its turns are
\* loaded until it has nothing more to say.
Heard(r) ==
    IF stage[r] \in {"summarizing", "ready", "running"} THEN {Said(history[r])}
    ELSE {}

Chat == INSTANCE SessionChat WITH
    chats <- stored,
    said <- [s \in Sessions |-> IF s \in stored THEN Said(turns[s]) ELSE {}],
    heard <- [r \in Runs |-> Heard(r)]

\* Sessions keep SessionChat's promise: no compaction, crash or deletion makes
\* a run answer to anything but everything said before it.
ImplementsChat == Chat!Spec
=============================================================================
