----------------------------- MODULE ActionCheck -----------------------------
(***************************************************************************)
(* Executor::run_with_changes: the loop that checks an action call, asks   *)
(* one question at a time and checks again, with everything the loop       *)
(* shares: the engine (swapped whole), identical questions of one run in   *)
(* flight, grants.toml with its "allow forever" writers, the user editing  *)
(* the file, and hot reloads, each of which builds a new executor from the *)
(* file while runs in flight keep the old one.                             *)
(*                                                                         *)
(* The broker is reduced to what ApprovalAsk promises: a question gets one *)
(* verdict.  `check' and `escalate' load the engine separately.            *)
(***************************************************************************)
EXTENDS PermissionEngine, FiniteSets

CONSTANTS
    Calls,          \* the action calls made
    Info,           \* Info[c]: the call record of c
    FirstGrants,    \* what grants.toml may say when the daemon starts
    Edits,          \* what the user may replace grants.toml with
    Broken,         \* grants.toml that is not valid TOML
    Broker,         \* whether a broker is wired
    MaxExecutors,   \* bound: 1 + the number of hot reloads
    MaxEdits        \* bound: the number of edits by the user

ASSUME CallsAssumption ==
    /\ \A c \in Calls : Info[c] \in CallRecords
    /\ No \notin Calls
    /\ Broken \notin Grants
    /\ FirstGrants \subseteq {g \in Grants : Loads(g)}
    /\ Edits \subseteq Grants \cup {Broken}
    /\ Broker \in BOOLEAN
    /\ MaxExecutors \in Nat \ {0}
    /\ MaxEdits \in Nat

Executors == 1 .. MaxExecutors
Verdicts  == {"AllowOnce", "AllowForever", "Deny"}
\* A question: the call that asks it for all who wait on it, and its number.
Questions == Calls \X (1 .. 3)
\* What "allow forever" adds to the file, by the kind of the question.
Additions == [kind : Escalatable, call : Calls, perms : SUBSET Permissions]

VARIABLES
    file,       \* grants.toml
    edits,      \* how often the user edited it
    live,       \* the executor new runs go to
    engine,     \* engine[e]: the grants executor e decides by
    lock,       \* lock[e]: the call that holds e's forever_write_lock
    pc,         \* pc[c]: where the task of call c is
    home,       \* home[c]: the executor c runs on, 0 before it starts
    decision,   \* decision[c]: the last decision of the engine
    asked,      \* asked[c]: how many questions c asked
    approved,   \* approved[c]: what has been approved so far
    missing,    \* missing[c]: the permissions c's question lacks
    waits,      \* waits[c]: the question whose answer c waits for
    asking,     \* Runs.asking: questions that identical calls may join
    answer,     \* answer[q]: the verdict on question q
    draft,      \* draft[c]: the document c is about to write
    shown,      \* history: the permissions question q named as missing
    agreed,     \* history: the <<kind, permissions>> that c got allowed
    kept        \* history: what was saved since the user last edited

diskVars   == <<file, edits, kept>>
engineVars == <<live, engine, lock>>
callVars   == <<home, decision, asked, approved, missing, agreed>>
askVars    == <<waits, asking, answer, shown>>
vars == <<diskVars, engineVars, pc, callVars, askVars, draft>>

NoAnswer   == "unanswered"
NoQuestion == <<No, 0>>
Ended      == {"running", "refused", "fourth"}
PCs == {"idle", "check", "escalate", "asking", "save", "read", "write", "reload"}
          \cup Ended

Init ==
    /\ file \in FirstGrants
    /\ edits = 0
    /\ live = 1
    /\ engine = [e \in Executors |-> file]
    /\ lock = [e \in Executors |-> No]
    /\ pc = [c \in Calls |-> "idle"]
    /\ home = [c \in Calls |-> 0]
    /\ decision = [c \in Calls |-> "Allow"]
    /\ asked = [c \in Calls |-> 0]
    /\ approved = [c \in Calls |-> NothingApproved]
    /\ missing = [c \in Calls |-> {}]
    /\ waits = [c \in Calls |-> NoQuestion]
    /\ asking = {}
    /\ answer = [q \in Questions |-> NoAnswer]
    /\ draft = [c \in Calls |-> file]
    /\ shown = [q \in Questions |-> {}]
    /\ agreed = [c \in Calls |-> {}]
    /\ kept = {}

Goto(c, l) == pc' = [pc EXCEPT ![c] = l]
GrantsOf(c) == engine[home[c]]

-----------------------------------------------------------------------------
(* The loop. *)

\* A run stays on the executor it started on; a call of no run goes to the
\* live one.
Submit(c, e) ==
    /\ pc[c] = "idle"
    /\ e <= live
    /\ IF Info[c].run = No
       THEN e = live
       ELSE \A d \in Calls : home[d] # 0 /\ Info[d].run = Info[c].run => home[d] = e
    /\ home' = [home EXCEPT ![c] = e]
    /\ Goto(c, "check")
    /\ UNCHANGED <<diskVars, engineVars, decision, asked, approved, missing,
                   agreed, askVars, draft>>

\* Nobody answers this caller's questions.
NobodyAnswers(c) ==
    \/ Info[c].approval = "nobody"
    \/ ~ Broker /\ Info[c].approval # "classifier"

\* Where a call goes after its check.
AfterCheck(c, d) ==
    IF d = "Allow" THEN "running"
    ELSE IF d \notin Escalatable \/ NobodyAnswers(c) THEN "refused"
    ELSE IF asked[c] >= 3 THEN "fourth"
    ELSE "escalate"

Check(c) ==
    LET d == CheckApproved(GrantsOf(c), Info[c], approved[c])
        l == AfterCheck(c, d)
    IN  /\ pc[c] = "check"
        /\ decision' = [decision EXCEPT ![c] = d]
        /\ asked' = [asked EXCEPT ![c] = IF l = "escalate" THEN @ + 1 ELSE @]
        /\ Goto(c, l)
        /\ UNCHANGED <<diskVars, engineVars, home, approved, missing, agreed,
                       askVars, draft>>

-----------------------------------------------------------------------------
(* One question. *)

\* Mutant: nothing is missing once the decision was about grants.
MissingNone(c) == {}
\* What a grants question lacks, whatever was approved before.
Missing(c) ==
    IF decision[c] = "Tool" THEN Lacks(GrantsOf(c), Info[c], {}) ELSE {}

\* Mutant: the kind of the question is left out of the key.
SameQuestionAnyKind(c, d) ==
    /\ Info[c].run # No
    /\ Info[d].run = Info[c].run
    /\ home[d] = home[c]
    /\ Info[d].action = Info[c].action /\ Info[d].args = Info[c].args
\* The key: run, kind, action and unredacted arguments.
SameQuestion(c, d) ==
    /\ Info[c].run # No
    /\ Info[d].run = Info[c].run
    /\ home[d] = home[c]
    /\ decision[d] = decision[c]
    /\ Info[d].action = Info[c].action /\ Info[d].args = Info[c].args

Joinable(c) == {q \in asking : SameQuestion(c, q[1])}

\* A question of its own, which identical ones may join if it has a run.
AskOwn(c) ==
    LET q == <<c, asked[c]>>
    IN  /\ pc[c] = "escalate"
        /\ Joinable(c) = {}
        /\ missing' = [missing EXCEPT ![c] = Missing(c)]
        /\ shown' = [shown EXCEPT ![q] = Missing(c)]
        /\ waits' = [waits EXCEPT ![c] = q]
        /\ asking' = IF Info[c].run = No THEN asking ELSE asking \cup {q}
        /\ Goto(c, "asking")
        /\ UNCHANGED <<diskVars, engineVars, home, decision, asked, approved,
                       agreed, answer, draft>>

Join(c, q) ==
    /\ pc[c] = "escalate"
    /\ q \in Joinable(c)
    /\ missing' = [missing EXCEPT ![c] = Missing(c)]
    /\ waits' = [waits EXCEPT ![c] = q]
    /\ Goto(c, "asking")
    /\ UNCHANGED <<diskVars, engineVars, home, decision, asked, approved,
                   agreed, asking, answer, shown, draft>>

\* The classifier answers when the run's setting says so and the question is
\* not a runner's; it never allows forever, and unsure passes to a human.
ByClassifier(c, v) ==
    /\ Info[c].approval = "classifier"
    /\ decision[c] # "Runner"
    /\ v \in {"AllowOnce", "Deny"}

ByHuman(v) == Broker \/ v = "Deny"

Answer(c, v) ==
    LET q == <<c, asked[c]>>
    IN  /\ pc[c] = "asking"
        /\ waits[c] = q
        /\ answer[q] = NoAnswer
        /\ ByClassifier(c, v) \/ ByHuman(v)
        /\ answer' = [answer EXCEPT ![q] = v]
        /\ UNCHANGED <<diskVars, engineVars, pc, callVars, waits, asking, shown,
                       draft>>

\* Mutant: a confirm answer counts for every question.
ProceedAll(c) ==
    [permissions   |-> approved[c].permissions \cup missing[c],
     runner_action |-> approved[c].runner_action \/ decision[c] = "Runner",
     confirm       |-> TRUE]
\* What an allow adds to the call's approvals.
Proceed(c) ==
    [permissions   |-> approved[c].permissions \cup missing[c],
     runner_action |-> approved[c].runner_action \/ decision[c] = "Runner",
     confirm       |-> approved[c].confirm \/ decision[c] = "Confirm"]

\* Every waiter takes the answer; the first one clears the map entry.
TakeDeny(c) ==
    /\ pc[c] = "asking"
    /\ answer[waits[c]] = "Deny"
    /\ asking' = asking \ {waits[c]}
    /\ Goto(c, "refused")
    /\ UNCHANGED <<diskVars, engineVars, callVars, waits, answer, shown, draft>>

TakeAllow(c) ==
    LET v == answer[waits[c]]
    IN  /\ pc[c] = "asking"
        /\ v \in {"AllowOnce", "AllowForever"}
        /\ asking' = asking \ {waits[c]}
        /\ agreed' = [agreed EXCEPT ![c] = @ \cup {<<decision[c], shown[waits[c]]>>}]
        /\ IF v = "AllowOnce"
           THEN /\ approved' = [approved EXCEPT ![c] = Proceed(c)]
                /\ Goto(c, "check")
           ELSE /\ Goto(c, "save")
                /\ UNCHANGED approved
        /\ UNCHANGED <<diskVars, engineVars, home, decision, asked, missing, waits,
                       answer, shown, draft>>

-----------------------------------------------------------------------------
(* apply_forever *)

\* Mutant: the writers are not serialized.
FreeAlways(e) == TRUE
Free(e) == lock[e] = No

SaveLock(c) ==
    /\ pc[c] = "save"
    /\ Free(home[c])
    /\ lock' = [lock EXCEPT ![home[c]] = c]
    /\ Goto(c, "read")
    /\ UNCHANGED <<diskVars, live, engine, callVars, askVars, draft>>

\* Mutant: a failed or finished save leaves the lock taken.
UnlockNever(c) == UNCHANGED lock
Unlock(c) == lock' = [lock EXCEPT ![home[c]] = No]

\* The document with the answer added.
Extended(g, c) ==
    CASE decision[c] = "Tool" ->
           [g EXCEPT !.granted[Info[c].tool] = @ \cup missing[c]]
      [] decision[c] = "Confirm" -> [g EXCEPT !.skip = @ \cup {Info[c].action}]
      [] OTHER ->
           [g EXCEPT !.runnerActions[Info[c].runner] = @ \cup {Info[c].action}]

Readable(c) ==
    /\ file # Broken
    /\ decision[c] = "Tool" => Info[c].tool \in Tools

SaveRead(c) ==
    /\ pc[c] = "read"
    /\ Readable(c)
    /\ draft' = [draft EXCEPT ![c] = Extended(file, c)]
    /\ Goto(c, "write")
    /\ UNCHANGED <<diskVars, engineVars, callVars, askVars>>

\* The write is a rename: all or nothing.
SaveWrite(c) ==
    /\ pc[c] = "write"
    /\ file' = draft[c]
    /\ kept' = kept \cup
          {[kind |-> decision[c], call |-> c, perms |-> missing[c]]}
    /\ Goto(c, "reload")
    /\ UNCHANGED <<edits, engineVars, callVars, askVars, draft>>

Loadable(f) == f # Broken /\ Loads(f)

\* Mutant: the reloaded engine is not stored.
SaveReloadStale(c) ==
    /\ pc[c] = "reload"
    /\ Loadable(file)
    /\ Unlock(c)
    /\ approved' = [approved EXCEPT ![c] = Proceed(c)]
    /\ Goto(c, "check")
    /\ UNCHANGED <<diskVars, live, engine, home, decision, asked, missing, agreed,
                   askVars, draft>>
\* The fresh engine is what the file says by now.
SaveReload(c) ==
    /\ pc[c] = "reload"
    /\ Loadable(file)
    /\ engine' = [engine EXCEPT ![home[c]] = file]
    /\ Unlock(c)
    /\ approved' = [approved EXCEPT ![c] = Proceed(c)]
    /\ Goto(c, "check")
    /\ UNCHANGED <<diskVars, live, home, decision, asked, missing, agreed, askVars,
                   draft>>

\* Any failure releases the lock and refuses the call: invalid TOML or an
\* action of no tool, an I/O error, a file that does not load.
SaveFails(c) ==
    /\ \/ pc[c] = "read"
       \/ pc[c] = "write"
       \/ pc[c] = "reload" /\ ~ Loadable(file)
    /\ Unlock(c)
    /\ Goto(c, "refused")
    /\ UNCHANGED <<diskVars, live, engine, callVars, askVars, draft>>

-----------------------------------------------------------------------------
(* The user and the watcher. *)

HandEdit(g) ==
    /\ edits < MaxEdits
    /\ edits' = edits + 1
    /\ file' = g
    /\ kept' = {}
    /\ UNCHANGED <<engineVars, pc, callVars, askVars, draft>>

\* watch_loop: a file that does not load keeps the old runtime.
Reload ==
    /\ live < MaxExecutors
    /\ Loadable(file)
    /\ live' = live + 1
    /\ engine' = [engine EXCEPT ![live + 1] = file]
    /\ UNCHANGED <<diskVars, lock, pc, callVars, askVars, draft>>

-----------------------------------------------------------------------------
CallNext(c) ==
    \/ \E e \in Executors : Submit(c, e)
    \/ Check(c)
    \/ AskOwn(c)
    \/ \E q \in asking : Join(c, q)
    \/ \E v \in Verdicts : Answer(c, v)
    \/ TakeDeny(c)
    \/ TakeAllow(c)
    \/ SaveLock(c)
    \/ SaveRead(c)
    \/ SaveWrite(c)
    \/ SaveReload(c)
    \/ SaveFails(c)

Next ==
    \/ \E c \in Calls : CallNext(c)
    \/ \E g \in Edits : HandEdit(g)
    \/ Reload

Spec == Init /\ [][Next]_vars

\* Every task that can run does; a question is answered in the end, since
\* the broker times out (ApprovalBroker!EveryQuestionEnds); the mutex of
\* apply_forever does not starve one of finitely many waiters.
CallFairness(c) ==
    /\ WF_vars(Check(c))
    /\ WF_vars(AskOwn(c) \/ \E q \in asking : Join(c, q))
    /\ WF_vars(\E v \in Verdicts : Answer(c, v))
    /\ WF_vars(TakeDeny(c) \/ TakeAllow(c))
    /\ WF_vars(SaveLock(c))
    /\ WF_vars(SaveRead(c) \/ SaveWrite(c) \/ SaveReload(c) \/ SaveFails(c))

FairSpec == Spec /\ \A c \in Calls : CallFairness(c)

-----------------------------------------------------------------------------
(* Properties. *)

Saving(c) == pc[c] \in {"read", "write", "reload"}

\* Every variable keeps its type, and a call that saves holds the lock of its
\* executor (forever_write_lock) from its read to its reload.
TypeOK ==
    /\ file \in Grants \cup {Broken}
    /\ edits \in 0 .. MaxEdits
    /\ live \in Executors
    /\ engine \in [Executors -> Grants]
    /\ lock \in [Executors -> Calls \cup {No}]
    /\ pc \in [Calls -> PCs]
    /\ home \in [Calls -> 0 .. MaxExecutors]
    /\ decision \in [Calls -> Decisions]
    /\ asked \in [Calls -> 0 .. 3]
    /\ approved \in [Calls -> Approvals]
    /\ missing \in [Calls -> SUBSET Permissions]
    /\ waits \in [Calls -> Questions \cup {NoQuestion}]
    /\ asking \subseteq Questions
    /\ answer \in [Questions -> Verdicts \cup {NoAnswer}]
    /\ draft \in [Calls -> Grants]
    /\ shown \in [Questions -> SUBSET Permissions]
    /\ agreed \in [Calls -> SUBSET (Escalatable \X SUBSET Permissions)]
    /\ kept \subseteq Additions
    /\ \A c \in Calls : Saving(c) => lock[home[c]] = c

Said(c, k) == \E a \in agreed[c] : a[1] = k

\* Every gate of the engine in force is open for c or was asked about and
\* allowed for c.
Permitted(c, g) ==
    /\ ~ Blocked(g, Info[c])
    /\ RunnerUnlisted(g, Info[c]) => Said(c, "Runner")
    /\ Lacks(g, Info[c], {}) # {} => Said(c, "Tool")
    /\ ConfirmGated(g, Info[c]) => Said(c, "Confirm")

\* A call starts to run only when, under the grants its executor has at that
\* moment, no denial blocks it and each question it would raise was answered
\* with an allow for this call, whatever was edited, saved or reloaded while
\* it waited ("every other check still applies", grants.md).
RunsOnlyWhatIsAllowed ==
    [][\A c \in Calls :
          pc[c] = "check" /\ pc'[c] = "running" => Permitted(c, GrantsOf(c))]_vars

\* What an answer adds to a call was named as missing in the question that
\* was answered ("An allow covers what was asked, and nothing more").
CoversOnlyWhatWasShown ==
    \A c \in Calls : approved[c].permissions \subseteq UNION {a[2] : a \in agreed[c]}

\* The loop never gets to its fourth question, which it calls a bug.
NoFourthQuestion == \A c \in Calls : pc[c] # "fourth"

Contains(g, k) ==
    LET i == Info[k.call]
    IN  CASE k.kind = "Tool"    -> k.perms \subseteq g.granted[i.tool]
          [] k.kind = "Confirm" -> i.action \in g.skip
          [] OTHER              -> i.action \in g.runnerActions[i.runner]

\* What "allow forever" wrote stays in grants.toml until the user edits it,
\* however many calls save at the same time.
SavedForeverStays == \A k \in kept : Contains(file, k)

\* Once the save is over, the engine that asked decides by it, so the same
\* request is not asked about again.
SavedIsInForce ==
    \A k \in kept :
        LET e == home[k.call]
        IN  lock[e] = No /\ Loadable(file) => Contains(engine[e], k)

\* A call that is made runs or is refused in the end: no answer, save or
\* joined question leaves it waiting.
EveryCallEnds == \A c \in Calls : pc[c] = "check" ~> pc[c] \in Ended
=============================================================================
