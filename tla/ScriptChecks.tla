---------------------------- MODULE ScriptChecks ----------------------------
(***************************************************************************)
(* What a running script may do: each capability it uses is checked inside *)
(* of its step against the context its coroutine carries, and becomes a    *)
(* question when nothing covers it (check_inline, escalate_binding and     *)
(* tools_resolve_binding of crates/scripting/src/lib.rs, the context that  *)
(* scheduler.rs binds to each step, request_inline_explained of            *)
(* crates/executor/src/lib.rs and the run records of runs.rs).             *)
(*                                                                         *)
(* A request is a capability with its detail: the file, the host, the      *)
(* command line.  What a capability does, the text of a question and who   *)
(* answers it are left out, and so is the code nothing restricts.          *)
(***************************************************************************)
EXTENDS Naturals

CONSTANTS
    Handlers,        \* action handlers and services, driven by their caller
    Asyncs,          \* the coroutines async(fn) makes
    NoTask,
    Runs, NoRun,
    RunOf,           \* the run a handler is called in
    Permissions,
    Kept,            \* files and hosts: an approval covers the rest of the run
    Requests, NoRequest,
    PermOf,          \* the permission a request needs
    Nested,          \* the requests that are calls of other actions
    GrantsOf,        \* what grants.toml gives a handler
    Uses,            \* the requests a task may make
    MaxUses,         \* bound: requests of each task
    Deniable         \* bound: the denials grants.toml may hold

Tasks == Handlers \cup Asyncs

ASSUME TasksAreApart == Handlers \cap Asyncs = {} /\ NoTask \notin Tasks
ASSUME RunsAreApart == NoRun \notin Runs /\ RunOf \in [Handlers -> Runs \cup {NoRun}]
ASSUME RequestsAreKnown ==
    /\ NoRequest \notin Requests /\ Nested \subseteq Requests /\ Kept \subseteq Permissions
    /\ PermOf \in [Requests -> Permissions]
    /\ GrantsOf \in [Handlers -> SUBSET Permissions]
    /\ Uses \in [Tasks -> SUBSET Requests]
ASSUME BoundsAreKnown == MaxUses \in [Tasks -> Nat] /\ Deniable \subseteq Permissions

Verdicts == {"AllowOnce", "AllowForever", "Deny"}

Contexts == [grants : SUBSET Permissions, run : Runs \cup {NoRun},
             pass : Requests \cup {NoRequest}]
NoContext == [grants |-> {}, run |-> NoRun, pass |-> NoRequest]

WithPass(c, r) == [grants |-> c.grants, run |-> c.run, pass |-> r]

Phases == {"unborn", "ready", "running", "acting", "asking", "done"}

VARIABLES
    lua,         \* the task whose step holds the Lua mutex
    active,      \* the context bound to the Lua state
    ctx,         \* the context each driver carries for its coroutine
    phase, call, \* where each task stands, and the request it is making
    left,        \* how many more requests it makes (bound)
    reply,       \* the answer a waiting task has been given
    shares,      \* waiting tasks whose question is the one in the table
    cells,       \* answers in the table of questions, per run and request
    live,        \* runs in flight: those with a record
    allows,      \* permissions a record remembers
    denied,      \* the denials the executor's engine holds
    file,        \* the denials in grants.toml, and the grants saved there
    hooks,       \* what is still wired into the Lua state
    due,         \* history: what each task was given when it was made, and
                 \* the approvals it has not used
    agreed       \* history: runs and permissions somebody has said yes to

stepVars == <<lua, active, ctx>>
taskVars == <<phase, call, left>>
askVars == <<reply, shares, cells>>
ruleVars == <<denied, file, hooks>>
vars == <<stepVars, taskVars, askVars, live, allows, ruleVars, due, agreed>>

Hooks == {"approvals", "denials", "async"}
WithYes(d, y) == [grants |-> d.grants, run |-> d.run, yes |-> y]
NothingDue == [grants |-> {}, run |-> NoRun, yes |-> {}]

Init ==
    /\ lua = NoTask
    /\ active = NoContext
    /\ ctx = [t \in Tasks |-> NoContext]
    /\ phase = [t \in Tasks |-> "unborn"]
    /\ call = [t \in Tasks |-> NoRequest]
    /\ left = MaxUses
    /\ reply = [t \in Tasks |-> "none"]
    /\ shares = {}
    /\ cells = [k \in Runs \X Requests |-> "none"]
    /\ live = Runs
    /\ allows = [r \in Runs |-> {}]
    /\ denied \in SUBSET Deniable
    /\ file = [denied |-> denied, saved |-> {}]
    /\ hooks = Hooks
    /\ due = [t \in Tasks |-> NothingDue]
    /\ agreed = {}

-----------------------------------------------------------------------------
(* Steps and the context they run with.                                    *)

InStep(t) == lua = t /\ phase[t] = "running"

\* A handler is called with the grants of its tool or service.  One of them
\* owns all handlers, so what one question saved every later call is given.
CallHandler(t) ==
    LET g == GrantsOf[t] \cup file.saved IN
    /\ t \in Handlers /\ phase[t] = "unborn" /\ RunOf[t] \in live \cup {NoRun}
    /\ phase' = [phase EXCEPT ![t] = "ready"]
    /\ ctx' = [ctx EXCEPT ![t] = [grants |-> g, run |-> RunOf[t], pass |-> NoRequest]]
    /\ due' = [due EXCEPT ![t] = [grants |-> g, run |-> RunOf[t], yes |-> {}]]
    /\ UNCHANGED <<lua, active, call, left, askVars, live, allows, ruleVars, agreed>>

Resume(t) ==
    /\ lua = NoTask /\ phase[t] = "ready"
    /\ lua' = t
    /\ active' = ctx[t]
    /\ phase' = [phase EXCEPT ![t] = "running"]
    /\ UNCHANGED <<ctx, call, left, askVars, live, allows, ruleVars, due, agreed>>

\* Mutant: the driver goes on with the context it started the step with.
EndStepForgets(t, to) ==
    /\ lua' = NoTask
    /\ active' = NoContext
    /\ phase' = [phase EXCEPT ![t] = to]
    /\ UNCHANGED ctx

\* A step ends: the driver takes the context back, and nothing stays bound.
EndStep(t, to) ==
    /\ lua' = NoTask
    /\ active' = NoContext
    /\ ctx' = [ctx EXCEPT ![t] = active]
    /\ phase' = [phase EXCEPT ![t] = to]

\* The script waits for something that is not a question, or ends.
Pause(t) ==
    /\ InStep(t) /\ call[t] = NoRequest /\ left[t] > 0
    /\ EndStep(t, "ready")
    /\ UNCHANGED <<call, left, askVars, live, allows, ruleVars, due, agreed>>

Finish(t) ==
    /\ InStep(t) /\ call[t] = NoRequest
    /\ EndStep(t, "done")
    /\ UNCHANGED <<call, left, askVars, live, allows, ruleVars, due, agreed>>

\* async(fn): the new coroutine starts with a copy of the bound context.
Spawn(t, u) ==
    /\ InStep(t) /\ call[t] = NoRequest /\ "async" \in hooks
    /\ u \in Asyncs /\ phase[u] = "unborn"
    /\ phase' = [phase EXCEPT ![u] = "ready"]
    /\ ctx' = [ctx EXCEPT ![u] = active]
    /\ due' = [due EXCEPT ![u] = due[t]]
    /\ UNCHANGED <<lua, active, call, left, askVars, live, allows, ruleVars, agreed>>

-----------------------------------------------------------------------------
(* One check.                                                              *)

\* The script makes request r, or repeats it after a yes.
Makes(t, r) ==
    /\ InStep(t)
    /\ \/ call[t] = NoRequest /\ r \in Uses[t] /\ left[t] > 0 /\ reply[t] = "none"
       \/ call[t] = r /\ reply[t] = "yes"

Counted(t) == [left EXCEPT ![t] = IF call[t] = NoRequest THEN @ - 1 ELSE @]

\* Mutant: an approved request is not held against the denials again.
IsDeniedUnlessApproved(r) ==
    "denials" \in hooks /\ PermOf[r] \in denied /\ active.pass # r

IsDenied(r) == "denials" \in hooks /\ PermOf[r] \in denied
IsGranted(r) == PermOf[r] \in active.grants
HasPass(r) == active.pass = r /\ r \notin Nested

RunAllows(r) ==
    /\ r \notin Nested /\ "approvals" \in hooks
    /\ active.run \in live /\ PermOf[r] \in allows[active.run]

\* The request is allowed and the binding does its work.
GoesAhead(t, r) ==
    /\ phase' = [phase EXCEPT ![t] = "acting"]
    /\ call' = [call EXCEPT ![t] = r]
    /\ left' = Counted(t)
    /\ reply' = [reply EXCEPT ![t] = "none"]
    /\ UNCHANGED <<lua, ctx, shares, cells, live, allows, ruleVars, due, agreed>>

\* The call raises an error.
Raises(t, r) ==
    /\ call' = [call EXCEPT ![t] = NoRequest]
    /\ left' = Counted(t)
    /\ reply' = [reply EXCEPT ![t] = "none"]
    /\ UNCHANGED <<stepVars, phase, shares, cells, live, allows, ruleVars, due, agreed>>

RefuseDenied(t, r) ==
    /\ Makes(t, r) /\ IsDenied(r)
    /\ Raises(t, r)

GoGranted(t, r) ==
    /\ Makes(t, r) /\ ~IsDenied(r) /\ IsGranted(r)
    /\ GoesAhead(t, r)
    /\ UNCHANGED active

\* The pass is used up.
GoWithPass(t, r) ==
    /\ Makes(t, r) /\ ~IsDenied(r) /\ ~IsGranted(r) /\ HasPass(r)
    /\ active' = WithPass(active, NoRequest)
    /\ GoesAhead(t, r)

GoAllowedByRun(t, r) ==
    /\ Makes(t, r) /\ ~IsDenied(r) /\ ~IsGranted(r) /\ ~HasPass(r) /\ RunAllows(r)
    /\ GoesAhead(t, r)
    /\ UNCHANGED active

Uncovered(t, r) ==
    Makes(t, r) /\ ~IsDenied(r) /\ ~IsGranted(r) /\ ~HasPass(r) /\ ~RunAllows(r)

\* A nested call never asks, and nobody asks once the hook is gone.
RefuseUncovered(t, r) ==
    /\ Uncovered(t, r) /\ (r \in Nested \/ "approvals" \notin hooks)
    /\ Raises(t, r)

\* The capability has done its work.
Act(t) ==
    /\ lua = t /\ phase[t] = "acting"
    /\ phase' = [phase EXCEPT ![t] = "running"]
    /\ call' = [call EXCEPT ![t] = NoRequest]
    /\ due' = [due EXCEPT ![t] = WithYes(@, IF PermOf[call[t]] \in @.grants
                                               THEN @.yes ELSE @.yes \ {call[t]})]
    /\ UNCHANGED <<stepVars, left, askVars, live, allows, ruleVars, agreed>>

-----------------------------------------------------------------------------
(* Questions.  Identical questions of one run share an answer.             *)

Key(t) == <<ctx[t].run, call[t]>>
InRun(t) == ctx[t].run # NoRun

\* A question joins the one in the table, which may have its answer already.
Escalate(t, r) ==
    /\ Uncovered(t, r) /\ r \notin Nested /\ "approvals" \in hooks
    /\ EndStep(t, "asking")
    /\ call' = [call EXCEPT ![t] = r]
    /\ left' = Counted(t)
    /\ IF active.run = NoRun
         THEN /\ reply' = [reply EXCEPT ![t] = "open"]
              /\ UNCHANGED shares
         ELSE /\ reply' = [reply EXCEPT ![t] =
                              IF cells[<<active.run, r>>] = "none" THEN "open"
                                                               ELSE cells[<<active.run, r>>]]
              /\ shares' = shares \cup {t}
    /\ UNCHANGED <<cells, live, allows, ruleVars, due, agreed>>

IsOpen(t) == phase[t] = "asking" /\ reply[t] = "open"

\* A verdict, a refusal of nobody or the classifier, or a timeout.
Answer(t, v) ==
    LET T == IF InRun(t) THEN {u \in Tasks : IsOpen(u) /\ InRun(u) /\ Key(u) = Key(t)}
                         ELSE {t}
    IN
    /\ IsOpen(t)
    /\ reply' = [u \in Tasks |-> IF u \in T THEN v ELSE reply[u]]
    /\ cells' = IF InRun(t) THEN [cells EXCEPT ![Key(t)] = v] ELSE cells
    /\ UNCHANGED <<stepVars, taskVars, shares, live, allows, ruleVars, due, agreed>>

\* The first to come back takes the question out of the table.
LeavesTable(t) ==
    IF t \in shares
      THEN /\ cells' = [cells EXCEPT ![Key(t)] = "none"]
           /\ shares' = {u \in shares : Key(u) # Key(t)}
      ELSE UNCHANGED <<cells, shares>>

\* Mutant: a yes to one request is remembered for every permission.
RemembersAll(t) ==
    allows' = [r \in Runs |-> IF r = ctx[t].run THEN allows[r] \cup {PermOf[call[t]]}
                                                ELSE allows[r]]

\* Files and hosts stay allowed while the run has a record.
Remembers(t) ==
    allows' = [r \in Runs |->
                 IF r = ctx[t].run /\ r \in live /\ PermOf[call[t]] \in Kept
                   THEN allows[r] \cup {PermOf[call[t]]} ELSE allows[r]]

\* "Forever" is saved, and the engine is loaded from the file again.
SavesForever(t) ==
    /\ file' = [denied |-> file.denied, saved |-> file.saved \cup {PermOf[call[t]]}]
    /\ denied' = file.denied

TakeYes(t) ==
    /\ phase[t] = "asking" /\ reply[t] \in {"AllowOnce", "AllowForever"}
    /\ LeavesTable(t)
    /\ Remembers(t)
    /\ \/ reply[t] = "AllowForever" /\ SavesForever(t)
       \/ UNCHANGED <<file, denied>>
    /\ ctx' = [ctx EXCEPT ![t] = WithPass(@, call[t])]
    /\ reply' = [reply EXCEPT ![t] = "yes"]
    /\ phase' = [phase EXCEPT ![t] = "ready"]
    /\ due' = [due EXCEPT ![t] = WithYes(@, @.yes \cup {call[t]})]
    /\ agreed' = agreed \cup {<<ctx[t].run, PermOf[call[t]]>>}
    /\ UNCHANGED <<lua, active, call, left, live, hooks>>

TakeNo(t) ==
    /\ phase[t] = "asking" /\ reply[t] = "Deny"
    /\ LeavesTable(t)
    /\ reply' = [reply EXCEPT ![t] = "no"]
    /\ phase' = [phase EXCEPT ![t] = "ready"]
    /\ UNCHANGED <<stepVars, call, left, live, allows, ruleVars, due, agreed>>

\* A no raises its error in the script.
RaiseNo(t) ==
    /\ InStep(t) /\ reply[t] = "no"
    /\ Raises(t, call[t])

-----------------------------------------------------------------------------
(* What happens around the scripts.                                        *)

\* A caller that goes away drops its handler at the next wait.
Drop(t) ==
    /\ t \in Handlers /\ phase[t] \in {"ready", "asking"}
    /\ phase' = [phase EXCEPT ![t] = "done"]
    /\ call' = [call EXCEPT ![t] = NoRequest]
    /\ reply' = [reply EXCEPT ![t] = "none"]
    /\ shares' = shares \ {t}
    /\ UNCHANGED <<stepVars, left, cells, live, allows, ruleVars, due, agreed>>

\* A run ends with its last handler; its background tasks go on.
EndRun(r) ==
    /\ r \in live
    /\ \A t \in Handlers : RunOf[t] = r => phase[t] \in {"unborn", "done"}
    /\ live' = live \ {r}
    /\ allows' = [allows EXCEPT ![r] = {}]
    /\ UNCHANGED <<stepVars, taskVars, askVars, ruleVars, due, agreed>>

\* Somebody writes a denial into grants.toml.
AddDenial(p) ==
    /\ p \notin file.denied
    /\ file' = [denied |-> file.denied \cup {p}, saved |-> file.saved]
    /\ UNCHANGED <<stepVars, taskVars, askVars, live, allows, denied, hooks, due, agreed>>

\* An allow-forever of another call loads the file again.
SavedElsewhere ==
    /\ denied # file.denied
    /\ denied' = file.denied
    /\ UNCHANGED <<stepVars, taskVars, askVars, live, allows, file, hooks, due, agreed>>

\* A hot reload unhooks the old Lua state, one hook at a time, between steps.
Unhooked ==
    IF "approvals" \in hooks THEN hooks \ {"approvals"}
    ELSE IF "denials" \in hooks THEN hooks \ {"denials"} ELSE {}
Teardown ==
    /\ lua = NoTask /\ hooks # {}
    /\ hooks' = Unhooked
    /\ UNCHANGED <<stepVars, taskVars, askVars, live, allows, denied, file, due, agreed>>

-----------------------------------------------------------------------------
Check(t, r) ==
    \/ RefuseDenied(t, r) \/ GoGranted(t, r) \/ GoWithPass(t, r)
    \/ GoAllowedByRun(t, r) \/ RefuseUncovered(t, r) \/ Escalate(t, r)

TaskStep(t) ==
    \/ CallHandler(t) \/ Resume(t) \/ Pause(t) \/ Finish(t) \/ Act(t)
    \/ TakeYes(t) \/ TakeNo(t) \/ RaiseNo(t) \/ Drop(t)
    \/ \E u \in Asyncs : Spawn(t, u)
    \/ \E r \in Requests : Check(t, r)
    \/ \E v \in Verdicts : Answer(t, v)

Next ==
    \/ \E t \in Tasks : TaskStep(t)
    \/ \E r \in Runs : EndRun(r)
    \/ \E p \in Deniable : AddDenial(p)
    \/ SavedElsewhere
    \/ Teardown

Spec == Init /\ [][Next]_vars

-----------------------------------------------------------------------------
(* Properties.                                                             *)

TypeOK ==
    /\ lua \in Tasks \cup {NoTask}
    /\ active \in Contexts
    /\ ctx \in [Tasks -> Contexts]
    /\ phase \in [Tasks -> Phases]
    /\ call \in [Tasks -> Requests \cup {NoRequest}]
    /\ left \in [Tasks -> Nat]
    /\ reply \in [Tasks -> {"none", "open", "yes", "no"} \cup Verdicts]
    /\ shares \subseteq Tasks
    /\ cells \in [Runs \X Requests -> {"none"} \cup Verdicts]
    /\ live \subseteq Runs
    /\ allows \in [Runs -> SUBSET Kept]
    /\ denied \subseteq Permissions
    /\ file \in [denied : SUBSET Permissions, saved : SUBSET Permissions]
    /\ hooks \subseteq Hooks
    /\ due \in [Tasks -> [grants : SUBSET Permissions, run : Runs \cup {NoRun},
                          yes : SUBSET Requests]]
    /\ agreed \subseteq (Runs \cup {NoRun}) \X Permissions

Acts(t) == phase[t] = "running" /\ phase'[t] = "acting"

\* A script does only what its own call was granted, what somebody allowed it
\* and it has not done since, or a file or host its run was allowed while the
\* run is in flight: never what another coroutine that took a step in between
\* was given (check_inline, ActiveContext in scheduler.rs, runs.rs).
ActsOnlyWhenCovered ==
    [][\A t \in Tasks : Acts(t) =>
         LET r == call'[t] IN
         \/ PermOf[r] \in due[t].grants
         \/ r \in due[t].yes
         \/ PermOf[r] \in Kept /\ due[t].run \in live
              /\ <<due[t].run, PermOf[r]>> \in agreed]_vars

\* While the denials are wired, nothing the engine denies is done, not even
\* with an approval that was asked for before the denial (refuse_if_denied).
ApprovalsCannotUnblock ==
    [][\A t \in Tasks : Acts(t) /\ "denials" \in hooks =>
         PermOf[call'[t]] \notin denied]_vars
=============================================================================
