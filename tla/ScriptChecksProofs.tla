------------------------- MODULE ScriptChecksProofs -------------------------
(***************************************************************************)
(* Why a script does only what it is covered for, for any tasks, runs,     *)
(* requests and grants.  The inductive invariant ties each context, bound  *)
(* or carried by a driver, to what its coroutine is due, and each record's *)
(* allows to somebody's yes.                                               *)
(***************************************************************************)
EXTENDS ScriptChecks, TLAPS

\* Context c gives task t what it is due and no more.
Fits(t, c) ==
    /\ c.grants = due[t].grants
    /\ c.run = due[t].run
    /\ c.pass = NoRequest \/ c.pass \in due[t].yes

Carried == \A t \in Tasks : phase[t] \in {"ready", "asking"} => Fits(t, ctx[t])

\* The context bound to a step is that of the task whose step it is, and the
\* pass it used to go ahead is gone.
Bound ==
    \A t \in Tasks : phase[t] \in {"running", "acting"} =>
        /\ lua = t
        /\ Fits(t, active)
        /\ phase[t] = "acting" =>
             /\ call[t] \in Requests
             /\ active.pass # call[t] \/ PermOf[call[t]] \in due[t].grants

Holder == lua # NoTask => phase[lua] \in {"running", "acting"}

Answered == \A t \in Tasks : reply[t] # "none" =>
    call[t] \in Requests /\ phase[t] \in {"ready", "running", "asking"}

Remembered ==
    \A r \in Runs : \A p \in allows[r] : r \in live /\ p \in Kept /\ <<r, p>> \in agreed

Asking == \A t \in Tasks : phase[t] = "asking" => call[t] \in Requests

Dues == [grants : SUBSET Permissions, run : Runs \cup {NoRun}, yes : SUBSET Requests]

IInv == TypeOK /\ Carried /\ Bound /\ Holder /\ Answered /\ Asking /\ Remembered

USE TasksAreApart, RunsAreApart, RequestsAreKnown, BoundsAreKnown DEF Tasks

-----------------------------------------------------------------------------
LEMMA InitIInv == Init => IInv
<1> SUFFICES ASSUME Init PROVE IInv
  OBVIOUS
<1>1. TypeOK
  BY DEF Init, TypeOK, NoContext, Contexts, Phases, NothingDue, Hooks
<1>2. Carried /\ Bound /\ Holder /\ Answered /\ Asking /\ Remembered
  BY DEF Init, Carried, Bound, Holder, Answered, Asking, Remembered
<1> QED
  BY <1>1, <1>2 DEF IInv

\* The fields of contexts and of what is due have their types.
LEMMA Fields ==
    ASSUME TypeOK, NEW t \in Tasks
    PROVE  /\ ctx[t] \in Contexts /\ active \in Contexts
           /\ ctx[t].grants \in SUBSET Permissions /\ ctx[t].run \in Runs \cup {NoRun}
           /\ active.grants \in SUBSET Permissions /\ active.run \in Runs \cup {NoRun}
           /\ due[t].grants \in SUBSET Permissions /\ due[t].run \in Runs \cup {NoRun}
           /\ due[t].yes \in SUBSET Requests
           /\ file.denied \in SUBSET Permissions /\ file.saved \in SUBSET Permissions
BY DEF TypeOK, Contexts

LEMMA PassType ==
    ASSUME TypeOK, NEW t \in Tasks, NEW r \in Requests \cup {NoRequest}
    PROVE  WithPass(ctx[t], r) \in Contexts /\ WithPass(active, r) \in Contexts
BY Fields DEF WithPass, Contexts

LEMMA YesType ==
    ASSUME TypeOK, NEW t \in Tasks, NEW y \in SUBSET Requests
    PROVE  WithYes(due[t], y) \in Dues
BY Fields DEF WithYes, Dues

LEMMA CountedType ==
    ASSUME TypeOK, NEW t \in Tasks, left[t] > 0 \/ call[t] # NoRequest
    PROVE  Counted(t) \in [Tasks -> Nat]
BY DEF TypeOK, Counted

LEMMA EndStepType ==
    ASSUME TypeOK, NEW t \in Tasks, NEW to \in Phases, EndStep(t, to)
    PROVE  /\ lua' \in Tasks \cup {NoTask} /\ active' \in Contexts
           /\ ctx' \in [Tasks -> Contexts] /\ phase' \in [Tasks -> Phases]
BY DEF TypeOK, EndStep, NoContext, Contexts

-----------------------------------------------------------------------------
(* Steps that begin and end.                                               *)

LEMMA CallHandlerKeeps ==
    ASSUME IInv, NEW t \in Tasks, CallHandler(t)
    PROVE  IInv'
<1> DEFINE g == GrantsOf[t] \cup file.saved
<1>0. TypeOK
  BY DEF IInv
<1>1. /\ t \in Handlers /\ g \in SUBSET Permissions /\ RunOf[t] \in Runs \cup {NoRun}
      /\ phase' = [phase EXCEPT ![t] = "ready"]
      /\ ctx' = [ctx EXCEPT ![t] = [grants |-> g, run |-> RunOf[t], pass |-> NoRequest]]
      /\ due' = [due EXCEPT ![t] = [grants |-> g, run |-> RunOf[t], yes |-> {}]]
      /\ phase[t] = "unborn"
      /\ UNCHANGED <<lua, active, call, left, askVars, live, allows, ruleVars, agreed>>
  BY <1>0, Fields DEF CallHandler
<1> HIDE DEF g
<1>2. TypeOK'
  BY <1>0, <1>1 DEF TypeOK, Contexts, Phases, askVars, ruleVars
<1>3. Carried' /\ Asking'
  BY <1>0, <1>1 DEF IInv, TypeOK, Carried, Asking, Fits, askVars
<1>4. Bound' /\ Holder'
  BY <1>0, <1>1 DEF IInv, TypeOK, Bound, Holder, Fits, askVars
<1>5. Answered' /\ Remembered'
  BY <1>0, <1>1 DEF IInv, TypeOK, Answered, Remembered, askVars
<1> QED
  BY <1>2, <1>3, <1>4, <1>5 DEF IInv

LEMMA ResumeKeeps ==
    ASSUME IInv, NEW t \in Tasks, Resume(t)
    PROVE  IInv'
<1>0. TypeOK
  BY DEF IInv
<1>2. TypeOK'
  BY <1>0, Fields DEF Resume, TypeOK, Phases, askVars, ruleVars
<1>3. Carried' /\ Asking'
  BY <1>0 DEF Resume, IInv, TypeOK, Carried, Asking, Fits, askVars
<1>4. Bound' /\ Holder'
  BY <1>0, TasksAreApart DEF Resume, IInv, TypeOK, Carried, Bound, Holder, Fits, askVars
<1>5. Answered' /\ Remembered'
  BY <1>0 DEF Resume, IInv, TypeOK, Answered, Remembered, askVars
<1> QED
  BY <1>2, <1>3, <1>4, <1>5 DEF IInv

LEMMA PauseKeeps ==
    ASSUME IInv, NEW t \in Tasks, Pause(t) \/ Finish(t)
    PROVE  IInv'
<1>0. TypeOK /\ lua = t
  BY DEF IInv, Pause, Finish, InStep
<1>1. PICK to \in {"ready", "done"} : EndStep(t, to)
  BY DEF Pause, Finish
<1>2. /\ phase[t] = "running" /\ call[t] = NoRequest
      /\ UNCHANGED <<call, left, askVars, live, allows, ruleVars, due, agreed>>
  BY DEF Pause, Finish, InStep
<1>3. TypeOK'
  BY <1>0, <1>1, <1>2, EndStepType DEF TypeOK, Phases, askVars, ruleVars
<1>4. Carried' /\ Asking'
  BY <1>0, <1>1, <1>2 DEF EndStep, IInv, TypeOK, Carried, Asking, Bound, Fits, askVars
<1>5. Bound' /\ Holder'
  BY <1>0, <1>1, <1>2 DEF EndStep, IInv, TypeOK, Bound, Holder, askVars
<1>6. Answered' /\ Remembered'
  BY <1>0, <1>1, <1>2 DEF EndStep, IInv, TypeOK, Answered, Remembered, askVars
<1> QED
  BY <1>3, <1>4, <1>5, <1>6 DEF IInv

LEMMA SpawnKeeps ==
    ASSUME IInv, NEW t \in Tasks, NEW u \in Asyncs, Spawn(t, u)
    PROVE  IInv'
<1>0. TypeOK /\ u \in Tasks /\ u # t /\ Fits(t, active)
  BY DEF IInv, Bound, Spawn, InStep
<1>2. TypeOK'
  BY <1>0, Fields DEF Spawn, TypeOK, Phases, askVars, ruleVars
<1>3. Carried' /\ Asking'
  BY <1>0 DEF Spawn, IInv, TypeOK, Carried, Asking, Fits, askVars
<1>4. Bound' /\ Holder'
  BY <1>0 DEF Spawn, InStep, IInv, TypeOK, Bound, Holder, Fits, askVars
<1>5. Answered' /\ Remembered'
  BY <1>0 DEF Spawn, IInv, TypeOK, Answered, Remembered, askVars
<1> QED
  BY <1>2, <1>3, <1>4, <1>5 DEF IInv

-----------------------------------------------------------------------------
(* Steps of a check.                                                       *)

\* Whoever makes a request has the step, a request to make and one left.
LEMMA MakesFacts ==
    ASSUME IInv, NEW t \in Tasks, NEW r \in Requests, Makes(t, r)
    PROVE  /\ TypeOK /\ lua = t /\ phase[t] = "running" /\ Fits(t, active)
           /\ Counted(t) \in [Tasks -> Nat]
<1>1. TypeOK /\ lua = t /\ phase[t] = "running" /\ Fits(t, active)
  BY DEF IInv, Bound, Makes, InStep
<1>2. left[t] > 0 \/ call[t] # NoRequest
  BY DEF Makes
<1> QED
  BY <1>1, <1>2, CountedType

LEMMA RaisesKeeps ==
    ASSUME IInv, NEW t \in Tasks, NEW r \in Requests \cup {NoRequest},
           InStep(t), Counted(t) \in [Tasks -> Nat], Raises(t, r)
    PROVE  IInv'
<1>0. TypeOK
  BY DEF IInv
<1>1. TypeOK'
  BY <1>0 DEF Raises, TypeOK, Phases, stepVars, ruleVars
<1>2. Carried' /\ Asking'
  BY <1>0 DEF Raises, InStep, IInv, TypeOK, Carried, Asking, Fits, stepVars
<1>3. Bound' /\ Holder'
  BY <1>0 DEF Raises, InStep, IInv, TypeOK, Bound, Holder, Fits, stepVars
<1>4. Answered' /\ Remembered'
  BY <1>0 DEF Raises, IInv, TypeOK, Answered, Remembered
<1> QED
  BY <1>1, <1>2, <1>3, <1>4 DEF IInv

LEMMA RaiseNoKeeps ==
    ASSUME IInv, NEW t \in Tasks, RaiseNo(t)
    PROVE  IInv'
<1>1. TypeOK /\ call[t] \in Requests
  BY DEF IInv, Answered, RaiseNo
<1>2. Counted(t) \in [Tasks -> Nat]
  BY <1>1, CountedType
<1> QED
  BY <1>1, <1>2, RaisesKeeps DEF RaiseNo

LEMMA RefuseKeeps ==
    ASSUME IInv, NEW t \in Tasks, NEW r \in Requests,
           RefuseDenied(t, r) \/ RefuseUncovered(t, r)
    PROVE  IInv'
<1>1. Makes(t, r) /\ Raises(t, r) /\ InStep(t)
  BY DEF RefuseDenied, RefuseUncovered, Uncovered, Makes
<1> QED
  BY <1>1, MakesFacts, RaisesKeeps

\* The binding does its work with the pass gone, or needs none.
LEMMA GoesAheadKeeps ==
    ASSUME IInv, NEW t \in Tasks, NEW r \in Requests, Makes(t, r), GoesAhead(t, r),
           active' \in Contexts, Fits(t, active)',
           active'.pass # r \/ PermOf[r] \in due[t].grants
    PROVE  IInv'
<1>0. TypeOK /\ lua = t /\ phase[t] = "running" /\ Counted(t) \in [Tasks -> Nat]
  BY MakesFacts
<1>1. TypeOK'
  BY <1>0 DEF GoesAhead, TypeOK, Phases, ruleVars
<1>2. Carried' /\ Asking'
  BY <1>0 DEF GoesAhead, IInv, TypeOK, Carried, Asking, Fits
<1>3. Bound'
  <2> SUFFICES ASSUME NEW s \in Tasks, phase'[s] \in {"running", "acting"}
               PROVE  /\ lua' = s
                      /\ Fits(s, active)'
                      /\ phase'[s] = "acting" =>
                           /\ call'[s] \in Requests
                           /\ active'.pass # call'[s] \/ PermOf[call'[s]] \in due'[s].grants
    BY DEF Bound
  <2>1. s = t
    BY <1>0 DEF GoesAhead, IInv, TypeOK, Bound
  <2> QED
    BY <1>0, <2>1 DEF GoesAhead, IInv, TypeOK
<1>4. Holder'
  BY <1>0 DEF GoesAhead, IInv, TypeOK, Holder
<1>5. Answered' /\ Remembered'
  BY <1>0 DEF GoesAhead, IInv, TypeOK, Answered, Remembered
<1> QED
  BY <1>1, <1>2, <1>3, <1>4, <1>5 DEF IInv

LEMMA GoKeeps ==
    ASSUME IInv, NEW t \in Tasks, NEW r \in Requests,
           GoGranted(t, r) \/ GoWithPass(t, r) \/ GoAllowedByRun(t, r)
    PROVE  IInv'
<1>1. Makes(t, r) /\ GoesAhead(t, r)
  BY DEF GoGranted, GoWithPass, GoAllowedByRun
<1>2. TypeOK /\ Fits(t, active) /\ due' = due
  BY <1>1, MakesFacts DEF GoesAhead
<1>3. CASE GoGranted(t, r)
  <2>1. active' = active /\ PermOf[r] \in active.grants
    BY <1>3 DEF GoGranted, IsGranted
  <2>2. active' \in Contexts /\ Fits(t, active)'
    BY <1>2, <2>1 DEF Fits, TypeOK
  <2>3. PermOf[r] \in due[t].grants
    BY <1>2, <2>1 DEF Fits
  <2> QED
    BY <1>1, <2>2, <2>3, GoesAheadKeeps
<1>4. CASE GoWithPass(t, r)
  <2>1. active' = WithPass(active, NoRequest)
    BY <1>4 DEF GoWithPass
  <2>2. active' \in Contexts
    BY <1>2, <2>1, PassType
  <2>3. Fits(t, active)' /\ active'.pass # r
    BY <1>2, <2>1, RequestsAreKnown DEF Fits, WithPass
  <2> QED
    BY <1>1, <2>2, <2>3, GoesAheadKeeps
<1>5. CASE GoAllowedByRun(t, r)
  <2>1. active' = active /\ active.pass # r
    BY <1>5 DEF GoAllowedByRun, HasPass, RunAllows
  <2>2. active' \in Contexts /\ Fits(t, active)'
    BY <1>2, <2>1 DEF Fits, TypeOK
  <2> QED
    BY <1>1, <2>1, <2>2, GoesAheadKeeps
<1> QED
  BY <1>3, <1>4, <1>5

LEMMA ActKeeps ==
    ASSUME IInv, NEW t \in Tasks, Act(t)
    PROVE  IInv'
<1>1. /\ TypeOK /\ Fits(t, active) /\ call[t] \in Requests
      /\ active.pass # call[t] \/ PermOf[call[t]] \in due[t].grants
  BY DEF IInv, Bound, Act
<1> DEFINE y == IF PermOf[call[t]] \in due[t].grants
                  THEN due[t].yes ELSE due[t].yes \ {call[t]}
<1>2. y \in SUBSET Requests
  BY <1>1, Fields
<1>3. due' = [due EXCEPT ![t] = WithYes(due[t], y)]
  BY <1>1 DEF Act, TypeOK
<1>4. active.pass = NoRequest \/ active.pass \in y
  BY <1>1 DEF Fits
<1> HIDE DEF y
<1>5. /\ due'[t].grants = due[t].grants /\ due'[t].run = due[t].run /\ due'[t].yes = y
      /\ \A s \in Tasks \ {t} : due'[s] = due[s]
  BY <1>1, <1>3 DEF TypeOK, WithYes
<1>6. TypeOK'
  <2>1. due' \in [Tasks -> Dues]
    BY <1>1, <1>2, <1>3, YesType DEF TypeOK, Dues
  <2> QED
    BY <1>1, <2>1 DEF Act, TypeOK, Dues, Phases, stepVars, askVars, ruleVars
<1>7. Carried' /\ Asking'
  BY <1>1, <1>5 DEF Act, IInv, TypeOK, Carried, Asking, Fits, stepVars
<1>8. Bound' /\ Holder'
  BY <1>1, <1>4, <1>5 DEF Act, IInv, TypeOK, Bound, Holder, Fits, stepVars
<1>9. Answered' /\ Remembered'
  BY <1>1 DEF Act, IInv, TypeOK, Answered, Remembered, askVars
<1> QED
  BY <1>6, <1>7, <1>8, <1>9 DEF IInv

-----------------------------------------------------------------------------
(* Questions.                                                              *)

LEMMA EscalateKeeps ==
    ASSUME IInv, NEW t \in Tasks, NEW r \in Requests, Escalate(t, r)
    PROVE  IInv'
<1>0. /\ TypeOK /\ lua = t /\ phase[t] = "running" /\ Fits(t, active)
      /\ Counted(t) \in [Tasks -> Nat]
  BY MakesFacts DEF Escalate, Uncovered
<1>1. /\ EndStep(t, "asking")
      /\ call' = [call EXCEPT ![t] = r] /\ left' = Counted(t)
      /\ UNCHANGED <<cells, live, allows, ruleVars, due, agreed>>
  BY DEF Escalate
<1>2. /\ reply' \in [Tasks -> {"none", "open", "yes", "no"} \cup Verdicts]
      /\ \A s \in Tasks \ {t} : reply'[s] = reply[s]
      /\ shares' \subseteq Tasks
  <2>1. CASE active.run = NoRun
    BY <1>0, <2>1 DEF Escalate, TypeOK
  <2>2. CASE active.run # NoRun
    <3>1. cells[<<active.run, r>>] \in {"none"} \cup Verdicts
      BY <1>0, <2>2, Fields DEF TypeOK
    <3> QED
      BY <1>0, <2>2, <3>1 DEF Escalate, TypeOK
  <2> QED
    BY <2>1, <2>2
<1>3. TypeOK'
  BY <1>0, <1>1, <1>2, EndStepType DEF TypeOK, Phases, ruleVars
<1>4. Carried' /\ Asking'
  BY <1>0, <1>1 DEF EndStep, IInv, TypeOK, Carried, Asking, Fits
<1>5. Bound' /\ Holder'
  BY <1>0, <1>1 DEF EndStep, IInv, TypeOK, Bound, Holder
<1>6. Answered' /\ Remembered'
  BY <1>0, <1>1, <1>2 DEF EndStep, IInv, TypeOK, Answered, Remembered
<1> QED
  BY <1>3, <1>4, <1>5, <1>6 DEF IInv

\* Those an answer is for.
ForThem(t) ==
    IF InRun(t) THEN {u \in Tasks : IsOpen(u) /\ InRun(u) /\ Key(u) = Key(t)} ELSE {t}

LEMMA AnswerKeeps ==
    ASSUME IInv, NEW t \in Tasks, NEW v \in Verdicts, Answer(t, v)
    PROVE  IInv'
<1>1. /\ TypeOK
      /\ reply' = [u \in Tasks |-> IF u \in ForThem(t) THEN v ELSE reply[u]]
      /\ cells' = IF InRun(t) THEN [cells EXCEPT ![Key(t)] = v] ELSE cells
      /\ UNCHANGED <<stepVars, taskVars, shares, live, allows, ruleVars, due, agreed>>
  BY DEF IInv, Answer, ForThem
<1>2. \A u \in ForThem(t) : IsOpen(u)
  BY DEF Answer, ForThem
<1>3. TypeOK'
  BY <1>1 DEF TypeOK, stepVars, taskVars, ruleVars
<1>4. Carried' /\ Asking' /\ Bound' /\ Holder' /\ Remembered'
  BY <1>1 DEF IInv, Carried, Asking, Bound, Holder, Remembered, Fits, stepVars, taskVars
<1>5. Answered'
  BY <1>1, <1>2 DEF IInv, TypeOK, Answered, IsOpen, taskVars
<1> QED
  BY <1>3, <1>4, <1>5 DEF IInv

LEMMA LeavesTableType ==
    ASSUME TypeOK, NEW t \in Tasks, LeavesTable(t)
    PROVE  cells' \in [Runs \X Requests -> {"none"} \cup Verdicts] /\ shares' \subseteq Tasks
BY DEF TypeOK, LeavesTable

LEMMA TakeYesKeeps ==
    ASSUME IInv, NEW t \in Tasks, TakeYes(t)
    PROVE  IInv'
<1>0. /\ TypeOK /\ call[t] \in Requests /\ PermOf[call[t]] \in Permissions
      /\ phase[t] = "asking" /\ lua # t /\ Fits(t, ctx[t])
  BY RequestsAreKnown, TasksAreApart DEF IInv, Asking, Carried, Holder, TakeYes
<1> DEFINE y == due[t].yes \cup {call[t]}
<1>1. y \in SUBSET Requests /\ call[t] \in y /\ due[t].yes \subseteq y
  BY <1>0, Fields
<1>2. due' = [due EXCEPT ![t] = WithYes(due[t], y)]
  BY <1>0 DEF TakeYes, TypeOK
<1> HIDE DEF y
<1>3. /\ due'[t].grants = due[t].grants /\ due'[t].run = due[t].run /\ due'[t].yes = y
      /\ \A s \in Tasks \ {t} : due'[s] = due[s]
  BY <1>0, <1>2 DEF TypeOK, WithYes
<1>4. /\ ctx' = [ctx EXCEPT ![t] = WithPass(ctx[t], call[t])]
      /\ reply' = [reply EXCEPT ![t] = "yes"] /\ phase' = [phase EXCEPT ![t] = "ready"]
      /\ UNCHANGED <<lua, active, call, left, live, hooks>>
  BY <1>0 DEF TakeYes, TypeOK
<1>5. /\ ctx'[t].grants = ctx[t].grants /\ ctx'[t].run = ctx[t].run /\ ctx'[t].pass = call[t]
      /\ \A s \in Tasks \ {t} : ctx'[s] = ctx[s]
  BY <1>0, <1>4 DEF TypeOK, WithPass
<1>6. /\ Remembers(t) /\ LeavesTable(t)
      /\ agreed' = agreed \cup {<<ctx[t].run, PermOf[call[t]]>>}
  BY DEF TakeYes
<1>7. TypeOK'
  <2>1. due' \in [Tasks -> Dues]
    BY <1>0, <1>1, <1>2, YesType DEF TypeOK, Dues
  <2>2. ctx' \in [Tasks -> Contexts]
    BY <1>0, <1>4, PassType DEF TypeOK
  <2>3. allows' \in [Runs -> SUBSET Kept]
    BY <1>0, <1>6 DEF Remembers, TypeOK
  <2>4. agreed' \subseteq (Runs \cup {NoRun}) \X Permissions
    BY <1>0, <1>6, Fields DEF TypeOK
  <2>5. /\ denied' \subseteq Permissions
        /\ file' \in [denied : SUBSET Permissions, saved : SUBSET Permissions]
    BY <1>0, Fields DEF TakeYes, SavesForever, TypeOK
  <2>6. cells' \in [Runs \X Requests -> {"none"} \cup Verdicts] /\ shares' \subseteq Tasks
    BY <1>0, <1>6, LeavesTableType
  <2> QED
    BY <1>0, <1>4, <2>1, <2>2, <2>3, <2>4, <2>5, <2>6 DEF TypeOK, Dues, Phases
<1>8. Carried' /\ Asking'
  BY <1>0, <1>1, <1>3, <1>4, <1>5 DEF IInv, TypeOK, Carried, Asking, Fits
<1>9. Bound' /\ Holder'
  BY <1>0, <1>3, <1>4 DEF IInv, TypeOK, Bound, Holder, Fits
<1>10. Answered'
  BY <1>0, <1>4 DEF IInv, TypeOK, Answered
<1>11. Remembered'
  BY <1>0, <1>4, <1>6 DEF IInv, TypeOK, Remembered, Remembers
<1> QED
  BY <1>7, <1>8, <1>9, <1>10, <1>11 DEF IInv

LEMMA TakeNoKeeps ==
    ASSUME IInv, NEW t \in Tasks, TakeNo(t)
    PROVE  IInv'
<1>0. TypeOK /\ call[t] \in Requests /\ lua # t
  BY TasksAreApart DEF IInv, Asking, Holder, TakeNo
<1>1. /\ phase[t] = "asking"
      /\ phase' = [phase EXCEPT ![t] = "ready"] /\ reply' = [reply EXCEPT ![t] = "no"]
      /\ UNCHANGED <<stepVars, call, left, live, allows, ruleVars, due, agreed>>
  BY DEF TakeNo
<1>2. TypeOK'
  <2>1. cells' \in [Runs \X Requests -> {"none"} \cup Verdicts] /\ shares' \subseteq Tasks
    BY <1>0, LeavesTableType DEF TakeNo
  <2> QED
    BY <1>0, <1>1, <2>1 DEF TypeOK, Phases, stepVars, ruleVars
<1>3. Carried' /\ Asking'
  BY <1>0, <1>1 DEF IInv, TypeOK, Carried, Asking, Fits, stepVars
<1>4. Bound' /\ Holder'
  BY <1>0, <1>1 DEF IInv, TypeOK, Bound, Holder, Fits, stepVars
<1>5. Answered' /\ Remembered'
  BY <1>0, <1>1 DEF IInv, TypeOK, Answered, Remembered
<1> QED
  BY <1>2, <1>3, <1>4, <1>5 DEF IInv

-----------------------------------------------------------------------------
(* What happens around the scripts.                                        *)

LEMMA DropKeeps ==
    ASSUME IInv, NEW t \in Tasks, Drop(t)
    PROVE  IInv'
<1>0. TypeOK /\ lua # t
  BY TasksAreApart DEF IInv, Holder, Drop
<1>1. TypeOK'
  BY <1>0 DEF Drop, TypeOK, Phases, stepVars, ruleVars
<1>2. Carried' /\ Asking'
  BY <1>0 DEF Drop, IInv, TypeOK, Carried, Asking, Fits, stepVars
<1>3. Bound' /\ Holder'
  BY <1>0 DEF Drop, IInv, TypeOK, Bound, Holder, Fits, stepVars
<1>4. Answered' /\ Remembered'
  BY <1>0 DEF Drop, IInv, TypeOK, Answered, Remembered
<1> QED
  BY <1>1, <1>2, <1>3, <1>4 DEF IInv

LEMMA EndRunKeeps ==
    ASSUME IInv, NEW r \in Runs, EndRun(r)
    PROVE  IInv'
<1>1. TypeOK'
  BY DEF EndRun, IInv, TypeOK, stepVars, taskVars, askVars, ruleVars
<1>2. Carried' /\ Asking' /\ Bound' /\ Holder' /\ Answered'
  BY DEF EndRun, IInv, Carried, Asking, Bound, Holder, Answered, Fits,
         stepVars, taskVars, askVars
<1>3. Remembered'
  BY DEF EndRun, IInv, TypeOK, Remembered
<1> QED
  BY <1>1, <1>2, <1>3 DEF IInv

\* Denials and hooks come and go, and nothing else does.
RulesChange == (\E p \in Deniable : AddDenial(p)) \/ SavedElsewhere \/ Teardown

LEMMA RulesChangeKeeps ==
    ASSUME IInv, RulesChange
    PROVE  IInv'
<1>0. TypeOK
  BY DEF IInv
<1>1. UNCHANGED <<stepVars, taskVars, askVars, live, allows, due, agreed>>
  BY DEF RulesChange, AddDenial, SavedElsewhere, Teardown
<1>2. /\ denied' \subseteq Permissions /\ hooks' \subseteq Hooks
      /\ file' \in [denied : SUBSET Permissions, saved : SUBSET Permissions]
  <2>1. CASE \E p \in Deniable : AddDenial(p)
    BY <1>0, <2>1, Fields, BoundsAreKnown DEF AddDenial, TypeOK, ruleVars
  <2>2. CASE SavedElsewhere
    BY <1>0, <2>2 DEF SavedElsewhere, TypeOK
  <2>3. CASE Teardown
    BY <1>0, <2>3 DEF Teardown, Unhooked, TypeOK
  <2> QED
    BY <2>1, <2>2, <2>3 DEF RulesChange
<1>3. TypeOK'
  BY <1>0, <1>1, <1>2 DEF TypeOK, stepVars, taskVars, askVars
<1>4. Carried' /\ Asking' /\ Bound' /\ Holder' /\ Answered' /\ Remembered'
  BY <1>1 DEF IInv, Carried, Asking, Bound, Holder, Answered, Remembered, Fits,
              stepVars, taskVars, askVars
<1> QED
  BY <1>3, <1>4 DEF IInv

LEMMA CheckKeeps ==
    ASSUME IInv, NEW t \in Tasks, NEW r \in Requests, Check(t, r)
    PROVE  IInv'
BY RefuseKeeps, GoKeeps, EscalateKeeps DEF Check

LEMMA TaskStepKeeps ==
    ASSUME IInv, NEW t \in Tasks, TaskStep(t)
    PROVE  IInv'
<1>1. CASE CallHandler(t) \/ Resume(t) \/ Pause(t) \/ Finish(t) \/ Act(t)
  BY <1>1, CallHandlerKeeps, ResumeKeeps, PauseKeeps, ActKeeps
<1>2. CASE TakeYes(t) \/ TakeNo(t) \/ RaiseNo(t) \/ Drop(t)
  BY <1>2, TakeYesKeeps, TakeNoKeeps, RaiseNoKeeps, DropKeeps
<1>3. CASE \E u \in Asyncs : Spawn(t, u)
  BY <1>3, SpawnKeeps
<1>4. CASE \E r \in Requests : Check(t, r)
  BY <1>4, CheckKeeps
<1>5. CASE \E v \in Verdicts : Answer(t, v)
  BY <1>5, AnswerKeeps
<1> QED
  BY <1>1, <1>2, <1>3, <1>4, <1>5 DEF TaskStep

LEMMA NextKeeps == IInv /\ [Next]_vars => IInv'
<1> SUFFICES ASSUME IInv, [Next]_vars PROVE IInv'
  OBVIOUS
<1>1. CASE \E t \in Tasks : TaskStep(t)
  BY <1>1, TaskStepKeeps
<1>2. CASE \E r \in Runs : EndRun(r)
  BY <1>2, EndRunKeeps
<1>3. CASE RulesChange
  BY <1>3, RulesChangeKeeps
<1>4. CASE UNCHANGED vars
  <2>1. UNCHANGED <<lua, active, ctx, phase, call, left, reply, shares, cells, live,
                    allows, denied, file, hooks, due, agreed>>
    BY <1>4 DEF vars, stepVars, taskVars, askVars, ruleVars
  <2> QED
    BY <2>1 DEF IInv, TypeOK, Carried, Asking, Bound, Holder, Answered, Remembered, Fits
<1> QED
  BY <1>1, <1>2, <1>3, <1>4 DEF Next, RulesChange

\* The invariant the theorems below rest on.
THEOREM Invariance == Spec => []IInv
<1>1. Init => IInv
  BY InitIInv
<1>2. IInv /\ [Next]_vars => IInv'
  BY NextKeeps
<1> QED
  BY <1>1, <1>2, PTL DEF Spec

\* The variables keep their types: what a task waits for, was answered and may
\* do stays within the requests and permissions of its run (runs.rs, scheduler.rs).
THEOREM TypeCorrect == Spec => []TypeOK
<1>1. IInv => TypeOK
  BY DEF IInv
<1> QED
  BY <1>1, Invariance, PTL

-----------------------------------------------------------------------------
(* The gates.                                                              *)

Goes(t, r) == GoGranted(t, r) \/ GoWithPass(t, r) \/ GoAllowedByRun(t, r)

\* A script does something only after one of the three gates.
LEMMA ActsThroughAGate ==
    ASSUME IInv, Next, NEW t \in Tasks, Acts(t)
    PROVE  \E r \in Requests : Goes(t, r) /\ call'[t] = r
<1>0. TypeOK /\ phase[t] = "running" /\ phase'[t] = "acting" /\ phase \in [Tasks -> Phases]
  BY DEF IInv, Acts, TypeOK
<1>1. ASSUME NEW s \in Tasks, NEW r \in Requests, Check(s, r)
      PROVE  Goes(t, r) /\ call'[t] = r
  <2>1. CASE RefuseDenied(s, r) \/ RefuseUncovered(s, r)
    BY <1>0, <2>1 DEF RefuseDenied, RefuseUncovered, Raises
  <2>2. CASE Escalate(s, r)
    BY <1>0, <2>2 DEF Escalate, EndStep
  <2>3. CASE Goes(s, r)
    <3>1. GoesAhead(s, r)
      BY <2>3 DEF Goes, GoGranted, GoWithPass, GoAllowedByRun
    <3>2. s = t
      BY <1>0, <3>1 DEF GoesAhead
    <3> QED
      BY <1>0, <2>3, <3>1, <3>2 DEF GoesAhead, TypeOK
  <2> QED
    BY <1>1, <2>1, <2>2, <2>3 DEF Check, Goes
<1>2. ASSUME NEW s \in Tasks, TaskStep(s), ~ \E r \in Requests : Check(s, r)
      PROVE  FALSE
  BY <1>0, <1>2 DEF TaskStep, CallHandler, Resume, Pause, Finish, EndStep, Act, TakeYes, TakeNo,
                    RaiseNo, Raises, Drop, Spawn, Answer, taskVars
<1>3. CASE \E s \in Tasks : TaskStep(s)
  BY <1>1, <1>2, <1>3
<1>4. CASE (\E r \in Runs : EndRun(r)) \/ RulesChange
  BY <1>0, <1>4 DEF EndRun, RulesChange, AddDenial, SavedElsewhere, Teardown, taskVars
<1> QED
  BY <1>3, <1>4 DEF Next, RulesChange

\* What task t is covered for.
Covered(t, r) ==
    \/ PermOf[r] \in due[t].grants
    \/ r \in due[t].yes
    \/ PermOf[r] \in Kept /\ due[t].run \in live /\ <<due[t].run, PermOf[r]>> \in agreed

LEMMA GatesCover ==
    ASSUME IInv, NEW t \in Tasks, NEW r \in Requests, Goes(t, r)
    PROVE  Covered(t, r)
<1>0. Makes(t, r)
  BY DEF Goes, GoGranted, GoWithPass, GoAllowedByRun
<1>1. TypeOK /\ Fits(t, active)
  BY <1>0, MakesFacts
<1>2. CASE GoGranted(t, r)
  BY <1>1, <1>2 DEF GoGranted, IsGranted, Fits, Covered
<1>3. CASE GoWithPass(t, r)
  BY <1>1, <1>3, RequestsAreKnown DEF GoWithPass, HasPass, Fits, Covered
<1>4. CASE GoAllowedByRun(t, r)
  <2>1. active.run \in live /\ PermOf[r] \in allows[active.run] /\ active.run \in Runs
    BY <1>1, <1>4 DEF GoAllowedByRun, RunAllows, TypeOK
  <2>2. PermOf[r] \in Kept /\ <<active.run, PermOf[r]>> \in agreed
    BY <2>1 DEF IInv, Remembered
  <2> QED
    BY <1>1, <2>1, <2>2 DEF Fits, Covered
<1> QED
  BY <1>2, <1>3, <1>4 DEF Goes

\* A script does only what its call was granted, what somebody allowed it and
\* it has not done since, or a file or host allowed to its run in flight, for
\* any number of coroutines (check_inline, ActiveContext, runs.rs).
THEOREM OnlyWhatIsCovered == Spec => ActsOnlyWhenCovered
<1>1. ASSUME IInv, [Next]_vars, NEW t \in Tasks, Acts(t)
      PROVE  Covered(t, call'[t])
  <2>1. Next
    BY <1>1 DEF Acts, vars, taskVars
  <2> QED
    BY <1>1, <2>1, ActsThroughAGate, GatesCover
<1>2. IInv /\ [Next]_vars =>
        [\A t \in Tasks : Acts(t) => Covered(t, call'[t])]_vars
  BY <1>1
<1>3. ActsOnlyWhenCovered <=> [][\A t \in Tasks : Acts(t) => Covered(t, call'[t])]_vars
  BY PTL DEF ActsOnlyWhenCovered, Covered
<1> QED
  BY <1>2, <1>3, Invariance, PTL DEF Spec

\* While the denials are wired, no approval opens what the engine denies
\* (refuse_if_denied, the first thing check_inline asks).
THEOREM DenialsComeFirst == Spec => ApprovalsCannotUnblock
<1>1. ASSUME IInv, [Next]_vars, NEW t \in Tasks, Acts(t), "denials" \in hooks
      PROVE  PermOf[call'[t]] \notin denied
  <2>1. Next
    BY <1>1 DEF Acts, vars, taskVars
  <2>2. PICK r \in Requests : Goes(t, r) /\ call'[t] = r
    BY <1>1, <2>1, ActsThroughAGate
  <2> QED
    BY <1>1, <2>2 DEF Goes, GoGranted, GoWithPass, GoAllowedByRun, IsDenied
<1>2. IInv /\ [Next]_vars =>
        [\A t \in Tasks : Acts(t) /\ "denials" \in hooks => PermOf[call'[t]] \notin denied]_vars
  BY <1>1
<1>3. ApprovalsCannotUnblock <=>
        [][\A t \in Tasks : Acts(t) /\ "denials" \in hooks => PermOf[call'[t]] \notin denied]_vars
  BY PTL DEF ApprovalsCannotUnblock
<1> QED
  BY <1>2, <1>3, Invariance, PTL DEF Spec
=============================================================================
