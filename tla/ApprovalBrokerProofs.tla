------------------------ MODULE ApprovalBrokerProofs ------------------------
(***************************************************************************)
(* Theorems about ApprovalBroker, for any number of questions, approvers   *)
(* and, where it is not said otherwise, hot reloads.                       *)
(***************************************************************************)
EXTENDS ApprovalBroker, TLAPS

\* What a question may not have before it is put to the broker, and what the
\* pending map may hold: independent of how many executors there are.
Untouched(q) ==
    /\ first[q] = None
    /\ slot[q] = "open"
    /\ q \notin pending
    /\ \A a \in Approvers : q \notin inbox[a]

MapInv ==
    /\ \A q \in Questions : stage[q] \in {"idle", "minted"} => Untouched(q)
    /\ \A q \in pending : slot[q] = "open" /\ stage[q] # "done"
    /\ \A q \in Questions : stage[q] # "done" => answer[q] = None

\* What makes a verdict traceable to an approver: a channel holds only what an
\* approver said to a question of that id.
TraceInv ==
    \A q \in Questions :
        slot[q] \in Verdicts \/ answer[q] \in Allows =>
            \E r \in Questions : id[r] = id[q] /\ first[r] # None

-----------------------------------------------------------------------------
(* Type correctness. *)

LEMMA InitTypeOK == Init => TypeOK
  BY ExecutorsAssumption DEF Init, FirstId, TypeOK, Executors, Verdicts, Allows, None, Stages

LEMMA StepTypeOK == TypeOK /\ [Next]_vars => TypeOK'
<1> SUFFICES ASSUME TypeOK, [Next]_vars PROVE TypeOK'
  OBVIOUS
<1> USE DEF TypeOK, Verdicts, Allows, None, Stages, brokerVars, peerVars
<1>1. CASE UNCHANGED vars
  BY <1>1 DEF vars
<1>2. ASSUME NEW q \in Questions, NEW e \in Executors, Mint(q, e) PROVE TypeOK'
  BY <1>2 DEF Mint, NextId
<1>3. ASSUME NEW q \in Questions, RequestRefused(q) PROVE TypeOK'
  BY <1>3 DEF RequestRefused, Finish, Pruned
<1>4. ASSUME NEW q \in Questions, RequestSent(q) PROVE TypeOK'
  BY <1>4 DEF RequestSent, Pruned, DropSenders, Entry, OpenApprovers
<1>5. ASSUME NEW q \in Questions, TakeVerdict(q) PROVE TypeOK'
  BY <1>5 DEF TakeVerdict, Finish
<1>6. ASSUME NEW q \in Questions, Expire(q) PROVE TypeOK'
  BY <1>6 DEF Expire
<1>7. ASSUME NEW q \in Questions, SenderGone(q) PROVE TypeOK'
  BY <1>7 DEF SenderGone
<1>8. ASSUME NEW q \in Questions, CleanUp(q) PROVE TypeOK'
  BY <1>8 DEF CleanUp, OnExpiry, Finish, DropSenders, Entry
<1>9. ASSUME NEW q \in Questions, Cancel(q) PROVE TypeOK'
  BY <1>9 DEF Cancel
<1>10. ASSUME NEW a \in Approvers, Subscribe(a) PROVE TypeOK'
  BY <1>10 DEF Subscribe
<1>11. ASSUME NEW a \in Approvers, Unsubscribe(a) PROVE TypeOK'
  BY <1>11 DEF Unsubscribe
<1>12. ASSUME NEW a \in Approvers, DropConnection(a) PROVE TypeOK'
  BY <1>12 DEF DropConnection
<1>13. ASSUME NEW a \in Approvers, NEW q \in Questions, NEW v \in Verdicts,
              Resolve(a, q, v)
       PROVE TypeOK'
  BY <1>13 DEF Resolve, SendVerdict, Entry
<1>14. CASE Reload
  BY <1>14, ExecutorsAssumption DEF Reload, Executors
<1>15. QED
  BY <1>1, <1>2, <1>3, <1>4, <1>5, <1>6, <1>7, <1>8, <1>9, <1>10, <1>11, <1>12,
     <1>13, <1>14 DEF Next, Request, Await

\* Every reachable state is well typed.
THEOREM TypeCorrect == Spec => []TypeOK
  BY InitTypeOK, StepTypeOK, PTL DEF Spec

-----------------------------------------------------------------------------
(* The pending map. *)

LEMMA StepMapInv == TypeOK /\ MapInv /\ [Next]_vars => MapInv'
<1> SUFFICES ASSUME TypeOK, MapInv, [Next]_vars PROVE MapInv'
  OBVIOUS
<1> USE DEF TypeOK, MapInv, Untouched, Verdicts, Allows, None, Stages, brokerVars, peerVars
<1>1. CASE UNCHANGED vars
  BY <1>1 DEF vars
<1>2. ASSUME NEW q \in Questions, NEW e \in Executors, Mint(q, e) PROVE MapInv'
  BY <1>2 DEF Mint, NextId
<1>3. ASSUME NEW q \in Questions, RequestRefused(q) PROVE MapInv'
  BY <1>3 DEF RequestRefused, Finish, Pruned
<1>4. ASSUME NEW q \in Questions, RequestSent(q) PROVE MapInv'
  BY <1>4 DEF RequestSent, Pruned, DropSenders, Entry, OpenApprovers
<1>5. ASSUME NEW q \in Questions, TakeVerdict(q) PROVE MapInv'
  BY <1>5 DEF TakeVerdict, Finish
<1>6. ASSUME NEW q \in Questions, Expire(q) PROVE MapInv'
  BY <1>6 DEF Expire
<1>7. ASSUME NEW q \in Questions, SenderGone(q) PROVE MapInv'
  BY <1>7 DEF SenderGone
<1>8. ASSUME NEW q \in Questions, CleanUp(q) PROVE MapInv'
  BY <1>8 DEF CleanUp, OnExpiry, Finish, DropSenders, Entry
<1>9. ASSUME NEW q \in Questions, Cancel(q) PROVE MapInv'
  BY <1>9 DEF Cancel
<1>10. ASSUME NEW a \in Approvers, Subscribe(a) PROVE MapInv'
  BY <1>10 DEF Subscribe
<1>11. ASSUME NEW a \in Approvers, Unsubscribe(a) PROVE MapInv'
  BY <1>11 DEF Unsubscribe
<1>12. ASSUME NEW a \in Approvers, DropConnection(a) PROVE MapInv'
  BY <1>12 DEF DropConnection
<1>13. ASSUME NEW a \in Approvers, NEW q \in Questions, NEW v \in Verdicts,
              Resolve(a, q, v)
       PROVE MapInv'
  BY <1>13 DEF Resolve, SendVerdict, Entry
<1>14. CASE Reload
  BY <1>14 DEF Reload
<1>15. QED
  BY <1>1, <1>2, <1>3, <1>4, <1>5, <1>6, <1>7, <1>8, <1>9, <1>10, <1>11, <1>12,
     <1>13, <1>14 DEF Next, Request, Await

LEMMA MapInvariant == Spec => [](TypeOK /\ MapInv)
<1>1. Init => MapInv
  BY DEF Init, MapInv, Untouched, None
<1>2. QED
  BY <1>1, InitTypeOK, StepTypeOK, StepMapInv, PTL DEF Spec

\* A question that was answered or refused has no sender left in the map,
\* whatever reloads made ids collide.
THEOREM FinishedForgotten == Spec => []FinishedIsForgotten
<1>1. MapInv => FinishedIsForgotten
  BY DEF MapInv, FinishedIsForgotten
<1>2. QED
  BY <1>1, MapInvariant, PTL

-----------------------------------------------------------------------------
(* Verdicts come from approvers. *)

LEMMA StepTraceInv == TypeOK /\ MapInv /\ TraceInv /\ [Next]_vars => TraceInv'
<1> SUFFICES ASSUME TypeOK, MapInv, TraceInv, [Next]_vars,
                    NEW p \in Questions,
                    slot'[p] \in Verdicts \/ answer'[p] \in Allows
             PROVE  \E r \in Questions : id'[r] = id'[p] /\ first'[r] # None
  BY DEF TraceInv
<1> USE DEF TypeOK, TraceInv, Verdicts, Allows, None, brokerVars, peerVars
<1>1. CASE UNCHANGED vars
  BY <1>1 DEF vars
<1>2. ASSUME NEW q \in Questions, NEW e \in Executors, Mint(q, e)
      PROVE \E r \in Questions : id'[r] = id'[p] /\ first'[r] # None
  \* q itself is untouched, so neither p nor the r that p rests on is q.
  <2>1. p # q
    BY <1>2 DEF Mint, MapInv, Untouched
  <2>2. PICK r \in Questions : id[r] = id[p] /\ first[r] # None
    BY <1>2 DEF Mint, NextId
  <2>3. r # q
    BY <1>2, <2>2 DEF Mint, MapInv, Untouched
  <2>4. QED
    BY <1>2, <2>1, <2>2, <2>3 DEF Mint, NextId
<1>3. ASSUME NEW q \in Questions, RequestRefused(q)
      PROVE \E r \in Questions : id'[r] = id'[p] /\ first'[r] # None
  BY <1>3 DEF RequestRefused, Finish
<1>4. ASSUME NEW q \in Questions, RequestSent(q)
      PROVE \E r \in Questions : id'[r] = id'[p] /\ first'[r] # None
  BY <1>4 DEF RequestSent, DropSenders
<1>5. ASSUME NEW q \in Questions, TakeVerdict(q)
      PROVE \E r \in Questions : id'[r] = id'[p] /\ first'[r] # None
  BY <1>5 DEF TakeVerdict, Finish
<1>6. ASSUME NEW q \in Questions, Expire(q) \/ SenderGone(q) \/ Cancel(q)
      PROVE \E r \in Questions : id'[r] = id'[p] /\ first'[r] # None
  BY <1>6 DEF Expire, SenderGone, Cancel
<1>7. ASSUME NEW q \in Questions, CleanUp(q)
      PROVE \E r \in Questions : id'[r] = id'[p] /\ first'[r] # None
  BY <1>7 DEF CleanUp, OnExpiry, Finish, DropSenders
<1>8. ASSUME NEW a \in Approvers,
             Subscribe(a) \/ Unsubscribe(a) \/ DropConnection(a)
      PROVE \E r \in Questions : id'[r] = id'[p] /\ first'[r] # None
  BY <1>8 DEF Subscribe, Unsubscribe, DropConnection
<1>9. ASSUME NEW a \in Approvers, NEW q \in Questions, NEW v \in Verdicts,
             Resolve(a, q, v)
      PROVE \E r \in Questions : id'[r] = id'[p] /\ first'[r] # None
  \* A verdict that reaches p was given for a question with p's id.
  <2>1. id' = id /\ answer' = answer /\ first'[q] # None
    BY <1>9 DEF Resolve
  <2>2. \A r \in Questions : first[r] # None => first'[r] # None
    BY <1>9 DEF Resolve
  <2>3. CASE p \in Entry(id[q])
    BY <2>1, <2>3 DEF Entry
  <2>4. CASE p \notin Entry(id[q])
    <3>1. slot'[p] = slot[p]
      BY <1>9, <2>4 DEF Resolve, SendVerdict
    <3>2. QED
      BY <2>1, <2>2, <3>1
  <2>5. QED
    BY <2>3, <2>4
<1>10. CASE Reload
  BY <1>10 DEF Reload
<1>11. QED
  BY <1>1, <1>2, <1>3, <1>4, <1>5, <1>6, <1>7, <1>8, <1>9, <1>10
     DEF Next, Request, Await

\* Nothing but an approver allows, whatever the number of reloads: a question
\* is allowed only when an approver answered a question carrying its id.
THEOREM AllowsComeFromApprovers == Spec => []AllowNeedsApprover
<1>1. Init => TraceInv
  BY DEF Init, TraceInv, Verdicts, Allows, None
<1>2. TraceInv => AllowNeedsApprover
  BY DEF TraceInv, AllowNeedsApprover
<1>3. QED
  BY <1>1, <1>2, MapInvariant, StepTraceInv, PTL DEF Spec

-----------------------------------------------------------------------------
(* One executor: every id names one question. *)

\* Ids are minted below the counter and once each; a pending question has not
\* been decided, so the first verdict for it is the one its channel gets.
OneExecutorInv ==
    /\ live = 1
    /\ \A q \in Questions : id[q] < seq[1]
    /\ \A q \in Questions : stage[q] # "idle" => id[q] # 0
    /\ \A q, r \in Questions : id[q] = id[r] /\ id[q] # 0 => q = r
    /\ \A q \in pending : first[q] = None
    /\ \A q \in Questions : slot[q] # "dropped"
    /\ \A q \in Questions : slot[q] \in Verdicts => first[q] = slot[q]
    /\ \A q \in Questions : stage[q] = "waiting" /\ slot[q] = "open" => q \in pending
    /\ AnsweredAsShown

\* The entry under a question's own id is that question, or there is none.
LEMMA OwnEntry ==
  ASSUME MapInv, OneExecutorInv, NEW q \in Questions, stage[q] # "idle", TypeOK
  PROVE  Entry(id[q]) = pending \cap {q}
  BY DEF Entry, OneExecutorInv, TypeOK, MapInv

LEMMA StepOneExecutorInv ==
  ASSUME MaxExecutors = 1, TypeOK, MapInv, OneExecutorInv, [Next]_vars
  PROVE  OneExecutorInv'
<1> USE DEF TypeOK, MapInv, Untouched, OneExecutorInv, AnsweredAsShown,
            Verdicts, Allows, None, Stages, brokerVars, peerVars
<1>1. CASE UNCHANGED vars
  BY <1>1 DEF vars
<1>2. ASSUME NEW q \in Questions, NEW e \in Executors, Mint(q, e)
      PROVE OneExecutorInv'
  <2>1. e = 1
    BY <1>2 DEF Mint, Executors
  <2>2. QED
    BY <1>2, <2>1 DEF Mint, NextId
<1>3. ASSUME NEW q \in Questions, RequestRefused(q) PROVE OneExecutorInv'
  BY <1>3 DEF RequestRefused, Finish
<1>4. ASSUME NEW q \in Questions, RequestSent(q) PROVE OneExecutorInv'
  <2>1. Entry(id[q]) = {}
    BY <1>4, OwnEntry DEF RequestSent
  <2>2. QED
    BY <1>4, <2>1 DEF RequestSent, DropSenders
<1>5. ASSUME NEW q \in Questions, TakeVerdict(q) PROVE OneExecutorInv'
  BY <1>5 DEF TakeVerdict, Finish
<1>6. ASSUME NEW q \in Questions, Expire(q) \/ SenderGone(q) \/ Cancel(q)
      PROVE OneExecutorInv'
  BY <1>6 DEF Expire, SenderGone, Cancel
<1>7. ASSUME NEW q \in Questions, CleanUp(q) PROVE OneExecutorInv'
  <2>1. Entry(id[q]) \ {q} = {} /\ pending \ Entry(id[q]) = pending \ {q}
    BY <1>7, OwnEntry DEF CleanUp
  <2>2. QED
    BY <1>7, <2>1 DEF CleanUp, OnExpiry, Finish, DropSenders
<1>8. ASSUME NEW a \in Approvers,
             Subscribe(a) \/ Unsubscribe(a) \/ DropConnection(a)
      PROVE OneExecutorInv'
  BY <1>8 DEF Subscribe, Unsubscribe, DropConnection
<1>9. ASSUME NEW a \in Approvers, NEW q \in Questions, NEW v \in Verdicts,
             Resolve(a, q, v)
      PROVE OneExecutorInv'
  <2>1. stage[q] # "idle"
    BY <1>9 DEF Resolve
  <2>2. Entry(id[q]) = pending \cap {q}
    BY <2>1, OwnEntry
  <2>3. QED
    BY <1>9, <2>2 DEF Resolve, SendVerdict
<1>10. CASE Reload
  BY <1>10 DEF Reload
<1>11. QED
  BY <1>1, <1>2, <1>3, <1>4, <1>5, <1>6, <1>7, <1>8, <1>9, <1>10
     DEF Next, Request, Await

LEMMA OneExecutorInvariant ==
  ASSUME MaxExecutors = 1
  PROVE  Spec => [](TypeOK /\ MapInv /\ OneExecutorInv)
<1>1. Init => OneExecutorInv
  BY DEF Init, FirstId, OneExecutorInv, AnsweredAsShown, Executors, Verdicts, Allows, None
<1>2. TypeOK /\ MapInv /\ OneExecutorInv /\ [Next]_vars => OneExecutorInv'
  BY StepOneExecutorInv
<1>3. QED
  BY <1>1, <1>2, MapInvariant, PTL DEF Spec

\* Until the first hot reload an answer never reaches the wrong question: what
\* allows a question is the first verdict an approver gave for that question.
THEOREM AnswersMatchQuestions ==
  ASSUME MaxExecutors = 1
  PROVE  Spec => []AnsweredAsShown
<1>1. OneExecutorInv => AnsweredAsShown
  BY DEF OneExecutorInv
<1>2. QED
  BY <1>1, OneExecutorInvariant, PTL

\* Until the first hot reload a waiting task stays reachable by approvers.
THEOREM WaitersStayReachable ==
  ASSUME MaxExecutors = 1
  PROVE  Spec => []WaiterIsReachable
<1>1. OneExecutorInv => WaiterIsReachable
  BY DEF OneExecutorInv, WaiterIsReachable
<1>2. QED
  BY <1>1, OneExecutorInvariant, PTL

-----------------------------------------------------------------------------
(* The broker implements ApprovalAsk. *)

LEMMA StepImplements ==
  ASSUME TypeOK, MapInv, OneExecutorInv, [Next]_vars
  PROVE  [Ask!AskNext]_(Ask!askVars)
<1> USE DEF TypeOK, Ask!askVars, Ask!AskNext, Verdicts, Allows, Ask!Allows, None,
            brokerVars, peerVars
<1>1. CASE UNCHANGED vars
  BY <1>1 DEF vars, AskState
<1>2. ASSUME NEW q \in Questions, NEW e \in Executors, Mint(q, e)
      PROVE Ask!Open(q)
  BY <1>2 DEF Mint, Ask!Open, AskState
<1>3. ASSUME NEW q \in Questions, NEW v \in Verdicts, Finish(q, v),
             stage[q] \in {"minted", "waiting", "expired"},
             first' = first, v = "Deny" \/ v = first[q]
      PROVE Ask!Answer(q, v)
  BY <1>3 DEF Finish, Ask!Answer, AskState
<1>4. ASSUME NEW q \in Questions, Request(q) \/ Await(q)
      PROVE [Ask!AskNext]_(Ask!askVars)
  <2>1. CASE RequestRefused(q)
    BY <2>1, <1>3 DEF RequestRefused
  <2>2. CASE RequestSent(q) \/ Expire(q) \/ SenderGone(q)
    BY <2>2 DEF RequestSent, Expire, SenderGone, AskState
  <2>3. CASE TakeVerdict(q)
    <3>1. slot[q] = first[q]
      BY <2>3 DEF TakeVerdict, OneExecutorInv
    <3>2. QED
      BY <2>3, <3>1, <1>3 DEF TakeVerdict
  <2>4. CASE CleanUp(q)
    BY <2>4, <1>3 DEF CleanUp, OnExpiry
  <2>5. QED
    BY <1>4, <2>1, <2>2, <2>3, <2>4 DEF Request, Await
<1>5. ASSUME NEW q \in Questions, Cancel(q)
      PROVE Ask!Abandon(q)
  BY <1>5 DEF Cancel, Ask!Abandon, AskState
<1>6. ASSUME NEW a \in Approvers,
             Subscribe(a) \/ Unsubscribe(a) \/ DropConnection(a)
      PROVE UNCHANGED Ask!askVars
  BY <1>6 DEF Subscribe, Unsubscribe, DropConnection, AskState
<1>7. ASSUME NEW a \in Approvers, NEW q \in Questions, NEW v \in Verdicts,
             Resolve(a, q, v)
      PROVE [Ask!AskNext]_(Ask!askVars)
  <2>1. AskState' = AskState /\ answer' = answer /\ AskState[q] # "unasked"
    BY <1>7 DEF Resolve, AskState, MapInv, Untouched
  <2>2. CASE first[q] = None
    <3>1. Ask!Decide(q, v)
      BY <1>7, <2>1, <2>2 DEF Resolve, Ask!Decide
    <3>2. QED
      BY <3>1
  <2>3. CASE first[q] # None
    BY <1>7, <2>1, <2>3 DEF Resolve
  <2>4. QED
    BY <2>2, <2>3
<1>8. CASE Reload
  BY <1>8 DEF Reload, AskState
<1>9. QED
  BY <1>1, <1>2, <1>4, <1>5, <1>6, <1>7, <1>8 DEF Next

\* Until the first hot reload, Broker::request and Broker::resolve together
\* behave like ApprovalAsk.
THEOREM BrokerImplementsAsk ==
  ASSUME MaxExecutors = 1
  PROVE  Spec => ImplementsAsk
<1>1. Init => Ask!AskInit
  BY DEF Init, Ask!AskInit, AskState, None
<1>2. TypeOK /\ MapInv /\ OneExecutorInv /\ [Next]_vars
        => [Ask!AskNext]_(Ask!askVars)
  BY StepImplements
<1>3. QED
  BY <1>1, <1>2, OneExecutorInvariant, PTL DEF Spec, ImplementsAsk, Ask!AskSpec

=============================================================================
