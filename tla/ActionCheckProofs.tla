-------------------------- MODULE ActionCheckProofs --------------------------
(***************************************************************************)
(* Proofs about ActionCheck, for any calls, any grants and any edits.      *)
(*                                                                         *)
(* TypeInv types every variable; the loop's safety rests on Answered: an   *)
(* approval a call carries was answered in a question of that kind.        *)
(***************************************************************************)
EXTENDS ActionCheck, TLAPS

\* Where the next-state relation has to be taken apart, the actions are named
\* here so that each proof step covers one of them.
Types ==
    /\ file \in Grants \cup {Broken}
    /\ edits \in 0 .. MaxEdits
    /\ live \in Executors
    /\ engine \in [Executors -> Grants]
    /\ lock \in [Executors -> Calls \cup {No}]
    /\ pc \in [Calls -> PCs]
    /\ home \in [Calls -> 0 .. MaxExecutors]
    /\ decision \in [Calls -> Decisions]
    /\ asked \in [Calls -> 0 .. 3]
    /\ approved \in [Calls -> Approvals]
    /\ missing \in [Calls -> SUBSET Permissions]
    /\ waits \in [Calls -> Questions \cup {NoQuestion}]
    /\ asking \subseteq Questions
    /\ answer \in [Questions -> Verdicts \cup {NoAnswer}]
    /\ draft \in [Calls -> Grants]
    /\ shown \in [Questions -> SUBSET Permissions]
    /\ agreed \in [Calls -> SUBSET (Escalatable \X SUBSET Permissions)]
    /\ kept \subseteq Additions

\* A task past its submission has an executor and, once it asks, a question.
Placed ==
    \A c \in Calls :
        /\ pc[c] # "idle" => home[c] \in Executors
        /\ pc[c] \in {"escalate", "asking", "save", "read", "write", "reload"} =>
              /\ decision[c] \in Escalatable
              /\ asked[c] \in 1 .. 3
              /\ decision[c] = "Runner" => Info[c].runner \in Runners
        /\ pc[c] = "asking" => waits[c] \in Questions
        /\ pc[c] \in {"write", "reload"} /\ decision[c] = "Tool" =>
              Info[c].tool \in Tools

LocksAgree == \A c \in Calls : Saving(c) => lock[home[c]] = c

TypeInv == Types /\ Placed /\ LocksAgree

-----------------------------------------------------------------------------
\* The engine answers one of its decisions, and a runner question only for a
\* runner.
LEMMA CheckType ==
    ASSUME NEW g \in Grants, NEW i \in CallRecords, NEW a \in Approvals
    PROVE  /\ CheckApproved(g, i, a) \in Decisions
           /\ CheckApproved(g, i, a) = "Runner" => i.runner \in Runners
  BY DEF CheckApproved, Decisions, RunnerUnlisted

\* Adding an answer to the file keeps it a grants file.
LEMMA ExtendedType ==
    ASSUME NEW g \in Grants, NEW c \in Calls, missing[c] \in SUBSET Permissions,
           decision[c] \in Escalatable,
           decision[c] = "Tool" => Info[c].tool \in Tools,
           decision[c] = "Runner" => Info[c].runner \in Runners
    PROVE  Extended(g, c) \in Grants
  <1>0. Info[c] \in CallRecords
    BY CallsAssumption
  <1>1. CASE decision[c] = "Tool"
    BY <1>1, <1>0 DEF Extended, Grants, CallRecords
  <1>2. CASE decision[c] = "Confirm"
    BY <1>2, <1>0 DEF Extended, Grants, CallRecords
  <1>3. CASE decision[c] = "Runner"
    BY <1>3, <1>0 DEF Extended, Grants, CallRecords
  <1> QED
    BY <1>1, <1>2, <1>3 DEF Escalatable

\* The initial states are well typed.
LEMMA InitTypes == Init => TypeInv
  <1> SUFFICES ASSUME Init PROVE TypeInv
    OBVIOUS
  <1>1. file \in Grants /\ MaxExecutors \in Nat \ {0} /\ MaxEdits \in Nat
    BY CallsAssumption DEF Init
  <1>2. Types
    BY <1>1 DEF Types, Init, Executors, PCs, Ended, Decisions, Approvals,
                NothingApproved, Additions
  <1> QED
    BY <1>2 DEF TypeInv, Placed, LocksAgree, Saving, Init

\* Every step preserves the types, the places and the locks.
LEMMA NextTypes == TypeInv /\ [Next]_vars => TypeInv'
  <1> SUFFICES ASSUME TypeInv, [Next]_vars PROVE TypeInv'
    OBVIOUS
  <1> USE DEF TypeInv, Types, Placed, LocksAgree, Saving
  <1>e. MaxExecutors \in Nat \ {0} /\ MaxEdits \in Nat
        /\ (\A c \in Calls : Info[c] \in CallRecords)
        /\ Edits \subseteq Grants \cup {Broken}
    BY CallsAssumption
  <1>n. No \notin Calls
    BY CallsAssumption
  <1>1. ASSUME NEW c \in Calls, NEW e \in Executors, Submit(c, e) PROVE TypeInv'
    <2>1. Types'
      BY <1>1, <1>e DEF Submit, Goto, PCs, Ended, Executors, diskVars, engineVars, callVars, askVars
    <2>2. Placed'
      BY <1>1, <1>e, <1>n DEF Submit, Goto, PCs, Ended, Executors, Questions, diskVars, engineVars, callVars, askVars
    <2>3. LocksAgree'
      BY <1>1, <1>e, <1>n DEF Submit, Goto, PCs, Ended, Executors, diskVars, engineVars, callVars, askVars
    <2> QED
      BY <2>1, <2>2, <2>3
  <1>2. ASSUME NEW c \in Calls, Check(c) PROVE TypeInv'
    <2>0. /\ GrantsOf(c) \in Grants /\ Info[c] \in CallRecords
          /\ approved[c] \in Approvals
      BY <1>2, <1>e DEF Check, GrantsOf
    <2>d. CheckApproved(GrantsOf(c), Info[c], approved[c]) \in Decisions
          /\ (CheckApproved(GrantsOf(c), Info[c], approved[c]) = "Runner"
                => Info[c].runner \in Runners)
      BY <2>0, CheckType
    <2>1. Types'
      BY <1>2, <1>e, <2>0, <2>d DEF Check, AfterCheck, Goto, PCs, Ended, Executors, diskVars, engineVars, callVars, askVars
    <2>2. Placed'
      BY <1>2, <1>e, <2>0, <2>d, <1>n DEF Check, AfterCheck, Goto, PCs, Ended, Executors, Questions, diskVars, engineVars, callVars, askVars
    <2>3. LocksAgree'
      BY <1>2, <1>e, <2>0, <2>d, <1>n DEF Check, AfterCheck, Goto, PCs, Ended, Executors, diskVars, engineVars, callVars, askVars
    <2> QED
      BY <2>1, <2>2, <2>3
  <1>3. ASSUME NEW c \in Calls, AskOwn(c) PROVE TypeInv'
    <2>0. Missing(c) \in SUBSET Permissions
      BY <1>e DEF Missing, Lacks, CallRecords
    <2>d. <<c, asked[c]>> \in Questions
      BY <1>3 DEF AskOwn, Questions
    <2>1. Types'
      BY <1>3, <1>e, <2>0, <2>d DEF AskOwn, Goto, PCs, Ended, Executors, diskVars, engineVars, callVars, askVars
    <2>2. Placed'
      BY <1>3, <1>e, <2>0, <2>d, <1>n DEF AskOwn, Goto, PCs, Ended, Executors, Questions, diskVars, engineVars, callVars, askVars
    <2>3. LocksAgree'
      BY <1>3, <1>e, <2>0, <2>d, <1>n DEF AskOwn, Goto, PCs, Ended, Executors, diskVars, engineVars, callVars, askVars
    <2> QED
      BY <2>1, <2>2, <2>3
  <1>4. ASSUME NEW c \in Calls, NEW q \in asking, Join(c, q) PROVE TypeInv'
    <2>0. Missing(c) \in SUBSET Permissions
      BY <1>e DEF Missing, Lacks, CallRecords
    <2>d. q \in Questions
      OBVIOUS
    <2>1. Types'
      BY <1>4, <1>e, <2>0, <2>d DEF Join, Goto, PCs, Ended, Executors, diskVars, engineVars, callVars, askVars
    <2>2. Placed'
      BY <1>4, <1>e, <2>0, <2>d, <1>n DEF Join, Goto, PCs, Ended, Executors, Questions, diskVars, engineVars, callVars, askVars
    <2>3. LocksAgree'
      BY <1>4, <1>e, <2>0, <2>d, <1>n DEF Join, Goto, PCs, Ended, Executors, diskVars, engineVars, callVars, askVars
    <2> QED
      BY <2>1, <2>2, <2>3
  <1>5. ASSUME NEW c \in Calls, NEW v \in Verdicts, Answer(c, v) PROVE TypeInv'
    <2>1. Types'
      BY <1>5, <1>e DEF Answer, Goto, PCs, Ended, Executors, diskVars, engineVars, callVars, askVars
    <2>2. Placed'
      BY <1>5, <1>e, <1>n DEF Answer, Goto, PCs, Ended, Executors, Questions, diskVars, engineVars, callVars, askVars
    <2>3. LocksAgree'
      BY <1>5, <1>e, <1>n DEF Answer, Goto, PCs, Ended, Executors, diskVars, engineVars, callVars, askVars
    <2> QED
      BY <2>1, <2>2, <2>3
  <1>6. ASSUME NEW c \in Calls, TakeDeny(c) PROVE TypeInv'
    <2>1. Types'
      BY <1>6, <1>e DEF TakeDeny, Goto, PCs, Ended, Executors, diskVars, engineVars, callVars, askVars
    <2>2. Placed'
      BY <1>6, <1>e, <1>n DEF TakeDeny, Goto, PCs, Ended, Executors, Questions, diskVars, engineVars, callVars, askVars
    <2>3. LocksAgree'
      BY <1>6, <1>e, <1>n DEF TakeDeny, Goto, PCs, Ended, Executors, diskVars, engineVars, callVars, askVars
    <2> QED
      BY <2>1, <2>2, <2>3
  <1>7. ASSUME NEW c \in Calls, TakeAllow(c) PROVE TypeInv'
    <2>0. Proceed(c) \in Approvals
      BY DEF Proceed, Approvals
    <2>d. <<decision[c], shown[waits[c]]>> \in Escalatable \X SUBSET Permissions
      BY <1>7 DEF TakeAllow
    <2>1. Types'
      BY <1>7, <1>e, <2>0, <2>d DEF TakeAllow, Goto, PCs, Ended, Executors, diskVars, engineVars, callVars, askVars
    <2>2. Placed'
      BY <1>7, <1>e, <2>0, <2>d, <1>n DEF TakeAllow, Goto, PCs, Ended, Executors, Questions, diskVars, engineVars, callVars, askVars
    <2>3. LocksAgree'
      BY <1>7, <1>e, <2>0, <2>d, <1>n DEF TakeAllow, Goto, PCs, Ended, Executors, diskVars, engineVars, callVars, askVars
    <2> QED
      BY <2>1, <2>2, <2>3
  <1>8. ASSUME NEW c \in Calls, SaveLock(c) PROVE TypeInv'
    <2>1. Types'
      BY <1>8, <1>e DEF SaveLock, Free, Goto, PCs, Ended, Executors, diskVars, engineVars, callVars, askVars
    <2>2. Placed'
      BY <1>8, <1>e, <1>n DEF SaveLock, Free, Goto, PCs, Ended, Executors, Questions, diskVars, engineVars, callVars, askVars
    <2>3. LocksAgree'
      BY <1>8, <1>e, <1>n DEF SaveLock, Free, Goto, PCs, Ended, Executors, diskVars, engineVars, callVars, askVars
    <2> QED
      BY <2>1, <2>2, <2>3
  <1>9. ASSUME NEW c \in Calls, SaveRead(c) PROVE TypeInv'
    <2>0. file \in Grants /\ (decision[c] = "Tool" => Info[c].tool \in Tools)
      BY <1>9 DEF SaveRead, Readable
    <2>d. Extended(file, c) \in Grants
      BY <1>9, <2>0, ExtendedType DEF SaveRead
    <2>1. Types'
      BY <1>9, <1>e, <2>0, <2>d DEF SaveRead, Goto, PCs, Ended, Executors, diskVars, engineVars, callVars, askVars
    <2>2. Placed'
      BY <1>9, <1>e, <2>0, <2>d, <1>n DEF SaveRead, Goto, PCs, Ended, Executors, Questions, diskVars, engineVars, callVars, askVars
    <2>3. LocksAgree'
      BY <1>9, <1>e, <2>0, <2>d, <1>n DEF SaveRead, Goto, PCs, Ended, Executors, diskVars, engineVars, callVars, askVars
    <2> QED
      BY <2>1, <2>2, <2>3
  <1>10. ASSUME NEW c \in Calls, SaveWrite(c) PROVE TypeInv'
    <2>0. [kind |-> decision[c], call |-> c, perms |-> missing[c]] \in Additions
      BY <1>10 DEF SaveWrite, Additions
    <2>1. Types'
      BY <1>10, <1>e, <2>0 DEF SaveWrite, Goto, PCs, Ended, Executors, diskVars, engineVars, callVars, askVars
    <2>2. Placed'
      BY <1>10, <1>e, <2>0, <1>n DEF SaveWrite, Goto, PCs, Ended, Executors, Questions, diskVars, engineVars, callVars, askVars
    <2>3. LocksAgree'
      BY <1>10, <1>e, <2>0, <1>n DEF SaveWrite, Goto, PCs, Ended, Executors, diskVars, engineVars, callVars, askVars
    <2> QED
      BY <2>1, <2>2, <2>3
  <1>11. ASSUME NEW c \in Calls, SaveReload(c) PROVE TypeInv'
    <2>0. Proceed(c) \in Approvals
      BY DEF Proceed, Approvals
    <2>d. file \in Grants
      BY <1>11 DEF SaveReload, Loadable
    <2>1. Types'
      BY <1>11, <1>e, <2>0, <2>d DEF SaveReload, Unlock, Goto, PCs, Ended, Executors, diskVars, engineVars, callVars, askVars
    <2>2. Placed'
      BY <1>11, <1>e, <2>0, <2>d, <1>n DEF SaveReload, Unlock, Goto, PCs, Ended, Executors, Questions, diskVars, engineVars, callVars, askVars
    <2>3. LocksAgree'
      BY <1>11, <1>e, <2>0, <2>d, <1>n DEF SaveReload, Unlock, Goto, PCs, Ended, Executors, diskVars, engineVars, callVars, askVars
    <2> QED
      BY <2>1, <2>2, <2>3
  <1>12. ASSUME NEW c \in Calls, SaveFails(c) PROVE TypeInv'
    <2>1. Types'
      BY <1>12, <1>e DEF SaveFails, Unlock, Goto, PCs, Ended, Executors, diskVars, engineVars, callVars, askVars
    <2>2. Placed'
      BY <1>12, <1>e, <1>n DEF SaveFails, Unlock, Goto, PCs, Ended, Executors, Questions, diskVars, engineVars, callVars, askVars
    <2>3. LocksAgree'
      BY <1>12, <1>e, <1>n DEF SaveFails, Unlock, Goto, PCs, Ended, Executors, diskVars, engineVars, callVars, askVars
    <2> QED
      BY <2>1, <2>2, <2>3
  <1>13. ASSUME NEW g \in Edits, HandEdit(g) PROVE TypeInv'
    <2>1. Types'
      BY <1>13, <1>e DEF HandEdit, Goto, PCs, Ended, Executors, diskVars, engineVars, callVars, askVars
    <2>2. Placed'
      BY <1>13, <1>e, <1>n DEF HandEdit, Goto, PCs, Ended, Executors, Questions, diskVars, engineVars, callVars, askVars
    <2>3. LocksAgree'
      BY <1>13, <1>e, <1>n DEF HandEdit, Goto, PCs, Ended, Executors, diskVars, engineVars, callVars, askVars
    <2> QED
      BY <2>1, <2>2, <2>3
  <1>14. ASSUME Reload PROVE TypeInv'
    <2>d. file \in Grants
      BY <1>14 DEF Reload, Loadable
    <2>1. Types'
      BY <1>14, <1>e, <2>d DEF Reload, Goto, PCs, Ended, Executors, diskVars, engineVars, callVars, askVars
    <2>2. Placed'
      BY <1>14, <1>e, <2>d, <1>n DEF Reload, Goto, PCs, Ended, Executors, Questions, diskVars, engineVars, callVars, askVars
    <2>3. LocksAgree'
      BY <1>14, <1>e, <2>d, <1>n DEF Reload, Goto, PCs, Ended, Executors, diskVars, engineVars, callVars, askVars
    <2> QED
      BY <2>1, <2>2, <2>3
  <1>15. CASE UNCHANGED vars
    BY <1>15 DEF vars, diskVars, engineVars, callVars, askVars
  <1> QED
    BY <1>1, <1>2, <1>3, <1>4, <1>5, <1>6, <1>7, <1>8, <1>9, <1>10, <1>11, <1>12, <1>13, <1>14, <1>15 DEF Next, CallNext
-----------------------------------------------------------------------------
(* Type correctness. *)

\* TypeOK holds in every reachable state: the calls that save hold their
\* executor's forever_write_lock.
THEOREM TypeCorrect == Spec => []TypeOK
  <1>1. TypeInv => TypeOK
    BY DEF TypeInv, Types, LocksAgree, TypeOK
  <1> QED
    BY InitTypes, NextTypes, <1>1, PTL DEF Spec

-----------------------------------------------------------------------------
(* A call runs only with every gate open or answered. *)

Phase == {"asking", "save", "read", "write", "reload"}

\* What a call carries was allowed in a question of that kind, and only a
\* question about grants brings permissions.
Answered ==
    \A c \in Calls :
        /\ approved[c].permissions # {} => Said(c, "Tool")
        /\ approved[c].runner_action => Said(c, "Runner")
        /\ approved[c].confirm => Said(c, "Confirm")
        /\ pc[c] \in Phase /\ missing[c] # {} => decision[c] = "Tool"
        /\ pc[c] \in Phase \ {"asking"} => Said(c, decision[c])

LEMMA InitAnswered == Init => Answered
  BY DEF Init, Answered, NothingApproved, Phase

LEMMA NextAnswered == TypeInv /\ Answered /\ [Next]_vars => Answered'
  <1> SUFFICES ASSUME TypeInv, Answered, [Next]_vars PROVE Answered'
    OBVIOUS
  <1> USE DEF Answered, Said, Phase, TypeInv, Types, Placed
  <1>1. ASSUME NEW c \in Calls, NEW e \in Executors, Submit(c, e) PROVE Answered'
    BY <1>1 DEF Submit, Goto, diskVars, engineVars, callVars, askVars
  <1>2. ASSUME NEW c \in Calls, Check(c) PROVE Answered'
    BY <1>2 DEF Check, AfterCheck, Goto, AfterCheck, PCs, Ended, Decisions, Escalatable, diskVars, engineVars, callVars, askVars
  <1>3. ASSUME NEW c \in Calls, AskOwn(c) PROVE Answered'
    BY <1>3 DEF AskOwn, Goto, Missing, diskVars, engineVars, callVars, askVars
  <1>4. ASSUME NEW c \in Calls, NEW q \in asking, Join(c, q) PROVE Answered'
    BY <1>4 DEF Join, Goto, Missing, diskVars, engineVars, callVars, askVars
  <1>5. ASSUME NEW c \in Calls, NEW v \in Verdicts, Answer(c, v) PROVE Answered'
    BY <1>5 DEF Answer, Goto, diskVars, engineVars, callVars, askVars
  <1>6. ASSUME NEW c \in Calls, TakeDeny(c) PROVE Answered'
    BY <1>6 DEF TakeDeny, Goto, diskVars, engineVars, callVars, askVars
  <1>7. ASSUME NEW c \in Calls, TakeAllow(c) PROVE Answered'
    <2>1. \A d \in Calls : agreed[d] \subseteq agreed'[d]
      BY <1>7 DEF TakeAllow
    <2>2. \A d \in Calls, k \in Escalatable : Said(d, k) => Said(d, k)'
      BY <2>1
    <2>3. <<decision[c], shown[waits[c]]>> \in agreed'[c]
      BY <1>7 DEF TakeAllow
    <2>4. Said(c, decision[c])'
      BY <2>3, <1>7 DEF TakeAllow
    <2>5. /\ approved'[c] \in {approved[c], Proceed(c)}
          /\ pc[c] \in Phase /\ pc'[c] \in {"check", "save"}
          /\ missing' = missing /\ decision' = decision
          /\ \A d \in Calls \ {c} : approved'[d] = approved[d] /\ pc'[d] = pc[d]
      BY <1>7 DEF TakeAllow, Goto
    <2> HIDE DEF Said
    <2>6. /\ approved'[c].permissions # {} => Said(c, "Tool")'
          /\ approved'[c].runner_action => Said(c, "Runner")'
          /\ approved'[c].confirm => Said(c, "Confirm")'
      <3>1. CASE approved'[c] = approved[c]
        BY <2>2, <3>1 DEF Escalatable
      <3>2. CASE approved'[c] = Proceed(c)
        <4>1. /\ approved'[c].permissions = approved[c].permissions \cup missing[c]
              /\ approved'[c].runner_action =
                    (approved[c].runner_action \/ decision[c] = "Runner")
              /\ approved'[c].confirm = (approved[c].confirm \/ decision[c] = "Confirm")
          BY <3>2 DEF Proceed
        <4>2. missing[c] # {} => decision[c] = "Tool"
          BY <2>5
        <4>3. /\ approved[c].permissions # {} => Said(c, "Tool")
              /\ approved[c].runner_action => Said(c, "Runner")
              /\ approved[c].confirm => Said(c, "Confirm")
          OBVIOUS
        <4>4. \A k \in {"Tool", "Runner", "Confirm"} :
                 Said(c, k) \/ decision[c] = k => Said(c, k)'
          BY <2>2, <2>4, <2>5 DEF Escalatable
        <4> HIDE DEF Answered, TypeInv, Types, Placed
        <4>5. approved'[c].permissions # {} => Said(c, "Tool")'
          BY <4>1, <4>2, <4>3, <4>4
        <4>6. approved'[c].runner_action => Said(c, "Runner")'
          BY <4>1, <4>3, <4>4
        <4>7. approved'[c].confirm => Said(c, "Confirm")'
          BY <4>1, <4>3, <4>4
        <4> QED
          BY <4>5, <4>6, <4>7
      <3> QED
        BY <2>5, <3>1, <3>2
    <2>7. ASSUME NEW d \in Calls \ {c} PROVE
             /\ approved'[d].permissions # {} => Said(d, "Tool")'
             /\ approved'[d].runner_action => Said(d, "Runner")'
             /\ approved'[d].confirm => Said(d, "Confirm")'
             /\ pc'[d] \in Phase \ {"asking"} => Said(d, decision[d])'
      <3>1. approved'[d] = approved[d] /\ pc'[d] = pc[d]
        BY <2>5
      <3>2. pc[d] \in Phase \ {"asking"} => decision[d] \in Escalatable
        OBVIOUS
      <3> QED
        BY <2>2, <2>5, <3>1, <3>2 DEF Escalatable
    <2>8. \A d \in Calls : pc'[d] \in Phase /\ missing'[d] # {} => decision'[d] = "Tool"
      BY <2>5
    <2>9. pc'[c] \in Phase \ {"asking"} => Said(c, decision[c])'
      BY <2>4
    <2> QED
      BY <2>5, <2>6, <2>7, <2>8, <2>9
  <1>8. ASSUME NEW c \in Calls, SaveLock(c) PROVE Answered'
    BY <1>8 DEF SaveLock, Free, Goto, diskVars, engineVars, callVars, askVars
  <1>9. ASSUME NEW c \in Calls, SaveRead(c) PROVE Answered'
    BY <1>9 DEF SaveRead, Goto, diskVars, engineVars, callVars, askVars
  <1>10. ASSUME NEW c \in Calls, SaveWrite(c) PROVE Answered'
    BY <1>10 DEF SaveWrite, Goto, diskVars, engineVars, callVars, askVars
  <1>11. ASSUME NEW c \in Calls, SaveReload(c) PROVE Answered'
    BY <1>11 DEF SaveReload, Unlock, Goto, Proceed, Approvals, diskVars, engineVars, callVars, askVars
  <1>12. ASSUME NEW c \in Calls, SaveFails(c) PROVE Answered'
    BY <1>12 DEF SaveFails, Unlock, Goto, diskVars, engineVars, callVars, askVars
  <1>13. ASSUME NEW g \in Edits, HandEdit(g) PROVE Answered'
    BY <1>13 DEF HandEdit, Goto, diskVars, engineVars, callVars, askVars
  <1>14. ASSUME Reload PROVE Answered'
    BY <1>14 DEF Reload, Goto, diskVars, engineVars, callVars, askVars
  <1>15. CASE UNCHANGED vars
    BY <1>15 DEF vars, diskVars, engineVars, callVars, askVars
  <1> QED
    BY <1>1, <1>2, <1>3, <1>4, <1>5, <1>6, <1>7, <1>8, <1>9, <1>10, <1>11, <1>12, <1>13, <1>14, <1>15 DEF Next, CallNext

LEMMA CheckedIsPermitted ==
    ASSUME TypeInv, Answered, Next, NEW c \in Calls,
           pc[c] = "check", pc'[c] = "running"
    PROVE  Permitted(c, GrantsOf(c))
  <1>1. Check(c)
    BY DEF Next, CallNext, Submit, Check, AskOwn, Join, Answer, TakeDeny, TakeAllow,
           SaveLock, SaveRead, SaveWrite, SaveReload, SaveFails, HandEdit, Reload,
           Goto, TypeInv, Types, callVars, askVars, engineVars, diskVars
  <1>2. CheckApproved(GrantsOf(c), Info[c], approved[c]) = "Allow"
    BY <1>1 DEF Check, AfterCheck, Goto, TypeInv, Types
  <1>3. ~ Blocked(GrantsOf(c), Info[c])
    BY <1>2 DEF CheckApproved, Blocked
  <1>4. /\ RunnerUnlisted(GrantsOf(c), Info[c]) => Said(c, "Runner")
        /\ ConfirmGated(GrantsOf(c), Info[c]) => Said(c, "Confirm")
    BY <1>2 DEF CheckApproved, Answered
  <1>5. ASSUME Lacks(GrantsOf(c), Info[c], {}) # {} PROVE Said(c, "Tool")
    <2>1. Lacks(GrantsOf(c), Info[c], approved[c].permissions) = {}
      BY <1>2 DEF CheckApproved
    <2>2. approved[c].permissions # {}
      BY <1>5, <2>1
    <2> QED
      BY <2>2 DEF Answered
  <1> QED
    BY <1>3, <1>4, <1>5 DEF Permitted

\* RunsOnlyWhatIsAllowed, whatever the user edits and however many reloads,
\* saves and joined questions fall between a question and its answer.
THEOREM RunsAreAllowed == Spec => RunsOnlyWhatIsAllowed
  <1>1. TypeInv /\ Answered /\ [Next]_vars =>
            [\A c \in Calls : pc[c] = "check" /\ pc'[c] = "running"
                => Permitted(c, GrantsOf(c))]_vars
    BY CheckedIsPermitted
  <1> QED
    BY InitTypes, NextTypes, InitAnswered, NextAnswered, <1>1, PTL
       DEF Spec, RunsOnlyWhatIsAllowed

-----------------------------------------------------------------------------
(* With one executor, what was saved stays in the file until it is edited. *)

\* The entry names a list of the file that exists.
WellFormed(k) ==
    /\ k.kind = "Tool" => Info[k.call].tool \in Tools
    /\ k.kind = "Runner" => Info[k.call].runner \in Runners

Addition(c) == [kind |-> decision[c], call |-> c, perms |-> missing[c]]

\* The call that writes has a draft with everything kept and its own answer.
KeptInv ==
    /\ \A k \in kept : WellFormed(k) /\ file \in Grants /\ Contains(file, k)
    /\ \A c \in Calls : pc[c] = "write" =>
          /\ \A k \in kept : Contains(draft[c], k)
          /\ Contains(draft[c], Addition(c))

\* With one executor one call at a time is between its read and its reload.
LEMMA OneSaver ==
    ASSUME TypeInv, MaxExecutors = 1, NEW c \in Calls, NEW d \in Calls,
           Saving(c), Saving(d)
    PROVE  c = d
  BY DEF TypeInv, Types, Placed, LocksAgree, Saving, Executors

\* Extending a document loses nothing.
LEMMA ExtendedKeeps ==
    ASSUME NEW g \in Grants, NEW c \in Calls, missing[c] \in SUBSET Permissions,
           decision[c] \in Escalatable,
           decision[c] = "Tool" => Info[c].tool \in Tools,
           decision[c] = "Runner" => Info[c].runner \in Runners,
           NEW k \in Additions, WellFormed(k), Contains(g, k)
    PROVE  Contains(Extended(g, c), k)
  <1>0. Info[c] \in CallRecords /\ Info[k.call] \in CallRecords
    BY CallsAssumption DEF Additions
  <1>1. CASE decision[c] = "Tool"
    BY <1>1, <1>0 DEF Extended, Contains, WellFormed, Grants, CallRecords, Additions
  <1>2. CASE decision[c] = "Confirm"
    BY <1>2, <1>0 DEF Extended, Contains, WellFormed, Grants, CallRecords, Additions
  <1>3. CASE decision[c] = "Runner"
    <2>1. Extended(g, c) =
            [g EXCEPT !.runnerActions[Info[c].runner] = @ \cup {Info[c].action}]
      BY <1>3 DEF Extended
    <2> QED
      BY <1>3, <1>0, <2>1 DEF Contains, WellFormed, Grants, CallRecords, Additions
  <1> QED
    BY <1>1, <1>2, <1>3 DEF Escalatable

\* ... and adds the answer.
LEMMA ExtendedAdds ==
    ASSUME NEW g \in Grants, NEW c \in Calls, missing[c] \in SUBSET Permissions,
           decision[c] \in Escalatable,
           decision[c] = "Tool" => Info[c].tool \in Tools,
           decision[c] = "Runner" => Info[c].runner \in Runners
    PROVE  Contains(Extended(g, c), Addition(c))
  <1>0. Info[c] \in CallRecords
    BY CallsAssumption
  <1>1. CASE decision[c] = "Tool"
    BY <1>1, <1>0 DEF Extended, Contains, Addition, Grants, CallRecords
  <1>2. CASE decision[c] = "Confirm"
    BY <1>2, <1>0 DEF Extended, Contains, Addition, Grants, CallRecords
  <1>3. CASE decision[c] = "Runner"
    BY <1>3, <1>0 DEF Extended, Contains, Addition, Grants, CallRecords
  <1> QED
    BY <1>1, <1>2, <1>3 DEF Escalatable

LEMMA NextKept == MaxExecutors = 1 /\ TypeInv /\ KeptInv /\ [Next]_vars => KeptInv'
  <1> SUFFICES ASSUME MaxExecutors = 1, TypeInv, KeptInv, [Next]_vars PROVE KeptInv'
    OBVIOUS
  <1>w. \A c, d \in Calls : Saving(c) /\ Saving(d) => c = d
    BY OneSaver
  <1> USE DEF KeptInv, WellFormed, Contains, Addition, Saving
  <1>1. ASSUME NEW c \in Calls, NEW e \in Executors, Submit(c, e) PROVE KeptInv'
    BY <1>1 DEF Submit, Goto, TypeInv, Types, diskVars, engineVars, callVars, askVars
  <1>2. ASSUME NEW c \in Calls, Check(c) PROVE KeptInv'
    BY <1>2 DEF Check, AfterCheck, Goto, TypeInv, Types, AfterCheck, diskVars, engineVars, callVars, askVars
  <1>3. ASSUME NEW c \in Calls, AskOwn(c) PROVE KeptInv'
    BY <1>3 DEF AskOwn, Goto, TypeInv, Types, diskVars, engineVars, callVars, askVars
  <1>4. ASSUME NEW c \in Calls, NEW q \in asking, Join(c, q) PROVE KeptInv'
    BY <1>4 DEF Join, Goto, TypeInv, Types, diskVars, engineVars, callVars, askVars
  <1>5. ASSUME NEW c \in Calls, NEW v \in Verdicts, Answer(c, v) PROVE KeptInv'
    BY <1>5 DEF Answer, Goto, diskVars, engineVars, callVars, askVars
  <1>6. ASSUME NEW c \in Calls, TakeDeny(c) PROVE KeptInv'
    BY <1>6 DEF TakeDeny, Goto, TypeInv, Types, diskVars, engineVars, callVars, askVars
  <1>7. ASSUME NEW c \in Calls, TakeAllow(c) PROVE KeptInv'
    BY <1>7 DEF TakeAllow, Goto, TypeInv, Types, diskVars, engineVars, callVars, askVars
  <1>8. ASSUME NEW c \in Calls, SaveLock(c) PROVE KeptInv'
    BY <1>8 DEF SaveLock, Free, Goto, TypeInv, Types, diskVars, engineVars, callVars, askVars
  <1>9. ASSUME NEW c \in Calls, SaveRead(c) PROVE KeptInv'
    <2> HIDE DEF WellFormed, Contains
    <2>1. /\ missing[c] \in SUBSET Permissions /\ decision[c] \in Escalatable
          /\ decision[c] = "Tool" => Info[c].tool \in Tools
          /\ decision[c] = "Runner" => Info[c].runner \in Runners
          /\ file \in Grants /\ kept \subseteq Additions
      BY <1>9 DEF SaveRead, Readable, TypeInv, Types, Placed
    <2>2. \A k \in kept : Contains(Extended(file, c), k)
      BY <2>1, ExtendedKeeps
    <2>3. Contains(Extended(file, c), Addition(c))
      BY <2>1, ExtendedAdds
    <2>4. /\ draft'[c] = Extended(file, c)
          /\ \A d \in Calls \ {c} : pc'[d] # "write"
      BY <1>9, <1>w DEF SaveRead, Goto, TypeInv, Types
    <2>5. \A k \in kept : WellFormed(k) /\ Contains(file, k)
      OBVIOUS
    <2>6. /\ kept' = kept /\ file' = file
          /\ missing' = missing /\ decision' = decision
      BY <1>9 DEF SaveRead, diskVars, callVars
    <2>7. \A k : (WellFormed(k) <=> WellFormed(k)')
      BY DEF WellFormed
    <2> USE DEF Contains, WellFormed
    <2> QED
      BY <2>1, <2>2, <2>3, <2>4, <2>5, <2>6
  <1>10. ASSUME NEW c \in Calls, SaveWrite(c) PROVE KeptInv'
    <2>1. \A d \in Calls : pc'[d] # "write"
      BY <1>10, <1>w DEF SaveWrite, Goto, TypeInv, Types
    <2>2. /\ draft[c] \in Grants /\ file' = draft[c]
          /\ decision[c] \in Escalatable
          /\ decision[c] = "Tool" => Info[c].tool \in Tools
          /\ decision[c] = "Runner" => Info[c].runner \in Runners
      BY <1>10 DEF SaveWrite, TypeInv, Types, Placed
    <2>3. kept' = kept \cup {Addition(c)} /\ WellFormed(Addition(c))
      BY <1>10, <2>2 DEF SaveWrite
    <2> QED
      BY <2>1, <2>2, <2>3, <1>10 DEF SaveWrite
  <1>11. ASSUME NEW c \in Calls, SaveReload(c) PROVE KeptInv'
    BY <1>11 DEF SaveReload, Unlock, Goto, TypeInv, Types, diskVars, engineVars, callVars, askVars
  <1>12. ASSUME NEW c \in Calls, SaveFails(c) PROVE KeptInv'
    BY <1>12 DEF SaveFails, Unlock, Goto, TypeInv, Types, diskVars, engineVars, callVars, askVars
  <1>13. ASSUME NEW g \in Edits, HandEdit(g) PROVE KeptInv'
    BY <1>13 DEF HandEdit, Goto, diskVars, engineVars, callVars, askVars
  <1>14. ASSUME Reload PROVE KeptInv'
    BY <1>14 DEF Reload, Goto, diskVars, engineVars, callVars, askVars
  <1>15. CASE UNCHANGED vars
    BY <1>15 DEF vars, diskVars, engineVars, callVars, askVars
  <1> QED
    BY <1>1, <1>2, <1>3, <1>4, <1>5, <1>6, <1>7, <1>8, <1>9, <1>10, <1>11, <1>12, <1>13, <1>14, <1>15 DEF Next, CallNext

\* SavedForeverStays: with one executor no save is lost to another.
THEOREM SavesAreKept ==
    ASSUME MaxExecutors = 1 PROVE Spec => []SavedForeverStays
  <1>1. Init => KeptInv
    BY DEF Init, KeptInv
  <1>2. KeptInv => SavedForeverStays
    BY DEF KeptInv, SavedForeverStays
  <1>3. TypeInv /\ KeptInv /\ [Next]_vars => KeptInv'
    BY NextKept
  <1> QED
    BY <1>1, <1>2, <1>3, InitTypes, NextTypes, PTL DEF Spec

-----------------------------------------------------------------------------
(* With one executor, what was saved is in force once the save is over.      *)

\* Unless a save is about to store the fresh engine, the engine has all that
\* was saved, as long as the file loads.
ForceInv ==
    /\ \A k \in kept : pc[k.call] # "idle"
    /\ Loadable(file) /\ (\A c \in Calls : pc[c] # "reload") =>
          \A k \in kept : Contains(engine[1], k)

\* A step that writes nothing and ends no save.
LEMMA ForceFrame ==
    ASSUME TypeInv, ForceInv, kept' = kept, file' = file, engine' = engine,
           \A d \in Calls : pc'[d] = "idle" => pc[d] = "idle",
           \A d \in Calls : pc[d] = "reload" => pc'[d] = "reload"
    PROVE  ForceInv'
  <1>1. \A k \in kept : k.call \in Calls
    BY DEF TypeInv, Types, Additions
  <1>2. \A k \in kept' : pc'[k.call] # "idle"
    BY <1>1 DEF ForceInv
  <1>3. (\A d \in Calls : pc'[d] # "reload") => \A d \in Calls : pc[d] # "reload"
    OBVIOUS
  <1>4. \A k : Contains(engine'[1], k) = Contains(engine[1], k)
    OBVIOUS
  <1> QED
    BY <1>2, <1>3, <1>4 DEF ForceInv, Loadable

LEMMA NextForce ==
    ASSUME MaxExecutors = 1, TypeInv, KeptInv, ForceInv, [Next]_vars
    PROVE  ForceInv'
  <1>c. \A k \in kept : k.call \in Calls
    BY DEF TypeInv, Types, Additions
  <1>1. ASSUME NEW c \in Calls, NEW e \in Executors, Submit(c, e) PROVE ForceInv'
    <2>1. pc' = [pc EXCEPT ![c] = "check"] /\ pc[c] = "idle"
      BY <1>1 DEF Submit, Goto
    <2>2. /\ \A d \in Calls : pc'[d] = "idle" => pc[d] = "idle"
          /\ \A d \in Calls : pc[d] = "reload" => pc'[d] = "reload"
      BY <2>1 DEF TypeInv, Types
    <2> QED
      BY <1>1, <2>2, ForceFrame DEF Submit, diskVars, engineVars
  <1>2. ASSUME NEW c \in Calls, Check(c) PROVE ForceInv'
    <2>1. pc[c] = "check" /\ \A d \in Calls \ {c} : pc'[d] = pc[d]
      BY <1>2 DEF Check, Goto, TypeInv, Types
    <2>2. pc'[c] # "idle"
      BY <1>2 DEF Check, Goto, AfterCheck, TypeInv, Types
    <2>3. /\ \A d \in Calls : pc'[d] = "idle" => pc[d] = "idle"
          /\ \A d \in Calls : pc[d] = "reload" => pc'[d] = "reload"
      BY <2>1, <2>2
    <2> QED
      BY <1>2, <2>3, ForceFrame DEF Check, diskVars, engineVars
  <1>3. ASSUME NEW c \in Calls, AskOwn(c) PROVE ForceInv'
    <2>1. pc' = [pc EXCEPT ![c] = "asking"] /\ pc[c] = "escalate"
      BY <1>3 DEF AskOwn, Goto
    <2>2. /\ \A d \in Calls : pc'[d] = "idle" => pc[d] = "idle"
          /\ \A d \in Calls : pc[d] = "reload" => pc'[d] = "reload"
      BY <2>1 DEF TypeInv, Types
    <2> QED
      BY <1>3, <2>2, ForceFrame DEF AskOwn, diskVars, engineVars
  <1>4. ASSUME NEW c \in Calls, NEW q \in asking, Join(c, q) PROVE ForceInv'
    <2>1. pc' = [pc EXCEPT ![c] = "asking"] /\ pc[c] = "escalate"
      BY <1>4 DEF Join, Goto
    <2>2. /\ \A d \in Calls : pc'[d] = "idle" => pc[d] = "idle"
          /\ \A d \in Calls : pc[d] = "reload" => pc'[d] = "reload"
      BY <2>1 DEF TypeInv, Types
    <2> QED
      BY <1>4, <2>2, ForceFrame DEF Join, diskVars, engineVars
  <1>5. ASSUME NEW c \in Calls, NEW v \in Verdicts, Answer(c, v) PROVE ForceInv'
    BY <1>5, ForceFrame DEF Answer, diskVars, engineVars
  <1>6. ASSUME NEW c \in Calls, TakeDeny(c) PROVE ForceInv'
    <2>1. pc' = [pc EXCEPT ![c] = "refused"] /\ pc[c] = "asking"
      BY <1>6 DEF TakeDeny, Goto
    <2>2. /\ \A d \in Calls : pc'[d] = "idle" => pc[d] = "idle"
          /\ \A d \in Calls : pc[d] = "reload" => pc'[d] = "reload"
      BY <2>1 DEF TypeInv, Types
    <2> QED
      BY <1>6, <2>2, ForceFrame DEF TakeDeny, diskVars, engineVars
  <1>7. ASSUME NEW c \in Calls, TakeAllow(c) PROVE ForceInv'
    <2>1. \/ pc' = [pc EXCEPT ![c] = "check"]
          \/ pc' = [pc EXCEPT ![c] = "save"]
      BY <1>7 DEF TakeAllow, Goto
    <2>2. pc[c] = "asking"
      BY <1>7 DEF TakeAllow
    <2>3. /\ \A d \in Calls : pc'[d] = "idle" => pc[d] = "idle"
          /\ \A d \in Calls : pc[d] = "reload" => pc'[d] = "reload"
      BY <2>1, <2>2 DEF TypeInv, Types
    <2> QED
      BY <1>7, <2>3, ForceFrame DEF TakeAllow, diskVars, engineVars
  <1>8. ASSUME NEW c \in Calls, SaveLock(c) PROVE ForceInv'
    <2>1. pc' = [pc EXCEPT ![c] = "read"] /\ pc[c] = "save"
      BY <1>8 DEF SaveLock, Goto
    <2>2. /\ \A d \in Calls : pc'[d] = "idle" => pc[d] = "idle"
          /\ \A d \in Calls : pc[d] = "reload" => pc'[d] = "reload"
      BY <2>1 DEF TypeInv, Types
    <2> QED
      BY <1>8, <2>2, ForceFrame DEF SaveLock, diskVars
  <1>9. ASSUME NEW c \in Calls, SaveRead(c) PROVE ForceInv'
    <2>1. pc' = [pc EXCEPT ![c] = "write"] /\ pc[c] = "read"
      BY <1>9 DEF SaveRead, Goto
    <2>2. /\ \A d \in Calls : pc'[d] = "idle" => pc[d] = "idle"
          /\ \A d \in Calls : pc[d] = "reload" => pc'[d] = "reload"
      BY <2>1 DEF TypeInv, Types
    <2> QED
      BY <1>9, <2>2, ForceFrame DEF SaveRead, diskVars, engineVars
  <1>10. ASSUME NEW c \in Calls, SaveWrite(c) PROVE ForceInv'
    <2>1. pc[c] = "write" /\ pc'[c] = "reload" /\ \A d \in Calls \ {c} : pc'[d] = pc[d]
      BY <1>10 DEF SaveWrite, Goto, TypeInv, Types
    <2>2. kept' = kept \cup {Addition(c)} /\ Addition(c).call = c
      BY <1>10 DEF SaveWrite, Addition
    <2>3. \A k \in kept' : pc'[k.call] # "idle"
      BY <1>c, <2>1, <2>2 DEF ForceInv
    <2> QED
      BY <2>1, <2>3 DEF ForceInv
  <1>11. ASSUME NEW c \in Calls, SaveReload(c) PROVE ForceInv'
    <2>1. home[c] = 1 /\ engine'[1] = file
      BY <1>11 DEF SaveReload, TypeInv, Types, Placed, Executors
    <2>2. \A k \in kept : Contains(file, k)
      BY DEF KeptInv
    <2>3. \A d \in Calls : pc'[d] = "idle" => pc[d] = "idle"
      BY <1>11 DEF SaveReload, Goto, TypeInv, Types
    <2>4. kept' = kept
      BY <1>11 DEF SaveReload, diskVars
    <2>6. \A k \in kept' : Contains(engine[1], k)'
      BY <2>1, <2>2, <2>4 DEF Contains
    <2> QED
      BY <1>c, <2>3, <2>4, <2>6 DEF ForceInv
  <1>12. ASSUME NEW c \in Calls, SaveFails(c) PROVE ForceInv'
    <2>1. pc'[c] = "refused" /\ \A d \in Calls \ {c} : pc'[d] = pc[d]
      BY <1>12 DEF SaveFails, Goto, TypeInv, Types
    <2>2. kept' = kept /\ file' = file /\ engine' = engine
      BY <1>12 DEF SaveFails, diskVars
    <2>3. CASE pc[c] = "reload" /\ ~ Loadable(file)
      BY <1>c, <2>1, <2>2, <2>3 DEF ForceInv, Loadable
    <2>4. CASE pc[c] \in {"read", "write"}
      <3>1. /\ \A d \in Calls : pc'[d] = "idle" => pc[d] = "idle"
            /\ \A d \in Calls : pc[d] = "reload" => pc'[d] = "reload"
        BY <2>1, <2>4
      <3> QED
        BY <2>2, <3>1, ForceFrame
    <2> QED
      BY <1>12, <2>3, <2>4 DEF SaveFails
  <1>13. ASSUME NEW g \in Edits, HandEdit(g) PROVE ForceInv'
    BY <1>13 DEF HandEdit, ForceInv
  <1>14. ASSUME Reload PROVE ForceInv'
    BY <1>14 DEF Reload, TypeInv, Types, Executors
  <1>15. CASE UNCHANGED vars
    BY <1>15, ForceFrame DEF vars, diskVars, engineVars
  <1> QED
    BY <1>1, <1>2, <1>3, <1>4, <1>5, <1>6, <1>7, <1>8, <1>9, <1>10, <1>11, <1>12, <1>13, <1>14, <1>15 DEF Next, CallNext

\* SavedIsInForce: with one executor, whatever the user edits and however
\* saves fail, a saved answer is in the engine once nobody saves.
THEOREM SavesAreInForce ==
    ASSUME MaxExecutors = 1 PROVE Spec => []SavedIsInForce
  <1>1. Init => KeptInv /\ ForceInv
    BY DEF Init, KeptInv, ForceInv
  <1>2. TypeInv /\ KeptInv /\ ForceInv => SavedIsInForce
    <2> SUFFICES ASSUME TypeInv, KeptInv, ForceInv, NEW k \in kept,
                        lock[home[k.call]] = No, Loadable(file)
                 PROVE  Contains(engine[home[k.call]], k)
      BY DEF SavedIsInForce
    <2>1. k.call \in Calls
      BY DEF TypeInv, Types, Additions
    <2>2. home[k.call] = 1
      BY <2>1 DEF ForceInv, TypeInv, Placed, Types, Executors
    <2>3. \A c \in Calls : pc[c] # "reload"
      <3> SUFFICES ASSUME NEW c \in Calls, pc[c] = "reload" PROVE FALSE
        OBVIOUS
      <3>1. home[c] = 1 /\ lock[home[c]] = c
        BY DEF TypeInv, Placed, LocksAgree, Saving, Executors
      <3> QED
        BY <2>2, <3>1, CallsAssumption
    <2> QED
      BY <2>2, <2>3 DEF ForceInv
  <1>3. TypeInv /\ KeptInv /\ [Next]_vars => KeptInv'
    BY NextKept
  <1>4. TypeInv /\ KeptInv /\ ForceInv /\ [Next]_vars => ForceInv'
    BY NextForce
  <1> QED
    BY <1>1, <1>2, <1>3, <1>4, InitTypes, NextTypes, PTL DEF Spec

-----------------------------------------------------------------------------
(* There are at most three questions: one about the runner, one about grants *)
(* and one to confirm.  It takes grants that only grow while a call waits    *)
(* (one executor, no edits) and permissions that cover themselves.           *)

Reflexive == \A p \in Permissions : <<p, p>> \in Covers

Grown(g, h) == \A t \in Tools : g.granted[t] \subseteq h.granted[t]

\* The three questions: asked and settled, or being asked.
Asks(c, k) == pc[c] \in Phase \cup {"escalate"} /\ decision[c] = k
Runnered(c)  == approved[c].runner_action \/ Asks(c, "Runner")
Granted(c)   == Lacks(engine[1], Info[c], approved[c].permissions) = {} \/ Asks(c, "Tool")
Confirmed(c) == approved[c].confirm \/ Asks(c, "Confirm")
One(b) == IF b THEN 1 ELSE 0

\* Grants only grow, from the engine to the file to the draft.
GrowInv ==
    /\ file \in Grants /\ Grown(engine[1], file)
    /\ \A c \in Calls : pc[c] = "write" => Grown(file, draft[c])

\* Each question asked is one of the three, a grants answer covers all that
\* the call lacks, and the fourth question is never reached.
Counted(c) ==
    /\ pc[c] \notin Ended =>
          asked[c] <= One(Runnered(c)) + One(Granted(c)) + One(Confirmed(c))
    /\ pc[c] \in Phase /\ decision[c] = "Tool" =>
          Lacks(engine[1], Info[c], missing[c]) = {}
    /\ pc[c] # "fourth"

CountInv == \A c \in Calls : Counted(c)

\* More grants and more approvals never lack more.
LEMMA LacksShrinks ==
    ASSUME NEW g \in Grants, NEW h \in Grants, Grown(g, h), NEW i \in CallRecords,
           NEW P, NEW Q, P \subseteq Q, Lacks(g, i, P) = {}
    PROVE  Lacks(h, i, Q) = {}
  <1>1. ToolGrants(g, i) \subseteq ToolGrants(h, i)
    BY DEF ToolGrants, Grown
  <1> QED
    BY <1>1 DEF Lacks, Held

\* What a grants question names as missing is all it takes.
LEMMA MissingCovers ==
    ASSUME Reflexive, NEW g \in Grants, NEW i \in CallRecords
    PROVE  Lacks(g, i, Lacks(g, i, {})) = {}
  BY DEF Lacks, Held, Reflexive, CallRecords

LEMMA NextGrow ==
    MaxExecutors = 1 /\ MaxEdits = 0 /\ TypeInv /\ GrowInv /\ [Next]_vars => GrowInv'
  <1> SUFFICES ASSUME MaxExecutors = 1, MaxEdits = 0, TypeInv, GrowInv, [Next]_vars
               PROVE  GrowInv'
    OBVIOUS
  <1>w. \A c, d \in Calls : Saving(c) /\ Saving(d) => c = d
    BY OneSaver
  <1> USE DEF GrowInv, Grown, Saving
  <1>1. ASSUME NEW c \in Calls, NEW e \in Executors, Submit(c, e) PROVE GrowInv'
    BY <1>1 DEF Submit, Goto, TypeInv, Types, diskVars, engineVars, callVars, askVars
  <1>2. ASSUME NEW c \in Calls, Check(c) PROVE GrowInv'
    BY <1>2 DEF Check, AfterCheck, Goto, TypeInv, Types, AfterCheck, diskVars, engineVars, callVars, askVars
  <1>3. ASSUME NEW c \in Calls, AskOwn(c) PROVE GrowInv'
    BY <1>3 DEF AskOwn, Goto, TypeInv, Types, diskVars, engineVars, callVars, askVars
  <1>4. ASSUME NEW c \in Calls, NEW q \in asking, Join(c, q) PROVE GrowInv'
    BY <1>4 DEF Join, Goto, TypeInv, Types, diskVars, engineVars, callVars, askVars
  <1>5. ASSUME NEW c \in Calls, NEW v \in Verdicts, Answer(c, v) PROVE GrowInv'
    BY <1>5 DEF Answer, Goto, TypeInv, Types, diskVars, engineVars, callVars, askVars
  <1>6. ASSUME NEW c \in Calls, TakeDeny(c) PROVE GrowInv'
    BY <1>6 DEF TakeDeny, Goto, TypeInv, Types, diskVars, engineVars, callVars, askVars
  <1>7. ASSUME NEW c \in Calls, TakeAllow(c) PROVE GrowInv'
    BY <1>7 DEF TakeAllow, Goto, TypeInv, Types, diskVars, engineVars, callVars, askVars
  <1>8. ASSUME NEW c \in Calls, SaveLock(c) PROVE GrowInv'
    BY <1>8 DEF SaveLock, Free, Goto, TypeInv, Types, diskVars, engineVars, callVars, askVars
  <1>9. ASSUME NEW c \in Calls, SaveRead(c) PROVE GrowInv'
    <2>1. file \in Grants /\ (decision[c] = "Tool" => Info[c].tool \in Tools)
          /\ (decision[c] = "Runner" => Info[c].runner \in Runners)
          /\ decision[c] \in Escalatable
      BY <1>9 DEF SaveRead, Readable, TypeInv, Types, Placed
    <2>2. Grown(file, Extended(file, c))
      BY <2>1 DEF Extended, Grants, Escalatable
    <2>3. /\ draft'[c] = Extended(file, c)
          /\ \A d \in Calls \ {c} : pc'[d] # "write"
          /\ file' = file /\ engine' = engine
      BY <1>9, <1>w DEF SaveRead, Goto, TypeInv, Types, diskVars, engineVars
    <2> QED
      BY <2>1, <2>2, <2>3
  <1>10. ASSUME NEW c \in Calls, SaveWrite(c) PROVE GrowInv'
    <2>1. \A d \in Calls : pc'[d] # "write"
      BY <1>10, <1>w DEF SaveWrite, Goto, TypeInv, Types
    <2>2. draft[c] \in Grants /\ file' = draft[c] /\ engine' = engine
      BY <1>10 DEF SaveWrite, TypeInv, Types, engineVars
    <2> QED
      BY <2>1, <2>2, <1>10 DEF SaveWrite
  <1>11. ASSUME NEW c \in Calls, SaveReload(c) PROVE GrowInv'
    BY <1>11 DEF SaveReload, Unlock, Goto, TypeInv, Types, Placed, Executors, diskVars, engineVars, callVars, askVars
  <1>12. ASSUME NEW c \in Calls, SaveFails(c) PROVE GrowInv'
    BY <1>12 DEF SaveFails, Unlock, Goto, TypeInv, Types, diskVars, engineVars, callVars, askVars
  <1>13. ASSUME NEW g \in Edits, HandEdit(g) PROVE GrowInv'
    BY <1>13 DEF HandEdit, Goto, TypeInv, Types, diskVars, engineVars, callVars, askVars
  <1>14. ASSUME Reload PROVE GrowInv'
    BY <1>14 DEF Reload, Goto, TypeInv, Types, Executors, diskVars, engineVars, callVars, askVars
  <1>15. CASE UNCHANGED vars
    BY <1>15 DEF vars, diskVars, engineVars, callVars, askVars
  <1> QED
    BY <1>1, <1>2, <1>3, <1>4, <1>5, <1>6, <1>7, <1>8, <1>9, <1>10, <1>11, <1>12, <1>13, <1>14, <1>15 DEF Next, CallNext

\* Settling more never lowers the count.
LEMMA CountUp ==
    ASSUME NEW a \in Nat, NEW x, NEW y, NEW z, NEW x2, NEW y2, NEW z2,
           x => x2, y => y2, z => z2, a <= One(x) + One(y) + One(z)
    PROVE  a <= One(x2) + One(y2) + One(z2)
  BY DEF One

\* A call that a step leaves alone keeps its count while grants grow.
LEMMA CountFrame ==
    ASSUME TypeInv, MaxExecutors = 1, engine'[1] \in Grants,
           Grown(engine[1], engine'[1]), NEW d \in Calls, Counted(d),
           pc'[d] = pc[d], decision'[d] = decision[d], asked'[d] = asked[d],
           approved'[d] = approved[d], missing'[d] = missing[d]
    PROVE  Counted(d)'
  <1>1. engine[1] \in Grants /\ Info[d] \in CallRecords /\ asked[d] \in Nat
    BY CallsAssumption DEF TypeInv, Types, Executors
  <1>2. \A P : Lacks(engine[1], Info[d], P) = {} => Lacks(engine'[1], Info[d], P) = {}
    BY <1>1, LacksShrinks
  <1>3. /\ Runnered(d) => Runnered(d)'
        /\ Granted(d) => Granted(d)'
        /\ Confirmed(d) => Confirmed(d)'
    BY <1>2 DEF Runnered, Granted, Confirmed, Asks
  <1>4. pc[d] \notin Ended =>
          asked'[d] <= One(Runnered(d)') + One(Granted(d)') + One(Confirmed(d)')
    BY <1>1, <1>3, CountUp DEF Counted
  <1> QED
    BY <1>2, <1>4 DEF Counted, One

\* So does a call whose questions stay settled as the step moves it on.
LEMMA CountStep ==
    ASSUME NEW c \in Calls, asked[c] \in Nat, Counted(c), pc[c] \notin Ended,
           Runnered(c) => Runnered(c)', Granted(c) => Granted(c)',
           Confirmed(c) => Confirmed(c)', asked'[c] = asked[c], pc'[c] # "fourth",
           pc'[c] \in Phase /\ decision'[c] = "Tool" =>
              Lacks(engine'[1], Info[c], missing'[c]) = {}
    PROVE  Counted(c)'
  <1>1. asked'[c] <= One(Runnered(c)') + One(Granted(c)') + One(Confirmed(c)')
    BY CountUp DEF Counted
  <1> QED
    BY <1>1 DEF Counted, One

\* The check asks only about what is not settled.
LEMMA CountCheck ==
    ASSUME TypeInv, MaxExecutors = 1, NEW c \in Calls, Counted(c), Check(c)
    PROVE  Counted(c)'
  <1>1. /\ pc[c] = "check" /\ GrantsOf(c) = engine[1] /\ asked[c] \in 0 .. 3
        /\ engine' = engine /\ approved' = approved /\ missing' = missing
    BY DEF Check, GrantsOf, TypeInv, Types, Placed, Executors, engineVars
  <1> DEFINE d == CheckApproved(engine[1], Info[c], approved[c])
  <1>2. /\ decision'[c] = d /\ pc'[c] = AfterCheck(c, d)
        /\ asked'[c] = IF AfterCheck(c, d) = "escalate" THEN asked[c] + 1 ELSE asked[c]
    BY <1>1 DEF Check, Goto, TypeInv, Types
  <1>3. asked[c] <= One(Runnered(c)) + One(Granted(c)) + One(Confirmed(c))
    BY <1>1 DEF Counted, Ended
  <1>4. /\ Runnered(c) = approved[c].runner_action
        /\ Granted(c) = (Lacks(engine[1], Info[c], approved[c].permissions) = {})
        /\ Confirmed(c) = approved[c].confirm
    <2>1. approved[c].runner_action \in BOOLEAN /\ approved[c].confirm \in BOOLEAN
      BY DEF TypeInv, Types, Approvals
    <2>2. \A k : ~ Asks(c, k)
      BY <1>1 DEF Asks, Phase
    <2> QED
      BY <2>1, <2>2 DEF Runnered, Granted, Confirmed
  <1>5. /\ d = "Runner" => ~ Runnered(c)
        /\ d = "Tool" => ~ Granted(c)
        /\ d = "Confirm" => ~ Confirmed(c)
    BY <1>4 DEF CheckApproved
  <1>6. CASE AfterCheck(c, d) = "escalate"
    <2>1. d \in Escalatable
      BY <1>6 DEF AfterCheck
    <2>2. /\ Runnered(c)' <=> (Runnered(c) \/ d = "Runner")
          /\ Granted(c)' <=> (Granted(c) \/ d = "Tool")
          /\ Confirmed(c)' <=> (Confirmed(c) \/ d = "Confirm")
      BY <1>1, <1>2, <1>4, <1>6 DEF Runnered, Granted, Confirmed, Asks
    <2>3. asked[c] + 1 <= One(Runnered(c)') + One(Granted(c)') + One(Confirmed(c)')
      <3>1. CASE d = "Runner"
        BY <1>1, <1>3, <1>5, <2>2, <3>1 DEF One
      <3>2. CASE d = "Tool"
        BY <1>1, <1>3, <1>5, <2>2, <3>2 DEF One
      <3>3. CASE d = "Confirm"
        BY <1>1, <1>3, <1>5, <2>2, <3>3 DEF One
      <3> QED
        BY <2>1, <3>1, <3>2, <3>3 DEF Escalatable
    <2> QED
      BY <1>2, <1>6, <2>3 DEF Counted, One, Phase
  <1>7. CASE AfterCheck(c, d) = "fourth"
    <2>1. d \in Escalatable /\ asked[c] >= 3
      BY <1>7 DEF AfterCheck
    <2>2. Runnered(c) /\ Granted(c) /\ Confirmed(c)
      BY <1>1, <1>3, <2>1 DEF One
    <2> QED
      BY <1>5, <2>1, <2>2 DEF Escalatable
  <1>8. CASE AfterCheck(c, d) \in {"running", "refused"}
    BY <1>2, <1>8 DEF Counted, Ended, Phase
  <1> QED
    BY <1>6, <1>7, <1>8 DEF AfterCheck

\* An allow settles the question that was asked.
LEMMA CountProceed ==
    ASSUME TypeInv, MaxExecutors = 1, NEW c \in Calls, Counted(c), pc[c] \in Phase,
           engine'[1] \in Grants, Grown(engine[1], engine'[1]),
           approved'[c] = Proceed(c), pc'[c] = "check", asked'[c] = asked[c]
    PROVE  Counted(c)'
  <1>1. /\ engine[1] \in Grants /\ Info[c] \in CallRecords /\ asked[c] \in Nat
        /\ approved[c] \in Approvals
    BY CallsAssumption DEF TypeInv, Types, Executors
  <1>2. /\ approved'[c].permissions = approved[c].permissions \cup missing[c]
        /\ approved'[c].runner_action = (approved[c].runner_action \/ decision[c] = "Runner")
        /\ approved'[c].confirm = (approved[c].confirm \/ decision[c] = "Confirm")
    BY DEF Proceed
  <1>3. Runnered(c) => Runnered(c)'
    BY <1>1, <1>2 DEF Runnered, Asks
  <1>4. Confirmed(c) => Confirmed(c)'
    BY <1>1, <1>2 DEF Confirmed, Asks
  <1>5. ASSUME Granted(c) PROVE Lacks(engine'[1], Info[c], approved'[c].permissions) = {}
    <2>1. CASE Lacks(engine[1], Info[c], approved[c].permissions) = {}
      BY <1>1, <1>2, <2>1, LacksShrinks
    <2>2. CASE decision[c] = "Tool"
      <3>1. Lacks(engine[1], Info[c], missing[c]) = {}
        BY <2>2 DEF Counted
      <3> QED
        BY <1>1, <1>2, <3>1, LacksShrinks
    <2> QED
      BY <1>5, <2>1, <2>2 DEF Granted, Asks
  <1>6. Granted(c) => Granted(c)'
    BY <1>5 DEF Granted
  <1> QED
    BY <1>1, <1>3, <1>4, <1>6, CountStep DEF Phase, Ended

LEMMA NextCount ==
    ASSUME MaxExecutors = 1, MaxEdits = 0, Reflexive, TypeInv, TypeInv', GrowInv,
           CountInv, [Next]_vars
    PROVE  CountInv'
  <1>g. /\ engine[1] \in Grants /\ engine'[1] \in Grants
        /\ \A c \in Calls : asked[c] \in Nat
    BY DEF TypeInv, Types, Executors
  <1>f. ASSUME NEW d \in Calls, Grown(engine[1], engine'[1]),
               pc'[d] = pc[d], decision'[d] = decision[d], asked'[d] = asked[d],
               approved'[d] = approved[d], missing'[d] = missing[d]
        PROVE  Counted(d)'
    BY <1>f, <1>g, CountFrame DEF CountInv
  <1>s. Grown(engine[1], engine[1])
    BY DEF Grown
  <1>1. ASSUME NEW c \in Calls, NEW e \in Executors, Submit(c, e) PROVE CountInv'
    <2>1. \A d \in Calls \ {c} :
            /\ pc'[d] = pc[d] /\ decision'[d] = decision[d] /\ asked'[d] = asked[d]
            /\ approved'[d] = approved[d] /\ missing'[d] = missing[d]
      BY <1>1 DEF Submit, Goto, callVars, TypeInv, Types
    <2>2. engine' = engine /\ Grown(engine[1], engine'[1])
      BY <1>1, <1>s DEF Submit, engineVars
    <2>3. Counted(c)'
      BY <1>1, <1>g, <2>2, CountStep DEF Submit, Goto, callVars, CountInv, Counted, Runnered,
         Granted, Confirmed, Asks, Phase, Ended, TypeInv, Types
    <2> QED
      BY <1>f, <2>1, <2>2, <2>3 DEF CountInv
  <1>2. ASSUME NEW c \in Calls, Check(c) PROVE CountInv'
    <2>1. \A d \in Calls \ {c} :
            /\ pc'[d] = pc[d] /\ decision'[d] = decision[d] /\ asked'[d] = asked[d]
            /\ approved'[d] = approved[d] /\ missing'[d] = missing[d]
      BY <1>2 DEF Check, Goto, callVars, TypeInv, Types
    <2>2. engine' = engine /\ Grown(engine[1], engine'[1])
      BY <1>2, <1>s DEF Check, AfterCheck, engineVars
    <2>3. Counted(c)'
      BY <1>2, CountCheck DEF CountInv
    <2> QED
      BY <1>f, <2>1, <2>2, <2>3 DEF CountInv
  <1>3. ASSUME NEW c \in Calls, AskOwn(c) PROVE CountInv'
    <2>1. \A d \in Calls \ {c} :
            /\ pc'[d] = pc[d] /\ decision'[d] = decision[d] /\ asked'[d] = asked[d]
            /\ approved'[d] = approved[d] /\ missing'[d] = missing[d]
      BY <1>3 DEF AskOwn, Goto, callVars, TypeInv, Types
    <2>2. engine' = engine /\ Grown(engine[1], engine'[1])
      BY <1>3, <1>s DEF AskOwn, engineVars
    <2>3. /\ pc[c] = "escalate" /\ pc'[c] = "asking" /\ GrantsOf(c) = engine[1]
          /\ decision' = decision /\ approved' = approved /\ asked' = asked
          /\ missing'[c] = Missing(c)
      BY <1>3 DEF AskOwn, Goto, GrantsOf, TypeInv, Types, Placed, Executors
    <2>4. decision[c] = "Tool" => Lacks(engine[1], Info[c], missing'[c]) = {}
      BY <1>g, <2>3, MissingCovers, CallsAssumption DEF Missing
    <2>5. /\ Runnered(c) => Runnered(c)'
          /\ Granted(c) => Granted(c)'
          /\ Confirmed(c) => Confirmed(c)'
      BY <2>2, <2>3 DEF Runnered, Granted, Confirmed, Asks, Phase
    <2>6. Counted(c)'
      BY <1>g, <2>2, <2>3, <2>4, <2>5, CountStep DEF CountInv, Ended
    <2> QED
      BY <1>f, <2>1, <2>2, <2>6 DEF CountInv
  <1>4. ASSUME NEW c \in Calls, NEW q \in asking, Join(c, q) PROVE CountInv'
    <2>1. \A d \in Calls \ {c} :
            /\ pc'[d] = pc[d] /\ decision'[d] = decision[d] /\ asked'[d] = asked[d]
            /\ approved'[d] = approved[d] /\ missing'[d] = missing[d]
      BY <1>4 DEF Join, Goto, callVars, TypeInv, Types
    <2>2. engine' = engine /\ Grown(engine[1], engine'[1])
      BY <1>4, <1>s DEF Join, engineVars
    <2>3. /\ pc[c] = "escalate" /\ pc'[c] = "asking" /\ GrantsOf(c) = engine[1]
          /\ decision' = decision /\ approved' = approved /\ asked' = asked
          /\ missing'[c] = Missing(c)
      BY <1>4 DEF Join, Goto, GrantsOf, TypeInv, Types, Placed, Executors
    <2>4. decision[c] = "Tool" => Lacks(engine[1], Info[c], missing'[c]) = {}
      BY <1>g, <2>3, MissingCovers, CallsAssumption DEF Missing
    <2>5. /\ Runnered(c) => Runnered(c)'
          /\ Granted(c) => Granted(c)'
          /\ Confirmed(c) => Confirmed(c)'
      BY <2>2, <2>3 DEF Runnered, Granted, Confirmed, Asks, Phase
    <2>6. Counted(c)'
      BY <1>g, <2>2, <2>3, <2>4, <2>5, CountStep DEF CountInv, Ended
    <2> QED
      BY <1>f, <2>1, <2>2, <2>6 DEF CountInv
  <1>5. ASSUME NEW c \in Calls, NEW v \in Verdicts, Answer(c, v) PROVE CountInv'
    <2>1. \A d \in Calls \ {c} :
            /\ pc'[d] = pc[d] /\ decision'[d] = decision[d] /\ asked'[d] = asked[d]
            /\ approved'[d] = approved[d] /\ missing'[d] = missing[d]
      BY <1>5 DEF Answer, Goto, callVars, TypeInv, Types
    <2>2. engine' = engine /\ Grown(engine[1], engine'[1])
      BY <1>5, <1>s DEF Answer, engineVars
    <2>3. Counted(c)'
      BY <1>5, <1>g, <2>2, CountStep DEF Answer, Goto, callVars, CountInv, Counted, Runnered,
         Granted, Confirmed, Asks, Phase, Ended, TypeInv, Types
    <2> QED
      BY <1>f, <2>1, <2>2, <2>3 DEF CountInv
  <1>6. ASSUME NEW c \in Calls, TakeDeny(c) PROVE CountInv'
    <2>1. \A d \in Calls \ {c} :
            /\ pc'[d] = pc[d] /\ decision'[d] = decision[d] /\ asked'[d] = asked[d]
            /\ approved'[d] = approved[d] /\ missing'[d] = missing[d]
      BY <1>6 DEF TakeDeny, Goto, callVars, TypeInv, Types
    <2>2. engine' = engine /\ Grown(engine[1], engine'[1])
      BY <1>6, <1>s DEF TakeDeny, engineVars
    <2>3. pc'[c] = "refused"
      BY <1>6 DEF TakeDeny, Goto, TypeInv, Types
    <2>4. Counted(c)'
      BY <2>3 DEF Counted, Ended, Phase
    <2> QED
      BY <1>f, <2>1, <2>2, <2>4 DEF CountInv
  <1>7. ASSUME NEW c \in Calls, TakeAllow(c) PROVE CountInv'
    <2>1. \A d \in Calls \ {c} :
            /\ pc'[d] = pc[d] /\ decision'[d] = decision[d] /\ asked'[d] = asked[d]
            /\ approved'[d] = approved[d] /\ missing'[d] = missing[d]
      BY <1>7 DEF TakeAllow, Goto, callVars, TypeInv, Types
    <2>0. engine' = engine
      BY <1>7 DEF TakeAllow, engineVars
    <2>2. Grown(engine[1], engine'[1])
      BY <2>0, <1>s
    <2>3. ASSUME approved'[c] = Proceed(c), pc'[c] = "check" PROVE Counted(c)'
      <3>1. pc[c] \in Phase /\ asked'[c] = asked[c]
        BY <1>7 DEF TakeAllow, Phase
      <3>2. approved'[c] = Proceed(c) /\ pc'[c] = "check" /\ Counted(c)
        BY <2>3 DEF CountInv
      <3> QED
        BY <1>g, <2>2, <3>1, <3>2, CountProceed
    <2>4. ASSUME approved' = approved, pc'[c] = "save" PROVE Counted(c)'
      <3>1. /\ pc[c] = "asking" /\ decision' = decision /\ missing' = missing
            /\ asked' = asked
        BY <1>7 DEF TakeAllow
      <3>2. /\ Runnered(c) => Runnered(c)'
            /\ Granted(c) => Granted(c)'
            /\ Confirmed(c) => Confirmed(c)'
        BY <2>0, <2>4, <3>1 DEF Runnered, Granted, Confirmed, Asks, Phase
      <3>3. pc'[c] \in Phase /\ decision'[c] = "Tool" =>
               Lacks(engine'[1], Info[c], missing'[c]) = {}
        BY <2>0, <3>1 DEF CountInv, Counted, Phase
      <3>4. Counted(c) /\ pc[c] \notin Ended /\ pc'[c] # "fourth" /\ asked'[c] = asked[c]
        BY <2>4, <3>1 DEF CountInv, Ended
      <3> QED
        BY <1>g, <3>2, <3>3, <3>4, CountStep
    <2>5. Counted(c)'
      BY <1>7, <2>3, <2>4 DEF TakeAllow, Goto, TypeInv, Types
    <2> QED
      BY <1>f, <2>1, <2>2, <2>5 DEF CountInv
  <1>8. ASSUME NEW c \in Calls, SaveLock(c) PROVE CountInv'
    <2>1. \A d \in Calls \ {c} :
            /\ pc'[d] = pc[d] /\ decision'[d] = decision[d] /\ asked'[d] = asked[d]
            /\ approved'[d] = approved[d] /\ missing'[d] = missing[d]
      BY <1>8 DEF SaveLock, Goto, callVars, TypeInv, Types
    <2>2. engine' = engine /\ Grown(engine[1], engine'[1])
      BY <1>8, <1>s DEF SaveLock, Free, engineVars
    <2>3. Counted(c)'
      BY <1>8, <1>g, <2>2, CountStep DEF SaveLock, Free, Goto, callVars, CountInv, Counted, Runnered,
         Granted, Confirmed, Asks, Phase, Ended, TypeInv, Types
    <2> QED
      BY <1>f, <2>1, <2>2, <2>3 DEF CountInv
  <1>9. ASSUME NEW c \in Calls, SaveRead(c) PROVE CountInv'
    <2>1. \A d \in Calls \ {c} :
            /\ pc'[d] = pc[d] /\ decision'[d] = decision[d] /\ asked'[d] = asked[d]
            /\ approved'[d] = approved[d] /\ missing'[d] = missing[d]
      BY <1>9 DEF SaveRead, Goto, callVars, TypeInv, Types
    <2>2. engine' = engine /\ Grown(engine[1], engine'[1])
      BY <1>9, <1>s DEF SaveRead, engineVars
    <2>3. Counted(c)'
      BY <1>9, <1>g, <2>2, CountStep DEF SaveRead, Goto, callVars, CountInv, Counted, Runnered,
         Granted, Confirmed, Asks, Phase, Ended, TypeInv, Types
    <2> QED
      BY <1>f, <2>1, <2>2, <2>3 DEF CountInv
  <1>10. ASSUME NEW c \in Calls, SaveWrite(c) PROVE CountInv'
    <2>1. \A d \in Calls \ {c} :
            /\ pc'[d] = pc[d] /\ decision'[d] = decision[d] /\ asked'[d] = asked[d]
            /\ approved'[d] = approved[d] /\ missing'[d] = missing[d]
      BY <1>10 DEF SaveWrite, Goto, callVars, TypeInv, Types
    <2>2. engine' = engine /\ Grown(engine[1], engine'[1])
      BY <1>10, <1>s DEF SaveWrite, engineVars
    <2>3. Counted(c)'
      BY <1>10, <1>g, <2>2, CountStep DEF SaveWrite, Goto, callVars, CountInv, Counted, Runnered,
         Granted, Confirmed, Asks, Phase, Ended, TypeInv, Types
    <2> QED
      BY <1>f, <2>1, <2>2, <2>3 DEF CountInv
  <1>11. ASSUME NEW c \in Calls, SaveReload(c) PROVE CountInv'
    <2>1. \A d \in Calls \ {c} :
            /\ pc'[d] = pc[d] /\ decision'[d] = decision[d] /\ asked'[d] = asked[d]
            /\ approved'[d] = approved[d] /\ missing'[d] = missing[d]
      BY <1>11 DEF SaveReload, Goto, callVars, TypeInv, Types
    <2>2. Grown(engine[1], engine'[1])
      BY <1>11 DEF SaveReload, GrowInv, TypeInv, Types, Placed, Executors
    <2>3. /\ approved'[c] = Proceed(c) /\ pc'[c] = "check" /\ pc[c] \in Phase
          /\ asked'[c] = asked[c]
      BY <1>11 DEF SaveReload, Goto, Phase, TypeInv, Types
    <2>4. Counted(c)'
      BY <1>g, <2>2, <2>3, CountProceed DEF CountInv
    <2> QED
      BY <1>f, <2>1, <2>2, <2>4 DEF CountInv
  <1>12. ASSUME NEW c \in Calls, SaveFails(c) PROVE CountInv'
    <2>1. \A d \in Calls \ {c} :
            /\ pc'[d] = pc[d] /\ decision'[d] = decision[d] /\ asked'[d] = asked[d]
            /\ approved'[d] = approved[d] /\ missing'[d] = missing[d]
      BY <1>12 DEF SaveFails, Goto, callVars, TypeInv, Types
    <2>2. engine' = engine /\ Grown(engine[1], engine'[1])
      BY <1>12, <1>s DEF SaveFails, Unlock, engineVars
    <2>3. pc'[c] = "refused"
      BY <1>12 DEF SaveFails, Goto, TypeInv, Types
    <2>4. Counted(c)'
      BY <2>3 DEF Counted, Ended, Phase
    <2> QED
      BY <1>f, <2>1, <2>2, <2>4 DEF CountInv
  <1>13. ASSUME NEW g \in Edits, HandEdit(g) PROVE CountInv'
    BY <1>13 DEF HandEdit, TypeInv, Types, Executors
  <1>14. ASSUME Reload PROVE CountInv'
    BY <1>14 DEF Reload, TypeInv, Types, Executors
  <1>15. CASE UNCHANGED vars
    BY <1>15, <1>f, <1>s DEF vars, callVars, engineVars, CountInv
  <1> QED
    BY <1>1, <1>2, <1>3, <1>4, <1>5, <1>6, <1>7, <1>8, <1>9, <1>10, <1>11, <1>12, <1>13, <1>14, <1>15 DEF Next, CallNext

\* NoFourthQuestion, for any calls and answers, when every permission covers
\* itself and grants are only ever added.
THEOREM AtMostThreeQuestions ==
    ASSUME MaxExecutors = 1, MaxEdits = 0, Reflexive
    PROVE  Spec => []NoFourthQuestion
  <1>1. Init => GrowInv
    BY CallsAssumption DEF Init, GrowInv, Grown, Executors
  <1>2. Init => CountInv
    BY DEF Init, CountInv, Counted, One, Phase
  <1>3. TypeInv /\ GrowInv /\ [Next]_vars => GrowInv'
    BY NextGrow
  <1>4. TypeInv /\ TypeInv' /\ GrowInv /\ CountInv /\ [Next]_vars => CountInv'
    BY NextCount
  <1>5. CountInv => NoFourthQuestion
    BY DEF CountInv, Counted, NoFourthQuestion
  <1> QED
    BY <1>1, <1>2, <1>3, <1>4, <1>5, InitTypes, NextTypes, PTL DEF Spec
-----------------------------------------------------------------------------
(* An answer brings a call only what its question showed.  A call that joins *)
(* a question takes what it lacks itself, so this needs grants that only     *)
(* grow while the question is open, and calls of one action that need the    *)
(* same permissions, as one registry gives them.                             *)

Alike ==
    \A c, d \in Calls : Info[c].action = Info[d].action =>
        Info[c].requires = Info[d].requires /\ Info[c].tool = Info[d].tool

\* What has been shown to an approver who allowed it for c.
Told(c) == UNION {a[2] : a \in agreed[c]}

\* An open question still names all that the call that asked it lacks.
Named(q) ==
    decision[q[1]] = "Tool" => Lacks(engine[1], Info[q[1]], {}) \subseteq shown[q]

\* A question that may be joined is the one its caller waits on.
Open(q) ==
    /\ q[1] \in Calls
    /\ pc[q[1]] = "asking"
    /\ waits[q[1]] = q
    /\ Named(q)

\* A question that somebody waits on is not asked again.
Settled(q) ==
    /\ q[2] <= asked[q[1]]
    /\ pc[q[1]] = "escalate" => q[2] < asked[q[1]]

Shows(c) ==
    /\ approved[c].permissions \subseteq Told(c)
    /\ pc[c] = "asking" => missing[c] \subseteq shown[waits[c]] /\ Settled(waits[c])
    /\ pc[c] \in {"save", "read", "write", "reload"} => missing[c] \subseteq Told(c)

CoverInv == (\A q \in asking : Open(q)) /\ (\A c \in Calls : Shows(c))

\* Calls of the same action lack the same, and less the more is granted.
LEMMA LacksLess ==
    ASSUME NEW g \in Grants, NEW h \in Grants, Grown(g, h),
           NEW i \in CallRecords, NEW j \in CallRecords,
           i.requires = j.requires, i.tool = j.tool
    PROVE  Lacks(h, i, {}) \subseteq Lacks(g, j, {})
  <1>1. ToolGrants(g, j) \subseteq ToolGrants(h, i)
    BY DEF ToolGrants, Grown
  <1> QED
    BY <1>1 DEF Lacks, Held

\* A question whose caller a step leaves alone stays open as grants grow.
LEMMA OpenFrame ==
    ASSUME MaxExecutors = 1, TypeInv, engine'[1] \in Grants, Grown(engine[1], engine'[1]),
           NEW q, Open(q), pc'[q[1]] = "asking", waits'[q[1]] = waits[q[1]],
           decision'[q[1]] = decision[q[1]], shown'[q] = shown[q]
    PROVE  Open(q)'
  <1>1. engine[1] \in Grants /\ Info[q[1]] \in CallRecords
    BY CallsAssumption DEF TypeInv, Types, Executors, Open
  <1>2. Lacks(engine'[1], Info[q[1]], {}) \subseteq Lacks(engine[1], Info[q[1]], {})
    BY <1>1, LacksLess
  <1> QED
    BY <1>2 DEF Open, Named

\* So does what a call was shown, as long as its question is not asked anew.
LEMMA ShowsFrame ==
    ASSUME TypeInv, NEW c \in Calls, Shows(c),
           pc'[c] = pc[c], approved'[c] = approved[c], missing'[c] = missing[c],
           waits'[c] = waits[c], agreed'[c] = agreed[c],
           pc[c] = "asking" => shown'[waits[c]] = shown[waits[c]] /\ Settled(waits[c])'
    PROVE  Shows(c)'
  BY DEF Shows, Told

\* A question stays settled while the caller's count stands and it does not
\* come back to ask, or counts one up to do so.
LEMMA SettledFrame ==
    ASSUME TypeInv, NEW q \in Questions, Settled(q), asked'[q[1]] \in Nat,
           \/ asked'[q[1]] = asked[q[1]] /\ (pc'[q[1]] = "escalate" => pc[q[1]] = "escalate")
           \/ asked'[q[1]] = asked[q[1]] + 1
    PROVE  Settled(q)'
  <1>1. q[1] \in Calls /\ q[2] \in Nat /\ asked[q[1]] \in Nat
    BY DEF Questions, TypeInv, Types
  <1> QED
    BY <1>1 DEF Settled

\* A step of call c that asks and answers nothing: only c moves.
LEMMA CoverStep ==
    ASSUME MaxExecutors = 1, TypeInv, TypeInv', CoverInv, NEW c \in Calls,
           Grown(engine[1], engine'[1]),
           asking' \subseteq asking, shown' = shown, waits' = waits,
           \A q \in asking' : q[1] # c,
           \/ asked'[c] = asked[c] /\ pc'[c] # "escalate"
           \/ asked'[c] = asked[c] + 1,
           pc'[c] # "asking",
           \A d \in Calls \ {c} :
              /\ pc'[d] = pc[d] /\ decision'[d] = decision[d] /\ asked'[d] = asked[d]
              /\ approved'[d] = approved[d] /\ missing'[d] = missing[d]
              /\ agreed'[d] = agreed[d],
           approved'[c].permissions \subseteq Told(c)',
           pc'[c] \in {"save", "read", "write", "reload"} => missing'[c] \subseteq Told(c)'
    PROVE  CoverInv'
  <1>1. engine'[1] \in Grants
    BY DEF TypeInv, Types, Executors
  <1>2. ASSUME NEW q \in asking' PROVE Open(q)'
    <2>1. Open(q) /\ q[1] \in Calls \ {c}
      BY <1>2 DEF CoverInv, Open
    <2> QED
      BY <1>1, <2>1, OpenFrame DEF Open
  <1>3. ASSUME NEW d \in Calls, pc[d] = "asking" PROVE Settled(waits[d])'
    <2>1. Settled(waits[d]) /\ waits[d] \in Questions /\ waits[d][1] \in Calls
      BY <1>3 DEF CoverInv, Shows, TypeInv, Placed, Questions
    <2>2. asked'[waits[d][1]] \in Nat
      BY <2>1 DEF TypeInv, Types
    <2>3. CASE waits[d][1] = c
      BY <2>1, <2>2, <2>3, SettledFrame
    <2>4. CASE waits[d][1] # c
      BY <2>1, <2>2, <2>4, SettledFrame
    <2> QED
      BY <2>3, <2>4
  <1>4. ASSUME NEW d \in Calls \ {c} PROVE Shows(d)'
    <2>1. Shows(d)
      BY DEF CoverInv
    <2> QED
      BY <2>1, <1>3, ShowsFrame
  <1>5. Shows(c)'
    BY DEF Shows
  <1> QED
    BY <1>2, <1>4, <1>5 DEF CoverInv

LEMMA NextCover ==
    ASSUME MaxExecutors = 1, MaxEdits = 0, Alike, TypeInv, TypeInv', GrowInv, CoverInv,
           [Next]_vars
    PROVE  CoverInv'
  <1>s. Grown(engine[1], engine[1]) /\ engine[1] \in Grants
    BY DEF Grown, TypeInv, Types, Executors
  <1>1. ASSUME NEW c \in Calls, NEW e \in Executors, Submit(c, e) PROVE CoverInv'
    <2>1. \A d \in Calls \ {c} :
            /\ pc'[d] = pc[d] /\ decision'[d] = decision[d] /\ asked'[d] = asked[d]
            /\ approved'[d] = approved[d] /\ missing'[d] = missing[d]
            /\ agreed'[d] = agreed[d]
      BY <1>1 DEF Submit, Goto, callVars, TypeInv, Types
    <2>2. engine' = engine /\ Grown(engine[1], engine'[1])
      BY <1>1, <1>s DEF Submit, engineVars
    <2>3. /\ asking' \subseteq asking /\ shown' = shown /\ waits' = waits
          /\ \A q \in asking' : q[1] # c
      BY <1>1 DEF Submit, askVars, CoverInv, Open
    <2>4. /\ asked'[c] = asked[c] /\ pc'[c] = "check"
          /\ approved'[c] = approved[c] /\ Told(c)' = Told(c)
      BY <1>1 DEF Submit, Goto, callVars, Told, TypeInv, Types
    <2>5. approved'[c].permissions \subseteq Told(c)'
      BY <2>4 DEF CoverInv, Shows
    <2> QED
      BY <2>1, <2>2, <2>3, <2>4, <2>5, CoverStep
  <1>2. ASSUME NEW c \in Calls, Check(c) PROVE CoverInv'
    <2>1. \A d \in Calls \ {c} :
            /\ pc'[d] = pc[d] /\ decision'[d] = decision[d] /\ asked'[d] = asked[d]
            /\ approved'[d] = approved[d] /\ missing'[d] = missing[d]
            /\ agreed'[d] = agreed[d]
      BY <1>2 DEF Check, Goto, callVars, TypeInv, Types
    <2>2. engine' = engine /\ Grown(engine[1], engine'[1])
      BY <1>2, <1>s DEF Check, engineVars
    <2>3. /\ asking' \subseteq asking /\ shown' = shown /\ waits' = waits
          /\ \A q \in asking' : q[1] # c
      BY <1>2 DEF Check, askVars, CoverInv, Open
    <2>4. /\ \/ asked'[c] = asked[c] /\ pc'[c] # "escalate"
             \/ asked'[c] = asked[c] + 1
          /\ pc'[c] \in {"running", "refused", "fourth", "escalate"}
          /\ approved'[c] = approved[c] /\ Told(c)' = Told(c)
      BY <1>2 DEF Check, AfterCheck, Goto, callVars, Told, TypeInv, Types
    <2>5. approved'[c].permissions \subseteq Told(c)'
      BY <2>4 DEF CoverInv, Shows
    <2> QED
      BY <2>1, <2>2, <2>3, <2>4, <2>5, CoverStep
  <1>3. ASSUME NEW c \in Calls, AskOwn(c) PROVE CoverInv'
    <2> PICK q : q = <<c, asked[c]>>
      OBVIOUS
    <2>1. \A d \in Calls \ {c} :
            /\ pc'[d] = pc[d] /\ decision'[d] = decision[d] /\ asked'[d] = asked[d]
            /\ approved'[d] = approved[d] /\ missing'[d] = missing[d]
            /\ agreed'[d] = agreed[d] /\ waits'[d] = waits[d]
      BY <1>3 DEF AskOwn, Goto, callVars, TypeInv, Types
    <2>2. /\ engine' = engine /\ Grown(engine[1], engine'[1])
          /\ asked' = asked /\ decision' = decision
          /\ approved' = approved /\ agreed' = agreed
      BY <1>3, <1>s DEF AskOwn, engineVars
    <2>3. /\ q \in Questions /\ GrantsOf(c) = engine[1] /\ asked[c] \in Nat
          /\ pc[c] = "escalate"
      BY <1>3 DEF AskOwn, Questions, GrantsOf, TypeInv, Types, Placed, Executors
    <2>4. /\ pc'[c] = "asking" /\ waits'[c] = q /\ missing'[c] = Missing(c)
          /\ shown'[q] = Missing(c)
          /\ \A p \in Questions \ {q} : shown'[p] = shown[p]
          /\ asking' \subseteq asking \cup {q}
      BY <1>3, <2>3 DEF AskOwn, Goto, TypeInv, Types
    <2>5. Open(q)'
      BY <2>2, <2>3, <2>4 DEF Open, Named, Missing
    <2>6. ASSUME NEW p \in asking' PROVE Open(p)'
      <3>1. CASE p = q
        BY <2>5, <3>1
      <3>2. CASE p # q
        <4>1. Open(p) /\ p \in Questions
          BY <2>4, <2>6, <3>2 DEF CoverInv, TypeInv, Types
        <4>2. p[1] \in Calls \ {c}
          BY <2>3, <4>1 DEF Open
        <4> QED
          BY <1>s, <2>1, <2>2, <2>4, <3>2, <4>1, <4>2, OpenFrame DEF Open
      <3> QED
        BY <3>1, <3>2
    <2>7. ASSUME NEW d \in Calls \ {c} PROVE Shows(d)'
      <3>1. Shows(d)
        BY DEF CoverInv
      <3>2. ASSUME pc[d] = "asking"
            PROVE  shown'[waits[d]] = shown[waits[d]] /\ Settled(waits[d])'
        <4>1. Settled(waits[d]) /\ waits[d] \in Questions /\ waits[d][1] \in Calls
          BY <3>1, <3>2 DEF Shows, TypeInv, Placed, Questions
        <4>2. waits[d] # q
          BY <2>3, <4>1 DEF Settled
        <4>3. asked'[waits[d][1]] = asked[waits[d][1]] /\ asked'[waits[d][1]] \in Nat
          BY <2>2, <4>1 DEF TypeInv, Types
        <4>4. pc'[waits[d][1]] = "escalate" => pc[waits[d][1]] = "escalate"
          BY <2>1, <2>3, <4>1
        <4> QED
          BY <2>1, <2>4, <4>1, <4>2, <4>3, <4>4, SettledFrame
      <3> QED
        BY <2>1, <3>1, <3>2, ShowsFrame
    <2>8. Settled(q)'
      BY <2>2, <2>3, <2>4 DEF Settled
    <2>9. Shows(c)'
      BY <2>2, <2>4, <2>8 DEF Shows, CoverInv, Told
    <2> QED
      BY <2>6, <2>7, <2>9 DEF CoverInv
  <1>4. ASSUME NEW c \in Calls, NEW q \in asking, Join(c, q) PROVE CoverInv'
    <2>1. \A d \in Calls \ {c} :
            /\ pc'[d] = pc[d] /\ decision'[d] = decision[d] /\ asked'[d] = asked[d]
            /\ approved'[d] = approved[d] /\ missing'[d] = missing[d]
            /\ agreed'[d] = agreed[d] /\ waits'[d] = waits[d]
      BY <1>4 DEF Join, Goto, callVars, TypeInv, Types
    <2>2. /\ engine' = engine /\ Grown(engine[1], engine'[1])
          /\ asked' = asked /\ decision' = decision /\ shown' = shown /\ asking' = asking
          /\ approved' = approved /\ agreed' = agreed
      BY <1>4, <1>s DEF Join, engineVars
    <2>3. /\ pc[c] = "escalate" /\ GrantsOf(c) = engine[1]
          /\ pc'[c] = "asking" /\ waits'[c] = q /\ missing'[c] = Missing(c)
          /\ SameQuestion(c, q[1])
      BY <1>4 DEF Join, Joinable, Goto, GrantsOf, TypeInv, Types, Placed, Executors
    <2>4. Open(q) /\ q[1] \in Calls \ {c} /\ q \in Questions
      BY <2>3 DEF CoverInv, Open, TypeInv, Types
    <2>5. Missing(c) \subseteq shown[q]
      <3>1. /\ Info[c] \in CallRecords /\ Info[q[1]] \in CallRecords
            /\ Info[c].requires = Info[q[1]].requires /\ Info[c].tool = Info[q[1]].tool
        BY <2>3, <2>4, CallsAssumption DEF SameQuestion, Alike
      <3>2. Lacks(engine[1], Info[c], {}) \subseteq Lacks(engine[1], Info[q[1]], {})
        BY <1>s, <3>1, LacksLess
      <3>3. decision[q[1]] = decision[c]
        BY <2>3 DEF SameQuestion
      <3> QED
        BY <2>3, <2>4, <3>2, <3>3 DEF Open, Named, Missing
    <2>6. ASSUME NEW p \in asking' PROVE Open(p)'
      <3>1. Open(p) /\ p[1] \in Calls \ {c}
        BY <2>2, <2>3, <2>6 DEF CoverInv, Open
      <3> QED
        BY <1>s, <2>1, <2>2, <3>1, OpenFrame DEF Open
    <2>7. ASSUME NEW p \in Questions, Settled(p) PROVE Settled(p)'
      <3>1. p[1] \in Calls
        BY DEF Questions
      <3>2. asked'[p[1]] = asked[p[1]] /\ asked'[p[1]] \in Nat
        BY <2>2, <3>1 DEF TypeInv, Types
      <3>3. pc'[p[1]] = "escalate" => pc[p[1]] = "escalate"
        BY <2>1, <2>3, <3>1
      <3> QED
        BY <2>7, <3>2, <3>3, SettledFrame
    <2>8. ASSUME NEW d \in Calls \ {c} PROVE Shows(d)'
      <3>1. Shows(d)
        BY DEF CoverInv
      <3>2. pc[d] = "asking" => Settled(waits[d])'
        BY <2>1, <2>7, <3>1 DEF Shows, TypeInv, Placed
      <3> QED
        BY <2>1, <2>2, <3>1, <3>2, ShowsFrame
    <2>9. Settled(q)
      BY <2>4 DEF CoverInv, Shows, Open
    <2>10. Shows(c)'
      BY <2>2, <2>3, <2>4, <2>5, <2>7, <2>9 DEF Shows, CoverInv, Told
    <2> QED
      BY <2>6, <2>8, <2>10 DEF CoverInv
  <1>5. ASSUME UNCHANGED <<engineVars, pc, callVars, waits, shown, asking>> PROVE CoverInv'
    <2>1. /\ engine' = engine /\ Grown(engine[1], engine'[1])
          /\ pc' = pc /\ asked' = asked /\ decision' = decision /\ missing' = missing
          /\ approved' = approved /\ agreed' = agreed
          /\ waits' = waits /\ shown' = shown /\ asking' = asking
      BY <1>5, <1>s DEF engineVars, callVars
    <2>2. ASSUME NEW p \in asking' PROVE Open(p)'
      BY <1>s, <2>1, <2>2, OpenFrame DEF CoverInv, Open
    <2>3. ASSUME NEW d \in Calls PROVE Shows(d)'
      <3>1. Shows(d)
        BY DEF CoverInv
      <3>2. pc[d] = "asking" => Settled(waits[d])'
        BY <2>1, <3>1 DEF Shows, Settled
      <3> QED
        BY <2>1, <3>1, <3>2, ShowsFrame
    <2> QED
      BY <2>2, <2>3 DEF CoverInv
  <1>6. ASSUME NEW c \in Calls, TakeDeny(c) PROVE CoverInv'
    <2>1. \A d \in Calls \ {c} :
            /\ pc'[d] = pc[d] /\ decision'[d] = decision[d] /\ asked'[d] = asked[d]
            /\ approved'[d] = approved[d] /\ missing'[d] = missing[d]
            /\ agreed'[d] = agreed[d]
      BY <1>6 DEF TakeDeny, Goto, callVars, TypeInv, Types
    <2>2. engine' = engine /\ Grown(engine[1], engine'[1])
      BY <1>6, <1>s DEF TakeDeny, engineVars
    <2>3. /\ asking' \subseteq asking /\ shown' = shown /\ waits' = waits
          /\ \A q \in asking' : q[1] # c
      BY <1>6 DEF TakeDeny, askVars, CoverInv, Open
    <2>4. /\ asked'[c] = asked[c] /\ pc'[c] = "refused"
          /\ approved'[c] = approved[c] /\ Told(c)' = Told(c)
      BY <1>6 DEF TakeDeny, Goto, callVars, Told, TypeInv, Types
    <2>5. approved'[c].permissions \subseteq Told(c)'
      BY <2>4 DEF CoverInv, Shows
    <2> QED
      BY <2>1, <2>2, <2>3, <2>4, <2>5, CoverStep
  <1>7. ASSUME NEW c \in Calls, TakeAllow(c) PROVE CoverInv'
    <2>1. \A d \in Calls \ {c} :
            /\ pc'[d] = pc[d] /\ decision'[d] = decision[d] /\ asked'[d] = asked[d]
            /\ approved'[d] = approved[d] /\ missing'[d] = missing[d]
            /\ agreed'[d] = agreed[d]
      BY <1>7 DEF TakeAllow, Goto, callVars, TypeInv, Types
    <2>2. engine' = engine /\ Grown(engine[1], engine'[1])
      BY <1>7, <1>s DEF TakeAllow, engineVars
    <2>3. /\ asking' \subseteq asking /\ shown' = shown /\ waits' = waits
          /\ \A q \in asking' : q[1] # c
      BY <1>7 DEF TakeAllow, askVars, CoverInv, Open
    <2>4. /\ pc[c] = "asking" /\ asked'[c] = asked[c] /\ missing'[c] = missing[c]
          /\ pc'[c] \in {"check", "save"}
          /\ approved'[c] \in {approved[c], Proceed(c)}
          /\ agreed'[c] = agreed[c] \cup {<<decision[c], shown[waits[c]]>>}
      BY <1>7 DEF TakeAllow, Goto, TypeInv, Types
    <2>5. /\ approved[c].permissions \subseteq Told(c)
          /\ missing[c] \subseteq shown[waits[c]]
      BY <2>4 DEF CoverInv, Shows
    <2>6. Told(c) \subseteq Told(c)' /\ shown[waits[c]] \subseteq Told(c)'
      <3>1. agreed[c] \subseteq agreed'[c]
        BY <2>4
      <3>2. Told(c) \subseteq Told(c)'
        BY <3>1 DEF Told
      <3>3. <<decision[c], shown[waits[c]]>> \in agreed'[c]
        BY <2>4
      <3>4. PICK a \in agreed'[c] : a[2] = shown[waits[c]]
        BY <3>3
      <3>5. shown[waits[c]] \subseteq Told(c)'
        BY <3>4 DEF Told
      <3> QED
        BY <3>2, <3>5
    <2>7. approved'[c].permissions \subseteq approved[c].permissions \cup missing[c]
      BY <2>4 DEF Proceed
    <2>8. /\ approved'[c].permissions \subseteq Told(c)'
          /\ missing'[c] \subseteq Told(c)'
      BY <2>4, <2>5, <2>6, <2>7
    <2> QED
      BY <2>1, <2>2, <2>3, <2>4, <2>8, CoverStep
  <1>8. ASSUME NEW c \in Calls, SaveLock(c) PROVE CoverInv'
    <2>1. \A d \in Calls \ {c} :
            /\ pc'[d] = pc[d] /\ decision'[d] = decision[d] /\ asked'[d] = asked[d]
            /\ approved'[d] = approved[d] /\ missing'[d] = missing[d]
            /\ agreed'[d] = agreed[d]
      BY <1>8 DEF SaveLock, Goto, callVars, TypeInv, Types
    <2>2. engine' = engine /\ Grown(engine[1], engine'[1])
      BY <1>8, <1>s DEF SaveLock, engineVars
    <2>3. /\ asking' \subseteq asking /\ shown' = shown /\ waits' = waits
          /\ \A q \in asking' : q[1] # c
      BY <1>8 DEF SaveLock, askVars, CoverInv, Open
    <2>4. /\ asked'[c] = asked[c] /\ pc'[c] = "read" /\ Told(c)' = Told(c)
          /\ approved'[c] = approved[c] /\ missing'[c] = missing[c]
          /\ pc[c] \in {"save", "read", "write", "reload"}
      BY <1>8 DEF SaveLock, Goto, callVars, Told, TypeInv, Types
    <2>5. approved'[c].permissions \subseteq Told(c)' /\ missing'[c] \subseteq Told(c)'
      BY <2>4 DEF CoverInv, Shows
    <2> QED
      BY <2>1, <2>2, <2>3, <2>4, <2>5, CoverStep
  <1>9. ASSUME NEW c \in Calls, SaveRead(c) PROVE CoverInv'
    <2>1. \A d \in Calls \ {c} :
            /\ pc'[d] = pc[d] /\ decision'[d] = decision[d] /\ asked'[d] = asked[d]
            /\ approved'[d] = approved[d] /\ missing'[d] = missing[d]
            /\ agreed'[d] = agreed[d]
      BY <1>9 DEF SaveRead, Goto, callVars, TypeInv, Types
    <2>2. engine' = engine /\ Grown(engine[1], engine'[1])
      BY <1>9, <1>s DEF SaveRead, engineVars
    <2>3. /\ asking' \subseteq asking /\ shown' = shown /\ waits' = waits
          /\ \A q \in asking' : q[1] # c
      BY <1>9 DEF SaveRead, askVars, CoverInv, Open
    <2>4. /\ asked'[c] = asked[c] /\ pc'[c] = "write" /\ Told(c)' = Told(c)
          /\ approved'[c] = approved[c] /\ missing'[c] = missing[c]
          /\ pc[c] \in {"save", "read", "write", "reload"}
      BY <1>9 DEF SaveRead, Goto, callVars, Told, TypeInv, Types
    <2>5. approved'[c].permissions \subseteq Told(c)' /\ missing'[c] \subseteq Told(c)'
      BY <2>4 DEF CoverInv, Shows
    <2> QED
      BY <2>1, <2>2, <2>3, <2>4, <2>5, CoverStep
  <1>10. ASSUME NEW c \in Calls, SaveWrite(c) PROVE CoverInv'
    <2>1. \A d \in Calls \ {c} :
            /\ pc'[d] = pc[d] /\ decision'[d] = decision[d] /\ asked'[d] = asked[d]
            /\ approved'[d] = approved[d] /\ missing'[d] = missing[d]
            /\ agreed'[d] = agreed[d]
      BY <1>10 DEF SaveWrite, Goto, callVars, TypeInv, Types
    <2>2. engine' = engine /\ Grown(engine[1], engine'[1])
      BY <1>10, <1>s DEF SaveWrite, engineVars
    <2>3. /\ asking' \subseteq asking /\ shown' = shown /\ waits' = waits
          /\ \A q \in asking' : q[1] # c
      BY <1>10 DEF SaveWrite, askVars, CoverInv, Open
    <2>4. /\ asked'[c] = asked[c] /\ pc'[c] = "reload" /\ Told(c)' = Told(c)
          /\ approved'[c] = approved[c] /\ missing'[c] = missing[c]
          /\ pc[c] \in {"save", "read", "write", "reload"}
      BY <1>10 DEF SaveWrite, Goto, callVars, Told, TypeInv, Types
    <2>5. approved'[c].permissions \subseteq Told(c)' /\ missing'[c] \subseteq Told(c)'
      BY <2>4 DEF CoverInv, Shows
    <2> QED
      BY <2>1, <2>2, <2>3, <2>4, <2>5, CoverStep
  <1>11. ASSUME NEW c \in Calls, SaveReload(c) PROVE CoverInv'
    <2>1. \A d \in Calls \ {c} :
            /\ pc'[d] = pc[d] /\ decision'[d] = decision[d] /\ asked'[d] = asked[d]
            /\ approved'[d] = approved[d] /\ missing'[d] = missing[d]
            /\ agreed'[d] = agreed[d]
      BY <1>11 DEF SaveReload, Goto, callVars, TypeInv, Types
    <2>2. Grown(engine[1], engine'[1])
      BY <1>11 DEF SaveReload, GrowInv, TypeInv, Types, Placed, Executors
    <2>3. /\ asking' \subseteq asking /\ shown' = shown /\ waits' = waits
          /\ \A q \in asking' : q[1] # c
      BY <1>11 DEF SaveReload, askVars, CoverInv, Open
    <2>4. /\ asked'[c] = asked[c] /\ pc'[c] = "check" /\ Told(c)' = Told(c)
          /\ approved'[c].permissions = approved[c].permissions \cup missing[c]
          /\ pc[c] = "reload"
      BY <1>11 DEF SaveReload, Proceed, Goto, Told, TypeInv, Types
    <2>5. approved'[c].permissions \subseteq Told(c)'
      BY <2>4 DEF CoverInv, Shows
    <2> QED
      BY <2>1, <2>2, <2>3, <2>4, <2>5, CoverStep
  <1>12. ASSUME NEW c \in Calls, SaveFails(c) PROVE CoverInv'
    <2>1. \A d \in Calls \ {c} :
            /\ pc'[d] = pc[d] /\ decision'[d] = decision[d] /\ asked'[d] = asked[d]
            /\ approved'[d] = approved[d] /\ missing'[d] = missing[d]
            /\ agreed'[d] = agreed[d]
      BY <1>12 DEF SaveFails, Goto, callVars, TypeInv, Types
    <2>2. engine' = engine /\ Grown(engine[1], engine'[1])
      BY <1>12, <1>s DEF SaveFails, engineVars
    <2>3. /\ asking' \subseteq asking /\ shown' = shown /\ waits' = waits
          /\ \A q \in asking' : q[1] # c
      BY <1>12 DEF SaveFails, askVars, CoverInv, Open
    <2>4. /\ asked'[c] = asked[c] /\ pc'[c] = "refused" /\ Told(c)' = Told(c)
          /\ approved'[c] = approved[c] /\ missing'[c] = missing[c]
          /\ pc[c] \in {"save", "read", "write", "reload"}
      BY <1>12 DEF SaveFails, Goto, callVars, Told, TypeInv, Types
    <2>5. approved'[c].permissions \subseteq Told(c)' /\ missing'[c] \subseteq Told(c)'
      BY <2>4 DEF CoverInv, Shows
    <2> QED
      BY <2>1, <2>2, <2>3, <2>4, <2>5, CoverStep
  <1>13. ASSUME NEW g \in Edits, HandEdit(g) PROVE CoverInv'
    BY <1>13 DEF HandEdit, TypeInv, Types
  <1>14. ASSUME Reload PROVE CoverInv'
    BY <1>14 DEF Reload, TypeInv, Types, Executors
  <1>15. ASSUME NEW c \in Calls, NEW v \in Verdicts, Answer(c, v) PROVE CoverInv'
    BY <1>5, <1>15 DEF Answer
  <1>16. CASE UNCHANGED vars
    BY <1>5, <1>16 DEF vars, askVars
  <1> QED
    BY <1>1, <1>2, <1>3, <1>4, <1>6, <1>7, <1>8, <1>9, <1>10, <1>11, <1>12, <1>13, <1>14, <1>15, <1>16 DEF Next, CallNext

\* CoversOnlyWhatWasShown, for any calls and answers, as long as grants only
\* grow: the call that joins a question lacks no more than the question names.
THEOREM AnswersCoverWhatWasShown ==
    ASSUME MaxExecutors = 1, MaxEdits = 0, Alike
    PROVE  Spec => []CoversOnlyWhatWasShown
  <1>1. Init => GrowInv
    BY CallsAssumption DEF Init, GrowInv, Grown, Executors
  <1>2. Init => CoverInv
    BY DEF Init, CoverInv, Shows, NothingApproved
  <1>3. TypeInv /\ GrowInv /\ [Next]_vars => GrowInv'
    BY NextGrow
  <1>4. TypeInv /\ TypeInv' /\ GrowInv /\ CoverInv /\ [Next]_vars => CoverInv'
    BY NextCover
  <1>5. CoverInv => CoversOnlyWhatWasShown
    BY DEF CoverInv, Shows, Told, CoversOnlyWhatWasShown
  <1> QED
    BY <1>1, <1>2, <1>3, <1>4, <1>5, InitTypes, NextTypes, PTL DEF Spec

=============================================================================
