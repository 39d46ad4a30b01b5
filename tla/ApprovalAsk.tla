----------------------------- MODULE ApprovalAsk -----------------------------
(***************************************************************************)
(* What an asker is promised by the approval plane, without ids, channels  *)
(* or locks: a question ends at most once, an approver may decide it while *)
(* it is open or too late, and it is allowed only by what was decided      *)
(* first.  Everything else is a refusal.                                   *)
(***************************************************************************)
CONSTANT Questions

Allows == {"AllowOnce", "AllowForever"}

VARIABLES
    state,      \* "unasked", "open", "answered", or "abandoned"
    decided,    \* the first verdict an approver gave, or "none"
    outcome     \* what the asker was told, or "none"

askVars == <<state, decided, outcome>>

AskInit ==
    /\ state = [q \in Questions |-> "unasked"]
    /\ decided = [q \in Questions |-> "none"]
    /\ outcome = [q \in Questions |-> "none"]

Open(q) ==
    /\ state[q] = "unasked"
    /\ state' = [state EXCEPT ![q] = "open"]
    /\ UNCHANGED <<decided, outcome>>

\* Only a question somebody asked can be decided, and only once.
Decide(q, v) ==
    /\ state[q] # "unasked"
    /\ decided[q] = "none"
    /\ decided' = [decided EXCEPT ![q] = v]
    /\ UNCHANGED <<state, outcome>>

Answer(q, v) ==
    /\ state[q] = "open"
    /\ v = "Deny" \/ v = decided[q]
    /\ state' = [state EXCEPT ![q] = "answered"]
    /\ outcome' = [outcome EXCEPT ![q] = v]
    /\ UNCHANGED decided

Abandon(q) ==
    /\ state[q] = "open"
    /\ state' = [state EXCEPT ![q] = "abandoned"]
    /\ UNCHANGED <<decided, outcome>>

AskNext ==
    \E q \in Questions :
        \/ Open(q)
        \/ Abandon(q)
        \/ \E v \in Allows \cup {"Deny"} : Decide(q, v) \/ Answer(q, v)

AskSpec == AskInit /\ [][AskNext]_askVars
=============================================================================
