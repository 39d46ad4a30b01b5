---------------------------- MODULE MCSessionRun ----------------------------
(* Instances of SessionRun for TLC. *)
EXTENDS SessionRun

MCRuns == 1 .. 4

MCSessions == 1 .. 2

MCMessages == MCRuns \X (1 .. 2 * MaxSteps + 2)

\* Two runners: one compacts early, the other's policy keeps no recent turn.
MCPolicies == {[after_turns |-> 3, keep_recent |-> 1],
               [after_turns |-> 4, keep_recent |-> 0]}

\* Runs are interchangeable, and so are sessions: they start in order.  Runs
\* on different sessions meet nowhere, and runs never touch labels, so all
\* runs are on the first session and the second one, minted when they are
\* over, is there for the labels.  Only who starts is restricted, never what
\* a started run does next, so the fairness of the runs is not touched.
InOrder ==
    /\ \A r \in Runs : stage[r] # "idle" => \A q \in 1 .. r : stage[q] # "idle"
    /\ \A s \in minted : 1 .. s \subseteq minted
    /\ 2 \in minted => \A r \in Runs : stage[r] \in {"idle", "done"}
=============================================================================
