----------------------------- MODULE UndoStacks -----------------------------
(***************************************************************************)
(* What undo and redo of a file promise whoever uses them: two stacks      *)
(* around the present content, as in an editor.  Nothing from before an    *)
(* edit made outside can be reached again, and `held` keeps the points     *)
(* that can be restored since.                                             *)
(***************************************************************************)
EXTENDS Naturals, Sequences

CONSTANTS Files, Contents, Unknown

VARIABLES past, present, future, held

stackVars == <<past, present, future, held>>

StackInit ==
    /\ past = [f \in Files |-> <<>>]
    /\ present = [f \in Files |-> Unknown]
    /\ future = [f \in Files |-> <<>>]
    /\ held = [f \in Files |-> {}]

Become(f, p, c, after, points) ==
    /\ present' = [present EXCEPT ![f] = c]
    /\ past' = [past EXCEPT ![f] = p]
    /\ future' = [future EXCEPT ![f] = after]
    /\ held' = [held EXCEPT ![f] = points]

\* The first change of a file: it becomes known with the content it had.
FirstEdit(f, old, new) ==
    /\ present[f] = Unknown
    /\ Become(f, <<old>>, new, <<>>, {<<<<>>, old>>, <<<<old>>, new>>})

Edit(f, new) ==
    LET p == Append(past[f], present[f])
    IN /\ present[f] # Unknown
       /\ Become(f, p, new, <<>>, held[f] \union {<<p, new>>})

StepBack(f) ==
    LET n == Len(past[f])
    IN /\ n > 0
       /\ Become(f, SubSeq(past[f], 1, n - 1), past[f][n],
                 Append(future[f], present[f]), held[f])

StepAhead(f) ==
    LET n == Len(future[f])
    IN /\ n > 0
       /\ Become(f, Append(past[f], present[f]), future[f][n],
                 SubSeq(future[f], 1, n - 1), held[f])

JumpTo(f, point) ==
    /\ point \in held[f]
    /\ Become(f, point[1], point[2], <<>>, held[f])

\* The file changed outside: what it holds now is where undo ends.
Adopt(f, c) ==
    /\ present[f] # Unknown
    /\ Become(f, <<>>, c, <<>>, {<<<<>>, c>>})

StackNext ==
    \E f \in Files :
        \/ \E c \in Contents : Edit(f, c) \/ Adopt(f, c)
        \/ \E old, new \in Contents : FirstEdit(f, old, new)
        \/ StepBack(f)
        \/ StepAhead(f)
        \/ \E point \in held[f] : JumpTo(f, point)

StackSpec == StackInit /\ [][StackNext]_stackVars
=============================================================================
