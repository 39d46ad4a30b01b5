--------------------------- MODULE MCScriptTasks ---------------------------
(* Instances of ScriptTasks for TLC.                                       *)
EXTENDS ScriptTasks, TLC

CONSTANTS r1, r2, a1, a2, init

\* Two handlers wait for the same background tasks and receive on the same
\* channel; a background task sends, another one does I/O.
MCDoes ==
    (init :> {}) @@ (r1 :> {"async", "await", "recv"}) @@ (r2 :> {"await", "recv"})
    @@ (a1 :> {"send", "io"}) @@ (a2 :> {"try_recv", "close"})
MCHandles == [t \in Tasks |-> IF t \in Asyncs THEN {} ELSE Asyncs]
=============================================================================
