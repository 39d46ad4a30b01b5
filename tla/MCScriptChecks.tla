--------------------------- MODULE MCScriptChecks ---------------------------
(* Instances of ScriptChecks for TLC.                                      *)
EXTENDS ScriptChecks, TLC

CONSTANTS h1, h2, a1, run, notes, build, grep

MCRunOf == (h1 :> run) @@ (h2 :> run)
MCPermOf == (notes :> "fs") @@ (build :> "shell") @@ (grep :> "tool")

\* One handler runs the same command twice; the other one reads a file or calls
\* another action.  A background task uses whatever its maker hands on.
MCGrants == (h1 :> {}) @@ (h2 :> {"tool"})
MCUses == (h1 :> {build}) @@ (h2 :> {notes, grep}) @@ (a1 :> {notes, build, grep})
MCMaxUses == (h1 :> 2) @@ (h2 :> 1) @@ (a1 :> 1)
=============================================================================
