--------------------------- MODULE MCFileCapture ---------------------------
(* Instances of FileCapture for TLC. *)
EXTENDS FileCapture, TLC

CONSTANTS a, f1, f2, work, src, docs, edit, tool, step, build

MCInside == (work :> {f1, f2}) @@ (src :> {f1}) @@ (docs :> {f2})

\* An action that cannot run programs and may write the whole folder makes a
\* call that can, in one part of it, and that makes another one; a build may
\* write the parts.
MCWants == (edit :> {work}) @@ (tool :> {src}) @@ (step :> {src})
             @@ (build :> {src, docs})
MCParentOf == (edit :> NoCall) @@ (tool :> edit) @@ (step :> tool)
                @@ (build :> NoCall)
MCPrograms == {tool, step, build}

\* The second file is there to tell the folders apart: nothing changes it.
MCContents == (f1 :> {Absent, <<a>>, <<a, a>>}) @@ (f2 :> {Absent})

\* This tree of calls meets the conditions of `ChangesReported`.
ASSUME MeetsTheConditions == ~Parallel /\ ToolsRunPrograms /\ ScannersCover

\* The first file has one byte at first.  The last of the nested calls and
\* a second edit are made only as long as the build has not come.
Apart ==
    /\ edits = 0 /\ ~Tracked(tl[f1]) => disk[f1] = <<a>>
    /\ edits > 1 \/ phase[step] # "idle" => phase[build] = "idle"
=============================================================================
