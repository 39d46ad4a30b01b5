--------------------------- MODULE MCFileHistory ---------------------------
(* Instances of FileHistory for TLC. *)
EXTENDS FileHistory

CONSTANTS a, f1, f2

MCContents == {Absent, <<a>>, <<a, a>>}

\* One changes or creates both files, one removes the first.
MCPatches == {<<<<f1, <<a, a>>>>, <<f2, <<a>>>>>>, <<<<f1, Absent>>, <<f2, <<a>>>>>>}

\* The first file starts absent or with one byte; the second one is there for
\* patches: nothing else creates or changes it.
OneFileAlone ==
    /\ disk[f1] = <<a, a>> => edits > 0 \/ tl[f1].changes # <<>>
    /\ disk[f2] # Absent => tl[f2].changes # <<>>
    /\ \A s \in Scopes :
         /\ hand[s] # NoBytes => hand[s][1] = f1
         /\ job[s] # NoJob => job[s].file = f1 \/ patch[s] # NoPatch
=============================================================================
