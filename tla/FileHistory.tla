----------------------------- MODULE FileHistory -----------------------------
(***************************************************************************)
(* File history (fs/src/history.rs) as scripts use it through `ctx.fs`     *)
(* (scripting/src/lib.rs).  A scope is a session or a run; its script      *)
(* does one file operation at a time.  An operation holds the lock of its  *)
(* file's timeline while it reads the file, replaces it and publishes the  *)
(* revision, but nothing keeps an editor or a program from changing the    *)
(* file in between.                                                        *)
(***************************************************************************)
EXTENDS FileTimeline, FiniteSets

CONSTANTS Files, Scopes,
          Contents,       \* the images files hold in this instance
          Patches,        \* patches: each file with what it will hold, in order
          MaxChanges,     \* bound: revisions when agent.d makes another one
          MaxOutside,     \* bound: edits made outside
          NoJob, NoBytes, NotRead, NoPatch

ASSUME ContentsAssumption == Contents \subseteq Image /\ Absent \in Contents

ASSUME PatchesAssumption == Patches \subseteq Seq(Files \X Contents) \ {<<>>}

Job == [file : Files, seen : Image, image : Image, timeline : Timeline,
        then : {"done", "told", "noted", "patched", "rolled", "note"}]

Patch == [phase   : {"plan", "write", "rollback"},
          todo    : Seq(Files \X Image),
          plan    : Seq([file : Files, stamp : Image, image : Image]),
          earlier : [Files -> Image \union {NotRead}],
          done    : Seq([file : Files, previous : Nat]),
          written : SUBSET Files, back : SUBSET Files, left : SUBSET Files]

ASSUME NoPatchAssumption == NoPatch \notin Patch

\* A file never read is told from every image.
ASSUME NotReadAssumption == NotRead \notin Image

VARIABLES
    disk,     \* what each file holds
    tl,       \* the timeline of each file
    reads,    \* the image each scope last read of a file (`History::reads`)
    hand,     \* bytes a script was handed and that are not recorded as read yet
    job,      \* the operation that holds a file's timeline for a scope
    patch,    \* the patch a scope is applying
    edits     \* how many edits were made outside

vars == <<disk, tl, reads, hand, job, patch, edits>>

Init ==
    /\ disk \in [Files -> Contents]
    /\ tl = [f \in Files |-> NewTimeline]
    /\ reads = [s \in Scopes |-> [f \in Files |-> NotRead]]
    /\ hand = [s \in Scopes |-> NoBytes]
    /\ job = [s \in Scopes |-> NoJob]
    /\ patch = [s \in Scopes |-> NoPatch]
    /\ edits = 0

-----------------------------------------------------------------------------
\* Another thread is in `with_file` for this file.
Locked(f) == \E s \in Scopes : job[s] # NoJob /\ job[s].file = f

\* The script is between two calls of `ctx.fs`.
Free(s) == hand[s] = NoBytes /\ job[s] = NoJob /\ patch[s] = NoPatch

Room == Cardinality(UNION {{f} \X DOMAIN tl[f].changes : f \in Files})
          < MaxChanges

\* Take the lock of `f`, find it as the history expects it (`checked_image`)
\* and work out what to write: `image`, and the timeline to publish after.
Begin(s, f, image, timeline, then) ==
    /\ ~Locked(f)
    /\ InStep(tl[f], disk[f])
    /\ job' = [job EXCEPT ![s] = [file |-> f, seen |-> disk[f],
                                  image |-> image, timeline |-> timeline,
                                  then |-> then]]

\* Mutant: a file that changed is written all the same.
ReplacingUnchecked(s, f, image, then) ==
    /\ Room
    /\ ~Locked(f)
    /\ job' = [job EXCEPT ![s] = [file |-> f, seen |-> disk[f], image |-> image,
                                  timeline |-> Mutate(tl[f], disk[f], image),
                                  then |-> then]]

Replacing(s, f, image, then) ==
    /\ Room
    /\ Begin(s, f, image, Mutate(tl[f], disk[f], image), then)

StartWrite(s, f, bytes) ==
    /\ Free(s)
    /\ bytes \in Contents \ {Absent}
    /\ Replacing(s, f, bytes, "told")
    /\ UNCHANGED <<disk, tl, reads, hand, patch, edits>>

StartAppend(s, f, bytes) ==
    /\ Free(s)
    /\ Bytes(disk[f]) \o bytes \in Contents
    /\ Replacing(s, f, Bytes(disk[f]) \o bytes, "done")
    /\ UNCHANGED <<disk, tl, reads, hand, patch, edits>>

StartRemove(s, f) ==
    /\ Free(s)
    /\ disk[f] # Absent
    /\ Replacing(s, f, Absent, "done")
    /\ UNCHANGED <<disk, tl, reads, hand, patch, edits>>

\* `check_read`: the scope read the file and it still is what was read.
MayChange(s, f) == reads[s][f] = disk[f]

StartEdit(s, f, bytes) ==
    /\ Free(s)
    /\ MayChange(s, f)
    /\ disk[f] # Absent
    /\ bytes \in Contents \ {Absent}
    /\ Replacing(s, f, bytes, "noted")
    /\ UNCHANGED <<disk, tl, reads, hand, patch, edits>>

Jump(s, f, target, timeline, then) ==
    /\ Tracked(tl[f])
    /\ Reachable(tl[f], target)
    /\ Begin(s, f, JumpImage(tl[f], disk[f], target), timeline, then)

StartUndo(s, f) ==
    /\ Free(s)
    /\ tl[f].current # 0
    /\ Jump(s, f, UndoTarget(tl[f]), Undo(tl[f]), "done")
    /\ UNCHANGED <<disk, tl, reads, hand, patch, edits>>

StartRedo(s, f) ==
    /\ Free(s)
    /\ tl[f].redo # <<>>
    /\ Jump(s, f, RedoTarget(tl[f]), Redo(tl[f]), "done")
    /\ UNCHANGED <<disk, tl, reads, hand, patch, edits>>

StartRestore(s, f, target) ==
    /\ Free(s)
    /\ target # tl[f].current
    /\ Jump(s, f, target, Restored(tl[f], target), "done")
    /\ UNCHANGED <<disk, tl, reads, hand, patch, edits>>

\* Restoring the revision the file is at writes nothing.
RestoreCurrent(s, f) ==
    /\ Free(s)
    /\ ~Locked(f)
    /\ InStep(tl[f], disk[f])
    /\ tl' = [tl EXCEPT ![f] = Restored(@, @.current)]
    /\ UNCHANGED <<disk, reads, hand, job, patch, edits>>

\* How a patch moves on once a file of it is written, put back or left.
Wrote(p, t) ==
    LET f == Head(p.plan).file
    IN IF Tail(p.plan) = <<>> THEN NoPatch
       ELSE [p EXCEPT !.plan = Tail(@), !.written = @ \union {f},
                      !.done = <<[file |-> f, previous |-> UndoTarget(t)]>> \o @]

PutBack(p) ==
    [p EXCEPT !.done = Tail(@), !.back = @ \union {Head(p.done).file}]

LeftChanged(p) ==
    [p EXCEPT !.done = Tail(@), !.left = @ \union {Head(p.done).file}]

\* `commit`: the file is replaced in one step, then the history moves.  An
\* edit or a patch reads the file again before it gives up the lock, a write
\* was told what it wrote, and a file rolled back is done with.
Commit(s) ==
    LET j == job[s]
    IN /\ j # NoJob
       /\ j.then # "note"
       /\ disk' = [disk EXCEPT ![j.file] = j.image]
       /\ tl' = [tl EXCEPT ![j.file] = j.timeline]
       /\ job' = [job EXCEPT ![s] =
                    IF j.then \in {"noted", "patched"}
                    THEN [j EXCEPT !.then = "note"] ELSE NoJob]
       /\ hand' = [hand EXCEPT ![s] =
                    IF j.then = "told" THEN <<j.file, j.image>> ELSE @]
       /\ patch' = [patch EXCEPT ![s] =
                      IF j.then = "rolled" THEN PutBack(@) ELSE @]
       /\ UNCHANGED <<reads, edits>>

\* The file could not be replaced: it is as it was, and so is its history.
CommitFails(s) ==
    /\ job[s] # NoJob
    /\ job[s].then # "note"
    /\ job' = [job EXCEPT ![s] = NoJob]
    /\ patch' = [patch EXCEPT ![s] =
                   IF job[s].then = "patched" THEN [@ EXCEPT !.phase = "rollback"]
                   ELSE IF job[s].then = "rolled" THEN LeftChanged(@) ELSE @]
    /\ UNCHANGED <<disk, tl, reads, hand, edits>>

\* `note_read`: the file is read once more, whoever wrote it last.
NoteRead(s) ==
    LET j == job[s]
    IN /\ j # NoJob
       /\ j.then = "note"
       /\ reads' = [reads EXCEPT ![s][j.file] = disk[j.file]]
       /\ job' = [job EXCEPT ![s] = NoJob]
       /\ patch' = [patch EXCEPT ![s] =
                      IF @ = NoPatch THEN @ ELSE Wrote(@, j.timeline)]
       /\ UNCHANGED <<disk, tl, hand, edits>>

-----------------------------------------------------------------------------
(* Reads, and edits made outside.                                          *)

\* `ctx.fs.read`: the bytes are read before any lock is taken.
Read(s, f) ==
    /\ Free(s)
    /\ disk[f] # Absent
    /\ hand' = [hand EXCEPT ![s] = <<f, disk[f]>>]
    /\ UNCHANGED <<disk, tl, reads, job, patch, edits>>

\* `record_read_bytes`: nothing is recorded of a file that is gone.
RecordRead(s) ==
    LET f == hand[s][1]
    IN /\ hand[s] # NoBytes
       /\ ~Locked(f)
       /\ IF disk[f] = Absent THEN UNCHANGED <<reads, tl>>
          ELSE /\ reads' = [reads EXCEPT ![s][f] = hand[s][2]]
               /\ tl' = [tl EXCEPT ![f] =
                           AcknowledgeSeen(@, disk[f], hand[s][2])]
       /\ hand' = [hand EXCEPT ![s] = NoBytes]
       /\ UNCHANGED <<disk, job, patch, edits>>

\* A call that starts accepts what was changed before it (`Capture::begin`).
Acknowledge(f) ==
    /\ ~Locked(f)
    /\ tl' = [tl EXCEPT ![f] = AcknowledgeOutside(@, disk[f])]
    /\ UNCHANGED <<disk, reads, hand, job, patch, edits>>

\* An editor or a program saves the file, at any moment.
OutsideEdit(f, image) ==
    /\ edits < MaxOutside
    /\ edits' = edits + 1
    /\ disk' = [disk EXCEPT ![f] = image]
    /\ UNCHANGED <<tl, reads, hand, job, patch>>

-----------------------------------------------------------------------------
(* A patch of several files.                                               *)

\* A patch that names a file twice is refused.
StartPatch(s, p) ==
    /\ Free(s)
    /\ \A i, k \in DOMAIN p : i # k => p[i][1] # p[k][1]
    /\ patch' = [patch EXCEPT ![s] =
                   [phase |-> "plan", todo |-> p, plan |-> <<>>,
                    earlier |-> reads[s], done |-> <<>>,
                    written |-> {}, back |-> {}, left |-> {}]]
    /\ UNCHANGED <<disk, tl, reads, hand, job, edits>>

\* Work out a file in memory: one it creates must not be there, another one
\* must have been read and not changed since.
PlanFile(s) ==
    LET p == patch[s]
        f == Head(p.todo)[1]
        image == Head(p.todo)[2]
        planned == Append(p.plan, [file |-> f, stamp |-> disk[f], image |-> image])
    IN /\ p # NoPatch
       /\ p.phase = "plan"
       /\ ~Locked(f)
       /\ IF disk[f] = Absent THEN image # Absent ELSE MayChange(s, f)
       /\ patch' = [patch EXCEPT ![s] =
                      [p EXCEPT !.todo = Tail(@), !.plan = planned,
                                !.phase = IF Tail(p.todo) = <<>>
                                          THEN "write" ELSE @]]
       /\ UNCHANGED <<disk, tl, reads, hand, job, edits>>

\* A file was not read, or a part does not apply: nothing was written yet.
PlanFails(s) ==
    /\ patch[s] # NoPatch
    /\ patch[s].phase = "plan"
    /\ patch' = [patch EXCEPT ![s] = NoPatch]
    /\ UNCHANGED <<disk, tl, reads, hand, job, edits>>

WriteFile(s) ==
    LET next == Head(patch[s].plan)
    IN /\ patch[s] # NoPatch
       /\ patch[s].phase = "write"
       /\ job[s] = NoJob
       /\ disk[next.file] = next.stamp
       /\ Replacing(s, next.file, next.image, "patched")
       /\ UNCHANGED <<disk, tl, reads, hand, patch, edits>>

\* The file changed since it was planned, or cannot be read or replaced.
WriteFails(s) ==
    /\ patch[s] # NoPatch
    /\ patch[s].phase = "write"
    /\ job[s] = NoJob
    /\ patch' = [patch EXCEPT ![s].phase = "rollback"]
    /\ UNCHANGED <<disk, tl, reads, hand, job, edits>>

RollBack(s) ==
    LET last == Head(patch[s].done)
        f == last.file
    IN /\ patch[s] # NoPatch
       /\ patch[s].phase = "rollback"
       /\ patch[s].done # <<>>
       /\ job[s] = NoJob
       /\ IF tl[f].current = last.previous
          THEN /\ ~Locked(f)
               /\ InStep(tl[f], disk[f])
               /\ tl' = [tl EXCEPT ![f] = Restored(@, @.current)]
               /\ patch' = [patch EXCEPT ![s] = PutBack(@)]
               /\ UNCHANGED job
          ELSE /\ Jump(s, f, last.previous, Restored(tl[f], last.previous),
                       "rolled")
               /\ UNCHANGED <<tl, patch>>
       /\ UNCHANGED <<disk, reads, hand, edits>>

\* The file changed again meanwhile: it is left as it is.
RollBackFails(s) ==
    LET last == Head(patch[s].done)
        f == last.file
    IN /\ patch[s] # NoPatch
       /\ patch[s].phase = "rollback"
       /\ patch[s].done # <<>>
       /\ job[s] = NoJob
       /\ ~Locked(f)
       /\ ~(InStep(tl[f], disk[f]) /\ Reachable(tl[f], last.previous))
       /\ patch' = [patch EXCEPT ![s] = LeftChanged(@)]
       /\ UNCHANGED <<disk, tl, reads, hand, job, edits>>

\* Mutant: what the patch wrote still counts as read.
EndPatchKeepsReads(s) ==
    /\ patch[s] # NoPatch
    /\ patch[s].phase = "rollback"
    /\ patch[s].done = <<>>
    /\ job[s] = NoJob
    /\ patch' = [patch EXCEPT ![s] = NoPatch]
    /\ UNCHANGED <<disk, tl, reads, hand, job, edits>>

\* What the scope had read counts again.
EndPatch(s) ==
    /\ patch[s] # NoPatch
    /\ patch[s].phase = "rollback"
    /\ patch[s].done = <<>>
    /\ job[s] = NoJob
    /\ reads' = [reads EXCEPT ![s] = patch[s].earlier]
    /\ patch' = [patch EXCEPT ![s] = NoPatch]
    /\ UNCHANGED <<disk, tl, hand, job, edits>>

-----------------------------------------------------------------------------
Next ==
    \/ \E s \in Scopes :
         \/ Commit(s) \/ CommitFails(s) \/ NoteRead(s) \/ RecordRead(s)
         \/ PlanFile(s) \/ PlanFails(s) \/ WriteFile(s) \/ WriteFails(s)
         \/ RollBack(s) \/ RollBackFails(s) \/ EndPatch(s)
         \/ \E p \in Patches : StartPatch(s, p)
         \/ \E f \in Files :
              \/ Read(s, f) \/ StartRemove(s, f)
              \/ StartUndo(s, f) \/ StartRedo(s, f) \/ RestoreCurrent(s, f)
              \/ \E target \in Revisions(tl[f]) : StartRestore(s, f, target)
              \/ \E image \in Contents :
                   StartWrite(s, f, image) \/ StartEdit(s, f, image)
              \/ \E b \in Byte : StartAppend(s, f, <<b>>)
    \/ \E f \in Files :
         \/ Acknowledge(f)
         \/ \E image \in Contents : OutsideEdit(f, image)

Spec == Init /\ [][Next]_vars

-----------------------------------------------------------------------------
(* Properties.                                                             *)

TypeOK ==
    /\ disk \in [Files -> Image]
    /\ tl \in [Files -> Timeline]
    /\ \A f \in Files : tl[f].current \in Revisions(tl[f])
    /\ reads \in [Scopes -> [Files -> Image \union {NotRead}]]
    /\ hand \in [Scopes -> (Files \X Image) \union {NoBytes}]
    /\ job \in [Scopes -> Job \union {NoJob}]
    /\ patch \in [Scopes -> Patch \union {NoPatch}]
    /\ edits \in Nat
    /\ \A r, s \in Scopes :
         job[r] # NoJob /\ job[s] # NoJob /\ job[r].file = job[s].file => r = s

\* Every revision starts from the content of its parent, and its splice takes
\* one side to the other, byte for byte.  A jump relies on both for revisions
\* written long before it.
HistoryIsConsistent == \A f \in Files : ChangesFit(tl[f])

\* What can be redone hangs together: the last entry was undone to where the
\* file is now, each earlier one to the entry after it.
RedoLeadsOn ==
    \A f \in Files : \A i \in DOMAIN tl[f].redo :
        LET r == tl[f].redo
        IN /\ r[i] \in DOMAIN tl[f].changes
           /\ tl[f].changes[r[i]].parent =
                IF i = Len(r) THEN tl[f].current ELSE r[i + 1]

\* What an operation is about to replace, as it saw it, is a revision of the
\* history it will publish: only an edit made in between can be lost.
ReplacesOnlyWhatIsKept ==
    \A s \in Scopes : job[s] # NoJob =>
        \E i \in Revisions(job[s].timeline) :
            StateAt(job[s].timeline, i) = job[s].seen

\* An undo, a redo or a restore leaves the file with the content it had at
\* the revision it moves to, also along a branch that was left by an edit.
JumpsLandOnTheirRevision ==
    [][\A f \in Files :
         /\ tl'[f].changes = tl[f].changes
         /\ tl'[f].current # tl[f].current
         => disk'[f] = StateAt(tl'[f], tl'[f].current)]_vars

\* A patch that fails leaves nothing behind: each file it wrote is put back
\* or was changed again by someone else, and a file that is as it was before
\* the patch can be edited and patched again without another read.
FailedPatchLeavesNothing ==
    [][\A s \in Scopes :
         LET p == patch[s]
         IN p # NoPatch /\ patch'[s] = NoPatch /\ p.phase = "rollback"
            => \A f \in p.written :
                 /\ f \in p.back \union p.left
                 /\ f \in p.back /\ disk[f] = p.earlier[f]
                      => reads'[s][f] = disk[f]]_vars

\* The contents a revision can be undone to, oldest first.
Past(t) ==
    LET past[i \in Revisions(t)] ==
          IF i = 0 \/ Barrier(t.changes[i]) THEN <<>>
          ELSE Append(past[t.changes[i].parent],
                      StateAt(t, t.changes[i].parent))
    IN past

\* The stacks a history stands for: what it can be undone to, what the file is
\* expected to hold, what can be redone, and the points that can be restored.
PastOf(t) == IF Tracked(t) THEN Past(t)[t.current] ELSE <<>>
PresentOf(t) == IF Tracked(t) THEN Expected(t) ELSE NotRead
FutureOf(t) == [i \in DOMAIN t.redo |-> StateAt(t, t.redo[i])]
HeldOf(t) ==
    IF Tracked(t)
    THEN {<<Past(t)[i], StateAt(t, i)>> : i \in {j \in Revisions(t) : Reachable(t, j)}}
    ELSE {}

Stacks == INSTANCE UndoStacks WITH
    Unknown <- NotRead,
    past <- [f \in Files |-> PastOf(tl[f])],
    present <- [f \in Files |-> PresentOf(tl[f])],
    future <- [f \in Files |-> FutureOf(tl[f])],
    held <- [f \in Files |-> HeldOf(tl[f])]

\* Undo, redo and restore on the tree of revisions are undo, redo and jumps on
\* two stacks of contents: branches left by an edit, edits made outside and
\* the redo stack behave as a user of an editor expects.  The stacks depend on
\* the timelines alone, so this implies Stacks!StackSpec.
ImplementsUndoStacks ==
    Stacks!StackInit /\ [][tl' # tl => Stacks!StackNext]_vars
=============================================================================
