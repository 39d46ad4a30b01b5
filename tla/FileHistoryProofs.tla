-------------------------- MODULE FileHistoryProofs --------------------------
(***************************************************************************)
(* The safety properties of FileHistory, for any files, scopes, contents   *)
(* and patches.  The inductive invariant says that every history in the    *)
(* table is kept, and that an operation which holds a file brings a kept   *)
(* history that expects the very image it is about to write.  At the end,  *)
(* the refinement of UndoStacks.                                           *)
(***************************************************************************)
EXTENDS FileHistory, FileTimelineProofs

\* An operation in the lock brings the history it will publish.
JobFits(s) ==
    job[s] # NoJob =>
      /\ Kept(job[s].timeline)
      /\ \E i \in Revisions(job[s].timeline) :
           StateAt(job[s].timeline, i) = job[s].seen
      /\ job[s].then # "note" => /\ Tracked(job[s].timeline)
                                 /\ job[s].image = Expected(job[s].timeline)
      /\ job[s].then \in {"noted", "patched", "note"}
           => UndoTarget(job[s].timeline) \in Nat

\* A patch accounts for each file it wrote, and only its own operations run
\* while it lasts.
PatchFits(s) ==
    IF patch[s] = NoPatch
    THEN job[s] # NoJob => job[s].then \notin {"patched", "rolled"}
    ELSE /\ patch[s].phase = "plan" => patch[s].todo # <<>> /\ job[s] = NoJob
         /\ patch[s].phase = "write" => patch[s].plan # <<>>
         /\ job[s] # NoJob =>
              \/ job[s].then \in {"patched", "note"} /\ patch[s].phase = "write"
              \/ /\ job[s].then = "rolled" /\ patch[s].phase = "rollback"
                 /\ patch[s].done # <<>>
         /\ \A f \in patch[s].written :
              \/ f \in patch[s].back \union patch[s].left
              \/ \E i \in DOMAIN patch[s].done : patch[s].done[i].file = f

IInv ==
    /\ TypeOK
    /\ \A f \in Files : Kept(tl[f])
    /\ \A s \in Scopes : JobFits(s) /\ PatchFits(s)

-----------------------------------------------------------------------------
LEMMA InitIInv == Init => IInv
<1> SUFFICES ASSUME Init PROVE IInv
  OBVIOUS
<1>1. \A f \in Files : Kept(tl[f])
  BY NewIsKept DEF Init
<1>2. disk \in [Files -> Image]
  BY ContentsAssumption DEF Init
<1>3. tl \in [Files -> Timeline] /\ \A f \in Files : tl[f].current \in Revisions(tl[f])
  <2>1. NewTimeline \in Timeline /\ NewTimeline.current \in Revisions(NewTimeline)
    BY NewIsKept DEF Kept, WellFormed
  <2> QED
    BY <2>1 DEF Init
<1>4. TypeOK
  BY <1>2, <1>3 DEF Init, TypeOK
<1>5. \A s \in Scopes : JobFits(s) /\ PatchFits(s)
  BY DEF Init, JobFits, PatchFits
<1> QED
  BY <1>1, <1>4, <1>5 DEF IInv

\* The timelines of kept histories are typed.
LEMMA KeptType ==
    ASSUME NEW t, Kept(t)
    PROVE  t \in Timeline /\ t.current \in Revisions(t) /\ t.current \in Nat
  BY TimelineType DEF Kept, WellFormed

\* An operation takes the lock of a file.
LEMMA Begun ==
    ASSUME IInv, NEW s \in Scopes, NEW f \in Files, NEW image \in Image,
           NEW timeline, NEW then,
           Begin(s, f, image, timeline, then),
           UNCHANGED <<disk, tl, reads, hand, patch, edits>>,
           Kept(timeline), Tracked(timeline), image = Expected(timeline),
           \E i \in Revisions(timeline) : StateAt(timeline, i) = disk[f],
           then \in {"noted", "patched"} => UndoTarget(timeline) \in Nat,
           IF patch[s] = NoPatch THEN then \in {"done", "told", "noted"}
           ELSE \/ then = "patched" /\ patch[s].phase = "write"
                \/ /\ then = "rolled" /\ patch[s].phase = "rollback"
                   /\ patch[s].done # <<>>
    PROVE  IInv'
<1> DEFINE j == [file |-> f, seen |-> disk[f], image |-> image,
                 timeline |-> timeline, then |-> then]
<1>1. job' = [job EXCEPT ![s] = j] /\ ~Locked(f)
  BY DEF Begin
<1>2. /\ j \in Job /\ j.file = f /\ j.seen = disk[f] /\ j.image = image
      /\ j.timeline = timeline /\ j.then = then /\ then # "note"
  <2>1. timeline \in Timeline /\ disk[f] \in Image
    BY KeptType DEF IInv, TypeOK
  <2>2. then \in {"done", "told", "noted", "patched", "rolled"}
    OBVIOUS
  <2> QED
    BY <2>1, <2>2 DEF Job
<1> HIDE DEF j
<1>3. /\ job \in [Scopes -> Job \union {NoJob}]
      /\ job'[s] = j /\ \A r \in Scopes \ {s} : job'[r] = job[r]
      /\ job' \in [Scopes -> Job \union {NoJob}]
  BY <1>1, <1>2 DEF IInv, TypeOK
<1>4. TypeOK'
  <2>1. ASSUME NEW r \in Scopes, NEW q \in Scopes,
               job'[r] # NoJob, job'[q] # NoJob, job'[r].file = job'[q].file
        PROVE  r = q
    <3>1. CASE r = s /\ q # s
      BY <1>1, <1>2, <1>3, <2>1, <3>1 DEF Locked
    <3>2. CASE r # s /\ q = s
      BY <1>1, <1>2, <1>3, <2>1, <3>2 DEF Locked
    <3>3. CASE r # s /\ q # s
      BY <1>3, <2>1, <3>3 DEF IInv, TypeOK
    <3> QED
      BY <3>1, <3>2, <3>3
  <2> QED
    BY <1>3, <2>1 DEF IInv, TypeOK
<1>5. ASSUME NEW r \in Scopes PROVE JobFits(r)'
  <2>1. CASE r = s
    BY <1>2, <1>3, <2>1 DEF JobFits
  <2>2. CASE r # s
    BY <1>3, <2>2 DEF JobFits, IInv
  <2> QED
    BY <2>1, <2>2
<1>6. ASSUME NEW r \in Scopes PROVE PatchFits(r)'
  <2>1. CASE r = s
    BY <1>2, <1>3, <2>1 DEF PatchFits, IInv
  <2>2. CASE r # s
    BY <1>3, <2>2 DEF PatchFits, IInv
  <2> QED
    BY <2>1, <2>2
<1> QED
  BY <1>4, <1>5, <1>6 DEF IInv

\* A write, an append, a removal or an edit takes the lock.
LEMMA ReplacingBegun ==
    ASSUME IInv, NEW s \in Scopes, NEW f \in Files, NEW image \in Image, NEW then,
           Replacing(s, f, image, then),
           UNCHANGED <<disk, tl, reads, hand, patch, edits>>,
           IF patch[s] = NoPatch THEN then \in {"done", "told", "noted"}
           ELSE then = "patched" /\ patch[s].phase = "write"
    PROVE  IInv'
<1> DEFINE u == Mutate(tl[f], disk[f], image)
<1>1. Begin(s, f, image, u, then)
  BY DEF Replacing
<1>2. Kept(tl[f]) /\ disk[f] \in Image /\ InStep(tl[f], disk[f])
  BY <1>1 DEF IInv, TypeOK, Begin
<1>3. /\ Kept(u) /\ Tracked(u) /\ Expected(u) = image
      /\ \E i \in Revisions(u) : StateAt(u, i) = disk[f]
      /\ UndoTarget(u) \in Nat
  BY <1>2, MutateIsKept
<1> HIDE DEF u
<1> QED
  BY <1>1, <1>3, Begun

\* An undo, a redo or a restore takes the lock: what it will write is the
\* content of the revision it moves to.
LEMMA JumpBegun ==
    ASSUME IInv, NEW s \in Scopes, NEW f \in Files, NEW target, NEW u, NEW then,
           Jump(s, f, target, u, then),
           UNCHANGED <<disk, tl, reads, hand, patch, edits>>,
           Kept(u), u.current = target, Revisions(u) = Revisions(tl[f]),
           Tracked(u) = Tracked(tl[f]),
           \A i : StateAt(u, i) = StateAt(tl[f], i),
           IF patch[s] = NoPatch THEN then = "done"
           ELSE then = "rolled" /\ patch[s].phase = "rollback" /\ patch[s].done # <<>>
    PROVE  IInv'
<1> DEFINE t == tl[f]
           image == JumpImage(t, disk[f], target)
<1>1. Kept(t) /\ Tracked(t) /\ Reachable(t, target) /\ InStep(t, disk[f])
  BY DEF Jump, Begin, IInv
<1>2. WellFormed(t) /\ target \in Revisions(t) /\ disk[f] = Expected(t)
  BY <1>1 DEF Kept, Reachable, InStep
<1>3. image = StateAt(t, target) /\ image \in Image
  BY <1>1, <1>2, JumpLands
<1>4. Begin(s, f, image, u, then)
  BY DEF Jump
<1>5. Tracked(u) /\ image = Expected(u)
  BY <1>1, <1>3 DEF Expected
<1>6. \E i \in Revisions(u) : StateAt(u, i) = disk[f]
  BY <1>2 DEF WellFormed, Expected
<1> HIDE DEF t, image
<1> QED
  BY <1>3, <1>4, <1>5, <1>6, Begun

\* A history that nobody holds changes.
LEMMA HistoryChanged ==
    ASSUME IInv, NEW f \in Files, NEW u, Kept(u), tl' = [tl EXCEPT ![f] = u],
           UNCHANGED <<disk, job, edits>>, NEW s \in Scopes,
           /\ reads' \in [Scopes -> [Files -> Image \union {NotRead}]]
           /\ hand' \in [Scopes -> (Files \X Image) \union {NoBytes}]
           /\ patch' \in [Scopes -> Patch \union {NoPatch}]
           /\ PatchFits(s)'
           /\ \A r \in Scopes \ {s} : patch'[r] = patch[r]
    PROVE  IInv'
<1>1. u \in Timeline /\ u.current \in Revisions(u)
  BY KeptType
<1>2. tl' \in [Files -> Timeline] /\ \A g \in Files : tl'[g].current \in Revisions(tl'[g])
  BY <1>1 DEF IInv, TypeOK
<1>3. TypeOK'
  BY <1>2 DEF IInv, TypeOK
<1>4. \A g \in Files : Kept(tl'[g])
  BY DEF IInv, TypeOK
<1>5. \A r \in Scopes : JobFits(r)'
  BY DEF IInv, JobFits
<1>6. ASSUME NEW r \in Scopes PROVE PatchFits(r)'
  <2>1. CASE r = s
    BY <2>1
  <2>2. CASE r # s
    <3>1. patch'[r] = patch[r] /\ job' = job /\ PatchFits(r)
      BY <2>2 DEF IInv
    <3> QED
      BY <3>1 DEF PatchFits
  <2> QED
    BY <2>1, <2>2
<1> QED
  BY <1>3, <1>4, <1>5, <1>6 DEF IInv

\* Operations of a script that take a lock.
LEMMA Starts ==
    ASSUME IInv, NEW s \in Scopes, NEW f \in Files
    PROVE  /\ \A bytes \in Contents : StartWrite(s, f, bytes) => IInv'
           /\ \A bytes \in Contents : StartEdit(s, f, bytes) => IInv'
           /\ \A b \in Byte : StartAppend(s, f, <<b>>) => IInv'
           /\ StartRemove(s, f) => IInv'
           /\ StartUndo(s, f) => IInv'
           /\ StartRedo(s, f) => IInv'
           /\ \A target \in Revisions(tl[f]) : StartRestore(s, f, target) => IInv'
<1>1. Kept(tl[f]) /\ Contents \subseteq Image /\ Absent \in Image
  BY ContentsAssumption DEF IInv, Image
<1>2. Free(s) => patch[s] = NoPatch
  BY DEF Free
<1>3. ASSUME NEW bytes \in Contents, StartWrite(s, f, bytes) PROVE IInv'
  BY <1>1, <1>2, <1>3, ReplacingBegun DEF StartWrite
<1>4. ASSUME NEW bytes \in Contents, StartEdit(s, f, bytes) PROVE IInv'
  BY <1>1, <1>2, <1>4, ReplacingBegun DEF StartEdit
<1>5. ASSUME NEW b \in Byte, StartAppend(s, f, <<b>>) PROVE IInv'
  BY <1>1, <1>2, <1>5, ReplacingBegun DEF StartAppend
<1>6. ASSUME StartRemove(s, f) PROVE IInv'
  BY <1>1, <1>2, <1>6, ReplacingBegun DEF StartRemove
<1>7. ASSUME StartUndo(s, f) PROVE IInv'
  <2>1. /\ Kept(Undo(tl[f])) /\ Undo(tl[f]).current = UndoTarget(tl[f])
        /\ Revisions(Undo(tl[f])) = Revisions(tl[f])
        /\ Tracked(Undo(tl[f])) = Tracked(tl[f])
        /\ \A i : StateAt(Undo(tl[f]), i) = StateAt(tl[f], i)
    BY <1>1, <1>7, UndoIsKept DEF StartUndo
  <2> QED
    BY <1>2, <1>7, <2>1, JumpBegun DEF StartUndo
<1>8. ASSUME StartRedo(s, f) PROVE IInv'
  <2>1. /\ Kept(Redo(tl[f])) /\ Redo(tl[f]).current = RedoTarget(tl[f])
        /\ Revisions(Redo(tl[f])) = Revisions(tl[f])
        /\ Tracked(Redo(tl[f])) = Tracked(tl[f])
        /\ \A i : StateAt(Redo(tl[f]), i) = StateAt(tl[f], i)
    BY <1>1, <1>8, RedoIsKept DEF StartRedo
  <2> QED
    BY <1>2, <1>8, <2>1, JumpBegun DEF StartRedo
<1>9. ASSUME NEW target \in Revisions(tl[f]), StartRestore(s, f, target) PROVE IInv'
  <2> DEFINE u == Restored(tl[f], target)
  <2>1. /\ Kept(u) /\ u.current = target /\ Revisions(u) = Revisions(tl[f])
        /\ Tracked(u) = Tracked(tl[f])
        /\ \A i : StateAt(u, i) = StateAt(tl[f], i)
    BY <1>1, RestoredIsKept
  <2> HIDE DEF u
  <2>2. Jump(s, f, target, u, "done")
    BY <1>9 DEF StartRestore, u
  <2> QED
    BY <1>2, <1>9, <2>1, <2>2, JumpBegun DEF StartRestore
<1> QED
  BY <1>3, <1>4, <1>5, <1>6, <1>7, <1>8, <1>9

\* Types of what a patch holds.
LEMMA PatchParts ==
    ASSUME NEW p \in Patch
    PROVE  /\ p.todo \in Seq(Files \X Image)
           /\ p.plan \in Seq([file : Files, stamp : Image, image : Image])
           /\ p.done \in Seq([file : Files, previous : Nat])
           /\ p.earlier \in [Files -> Image \union {NotRead}]
           /\ p.written \in SUBSET Files /\ p.back \in SUBSET Files
           /\ p.left \in SUBSET Files
           /\ p.phase \in {"plan", "write", "rollback"}
  BY DEF Patch

\* A file taken off the files to roll back is put back or left as it is.
LEMMA OneLessToRollBack ==
    ASSUME NEW p \in Patch, p.phase = "rollback", p.done # <<>>,
           \A f \in p.written :
              \/ f \in p.back \union p.left
              \/ \E i \in DOMAIN p.done : p.done[i].file = f,
           NEW q, q = PutBack(p) \/ q = LeftChanged(p)
    PROVE  /\ q \in Patch /\ q # NoPatch /\ q.phase = "rollback"
           /\ \A f \in q.written :
                \/ f \in q.back \union q.left
                \/ \E i \in DOMAIN q.done : q.done[i].file = f
<1> DEFINE D == [file : Files, previous : Nat]
<1>1. p.done \in Seq(D) /\ Head(p.done) \in D /\ Tail(p.done) \in Seq(D)
  BY PatchParts, HeadTailProperties
<1>2. /\ q.phase = "rollback" /\ q.done = Tail(p.done) /\ q.written = p.written
      /\ q.back \union q.left = p.back \union p.left \union {Head(p.done).file}
      /\ q \in Patch
  <2>1. Head(p.done).file \in Files
    BY <1>1
  <2> DEFINE f == Head(p.done).file
             rest == Tail(p.done)
  <2>2. rest \in Seq(D) /\ f \in Files
    BY <1>1, <2>1
  <2>3. CASE q = PutBack(p)
    <3>1. q = [p EXCEPT !.done = rest, !.back = p.back \union {f}]
      BY <2>3 DEF PutBack
    <3> HIDE DEF f, rest
    <3>2. /\ q.phase = "rollback" /\ q.done = rest /\ q.written = p.written
          /\ q.back = p.back \union {f} /\ q.left = p.left
      BY <3>1 DEF Patch
    <3>3. q \in Patch
      BY <2>2, <3>1 DEF Patch
    <3> QED
      BY <3>2, <3>3 DEF f, rest
  <2>4. CASE q = LeftChanged(p)
    <3>1. q = [p EXCEPT !.done = rest, !.left = p.left \union {f}]
      BY <2>4 DEF LeftChanged
    <3> HIDE DEF f, rest
    <3>2. /\ q.phase = "rollback" /\ q.done = rest /\ q.written = p.written
          /\ q.left = p.left \union {f} /\ q.back = p.back
      BY <3>1 DEF Patch
    <3>3. q \in Patch
      BY <2>2, <3>1 DEF Patch
    <3> QED
      BY <3>2, <3>3 DEF f, rest
  <2> QED
    BY <2>3, <2>4
<1>3. ASSUME NEW f \in q.written,
             f \notin q.back \union q.left
      PROVE  \E i \in DOMAIN q.done : q.done[i].file = f
  <2>1. PICK i \in DOMAIN p.done : p.done[i].file = f
    BY <1>2, <1>3
  <2>2. i # 1 /\ i \in 1..Len(p.done)
    BY <1>1, <1>2, <1>3, <2>1
  <2>3. /\ i - 1 \in DOMAIN Tail(p.done)
        /\ Tail(p.done)[i - 1] = p.done[i]
    BY <1>1, <2>2
  <2> QED
    BY <1>2, <2>1, <2>3
<1> QED
  BY <1>2, <1>3, NoPatchAssumption

-----------------------------------------------------------------------------
\* The file is replaced and the history published.
LEMMA CommitKeeps ==
    ASSUME IInv, NEW s \in Scopes, Commit(s)
    PROVE  IInv'
<1> DEFINE j == job[s]
           f == job[s].file
<1>1. /\ j # NoJob /\ j.then # "note" /\ j \in Job
      /\ disk' = [disk EXCEPT ![f] = j.image]
      /\ tl' = [tl EXCEPT ![f] = j.timeline]
      /\ UNCHANGED <<reads, edits>>
  BY DEF Commit, IInv, TypeOK
<1>2. /\ f \in Files /\ j.image \in Image /\ j.timeline \in Timeline
      /\ Kept(j.timeline) /\ j.timeline.current \in Revisions(j.timeline)
  BY <1>1, KeptType DEF Job, IInv, JobFits
<1>3. /\ disk' \in [Files -> Image] /\ tl' \in [Files -> Timeline]
      /\ \A g \in Files : Kept(tl'[g]) /\ tl'[g].current \in Revisions(tl'[g])
  BY <1>1, <1>2, KeptType DEF IInv, TypeOK
<1>4. /\ job \in [Scopes -> Job \union {NoJob}]
      /\ job' = [job EXCEPT ![s] = IF j.then \in {"noted", "patched"}
                                   THEN [j EXCEPT !.then = "note"] ELSE NoJob]
  BY DEF Commit, IInv, TypeOK
<1>5. [j EXCEPT !.then = "note"] \in Job
      /\ [j EXCEPT !.then = "note"].file = f
      /\ [j EXCEPT !.then = "note"].timeline = j.timeline
      /\ [j EXCEPT !.then = "note"].seen = j.seen
      /\ [j EXCEPT !.then = "note"].then = "note"
  BY <1>1 DEF Job
<1>6. /\ job' \in [Scopes -> Job \union {NoJob}]
      /\ \A r \in Scopes \ {s} : job'[r] = job[r]
      /\ job'[s] # NoJob => /\ job'[s].file = f /\ job'[s].timeline = j.timeline
                            /\ job'[s].seen = j.seen /\ job'[s].then = "note"
                            /\ j.then \in {"noted", "patched"}
  BY <1>4, <1>5
<1>7. hand' \in [Scopes -> (Files \X Image) \union {NoBytes}]
  BY <1>2 DEF Commit, IInv, TypeOK
<1>8. /\ patch' = [patch EXCEPT ![s] = IF j.then = "rolled" THEN PutBack(@) ELSE @]
      /\ patch \in [Scopes -> Patch \union {NoPatch}]
      /\ PatchFits(s)
  BY DEF Commit, IInv, TypeOK
<1>9. patch'[s] \in Patch \union {NoPatch} /\ PatchFits(s)'
  <2>1. CASE j.then = "rolled"
    <3>1. /\ patch[s] # NoPatch /\ patch[s] \in Patch
          /\ patch[s].phase = "rollback" /\ patch[s].done # <<>>
          /\ \A g \in patch[s].written :
               \/ g \in patch[s].back \union patch[s].left
               \/ \E i \in DOMAIN patch[s].done : patch[s].done[i].file = g
      BY <1>1, <1>8, <2>1 DEF PatchFits
    <3>2. patch'[s] = PutBack(patch[s]) /\ job'[s] = NoJob
      BY <1>4, <1>8, <2>1
    <3>3. /\ patch'[s] \in Patch /\ patch'[s] # NoPatch /\ patch'[s].phase = "rollback"
          /\ \A g \in patch'[s].written :
               \/ g \in patch'[s].back \union patch'[s].left
               \/ \E i \in DOMAIN patch'[s].done : patch'[s].done[i].file = g
      <4> DEFINE p == patch[s]
                 q == patch'[s]
      <4>1. p \in Patch /\ p.phase = "rollback" /\ p.done # <<>> /\ q = PutBack(p)
        BY <3>1, <3>2
      <4>2. \A g \in p.written :
               \/ g \in p.back \union p.left
               \/ \E i \in DOMAIN p.done : p.done[i].file = g
        BY <3>1
      <4> HIDE DEF p, q
      <4>3. /\ q \in Patch /\ q # NoPatch /\ q.phase = "rollback"
            /\ \A g \in q.written :
                 \/ g \in q.back \union q.left
                 \/ \E i \in DOMAIN q.done : q.done[i].file = g
        BY <4>1, <4>2, OneLessToRollBack
      <4> QED
        BY <4>3 DEF q
    <3> QED
      BY <3>2, <3>3 DEF PatchFits
  <2>2. CASE j.then # "rolled"
    <3>1. patch'[s] = patch[s]
      BY <1>8, <2>2
    <3> QED
      BY <1>1, <1>6, <1>8, <2>2, <3>1 DEF PatchFits
  <2> QED
    BY <2>1, <2>2
<1>10. patch' \in [Scopes -> Patch \union {NoPatch}]
       /\ \A r \in Scopes \ {s} : patch'[r] = patch[r]
  BY <1>8, <1>9
<1>11. \A r, q \in Scopes :
         job'[r] # NoJob /\ job'[q] # NoJob /\ job'[r].file = job'[q].file => r = q
  BY <1>1, <1>6 DEF IInv, TypeOK
<1>12. TypeOK'
  BY <1>1, <1>3, <1>6, <1>7, <1>10, <1>11 DEF IInv, TypeOK
<1>13. ASSUME NEW r \in Scopes PROVE JobFits(r)'
  <2>1. CASE r = s
    BY <1>1, <1>6, <2>1 DEF JobFits, IInv
  <2>2. CASE r # s
    BY <1>6, <2>2 DEF JobFits, IInv
  <2> QED
    BY <2>1, <2>2
<1>14. ASSUME NEW r \in Scopes PROVE PatchFits(r)'
  <2>1. CASE r = s
    BY <1>9, <2>1
  <2>2. CASE r # s
    BY <1>6, <1>10, <2>2 DEF PatchFits, IInv
  <2> QED
    BY <2>1, <2>2
<1> QED
  BY <1>3, <1>12, <1>13, <1>14 DEF IInv

\* No history changes, and the scope gives up its lock or keeps it.
LEMMA HistoriesStay ==
    ASSUME IInv, NEW s \in Scopes, tl' = tl,
           job' = job \/ job' = [job EXCEPT ![s] = NoJob],
           disk' \in [Files -> Image],
           reads' \in [Scopes -> [Files -> Image \union {NotRead}]],
           hand' \in [Scopes -> (Files \X Image) \union {NoBytes}],
           edits' \in Nat,
           patch' \in [Scopes -> Patch \union {NoPatch}],
           \A r \in Scopes \ {s} : patch'[r] = patch[r],
           PatchFits(s)'
    PROVE  IInv'
<1>1. /\ job \in [Scopes -> Job \union {NoJob}]
      /\ \A r, q \in Scopes :
           job[r] # NoJob /\ job[q] # NoJob /\ job[r].file = job[q].file => r = q
  BY DEF IInv, TypeOK
<1>2. /\ job' \in [Scopes -> Job \union {NoJob}]
      /\ \A r \in Scopes : job'[r] = job[r] \/ job'[r] = NoJob
      /\ \A r \in Scopes \ {s} : job'[r] = job[r]
  BY <1>1
<1>3. TypeOK'
  <2>1. \A r, q \in Scopes :
          job'[r] # NoJob /\ job'[q] # NoJob /\ job'[r].file = job'[q].file => r = q
    BY <1>1, <1>2
  <2> QED
    BY <1>2, <2>1 DEF IInv, TypeOK
<1>4. ASSUME NEW r \in Scopes PROVE JobFits(r)'
  <2>1. CASE job'[r] = NoJob
    BY <2>1 DEF JobFits
  <2>2. CASE job'[r] = job[r]
    BY <2>2 DEF IInv, JobFits
  <2> QED
    BY <1>2, <2>1, <2>2
<1>5. ASSUME NEW r \in Scopes PROVE PatchFits(r)'
  <2>1. CASE r = s
    BY <2>1
  <2>2. CASE r # s
    <3>1. patch'[r] = patch[r] /\ job'[r] = job[r] /\ PatchFits(r)
      BY <1>2, <2>2 DEF IInv
    <3> QED
      BY <3>1 DEF PatchFits
  <2> QED
    BY <2>1, <2>2
<1>6. \A g \in Files : Kept(tl'[g])
  BY DEF IInv
<1> QED
  BY <1>3, <1>4, <1>5, <1>6 DEF IInv

\* What holds of a patch that is being rolled back when one file less is left.
LEMMA RolledBackOne ==
    ASSUME IInv, NEW s \in Scopes, patch[s] # NoPatch,
           patch[s].phase = "rollback", patch[s].done # <<>>,
           job'[s] = NoJob,
           \/ patch' = [patch EXCEPT ![s] = PutBack(@)]
           \/ patch' = [patch EXCEPT ![s] = LeftChanged(@)]
    PROVE  /\ patch' \in [Scopes -> Patch \union {NoPatch}]
           /\ \A r \in Scopes \ {s} : patch'[r] = patch[r]
           /\ PatchFits(s)'
<1> DEFINE p == patch[s]
           q == patch'[s]
<1>1. /\ patch \in [Scopes -> Patch \union {NoPatch}] /\ PatchFits(s)
      /\ q = PutBack(p) \/ q = LeftChanged(p)
      /\ \A r \in Scopes \ {s} : patch'[r] = patch[r]
  BY DEF IInv, TypeOK
<1>2. /\ p \in Patch /\ p.phase = "rollback" /\ p.done # <<>>
      /\ \A f \in p.written :
           \/ f \in p.back \union p.left
           \/ \E i \in DOMAIN p.done : p.done[i].file = f
  BY <1>1 DEF PatchFits
<1> HIDE DEF p, q
<1>3. /\ q \in Patch /\ q # NoPatch /\ q.phase = "rollback"
      /\ \A f \in q.written :
           \/ f \in q.back \union q.left
           \/ \E i \in DOMAIN q.done : q.done[i].file = f
  BY <1>1, <1>2, OneLessToRollBack
<1>4. patch' \in [Scopes -> Patch \union {NoPatch}]
  BY <1>1, <1>3 DEF q
<1>5. PatchFits(s)'
  BY <1>3 DEF PatchFits, q
<1> QED
  BY <1>1, <1>4, <1>5

\* A patch that goes to its roll-back keeps its account.
LEMMA RollBackBegins ==
    ASSUME IInv, NEW s \in Scopes, patch[s] # NoPatch, job'[s] = NoJob,
           patch' = [patch EXCEPT ![s].phase = "rollback"]
    PROVE  /\ patch' \in [Scopes -> Patch \union {NoPatch}]
           /\ \A r \in Scopes \ {s} : patch'[r] = patch[r]
           /\ PatchFits(s)'
<1> DEFINE p == patch[s]
           q == patch'[s]
<1>1. /\ patch \in [Scopes -> Patch \union {NoPatch}] /\ PatchFits(s) /\ p \in Patch
      /\ q = [p EXCEPT !.phase = "rollback"]
      /\ \A r \in Scopes \ {s} : patch'[r] = patch[r]
  BY DEF IInv, TypeOK
<1>2. \A f \in p.written :
        \/ f \in p.back \union p.left
        \/ \E i \in DOMAIN p.done : p.done[i].file = f
  BY <1>1 DEF PatchFits
<1> HIDE DEF p, q
<1>3. /\ q \in Patch /\ q.phase = "rollback" /\ q.done = p.done
      /\ q.written = p.written /\ q.back = p.back /\ q.left = p.left
  BY <1>1 DEF Patch
<1>4. q # NoPatch
  BY <1>3, NoPatchAssumption
<1>5. patch' \in [Scopes -> Patch \union {NoPatch}]
  BY <1>1, <1>3 DEF q
<1>6. PatchFits(s)'
  BY <1>2, <1>3, <1>4 DEF PatchFits, q
<1> QED
  BY <1>1, <1>5, <1>6

LEMMA CommitFailsKeeps ==
    ASSUME IInv, NEW s \in Scopes, CommitFails(s)
    PROVE  IInv'
<1>1. /\ job[s] # NoJob /\ job[s].then # "note" /\ job' = [job EXCEPT ![s] = NoJob]
      /\ job \in [Scopes -> Job \union {NoJob}] /\ job'[s] = NoJob
      /\ UNCHANGED <<disk, tl, reads, hand, edits>> /\ PatchFits(s)
      /\ patch \in [Scopes -> Patch \union {NoPatch}]
  BY DEF CommitFails, IInv, TypeOK
<1>2. /\ patch' \in [Scopes -> Patch \union {NoPatch}]
      /\ \A r \in Scopes \ {s} : patch'[r] = patch[r]
      /\ PatchFits(s)'
  <2>1. CASE job[s].then = "patched"
    <3>1. patch' = [patch EXCEPT ![s].phase = "rollback"] /\ patch[s] # NoPatch
      BY <1>1, <2>1 DEF CommitFails, PatchFits
    <3> QED
      BY <1>1, <3>1, RollBackBegins
  <2>2. CASE job[s].then = "rolled"
    <3>1. /\ patch' = [patch EXCEPT ![s] = LeftChanged(@)] /\ patch[s] # NoPatch
          /\ patch[s].phase = "rollback" /\ patch[s].done # <<>>
      BY <1>1, <2>2 DEF CommitFails, PatchFits
    <3> QED
      BY <1>1, <3>1, RolledBackOne
  <2>3. CASE job[s].then \notin {"patched", "rolled"}
    <3>1. patch' = patch
      BY <1>1, <2>3 DEF CommitFails
    <3> QED
      BY <1>1, <2>3, <3>1 DEF PatchFits
  <2> QED
    BY <2>1, <2>2, <2>3
<1> QED
  BY <1>1, <1>2, HistoriesStay DEF IInv, TypeOK

\* A file of a patch is done: the next one is written, or the patch ends.
LEMMA NoteReadKeeps ==
    ASSUME IInv, NEW s \in Scopes, NoteRead(s)
    PROVE  IInv'
<1> DEFINE j == job[s]
<1>1. /\ j # NoJob /\ j.then = "note" /\ j \in Job /\ job' = [job EXCEPT ![s] = NoJob]
      /\ job'[s] = NoJob
      /\ reads' = [reads EXCEPT ![s][j.file] = disk[j.file]]
      /\ UNCHANGED <<disk, tl, hand, edits>> /\ PatchFits(s)
      /\ patch \in [Scopes -> Patch \union {NoPatch}]
      /\ patch' = [patch EXCEPT ![s] =
                     IF @ = NoPatch THEN @ ELSE Wrote(@, j.timeline)]
  BY DEF NoteRead, IInv, TypeOK
<1>2. UndoTarget(j.timeline) \in Nat /\ j.file \in Files
  BY <1>1 DEF IInv, JobFits, Job
<1>3. reads' \in [Scopes -> [Files -> Image \union {NotRead}]]
  BY <1>1, <1>2 DEF IInv, TypeOK
<1> DEFINE p == patch[s]
           q == patch'[s]
           previous == UndoTarget(j.timeline)
           f == Head(p.plan).file
<1>4. \A r \in Scopes \ {s} : patch'[r] = patch[r]
  BY <1>1
<1>5. CASE p = NoPatch
  <2>1. q = NoPatch /\ patch' = patch
    BY <1>1, <1>5
  <2>2. PatchFits(s)'
    BY <1>1, <2>1 DEF PatchFits
  <2> QED
    BY <1>1, <1>3, <2>1, <2>2, HistoriesStay DEF IInv, TypeOK
<1>6. CASE p # NoPatch
  <2>1. /\ p \in Patch /\ p.phase = "write" /\ p.plan # <<>>
        /\ q = Wrote(p, j.timeline)
        /\ \A g \in p.written :
             \/ g \in p.back \union p.left
             \/ \E i \in DOMAIN p.done : p.done[i].file = g
    BY <1>1, <1>6 DEF PatchFits
  <2> DEFINE P == [file : Files, stamp : Image, image : Image]
             D == [file : Files, previous : Nat]
             d == [file |-> f, previous |-> previous]
  <2>2. p.plan \in Seq(P) /\ p.done \in Seq(D) /\ f \in Files /\ Tail(p.plan) \in Seq(P)
    <3>1. p.plan \in Seq(P) /\ p.done \in Seq(D)
      BY <2>1, PatchParts
    <3>2. Head(p.plan) \in P /\ Tail(p.plan) \in Seq(P)
      BY <2>1, <3>1, HeadTailProperties
    <3> QED
      BY <3>1, <3>2
  <2>3. d \in D /\ <<d>> \in Seq(D)
    BY <1>2, <2>2
  <2>4. /\ <<d>> \o p.done \in Seq(D) /\ Len(<<d>> \o p.done) = Len(p.done) + 1
        /\ (<<d>> \o p.done)[1] = d
        /\ \A i \in 1..Len(p.done) : (<<d>> \o p.done)[i + 1] = p.done[i]
    <3>1. /\ <<d>> \o p.done \in Seq(D)
          /\ Len(<<d>> \o p.done) = Len(<<d>>) + Len(p.done)
          /\ \A i \in 1..(Len(<<d>>) + Len(p.done)) : (<<d>> \o p.done)[i] =
               IF i <= Len(<<d>>) THEN <<d>>[i] ELSE p.done[i - Len(<<d>>)]
      <4> HIDE DEF D, d
      <4> QED
        BY <2>2, <2>3, ConcatProperties
    <3>2. Len(<<d>>) = 1 /\ <<d>>[1] = d /\ Len(p.done) \in Nat
      BY <2>2
    <3> HIDE DEF d, D
    <3> DEFINE all == <<d>> \o p.done
               n == Len(p.done)
    <3>3. Len(all) = n + 1 /\ \A i \in 1..(n + 1) : all[i] =
               IF i <= 1 THEN d ELSE p.done[i - 1]
      BY <3>1, <3>2
    <3>4. n \in Nat
      BY <3>2
    <3> HIDE DEF all, n
    <3>5. all[1] = d /\ \A i \in 1..n : all[i + 1] = p.done[i]
      BY <3>3, <3>4
    <3> QED
      BY <3>1, <3>2, <3>3, <3>5 DEF all, n
  <2> HIDE DEF d
  <2>5. CASE Tail(p.plan) = <<>>
    <3>1. q = NoPatch
      BY <2>1, <2>5 DEF Wrote
    <3>2. patch' \in [Scopes -> Patch \union {NoPatch}]
      BY <1>1, <3>1
    <3>3. PatchFits(s)'
      BY <1>1, <3>1 DEF PatchFits
    <3> QED
      BY <1>1, <1>3, <1>4, <3>2, <3>3, HistoriesStay DEF IInv, TypeOK
  <2>6. CASE Tail(p.plan) # <<>>
    <3>1. q = [p EXCEPT !.plan = Tail(p.plan), !.written = p.written \union {f},
                        !.done = <<d>> \o p.done]
      BY <2>1, <2>6 DEF Wrote, d
    <3> HIDE DEF p, q, f
    <3>2. /\ q.phase = "write" /\ q.plan = Tail(p.plan)
          /\ q.written = p.written \union {f} /\ q.done = <<d>> \o p.done
          /\ q.back = p.back /\ q.left = p.left
      BY <2>1, <3>1 DEF Patch
    <3>3. q \in Patch
      <4>1. q.written \in SUBSET Files
        BY <2>1, <2>2, <3>2, PatchParts
      <4> DEFINE all == <<d>> \o p.done
                 rest == Tail(p.plan)
                 written == p.written \union {f}
      <4>2. all \in Seq(D) /\ rest \in Seq(P) /\ written \in SUBSET Files
        BY <2>2, <2>4, <3>2, <4>1
      <4>3. q = [p EXCEPT !.plan = rest, !.written = written, !.done = all]
        BY <3>1
      <4> HIDE DEF all, rest, written
      <4> QED
        BY <2>1, <4>2, <4>3 DEF Patch
    <3>4. q # NoPatch
      BY <3>3, NoPatchAssumption
    <3>5. ASSUME NEW g \in q.written, g \notin q.back \union q.left
          PROVE  \E i \in DOMAIN q.done : q.done[i].file = g
      <4>1. DOMAIN q.done = 1..(Len(p.done) + 1) /\ Len(p.done) \in Nat
        BY <2>2, <2>4, <3>2
      <4>2. CASE g = f
        <5>1. q.done[1].file = g
          BY <2>4, <3>2, <4>2 DEF d
        <5> QED
          BY <4>1, <5>1
      <4>3. CASE g # f
        <5>1. PICK i \in DOMAIN p.done : p.done[i].file = g
          BY <2>1, <3>2, <3>5, <4>3
        <5>2. i \in 1..Len(p.done)
          BY <2>2
        <5>3. q.done[i + 1].file = g /\ i + 1 \in DOMAIN q.done
          BY <2>4, <3>2, <4>1, <5>1, <5>2
        <5> QED
          BY <5>3
      <4> QED
        BY <4>2, <4>3
    <3>6. PatchFits(s)'
      BY <1>1, <2>6, <3>2, <3>4, <3>5 DEF PatchFits, q
    <3>7. patch' \in [Scopes -> Patch \union {NoPatch}]
      BY <1>1, <3>3 DEF q
    <3> QED
      BY <1>1, <1>3, <1>4, <3>6, <3>7, HistoriesStay DEF IInv, TypeOK
  <2> QED
    BY <2>5, <2>6
<1> QED
  BY <1>5, <1>6

-----------------------------------------------------------------------------
\* Reads, what a call acknowledges when it starts, and edits made outside.
LEMMA ReadKeeps ==
    ASSUME IInv, NEW s \in Scopes, NEW f \in Files, Read(s, f)
    PROVE  IInv'
<1>1. /\ tl' = tl /\ job' = job /\ disk' = disk /\ reads' = reads /\ patch' = patch
      /\ edits' = edits
      /\ hand' \in [Scopes -> (Files \X Image) \union {NoBytes}]
  BY DEF Read, IInv, TypeOK
<1>2. PatchFits(s)'
  BY <1>1 DEF IInv, PatchFits
<1> QED
  BY <1>1, <1>2, HistoriesStay DEF IInv, TypeOK

LEMMA AcknowledgeKeeps ==
    ASSUME IInv, NEW f \in Files, Acknowledge(f)
    PROVE  IInv'
<1> DEFINE u == AcknowledgeOutside(tl[f], disk[f])
<1>1. Kept(u)
  BY AcknowledgeIsKept DEF IInv, TypeOK
<1>2. /\ tl' = [tl EXCEPT ![f] = u]
      /\ UNCHANGED <<disk, reads, hand, job, patch, edits>>
  BY DEF Acknowledge
<1> HIDE DEF u
<1>3. TypeOK'
  BY <1>1, <1>2, KeptType DEF IInv, TypeOK
<1>4. \A g \in Files : Kept(tl'[g])
  BY <1>1, <1>2 DEF IInv, TypeOK
<1>5. \A r \in Scopes : JobFits(r)' /\ PatchFits(r)'
  BY <1>2 DEF IInv, JobFits, PatchFits
<1> QED
  BY <1>3, <1>4, <1>5 DEF IInv

LEMMA RecordReadKeeps ==
    ASSUME IInv, NEW s \in Scopes, RecordRead(s)
    PROVE  IInv'
<1> DEFINE f == hand[s][1]
           u == AcknowledgeSeen(tl[f], disk[f], hand[s][2])
<1>1. /\ f \in Files /\ hand[s][2] \in Image
      /\ UNCHANGED <<disk, job, patch, edits>>
      /\ hand' \in [Scopes -> (Files \X Image) \union {NoBytes}]
      /\ PatchFits(s)
  BY DEF RecordRead, IInv, TypeOK
<1>2. PatchFits(s)'
  BY <1>1 DEF PatchFits
<1>3. CASE disk[f] = Absent
  <2>1. reads' = reads /\ tl' = tl
    BY <1>3 DEF RecordRead
  <2> QED
    BY <1>1, <1>2, <2>1, HistoriesStay DEF IInv, TypeOK
<1>4. CASE disk[f] # Absent
  <2>1. /\ reads' \in [Scopes -> [Files -> Image \union {NotRead}]]
        /\ tl' = [tl EXCEPT ![f] = u]
    BY <1>1, <1>4 DEF RecordRead, IInv, TypeOK
  <2>2. Kept(u)
    BY <1>1, AcknowledgeIsKept DEF AcknowledgeSeen, IInv, TypeOK
  <2>3. /\ patch' \in [Scopes -> Patch \union {NoPatch}]
        /\ \A r \in Scopes \ {s} : patch'[r] = patch[r]
    BY <1>1 DEF IInv, TypeOK
  <2> HIDE DEF u, f
  <2> QED
    BY <1>1, <1>2, <2>1, <2>2, <2>3, HistoryChanged
<1> QED
  BY <1>3, <1>4

LEMMA OutsideEditKeeps ==
    ASSUME IInv, NEW f \in Files, NEW image \in Contents, OutsideEdit(f, image)
    PROVE  IInv'
<1>1. /\ disk' \in [Files -> Image] /\ edits' \in Nat
      /\ UNCHANGED <<tl, reads, hand, job, patch>>
  BY ContentsAssumption DEF OutsideEdit, IInv, TypeOK
<1>2. TypeOK'
  BY <1>1 DEF IInv, TypeOK
<1>3. \A r \in Scopes : JobFits(r)' /\ PatchFits(r)'
  BY <1>1 DEF IInv, JobFits, PatchFits
<1> QED
  BY <1>1, <1>2, <1>3 DEF IInv

LEMMA RestoreCurrentKeeps ==
    ASSUME IInv, NEW s \in Scopes, NEW f \in Files, RestoreCurrent(s, f)
    PROVE  IInv'
<1> DEFINE u == Restored(tl[f], tl[f].current)
<1>1. Kept(u)
  BY RestoredIsKept DEF IInv, TypeOK
<1>2. /\ tl' = [tl EXCEPT ![f] = u]
      /\ UNCHANGED <<disk, reads, hand, job, patch, edits>>
  BY DEF RestoreCurrent, IInv, TypeOK
<1>3. PatchFits(s)'
  BY <1>2 DEF IInv, PatchFits
<1> HIDE DEF u
<1> QED
  BY <1>1, <1>2, <1>3, HistoryChanged DEF IInv, TypeOK

-----------------------------------------------------------------------------
\* Patches.
LEMMA PatchesImages == \A p \in Patches : p \in Seq(Files \X Image) /\ p # <<>>
<1> SUFFICES ASSUME NEW p \in Patches PROVE p \in Seq(Files \X Image) /\ p # <<>>
  OBVIOUS
<1>1. p \in Seq(Files \X Contents) /\ p # <<>>
  BY PatchesAssumption
<1>2. \A i \in 1..Len(p) : p[i] \in Files \X Image
  BY <1>1, ContentsAssumption
<1> QED
  BY <1>1, <1>2, IsASeq

LEMMA StartPatchKeeps ==
    ASSUME IInv, NEW s \in Scopes, NEW p \in Patches, StartPatch(s, p)
    PROVE  IInv'
<1> DEFINE q == [phase |-> "plan", todo |-> p, plan |-> <<>>,
                 earlier |-> reads[s], done |-> <<>>,
                 written |-> {}, back |-> {}, left |-> {}]
<1>1. /\ UNCHANGED <<disk, tl, reads, hand, job, edits>>
      /\ patch' = [patch EXCEPT ![s] = q] /\ job[s] = NoJob
  BY DEF StartPatch, Free
<1>2. q \in Patch
  <2>1. reads[s] \in [Files -> Image \union {NotRead}]
    BY DEF IInv, TypeOK
  <2>2. p \in Seq(Files \X Image)
    BY PatchesImages
  <2> QED
    BY <2>1, <2>2 DEF Patch
<1>3. q.phase = "plan" /\ q.todo = p /\ p # <<>> /\ q.written = {}
  BY PatchesImages
<1> HIDE DEF q
<1>4. /\ patch' \in [Scopes -> Patch \union {NoPatch}] /\ patch'[s] = q
      /\ \A r \in Scopes \ {s} : patch'[r] = patch[r]
  BY <1>1, <1>2 DEF IInv, TypeOK
<1>5. PatchFits(s)'
  BY <1>1, <1>3, <1>4 DEF PatchFits
<1> QED
  BY <1>1, <1>4, <1>5, HistoriesStay DEF IInv, TypeOK

LEMMA PlanFileKeeps ==
    ASSUME IInv, NEW s \in Scopes, PlanFile(s)
    PROVE  IInv'
<1> DEFINE p == patch[s]
           q == patch'[s]
           f == Head(p.todo)[1]
           image == Head(p.todo)[2]
           planned == Append(p.plan, [file |-> f, stamp |-> disk[f], image |-> image])
           P == [file : Files, stamp : Image, image : Image]
<1>1. /\ UNCHANGED <<disk, tl, reads, hand, job, edits>>
      /\ p # NoPatch /\ p \in Patch /\ p.phase = "plan" /\ PatchFits(s)
      /\ patch' = [patch EXCEPT ![s] =
                     [p EXCEPT !.todo = Tail(@), !.plan = planned,
                               !.phase = IF Tail(p.todo) = <<>> THEN "write" ELSE @]]
      /\ patch \in [Scopes -> Patch \union {NoPatch}]
  BY DEF PlanFile, IInv, TypeOK
<1>2. /\ p.todo # <<>> /\ job[s] = NoJob
      /\ \A g \in p.written :
           \/ g \in p.back \union p.left
           \/ \E i \in DOMAIN p.done : p.done[i].file = g
  BY <1>1 DEF PatchFits
<1>3. /\ Head(p.todo) \in Files \X Image /\ Tail(p.todo) \in Seq(Files \X Image)
      /\ p.plan \in Seq(P)
  <2>1. p.todo \in Seq(Files \X Image) /\ p.plan \in Seq(P)
    BY <1>1, PatchParts
  <2> QED
    BY <1>2, <2>1, HeadTailProperties
<1>4. planned \in Seq(P) /\ planned # <<>>
  <2> DEFINE e == [file |-> f, stamp |-> disk[f], image |-> image]
  <2>1. e \in P
    BY <1>3 DEF IInv, TypeOK
  <2> HIDE DEF e, P
  <2> QED
    BY <1>3, <2>1, AppendProperties DEF e
<1> DEFINE rest == Tail(p.todo)
           phase == IF rest = <<>> THEN "write" ELSE p.phase
<1>5. q = [p EXCEPT !.todo = rest, !.plan = planned, !.phase = phase]
  BY <1>1
<1>6. phase \in {"plan", "write"} /\ (phase = "plan" => rest # <<>>)
  BY <1>1
<1>7. rest \in Seq(Files \X Image)
  BY <1>3
<1> HIDE DEF p, q, planned, rest, phase
<1>8. /\ q.phase = phase /\ q.todo = rest /\ q.plan = planned /\ q.done = p.done
      /\ q.written = p.written /\ q.back = p.back /\ q.left = p.left
  BY <1>1, <1>5 DEF Patch
<1>9. q \in Patch
  BY <1>1, <1>4, <1>5, <1>6, <1>7 DEF Patch
<1>10. q # NoPatch
  BY <1>9, NoPatchAssumption
<1>11. PatchFits(s)'
  <2>1. job'[s] = NoJob /\ (q.phase = "plan" => q.todo # <<>>) /\ q.plan # <<>>
    BY <1>1, <1>2, <1>4, <1>6, <1>8
  <2>2. \A g \in q.written :
          \/ g \in q.back \union q.left
          \/ \E i \in DOMAIN q.done : q.done[i].file = g
    BY <1>2, <1>8
  <2> QED
    BY <1>10, <2>1, <2>2 DEF PatchFits, q
<1>12. /\ patch' \in [Scopes -> Patch \union {NoPatch}]
       /\ \A r \in Scopes \ {s} : patch'[r] = patch[r]
  BY <1>1, <1>9 DEF q
<1> QED
  BY <1>1, <1>11, <1>12, HistoriesStay DEF IInv, TypeOK

LEMMA PlanFailsKeeps ==
    ASSUME IInv, NEW s \in Scopes, PlanFails(s)
    PROVE  IInv'
<1>1. /\ UNCHANGED <<disk, tl, reads, hand, job, edits>>
      /\ patch' = [patch EXCEPT ![s] = NoPatch] /\ job[s] = NoJob
  BY DEF PlanFails, IInv, PatchFits
<1>2. /\ patch' \in [Scopes -> Patch \union {NoPatch}] /\ patch'[s] = NoPatch
      /\ \A r \in Scopes \ {s} : patch'[r] = patch[r]
  BY <1>1 DEF IInv, TypeOK
<1>3. PatchFits(s)'
  BY <1>1, <1>2 DEF PatchFits
<1> QED
  BY <1>1, <1>2, <1>3, HistoriesStay DEF IInv, TypeOK

LEMMA WriteFileKeeps ==
    ASSUME IInv, NEW s \in Scopes, WriteFile(s)
    PROVE  IInv'
<1> DEFINE p == patch[s]
           next == Head(p.plan)
           P == [file : Files, stamp : Image, image : Image]
<1>1. p # NoPatch /\ p \in Patch /\ p.phase = "write" /\ p.plan # <<>>
  BY DEF WriteFile, IInv, TypeOK, PatchFits
<1>2. next \in P
  <2>1. p.plan \in Seq(P)
    BY <1>1, PatchParts
  <2> QED
    BY <1>1, <2>1, HeadTailProperties
<1>3. next.file \in Files /\ next.image \in Image
  BY <1>2
<1>4. /\ Replacing(s, next.file, next.image, "patched")
      /\ UNCHANGED <<disk, tl, reads, hand, patch, edits>>
  BY DEF WriteFile
<1> HIDE DEF next
<1> QED
  BY <1>1, <1>3, <1>4, ReplacingBegun

LEMMA WriteFailsKeeps ==
    ASSUME IInv, NEW s \in Scopes, WriteFails(s)
    PROVE  IInv'
<1>1. /\ UNCHANGED <<disk, tl, reads, hand, job, edits>> /\ job'[s] = NoJob
      /\ patch' = [patch EXCEPT ![s].phase = "rollback"] /\ patch[s] # NoPatch
  BY DEF WriteFails
<1>2. /\ patch' \in [Scopes -> Patch \union {NoPatch}]
      /\ \A r \in Scopes \ {s} : patch'[r] = patch[r]
      /\ PatchFits(s)'
  BY <1>1, RollBackBegins
<1> QED
  BY <1>1, <1>2, HistoriesStay DEF IInv, TypeOK

\* The file to roll back next.
LEMMA LastWritten ==
    ASSUME IInv, NEW s \in Scopes, patch[s] # NoPatch, patch[s].done # <<>>
    PROVE  Head(patch[s].done).file \in Files /\ Head(patch[s].done).previous \in Nat
<1>1. patch[s] \in Patch
  BY DEF IInv, TypeOK
<1>2. patch[s].done \in Seq([file : Files, previous : Nat])
  BY <1>1, PatchParts
<1>3. Head(patch[s].done) \in [file : Files, previous : Nat]
  BY <1>2, HeadTailProperties
<1> QED
  BY <1>3

LEMMA RollBackKeeps ==
    ASSUME IInv, NEW s \in Scopes, RollBack(s)
    PROVE  IInv'
<1> DEFINE f == Head(patch[s].done).file
           previous == Head(patch[s].done).previous
<1>1. /\ patch[s] # NoPatch /\ patch[s].phase = "rollback" /\ patch[s].done # <<>>
      /\ job[s] = NoJob /\ UNCHANGED <<disk, reads, hand, edits>>
      /\ f \in Files
  BY LastWritten DEF RollBack
<1>2. Kept(tl[f])
  BY <1>1 DEF IInv
<1>3. CASE tl[f].current = previous
  <2> DEFINE u == Restored(tl[f], tl[f].current)
  <2>1. /\ tl' = [tl EXCEPT ![f] = u] /\ job' = job /\ job'[s] = NoJob
        /\ patch' = [patch EXCEPT ![s] = PutBack(@)]
    BY <1>1, <1>3 DEF RollBack, IInv, TypeOK
  <2>2. /\ patch' \in [Scopes -> Patch \union {NoPatch}]
        /\ \A r \in Scopes \ {s} : patch'[r] = patch[r]
        /\ PatchFits(s)'
    BY <1>1, <2>1, RolledBackOne
  <2>3. Kept(u)
    BY <1>2, KeptType, RestoredIsKept
  <2> HIDE DEF u, f
  <2> QED
    BY <1>1, <2>1, <2>2, <2>3, HistoryChanged DEF IInv, TypeOK
<1>4. CASE tl[f].current # previous
  <2> DEFINE u == Restored(tl[f], previous)
  <2>1. /\ Jump(s, f, previous, u, "rolled")
        /\ UNCHANGED <<disk, tl, reads, hand, patch, edits>>
    BY <1>4 DEF RollBack
  <2>2. previous \in Revisions(tl[f])
    BY <2>1 DEF Jump, Reachable
  <2>3. /\ Kept(u) /\ u.current = previous /\ Revisions(u) = Revisions(tl[f])
        /\ Tracked(u) = Tracked(tl[f]) /\ \A i : StateAt(u, i) = StateAt(tl[f], i)
    BY <1>2, <2>2, RestoredIsKept
  <2> HIDE DEF u, f, previous
  <2> QED
    BY <1>1, <2>1, <2>3, JumpBegun
<1> QED
  BY <1>3, <1>4

LEMMA RollBackFailsKeeps ==
    ASSUME IInv, NEW s \in Scopes, RollBackFails(s)
    PROVE  IInv'
<1>1. /\ patch[s] # NoPatch /\ patch[s].phase = "rollback" /\ patch[s].done # <<>>
      /\ UNCHANGED <<disk, tl, reads, hand, job, edits>> /\ job'[s] = NoJob
      /\ patch' = [patch EXCEPT ![s] = LeftChanged(@)]
  BY DEF RollBackFails, IInv, TypeOK
<1>2. /\ patch' \in [Scopes -> Patch \union {NoPatch}]
      /\ \A r \in Scopes \ {s} : patch'[r] = patch[r]
      /\ PatchFits(s)'
  BY <1>1, RolledBackOne
<1> QED
  BY <1>1, <1>2, HistoriesStay DEF IInv, TypeOK

LEMMA EndPatchKeeps ==
    ASSUME IInv, NEW s \in Scopes, EndPatch(s)
    PROVE  IInv'
<1>1. /\ UNCHANGED <<disk, tl, hand, job, edits>> /\ job[s] = NoJob
      /\ patch' = [patch EXCEPT ![s] = NoPatch]
      /\ reads' = [reads EXCEPT ![s] = patch[s].earlier] /\ patch[s] # NoPatch
  BY DEF EndPatch
<1>2. patch[s].earlier \in [Files -> Image \union {NotRead}]
  <2>1. patch[s] \in Patch
    BY <1>1 DEF IInv, TypeOK
  <2> QED
    BY <2>1, PatchParts
<1>3. reads' \in [Scopes -> [Files -> Image \union {NotRead}]]
  BY <1>1, <1>2 DEF IInv, TypeOK
<1>4. /\ patch' \in [Scopes -> Patch \union {NoPatch}] /\ patch'[s] = NoPatch
      /\ \A r \in Scopes \ {s} : patch'[r] = patch[r]
  BY <1>1 DEF IInv, TypeOK
<1>5. PatchFits(s)'
  BY <1>1, <1>4 DEF PatchFits
<1> QED
  BY <1>1, <1>3, <1>4, <1>5, HistoriesStay DEF IInv, TypeOK

-----------------------------------------------------------------------------
LEMMA NextIInv == IInv /\ [Next]_vars => IInv'
<1> SUFFICES ASSUME IInv, [Next]_vars PROVE IInv'
  OBVIOUS
<1>1. ASSUME NEW s \in Scopes,
             \/ Commit(s) \/ CommitFails(s) \/ NoteRead(s) \/ RecordRead(s)
             \/ PlanFile(s) \/ PlanFails(s) \/ WriteFile(s) \/ WriteFails(s)
             \/ RollBack(s) \/ RollBackFails(s) \/ EndPatch(s)
      PROVE  IInv'
  BY <1>1, CommitKeeps, CommitFailsKeeps, NoteReadKeeps, RecordReadKeeps,
     PlanFileKeeps, PlanFailsKeeps, WriteFileKeeps, WriteFailsKeeps,
     RollBackKeeps, RollBackFailsKeeps, EndPatchKeeps
<1>2. ASSUME NEW s \in Scopes, NEW f \in Files,
             \/ Read(s, f) \/ StartRemove(s, f)
             \/ StartUndo(s, f) \/ StartRedo(s, f) \/ RestoreCurrent(s, f)
             \/ \E target \in Revisions(tl[f]) : StartRestore(s, f, target)
             \/ \E image \in Contents :
                  StartWrite(s, f, image) \/ StartEdit(s, f, image)
             \/ \E b \in Byte : StartAppend(s, f, <<b>>)
      PROVE  IInv'
  BY <1>2, ReadKeeps, Starts, RestoreCurrentKeeps
<1>3. ASSUME NEW s \in Scopes, NEW p \in Patches, StartPatch(s, p)
      PROVE  IInv'
  BY <1>3, StartPatchKeeps
<1>4. ASSUME NEW f \in Files,
             Acknowledge(f) \/ \E image \in Contents : OutsideEdit(f, image)
      PROVE  IInv'
  BY <1>4, AcknowledgeKeeps, OutsideEditKeeps
<1>5. CASE UNCHANGED vars
  <2>1. TypeOK'
    BY <1>5 DEF vars, IInv, TypeOK
  <2>2. \A r \in Scopes : JobFits(r)' /\ PatchFits(r)'
    BY <1>5 DEF vars, IInv, JobFits, PatchFits
  <2> QED
    BY <1>5, <2>1, <2>2 DEF vars, IInv
<1> QED
  BY <1>1, <1>2, <1>3, <1>4, <1>5 DEF Next

LEMMA Invariance == Spec => []IInv
<1>1. Init => IInv
  BY InitIInv
<1>2. IInv /\ [Next]_vars => IInv'
  BY NextIInv
<1> QED
  BY <1>1, <1>2, PTL DEF Spec

\* Everything is of its type, and a file is held by one operation at a time.
THEOREM Typed == Spec => []TypeOK
<1>1. IInv => TypeOK
  BY DEF IInv
<1> QED
  BY <1>1, Invariance, PTL

\* The revisions of every file form a tree whose contents agree and whose
\* splices can be undone and redone.
THEOREM Consistent == Spec => []HistoryIsConsistent
<1>1. IInv => HistoryIsConsistent
  BY DEF IInv, Kept, WellFormed, Sound, HistoryIsConsistent, ChangesFit
<1> QED
  BY <1>1, Invariance, PTL

\* The stack of what was undone leads on from where the file is.
THEOREM RedoStack == Spec => []RedoLeadsOn
<1>1. IInv => RedoLeadsOn
  BY DEF IInv, Kept, RedoChain, RedoLeadsOn
<1> QED
  BY <1>1, Invariance, PTL

\* What an operation replaces, as it saw it, stays in the history.
THEOREM NothingSeenIsLost == Spec => []ReplacesOnlyWhatIsKept
<1>1. IInv => ReplacesOnlyWhatIsKept
  BY DEF IInv, JobFits, ReplacesOnlyWhatIsKept
<1> QED
  BY <1>1, Invariance, PTL

\* An undo, a redo or a restore lands on the content of its revision: only a
\* commit moves a history without changing its revisions, and it writes the
\* image that history expects.
THEOREM JumpsLand == Spec => JumpsLandOnTheirRevision
<1> DEFINE Lands(f) == /\ tl'[f].changes = tl[f].changes
                       /\ tl'[f].current # tl[f].current
                       => disk'[f] = StateAt(tl'[f], tl'[f].current)
<1>1. ASSUME IInv, NEW s \in Scopes, NEW f \in Files, Commit(s) PROVE Lands(f)
  <2>1. /\ job[s] # NoJob /\ job[s].then # "note"
        /\ disk' = [disk EXCEPT ![job[s].file] = job[s].image]
        /\ tl' = [tl EXCEPT ![job[s].file] = job[s].timeline]
    BY <1>1 DEF Commit
  <2>2. job[s].image = Expected(job[s].timeline)
    BY <1>1, <2>1 DEF IInv, JobFits
  <2>3. CASE f = job[s].file
    <3>1. tl'[f] = job[s].timeline /\ disk'[f] = job[s].image
      BY <1>1, <2>1, <2>3 DEF IInv, TypeOK
    <3> QED
      BY <2>2, <3>1 DEF Expected
  <2>4. CASE f # job[s].file
    BY <1>1, <2>1, <2>4 DEF IInv, TypeOK
  <2> QED
    BY <2>3, <2>4
<1>2. ASSUME NEW f \in Files, tl' = tl PROVE Lands(f)
  BY <1>2
\* What is left changes a history by an acknowledgement, or not its position.
<1>3. ASSUME IInv, NEW g \in Files, NEW f \in Files, NEW image \in Image,
             tl' = [tl EXCEPT ![g] = AcknowledgeOutside(@, image)]
      PROVE  Lands(f)
  <2>1. CASE f = g
    <3>1. tl'[f] = AcknowledgeOutside(tl[f], image)
      BY <1>3, <2>1 DEF IInv, TypeOK
    <3>2. AcknowledgeOutside(tl[f], image) # tl[f]
            => AcknowledgeOutside(tl[f], image).changes # tl[f].changes
      BY <1>3, AcknowledgeIsKept DEF IInv
    <3> QED
      BY <3>1, <3>2
  <2>2. CASE f # g
    BY <1>3, <2>2 DEF IInv, TypeOK
  <2> QED
    BY <2>1, <2>2
<1>4. ASSUME IInv, NEW g \in Files, NEW f \in Files,
             tl' = [tl EXCEPT ![g] = Restored(@, @.current)]
      PROVE  Lands(f)
  <2>1. tl'[f].current = tl[f].current
    BY <1>4 DEF IInv, TypeOK, Restored
  <2> QED
    BY <2>1
<1>5. ASSUME IInv, [Next]_vars, NEW f \in Files PROVE Lands(f)
  <2>1. ASSUME NEW s \in Scopes, RecordRead(s) PROVE Lands(f)
    <3>1. hand[s][1] \in Files /\ hand[s][2] \in Image
      BY <1>5, <2>1 DEF RecordRead, IInv, TypeOK
    <3>2. disk[hand[s][1]] \in Image
      BY <1>5, <3>1 DEF IInv, TypeOK
    <3>3. CASE tl' = tl
      BY <1>2, <3>3
    <3>4. CASE tl' = [tl EXCEPT ![hand[s][1]] =
                        AcknowledgeSeen(@, disk[hand[s][1]], hand[s][2])]
      <4>1. CASE hand[s][2] = disk[hand[s][1]]
        <5>1. tl' = [tl EXCEPT ![hand[s][1]] =
                       AcknowledgeOutside(@, disk[hand[s][1]])]
          BY <3>4, <4>1 DEF AcknowledgeSeen
        <5> DEFINE g == hand[s][1]
        <5> HIDE DEF g
        <5> QED
          BY <1>3, <1>5, <3>1, <3>2, <5>1 DEF g
      <4>2. CASE hand[s][2] # disk[hand[s][1]]
        <5>1. tl' = tl
          BY <1>5, <3>1, <3>4, <4>2 DEF AcknowledgeSeen, IInv, TypeOK
        <5> QED
          BY <1>2, <5>1
      <4> QED
        BY <4>1, <4>2
    <3> QED
      BY <2>1, <3>3, <3>4 DEF RecordRead
  <2>2. ASSUME NEW s \in Scopes, RollBack(s) PROVE Lands(f)
    <3> DEFINE g == Head(patch[s].done).file
    <3>1. g \in Files
      BY <1>5, <2>2, LastWritten DEF RollBack
    <3>2. tl' = tl \/ tl' = [tl EXCEPT ![g] = Restored(@, @.current)]
      BY <2>2 DEF RollBack
    <3> HIDE DEF g
    <3> QED
      BY <1>2, <1>4, <1>5, <3>1, <3>2
  <2>3. ASSUME NEW g \in Files, Acknowledge(g) PROVE Lands(f)
    <3>1. /\ disk[g] \in Image
          /\ tl' = [tl EXCEPT ![g] = AcknowledgeOutside(@, disk[g])]
      BY <1>5, <2>3 DEF Acknowledge, IInv, TypeOK
    <3> QED
      BY <1>3, <1>5, <3>1
  <2>4. ASSUME NEW s \in Scopes, NEW g \in Files, RestoreCurrent(s, g) PROVE Lands(f)
    <3>1. tl' = [tl EXCEPT ![g] = Restored(@, @.current)]
      BY <2>4 DEF RestoreCurrent
    <3> QED
      BY <1>4, <1>5, <3>1
  <2>5. ASSUME NEW s \in Scopes, Commit(s) PROVE Lands(f)
    BY <1>1, <1>5, <2>5
  <2>6. ASSUME \/ UNCHANGED vars
               \/ \E s \in Scopes :
                    \/ CommitFails(s) \/ NoteRead(s)
                    \/ PlanFile(s) \/ PlanFails(s) \/ WriteFile(s) \/ WriteFails(s)
                    \/ RollBackFails(s) \/ EndPatch(s)
                    \/ \E p \in Patches : StartPatch(s, p)
                    \/ \E g \in Files :
                         \/ Read(s, g) \/ StartRemove(s, g)
                         \/ StartUndo(s, g) \/ StartRedo(s, g)
                         \/ \E target \in Revisions(tl[g]) : StartRestore(s, g, target)
                         \/ \E image \in Contents :
                              StartWrite(s, g, image) \/ StartEdit(s, g, image)
                         \/ \E b \in Byte : StartAppend(s, g, <<b>>)
               \/ \E g \in Files : \E image \in Contents : OutsideEdit(g, image)
        PROVE  Lands(f)
    <3>1. tl' = tl
      BY <2>6 DEF vars, CommitFails, NoteRead, PlanFile, PlanFails, WriteFile,
                  WriteFails, RollBackFails, EndPatch, StartPatch, Read,
                  StartRemove, StartUndo, StartRedo, StartRestore, StartWrite,
                  StartEdit, StartAppend, OutsideEdit
    <3> QED
      BY <1>2, <3>1
  <2> HIDE DEF Lands
  <2> QED
    BY <1>5, <2>1, <2>2, <2>3, <2>4, <2>5, <2>6 DEF Next
<1>6. IInv /\ [Next]_vars => [\A f \in Files : Lands(f)]_vars
  BY <1>5
<1>7. JumpsLandOnTheirRevision <=> [][\A f \in Files : Lands(f)]_vars
  BY PTL DEF JumpsLandOnTheirRevision
<1> QED
  BY <1>6, <1>7, Invariance, PTL DEF Spec

\* A patch that fails accounts for every file it wrote, and what was read
\* before it counts again.
THEOREM FailedPatches == Spec => FailedPatchLeavesNothing
<1> DEFINE Clean(s) ==
      patch[s] # NoPatch /\ patch'[s] = NoPatch /\ patch[s].phase = "rollback"
      => \A f \in patch[s].written :
           /\ f \in patch[s].back \union patch[s].left
           /\ f \in patch[s].back /\ disk[f] = patch[s].earlier[f]
                => reads'[s][f] = disk[f]
<1>1. ASSUME IInv, NEW s \in Scopes, EndPatch(s) PROVE Clean(s)
  <2>1. /\ patch[s] # NoPatch /\ patch[s] \in Patch /\ patch[s].done = <<>>
        /\ PatchFits(s)
        /\ reads' = [reads EXCEPT ![s] = patch[s].earlier]
        /\ reads \in [Scopes -> [Files -> Image \union {NotRead}]]
    BY <1>1 DEF EndPatch, IInv, TypeOK
  <2>2. reads'[s] = patch[s].earlier
    BY <2>1
  <2>3. \A f \in patch[s].written : f \in patch[s].back \union patch[s].left
    BY <2>1 DEF PatchFits
  <2> QED
    BY <2>2, <2>3
<1>2. ASSUME NEW s \in Scopes, patch'[s] = patch[s] PROVE Clean(s)
  BY <1>2
<1>3. ASSUME IInv, [Next]_vars, NEW s \in Scopes PROVE Clean(s)
  <2>1. patch \in [Scopes -> Patch \union {NoPatch}]
    BY <1>3 DEF IInv, TypeOK
  <2>2. ASSUME NEW r \in Scopes, r # s,
               \/ Commit(r) \/ CommitFails(r) \/ NoteRead(r)
               \/ PlanFile(r) \/ PlanFails(r) \/ WriteFile(r) \/ WriteFails(r)
               \/ RollBack(r) \/ RollBackFails(r) \/ EndPatch(r)
               \/ \E p \in Patches : StartPatch(r, p)
        PROVE  Clean(s)
    <3>1. patch'[s] = patch[s]
      BY <2>1, <2>2 DEF Commit, CommitFails, NoteRead, PlanFile, PlanFails,
                        WriteFile, WriteFails, RollBack, RollBackFails, EndPatch,
                        StartPatch
    <3> QED
      BY <1>2, <3>1
\* A step of this scope's patch: only EndPatch ends a roll-back.
  <2>3. ASSUME \/ PlanFile(s) \/ PlanFails(s) \/ \E p \in Patches : StartPatch(s, p)
        PROVE  Clean(s)
    BY <2>3 DEF PlanFile, PlanFails, StartPatch, Free
  <2>4. ASSUME patch[s] # NoPatch, patch[s].phase = "rollback", patch[s].done # <<>>,
               job'[s] = NoJob,
               \/ patch' = [patch EXCEPT ![s] = PutBack(@)]
               \/ patch' = [patch EXCEPT ![s] = LeftChanged(@)]
        PROVE  Clean(s)
    <3> DEFINE p == patch[s]
               q == patch'[s]
    <3>1. p \in Patch /\ (q = PutBack(p) \/ q = LeftChanged(p)) /\ PatchFits(s)
      BY <1>3, <2>1, <2>4 DEF IInv
    <3>2. /\ p.phase = "rollback" /\ p.done # <<>>
          /\ \A f \in p.written :
               \/ f \in p.back \union p.left
               \/ \E i \in DOMAIN p.done : p.done[i].file = f
      BY <2>4, <3>1 DEF PatchFits
    <3> HIDE DEF p, q
    <3>3. q # NoPatch
      BY <3>1, <3>2, OneLessToRollBack
    <3> QED
      BY <3>3 DEF q
  <2>5. ASSUME Commit(s) PROVE Clean(s)
    <3>1. CASE job[s].then = "rolled"
      <4>1. /\ patch[s] # NoPatch /\ patch[s].phase = "rollback"
            /\ patch[s].done # <<>>
        BY <1>3, <2>5, <3>1 DEF Commit, IInv, PatchFits
      <4>2. job'[s] = NoJob /\ patch' = [patch EXCEPT ![s] = PutBack(@)]
        BY <1>3, <2>5, <3>1 DEF Commit, IInv, TypeOK
      <4> QED
        BY <2>4, <4>1, <4>2
    <3>2. CASE job[s].then # "rolled"
      <4>1. patch'[s] = patch[s]
        BY <2>1, <2>5, <3>2 DEF Commit
      <4> QED
        BY <1>2, <4>1
    <3> QED
      BY <3>1, <3>2
  <2>6. ASSUME CommitFails(s) PROVE Clean(s)
    <3>1. CASE job[s].then = "rolled"
      <4>1. /\ patch[s] # NoPatch /\ patch[s].phase = "rollback"
            /\ patch[s].done # <<>>
        BY <1>3, <2>6, <3>1 DEF CommitFails, IInv, PatchFits
      <4>2. job'[s] = NoJob /\ patch' = [patch EXCEPT ![s] = LeftChanged(@)]
        BY <1>3, <2>6, <3>1 DEF CommitFails, IInv, TypeOK
      <4> QED
        BY <2>4, <4>1, <4>2
    <3>2. CASE job[s].then = "patched"
      <4>1. patch[s].phase = "write" /\ patch[s] # NoPatch
        BY <1>3, <2>6, <3>2 DEF CommitFails, IInv, PatchFits
      <4> QED
        BY <4>1
    <3>3. CASE job[s].then \notin {"rolled", "patched"}
      <4>1. patch'[s] = patch[s]
        BY <2>1, <2>6, <3>3 DEF CommitFails
      <4> QED
        BY <1>2, <4>1
    <3> QED
      BY <3>1, <3>2, <3>3
  <2>7. ASSUME NoteRead(s) PROVE Clean(s)
    <3>1. patch[s] # NoPatch => patch[s].phase = "write"
      BY <1>3, <2>7 DEF NoteRead, IInv, PatchFits
    <3> QED
      BY <3>1
  <2>8. ASSUME WriteFile(s) \/ WriteFails(s) PROVE Clean(s)
    <3>1. patch[s].phase = "write"
      BY <2>8 DEF WriteFile, WriteFails
    <3> QED
      BY <3>1
  <2>9. ASSUME RollBack(s) PROVE Clean(s)
    <3>1. /\ patch[s] # NoPatch /\ patch[s].phase = "rollback" /\ patch[s].done # <<>>
          /\ job[s] = NoJob
      BY <2>9 DEF RollBack
    <3>2. \/ patch' = [patch EXCEPT ![s] = PutBack(@)] /\ job' = job
          \/ patch' = patch
      BY <2>9 DEF RollBack
    <3>3. CASE patch' = [patch EXCEPT ![s] = PutBack(@)] /\ job' = job
      BY <2>4, <3>1, <3>3
    <3>4. CASE patch' = patch
      BY <1>2, <3>4
    <3> QED
      BY <3>2, <3>3, <3>4
  <2>10. ASSUME RollBackFails(s) PROVE Clean(s)
    <3>1. /\ patch[s] # NoPatch /\ patch[s].phase = "rollback" /\ patch[s].done # <<>>
          /\ job'[s] = NoJob /\ patch' = [patch EXCEPT ![s] = LeftChanged(@)]
      BY <2>10 DEF RollBackFails
    <3> QED
      BY <2>4, <3>1
  <2>11. ASSUME \/ UNCHANGED vars
                \/ \E r \in Scopes :
                     \/ RecordRead(r)
                     \/ \E f \in Files :
                          \/ Read(r, f) \/ StartRemove(r, f)
                          \/ StartUndo(r, f) \/ StartRedo(r, f) \/ RestoreCurrent(r, f)
                          \/ \E target \in Revisions(tl[f]) : StartRestore(r, f, target)
                          \/ \E image \in Contents :
                               StartWrite(r, f, image) \/ StartEdit(r, f, image)
                          \/ \E b \in Byte : StartAppend(r, f, <<b>>)
                \/ \E f \in Files :
                     \/ Acknowledge(f)
                     \/ \E image \in Contents : OutsideEdit(f, image)
         PROVE  Clean(s)
    <3>1. patch' = patch
      BY <2>11 DEF vars, RecordRead, Read, StartRemove, StartUndo, StartRedo,
                   RestoreCurrent, StartRestore, StartWrite, StartEdit,
                   StartAppend, Acknowledge, OutsideEdit
    <3> QED
      BY <1>2, <3>1
  <2> HIDE DEF Clean
  <2> QED
    BY <1>1, <1>3, <2>2, <2>3, <2>5, <2>6, <2>7, <2>8, <2>9, <2>10, <2>11 DEF Next
<1>4. IInv /\ [Next]_vars => [\A s \in Scopes : Clean(s)]_vars
  BY <1>3
<1>5. FailedPatchLeavesNothing <=> [][\A s \in Scopes : Clean(s)]_vars
  BY PTL DEF FailedPatchLeavesNothing
<1> QED
  BY <1>4, <1>5, Invariance, PTL DEF Spec

-----------------------------------------------------------------------------
(* Undo and redo are two stacks: the refinement of UndoStacks.  The contents *)
(* a revision can be undone to are defined along its line, so they are       *)
(* reasoned about by the least revision for which something fails.           *)

\* `h` has at each revision what `G` makes of what it has at the parent.
Descends(last, parent, D, d, G, h) ==
    /\ h \in [0..last -> D]
    /\ h[0] = d
    /\ \A i \in 1..last : h[i] = G[i][h[parent[i]]]

\* There is such a function.
LEMMA Descent ==
    ASSUME NEW last \in Nat, NEW parent \in [1..last -> Nat],
           \A i \in 1..last : parent[i] < i,
           NEW D, NEW d \in D, NEW G \in [1..last -> [D -> D]]
    PROVE  \E h : Descends(last, parent, D, d, G, h)
<1> DEFINE X == [0..last -> D]
           F == [n \in 1..last |-> [h \in X |-> [h EXCEPT ![n] = G[n][h[parent[n]]]]]]
           start == [i \in 0..last |-> d]
<1>0. \A n \in 1..last : parent[n] \in 0..last /\ parent[n] < n /\ n \in 0..last
  OBVIOUS
<1>1. F \in [1..last -> [X -> X]]
  <2>1. ASSUME NEW n \in 1..last, NEW h \in X
        PROVE  [h EXCEPT ![n] = G[n][h[parent[n]]]] \in X
    <3>1. h[parent[n]] \in D /\ G[n] \in [D -> D]
      BY <1>0
    <3>2. G[n][h[parent[n]]] \in D
      BY <3>1
    <3> QED
      BY <1>0, <3>2
  <2> HIDE DEF X
  <2> QED
    BY <2>1
<1>2. start \in X
  OBVIOUS
<1>3. PICK g : Runs(X, start, last, F, g)
  <2> HIDE DEF X, F, start
  <2> QED
    BY <1>1, <1>2, Iteration
<1>4. /\ g \in [0..last -> X] /\ g[0] = start
      /\ \A n \in 1..last : g[n] = F[n][g[n - 1]]
  <2> HIDE DEF X, F, start
  <2> QED
    BY <1>3 DEF Runs
<1>5. ASSUME NEW n \in 1..last
      PROVE  /\ g[n - 1] \in X
             /\ g[n] = [g[n - 1] EXCEPT ![n] = G[n][g[n - 1][parent[n]]]]
  <2>1. n - 1 \in 0..last
    OBVIOUS
  <2>2. g[n - 1] \in X
    BY <1>4, <2>1
  <2>3. F[n][g[n - 1]] = [g[n - 1] EXCEPT ![n] = G[n][g[n - 1][parent[n]]]]
    <3> HIDE DEF X
    <3> QED
      BY <2>2
  <2> HIDE DEF X, F
  <2> QED
    BY <1>4, <2>2, <2>3
\* Once a revision has its value, later steps leave it alone.
<1>6. ASSUME NEW i \in 0..last, NEW k \in 0..last, i <= k
      PROVE  g[k][i] = g[i][i]
  <2> DEFINE S == {m \in 0..last : i <= m => g[m][i] = g[i][i]}
  <2>1. 0 \in S
    OBVIOUS
  <2>2. ASSUME NEW m \in 0..last, m # last, m \in S
        PROVE  m + 1 \in S
    <3>1. m + 1 \in 1..last /\ (m + 1) - 1 = m
      BY <2>2
    <3>2. g[m + 1] = [g[m] EXCEPT ![m + 1] = G[m + 1][g[m][parent[m + 1]]]]
      BY <1>5, <3>1
    <3>3. g[m] \in X
      BY <1>4
    <3>4. ASSUME i <= m + 1 PROVE g[m + 1][i] = g[i][i]
      <4>1. CASE i = m + 1
        BY <4>1
      <4>2. CASE i # m + 1
        <5>1. g[m + 1][i] = g[m][i]
          BY <3>2, <3>3, <4>2
        <5>2. i <= m
          BY <3>4, <4>2
        <5> QED
          BY <2>2, <5>1, <5>2
      <4> QED
        BY <4>1, <4>2
    <3> QED
      BY <3>1, <3>4
  <2> HIDE DEF S
  <2>3. \A m \in 0..last : m \in S
    BY <2>1, <2>2, UpTo
  <2>4. k \in S
    BY <2>3
  <2> QED
    BY <1>6, <2>4 DEF S
<1> DEFINE h == [i \in 0..last |-> g[i][i]]
<1>7. h \in [0..last -> D]
  BY <1>4
<1>8. h[0] = d
  BY <1>4
<1>9. ASSUME NEW i \in 1..last PROVE h[i] = G[i][h[parent[i]]]
  <2>1. /\ i \in 0..last /\ i - 1 \in 0..last
        /\ parent[i] \in 0..last /\ parent[i] <= i - 1
    BY <1>0
  <2>2. g[i][i] = G[i][g[i - 1][parent[i]]]
    <3>1. g[i - 1] \in X /\ g[i] = [g[i - 1] EXCEPT ![i] = G[i][g[i - 1][parent[i]]]]
      BY <1>5
    <3> QED
      BY <2>1, <3>1
  <2>3. g[i - 1][parent[i]] = g[parent[i]][parent[i]]
    BY <1>6, <2>1
  <2> QED
    BY <2>1, <2>2, <2>3
<1> HIDE DEF h
<1> QED
  BY <1>7, <1>8, <1>9 DEF Descends

\* The contents that come before those of a revision.
Before(t, h, i) ==
    IF Barrier(t.changes[i]) THEN <<>>
    ELSE Append(h[t.changes[i].parent], StateAt(t, t.changes[i].parent))

LEMMA PastFacts ==
    ASSUME NEW t, WellFormed(t), Tracked(t)
    PROVE  /\ Past(t) \in [Revisions(t) -> Seq(Image)]
           /\ Past(t)[0] = <<>>
           /\ \A i \in 1..Len(t.changes) : Past(t)[i] = Before(t, Past(t), i)
<1> DEFINE last == Len(t.changes)
           parent == Parents(t)
           D == Seq(Image)
           G == [i \in 1..last |-> [x \in D |->
                  IF Barrier(t.changes[i]) THEN <<>>
                  ELSE Append(x, StateAt(t, t.changes[i].parent))]]
           Is(h) == h = [i \in Revisions(t) |->
                      IF i = 0 \/ Barrier(t.changes[i]) THEN <<>>
                      ELSE Append(h[t.changes[i].parent],
                                  StateAt(t, t.changes[i].parent))]
<1>1. /\ last \in Nat /\ Revisions(t) = 0..last
      /\ \A i \in 1..last : t.changes[i].parent \in Nat /\ t.changes[i].parent < i
  BY TimelineType DEF WellFormed, Sound, Revisions, Change
<1>2. /\ parent \in [1..last -> Nat] /\ \A i \in 1..last : parent[i] < i
      /\ \A i \in 1..last : parent[i] = t.changes[i].parent
      /\ \A i \in 1..last : parent[i] \in Revisions(t)
  BY <1>1 DEF Parents
<1>3. G \in [1..last -> [D -> D]]
  <2>1. ASSUME NEW i \in 1..last, NEW x \in D
        PROVE  (IF Barrier(t.changes[i]) THEN <<>>
                ELSE Append(x, StateAt(t, t.changes[i].parent))) \in D
    <3>1. StateAt(t, t.changes[i].parent) \in Image
      BY <1>2, StateAtType DEF WellFormed
    <3>2. Append(x, StateAt(t, t.changes[i].parent)) \in D
      BY <3>1, AppendProperties
    <3> QED
      BY <3>2
  <2> HIDE DEF D
  <2> QED
    BY <2>1
<1>4. <<>> \in D
  OBVIOUS
<1> HIDE DEF G
<1>a. PICK h : Descends(last, parent, D, <<>>, G, h)
  <2>1. /\ last \in Nat /\ parent \in [1..last -> Nat]
        /\ \A i \in 1..last : parent[i] < i
    BY <1>1, <1>2
  <2> HIDE DEF D, G, last, parent
  <2> QED
    BY <2>1, <1>3, <1>4, Descent
<1>5. /\ h \in [0..last -> D]
      /\ h[0] = <<>>
      /\ \A i \in 1..last : h[i] = G[i][h[parent[i]]]
  BY <1>a DEF Descends
<1>6. Is(h)
  <2>1. ASSUME NEW i \in 0..last
        PROVE  h[i] = IF i = 0 \/ Barrier(t.changes[i]) THEN <<>>
                      ELSE Append(h[t.changes[i].parent],
                                  StateAt(t, t.changes[i].parent))
    <3>1. CASE i = 0
      BY <1>5, <3>1
    <3>2. CASE i # 0
      <4>1. i \in 1..last /\ h[parent[i]] \in D /\ parent[i] = t.changes[i].parent
        BY <1>1, <1>2, <1>5, <3>2
      <4>2. h[i] = G[i][h[parent[i]]]
        BY <1>5, <4>1
      <4>3. G[i][h[parent[i]]] =
              IF Barrier(t.changes[i]) THEN <<>>
              ELSE Append(h[parent[i]], StateAt(t, t.changes[i].parent))
        <5> HIDE DEF D, parent
        <5> QED
          BY <4>1 DEF G
      <4> HIDE DEF D, parent
      <4> QED
        BY <3>2, <4>1, <4>2, <4>3
    <3> QED
      BY <3>1, <3>2
  <2>2. h = [i \in 0..last |-> h[i]]
    BY <1>5
  <2> QED
    BY <1>1, <2>1, <2>2
<1>7. Past(t) = CHOOSE k : Is(k)
  BY DEF Past
<1>8. Is(Past(t))
  <2> HIDE DEF Is
  <2> QED
    BY <1>6, <1>7
<1> DEFINE k == Past(t)
<1> HIDE DEF k
<1>9. k = [i \in 0..last |-> IF i = 0 \/ Barrier(t.changes[i]) THEN <<>>
                             ELSE Append(k[t.changes[i].parent],
                                         StateAt(t, t.changes[i].parent))]
  BY <1>1, <1>8 DEF k
<1>10. \A i \in 0..last : k[i] = h[i]
  <2> DEFINE Bad == {i \in 0..last : k[i] # h[i]}
  <2> SUFFICES ASSUME Bad # {} PROVE FALSE
    OBVIOUS
  <2>1. PICK j \in Bad : \A m \in Bad : j <= m
    <3>1. Bad \in SUBSET Nat
      BY <1>1
    <3> HIDE DEF Bad
    <3> QED
      BY <3>1, Least
  <2>2. h[j] = IF j = 0 \/ Barrier(t.changes[j]) THEN <<>>
               ELSE Append(h[t.changes[j].parent], StateAt(t, t.changes[j].parent))
    BY <1>1, <1>6, <2>1
  <2>3. k[j] = IF j = 0 \/ Barrier(t.changes[j]) THEN <<>>
               ELSE Append(k[t.changes[j].parent], StateAt(t, t.changes[j].parent))
    BY <1>9, <2>1
  <2>4. j # 0
    BY <2>1, <2>2, <2>3
  <2>5. t.changes[j].parent \in 0..last /\ ~(j <= t.changes[j].parent)
    BY <1>1, <2>1, <2>4
  <2>6. k[t.changes[j].parent] = h[t.changes[j].parent]
    BY <2>1, <2>5
  <2> QED
    BY <2>1, <2>2, <2>3, <2>6
<1>11. k = h
  <2>1. h = [i \in 0..last |-> h[i]]
    BY <1>5
  <2>2. k = [i \in 0..last |-> k[i]]
    BY <1>9
  <2> QED
    BY <1>10, <2>1, <2>2
<1>12. ASSUME NEW i \in 1..last PROVE k[i] = Before(t, k, i)
  <2>1. i \in 0..last /\ i # 0
    BY <1>1, <1>12
  <2> QED
    BY <1>9, <2>1 DEF Before
<1> QED
  BY <1>1, <1>5, <1>11, <1>12 DEF k

-----------------------------------------------------------------------------
(* What can be reached, and how a change or a jump moves the stacks.         *)

LEMMA HistoryLines ==
    ASSUME NEW t, WellFormed(t)
    PROVE  /\ Len(t.changes) \in Nat /\ Revisions(t) = 0..Len(t.changes)
           /\ t.current \in Revisions(t)
           /\ \A i \in 1..Len(t.changes) :
                /\ t.changes[i].parent \in Revisions(t) /\ t.changes[i].parent < i
                /\ Line(t)[i] = {i} \union Line(t)[t.changes[i].parent]
           /\ Line(t)[0] = {}
           /\ \A i \in Revisions(t) : \A x \in Line(t)[i] : x \in 1..i
           /\ \A i \in Revisions(t) : \A x \in Line(t)[i] : x \in 1..Len(t.changes)
<1> DEFINE last == Len(t.changes)
<1>1. /\ last \in Nat /\ Revisions(t) = 0..last /\ t.current \in Revisions(t)
      /\ \A i \in 1..last : /\ t.changes[i].parent \in Nat
                            /\ t.changes[i].parent < i
  BY TimelineType DEF WellFormed, Sound, Revisions, Change
<1>2. \A i \in 1..last : /\ t.changes[i].parent \in Revisions(t)
                         /\ Parents(t)[i] = t.changes[i].parent
  BY <1>1 DEF Parents
<1>3. Lines(last, Parents(t), Line(t))
  BY LineIsLines
<1> HIDE DEF last
<1>4. /\ \A i \in 1..last : Line(t)[i] = {i} \union Line(t)[Parents(t)[i]]
      /\ Line(t)[0] = {}
  BY <1>3 DEF Lines
<1>5. \A i \in 0..last : \A x \in Line(t)[i] : x \in 1..i
  BY <1>1, <1>3, LineFacts
<1>6. \A i \in 0..last : \A x \in Line(t)[i] : x \in 1..last
  BY <1>1, <1>5
<1> QED
  BY <1>1, <1>2, <1>4, <1>5, <1>6 DEF last

\* A jump is possible between revisions whose lines hold the same barriers.
Barriers(t) == {i \in 1..Len(t.changes) : Barrier(t.changes[i])}

LEMMA ReachableMeans ==
    ASSUME NEW t, WellFormed(t), NEW x
    PROVE  Reachable(t, x) <=>
             /\ x \in Revisions(t)
             /\ \A b \in Barriers(t) : b \in Line(t)[t.current] <=> b \in Line(t)[x]
<1>1. CASE x \in Revisions(t)
  <2>1. \A i \in Backward(t, x) \union Forward(t, x) : i \in 1..Len(t.changes)
    BY <1>1, HistoryLines DEF Backward, Forward
  <2>2. \A b : b \in Backward(t, x) \union Forward(t, x)
                 <=> ~(b \in Line(t)[t.current] <=> b \in Line(t)[x])
    BY DEF Backward, Forward
  <2> QED
    BY <1>1, <2>1, <2>2 DEF Reachable, Barriers
<1>2. CASE x \notin Revisions(t)
  BY <1>2 DEF Reachable
<1> QED
  BY <1>1, <1>2

\* What is said of a revision depends on the changes up to it.
LEMMA SameChanges ==
    ASSUME NEW t, WellFormed(t), Tracked(t), NEW u, WellFormed(u), Tracked(u),
           Len(t.changes) <= Len(u.changes),
           \A i \in 1..Len(t.changes) : u.changes[i] = t.changes[i]
    PROVE  \A i \in Revisions(t) : /\ i \in Revisions(u)
                                   /\ StateAt(u, i) = StateAt(t, i)
                                   /\ Line(u)[i] = Line(t)[i]
                                   /\ Past(u)[i] = Past(t)[i]
<1> DEFINE last == Len(t.changes)
<1>1. /\ last \in Nat /\ last > 0 /\ Revisions(t) = 0..last
      /\ Len(u.changes) \in Nat /\ Revisions(u) = 0..Len(u.changes)
  <2>1. last # 0
    BY TimelineType, EmptySeq DEF WellFormed, Tracked
  <2> QED
    BY <2>1, HistoryLines
<1>2. ASSUME NEW i \in 0..last
      PROVE  i \in Revisions(u) /\ StateAt(u, i) = StateAt(t, i)
  BY <1>1 DEF StateAt
<1>3. ASSUME NEW i \in 1..last
      PROVE  /\ t.changes[i].parent \in 0..last /\ t.changes[i].parent < i
             /\ u.changes[i] = t.changes[i]
             /\ Line(t)[i] = {i} \union Line(t)[t.changes[i].parent]
             /\ Line(u)[i] = {i} \union Line(u)[t.changes[i].parent]
             /\ Past(t)[i] = Before(t, Past(t), i)
             /\ Past(u)[i] = Before(u, Past(u), i)
  <2>1. i \in 1..Len(t.changes) /\ i \in 1..Len(u.changes)
    BY <1>1
  <2>2. /\ t.changes[i].parent \in 0..last /\ t.changes[i].parent < i
        /\ Line(t)[i] = {i} \union Line(t)[t.changes[i].parent]
    BY <1>1, <2>1, HistoryLines
  <2>3. u.changes[i] = t.changes[i]
    BY <2>1
  <2>4. Line(u)[i] = {i} \union Line(u)[t.changes[i].parent]
    BY <2>1, <2>3, HistoryLines
  <2>5. Past(t)[i] = Before(t, Past(t), i) /\ Past(u)[i] = Before(u, Past(u), i)
    BY <2>1, PastFacts
  <2> QED
    BY <2>2, <2>3, <2>4, <2>5
<1> DEFINE Bad == {i \in 0..last : ~(Line(u)[i] = Line(t)[i] /\ Past(u)[i] = Past(t)[i])}
<1>4. Bad = {}
  <2> SUFFICES ASSUME Bad # {} PROVE FALSE
    OBVIOUS
  <2>1. PICK j \in Bad : \A m \in Bad : j <= m
    <3>1. Bad \in SUBSET Nat
      BY <1>1
    <3> HIDE DEF Bad
    <3> QED
      BY <3>1, Least
  <2>2. Line(u)[0] = Line(t)[0] /\ Past(u)[0] = Past(t)[0]
    BY HistoryLines, PastFacts
  <2>3. j \in 1..last
    BY <1>1, <2>1, <2>2
  <2> DEFINE p == t.changes[j].parent
  <2>4. p \in 0..last /\ p < j
    BY <1>3, <2>3
  <2>5. p \notin Bad
    BY <1>1, <2>1, <2>3, <2>4
  <2>6. Line(u)[p] = Line(t)[p] /\ Past(u)[p] = Past(t)[p] /\ StateAt(u, p) = StateAt(t, p)
    BY <1>2, <2>4, <2>5
  <2>7. Line(u)[j] = Line(t)[j]
    BY <1>3, <2>3, <2>6
  <2>8. Past(u)[j] = Past(t)[j]
    <3>1. Before(u, Past(u), j) = Before(t, Past(t), j)
      BY <1>3, <2>3, <2>6 DEF Before
    <3> QED
      BY <1>3, <2>3, <3>1
  <2> QED
    BY <2>1, <2>7, <2>8
<1> QED
  BY <1>1, <1>2, <1>4

\* The stacks of a history are these.
Shows(t, p, c, after, points) ==
    /\ PastOf(t) = p
    /\ PresentOf(t) = c
    /\ FutureOf(t) = after
    /\ HeldOf(t) = points

LEMMA PresentIsKnown ==
    ASSUME NEW t, WellFormed(t)
    PROVE  /\ Tracked(t) => PresentOf(t) = Expected(t) /\ PresentOf(t) \in Image
           /\ Tracked(t) <=> PresentOf(t) # NotRead
  BY StateAtType, NotReadAssumption DEF WellFormed, PresentOf, Expected

\* What a change adds to the revisions that are there.
LEMMA Pushed ==
    ASSUME NEW t, WellFormed(t), Tracked(t), NEW c, NEW u, u = Push(t, c),
           WellFormed(u), c.parent = t.current
    PROVE  LET n == Len(t.changes) + 1
           IN /\ u.current = n /\ Revisions(u) = Revisions(t) \union {n}
              /\ n \notin Revisions(t) /\ u.redo = <<>> /\ Tracked(u)
              /\ \A i \in Revisions(t) :
                   /\ StateAt(u, i) = StateAt(t, i) /\ Past(u)[i] = Past(t)[i]
                   /\ Reachable(u, i) <=> ~Barrier(c) /\ Reachable(t, i)
              /\ StateAt(u, n) = c.after
              /\ Past(u)[n] = IF Barrier(c) THEN <<>> ELSE Append(PastOf(t), Expected(t))
              /\ Reachable(u, n)
<1> DEFINE n == Len(t.changes) + 1
<1>1. /\ t.changes \in Seq(Change) /\ Len(t.changes) \in Nat /\ t.current \in Revisions(t)
      /\ Revisions(t) = 0..Len(t.changes)
      /\ u.changes = Append(t.changes, c) /\ u.current = n /\ u.redo = <<>>
  BY TimelineType, HistoryLines DEF Push, WellFormed
<1>2. /\ Len(u.changes) = n /\ u.changes[n] = c /\ n \in Nat /\ n > 0
      /\ \A i \in 1..Len(t.changes) : u.changes[i] = t.changes[i]
      /\ n \in 1..Len(u.changes)
  BY <1>1
<1>3. Tracked(u)
  BY <1>2, EmptySeq DEF Tracked
<1>4. \A i \in Revisions(t) : /\ i \in Revisions(u)
                              /\ StateAt(u, i) = StateAt(t, i)
                              /\ Line(u)[i] = Line(t)[i]
                              /\ Past(u)[i] = Past(t)[i]
  BY <1>1, <1>2, <1>3, SameChanges
<1>5. Revisions(u) = Revisions(t) \union {n} /\ n \notin Revisions(t)
  BY <1>1, <1>2 DEF Revisions
<1>6. StateAt(u, n) = c.after
  BY <1>2 DEF StateAt
<1>7. Past(u)[n] = IF Barrier(c) THEN <<>> ELSE Append(PastOf(t), Expected(t))
  <2>1. Past(u)[n] = Before(u, Past(u), n)
    BY <1>2, <1>3, PastFacts
  <2> QED
    BY <1>1, <1>2, <1>4, <2>1 DEF Before, PastOf, Expected
<1>8. /\ Line(u)[n] = {n} \union Line(t)[t.current]
      /\ \A i \in Revisions(t) : Line(u)[i] = Line(t)[i] /\ n \notin Line(u)[i]
  <2>1. Line(u)[n] = {n} \union Line(u)[t.current]
    BY <1>2, HistoryLines
  <2>2. ASSUME NEW i \in Revisions(t) PROVE n \notin Line(t)[i]
    <3>1. \A x \in Line(t)[i] : x \in 1..Len(t.changes)
      BY HistoryLines
    <3> QED
      BY <1>1, <3>1
  <2> QED
    BY <1>1, <1>4, <2>1, <2>2
<1>9. /\ \A b \in Barriers(u) : b \in Barriers(t) \/ b = n
      /\ \A b \in Barriers(t) : b \in Barriers(u)
      /\ n \in Barriers(u) <=> Barrier(c)
      /\ n \notin Barriers(t)
  BY <1>1, <1>2 DEF Barriers
<1>10. ASSUME NEW i \in Revisions(t)
       PROVE  Reachable(u, i) <=> ~Barrier(c) /\ Reachable(t, i)
  <2>1. Reachable(u, i) <=>
          \A b \in Barriers(u) : b \in Line(u)[n] <=> b \in Line(u)[i]
    BY <1>1, <1>4, ReachableMeans
  <2>2. Reachable(t, i) <=>
          \A b \in Barriers(t) : b \in Line(t)[t.current] <=> b \in Line(t)[i]
    BY ReachableMeans
  <2> QED
    BY <1>8, <1>9, <2>1, <2>2
<1>11. Reachable(u, n)
  BY <1>1, <1>5, ReachableMeans
<1> QED
  BY <1>1, <1>3, <1>4, <1>5, <1>6, <1>7, <1>10, <1>11

LEMMA NothingToRedo ==
    ASSUME NEW t, t.redo = <<>> PROVE FutureOf(t) = <<>>
  BY DEF FutureOf

\* An edit puts the content there was onto the past.
LEMMA EditShows ==
    ASSUME NEW t, Kept(t), Tracked(t), NEW new \in Image
    PROVE  LET p == Append(PastOf(t), PresentOf(t))
           IN Shows(Mutate(t, Expected(t), new), p, new, <<>>, HeldOf(t) \union {<<p, new>>})
<1> DEFINE p == Append(PastOf(t), PresentOf(t))
           u == Mutate(t, Expected(t), new)
           n == Len(t.changes) + 1
<1>1. PICK c : /\ u = Push(t, c) /\ c.parent = t.current /\ c.after = new
               /\ c.operation = "own" /\ c.restorable = TRUE
  BY DEF Mutate
<1>2. WellFormed(t) /\ WellFormed(u)
  <2>1. Expected(t) \in Image /\ InStep(t, Expected(t))
    BY PresentIsKnown DEF Kept, InStep
  <2> QED
    BY <2>1, MutateIsKept DEF Kept
<1>3. ~Barrier(c)
  BY <1>1 DEF Barrier
<1> HIDE DEF u
<1>4. /\ u.current = n /\ Revisions(u) = Revisions(t) \union {n}
      /\ n \notin Revisions(t) /\ u.redo = <<>> /\ Tracked(u)
      /\ \A i \in Revisions(t) :
           /\ StateAt(u, i) = StateAt(t, i) /\ Past(u)[i] = Past(t)[i]
           /\ Reachable(u, i) <=> Reachable(t, i)
      /\ StateAt(u, n) = new /\ Reachable(u, n)
      /\ Past(u)[n] = Append(PastOf(t), Expected(t))
  <2>1. /\ u.current = n /\ Revisions(u) = Revisions(t) \union {n}
        /\ n \notin Revisions(t) /\ u.redo = <<>> /\ Tracked(u)
        /\ \A i \in Revisions(t) :
             /\ StateAt(u, i) = StateAt(t, i) /\ Past(u)[i] = Past(t)[i]
             /\ Reachable(u, i) <=> ~Barrier(c) /\ Reachable(t, i)
        /\ StateAt(u, n) = c.after /\ Reachable(u, n)
        /\ Past(u)[n] = IF Barrier(c) THEN <<>> ELSE Append(PastOf(t), Expected(t))
    <3> HIDE DEF n
    <3> QED
      BY <1>1, <1>2, Pushed DEF n
  <2> HIDE DEF n
  <2> QED
    BY <1>1, <1>3, <2>1
<1>5. Past(u)[n] = p
  BY <1>4 DEF PresentOf
<1> HIDE DEF p, n
<1>6. PastOf(u) = p /\ PresentOf(u) = new /\ FutureOf(u) = <<>>
  BY <1>4, <1>5, NothingToRedo DEF PastOf, PresentOf, Expected
<1>7. HeldOf(u) = HeldOf(t) \union {<<p, new>>}
  BY <1>4, <1>5 DEF HeldOf
<1> QED
  BY <1>6, <1>7 DEF Shows, p, u

\* An edit made outside is where the past ends.
LEMMA AdoptShows ==
    ASSUME NEW t, Kept(t), Tracked(t), NEW image \in Image, ~InStep(t, image)
    PROVE  Shows(AcknowledgeOutside(t, image), <<>>, image, <<>>, {<<<<>>, image>>})
<1> DEFINE u == AcknowledgeOutside(t, image)
           n == Len(t.changes) + 1
<1>1. PICK c : /\ u = Push(t, c) /\ c.parent = t.current /\ c.after = image
               /\ c.operation = "outside"
  BY DEF AcknowledgeOutside, PushOutside
<1>2. WellFormed(t) /\ WellFormed(u)
  BY AcknowledgeIsKept DEF Kept
<1>3. Barrier(c)
  BY <1>1 DEF Barrier
<1> HIDE DEF u
<1>4. /\ u.current = n /\ Revisions(u) = Revisions(t) \union {n}
      /\ u.redo = <<>> /\ Tracked(u)
      /\ \A i \in Revisions(t) : ~Reachable(u, i)
      /\ StateAt(u, n) = image /\ Reachable(u, n) /\ Past(u)[n] = <<>>
  BY <1>1, <1>2, <1>3, Pushed
<1> HIDE DEF n
<1>5. PastOf(u) = <<>> /\ PresentOf(u) = image /\ FutureOf(u) = <<>>
  BY <1>4, NothingToRedo DEF PastOf, PresentOf, Expected
<1>6. HeldOf(u) = {<<<<>>, image>>}
  BY <1>4 DEF HeldOf
<1> QED
  BY <1>5, <1>6 DEF Shows, u

\* The first change of a file makes it known with the content it had.
LEMMA FirstShows ==
    ASSUME NEW t, Kept(t), ~Tracked(t), NEW old \in Image, NEW new \in Image
    PROVE  Shows(Mutate(t, old, new), <<old>>, new, <<>>,
                 {<<<<>>, old>>, <<<<old>>, new>>})
<1> DEFINE u == Mutate(t, old, new)
<1>1. WellFormed(t) /\ WellFormed(u) /\ Tracked(u)
  <2>1. InStep(t, old)
    BY DEF InStep
  <2> QED
    BY <2>1, MutateIsKept DEF Kept
<1>2. PICK c : /\ u = Push(t, c) /\ c.parent = t.current /\ c.before = old /\ c.after = new
               /\ c.operation = "own" /\ c.restorable = TRUE
  BY DEF Mutate
<1>3. t.changes = <<>> /\ Len(t.changes) = 0 /\ t.current = 0
  <2>1. t.changes = <<>>
    BY DEF Tracked
  <2>2. Len(t.changes) = 0
    BY <2>1
  <2>3. t.current \in 0..0
    BY <1>1, <2>2, HistoryLines
  <2> QED
    BY <2>1, <2>2, <2>3
<1> HIDE DEF u
<1>4. /\ u.changes = <<c>> /\ Len(u.changes) = 1 /\ u.changes[1] = c
      /\ u.current = 1 /\ u.redo = <<>>
  BY <1>2, <1>3 DEF Push
<1>5. Revisions(u) = {0, 1}
  BY <1>1, <1>4, HistoryLines
<1>6. StateAt(u, 0) = old /\ StateAt(u, 1) = new /\ ~Barrier(c)
  BY <1>2, <1>4 DEF StateAt, Barrier
<1>7. Past(u)[0] = <<>> /\ Past(u)[1] = <<old>>
  <2>0. 1 \in 1..Len(u.changes)
    BY <1>4
  <2>1. Past(u)[0] = <<>> /\ Past(u)[1] = Before(u, Past(u), 1)
    BY <1>1, <2>0, PastFacts
  <2>2. Before(u, Past(u), 1) = Append(<<>>, old)
    BY <1>2, <1>3, <1>4, <1>6, <2>1 DEF Before
  <2> QED
    BY <2>1, <2>2
<1>8. Reachable(u, 0) /\ Reachable(u, 1)
  <2>1. Barriers(u) = {}
    BY <1>4, <1>6 DEF Barriers
  <2> QED
    BY <1>1, <1>5, <2>1, ReachableMeans
<1>9. PastOf(u) = <<old>> /\ PresentOf(u) = new /\ FutureOf(u) = <<>>
  BY <1>1, <1>4, <1>6, <1>7, NothingToRedo DEF PastOf, PresentOf, Expected
<1>10. HeldOf(u) = {<<<<>>, old>>, <<<<old>>, new>>}
  BY <1>1, <1>5, <1>6, <1>7, <1>8 DEF HeldOf
<1> QED
  BY <1>9, <1>10 DEF Shows, u

LEMMA LastOff ==
    ASSUME NEW S, NEW s \in Seq(S), NEW e \in S
    PROVE  LET q == Append(s, e)
           IN Len(q) > 0 /\ q[Len(q)] = e /\ SubSeq(q, 1, Len(q) - 1) = s
  OBVIOUS

LEMMA FutureType ==
    ASSUME NEW t, Kept(t)
    PROVE  /\ FutureOf(t) \in Seq(Image) /\ Len(FutureOf(t)) = Len(t.redo)
           /\ Len(t.redo) \in Nat /\ DOMAIN t.redo = 1..Len(t.redo)
           /\ \A i \in 1..Len(t.redo) : /\ FutureOf(t)[i] = StateAt(t, t.redo[i])
                                        /\ StateAt(t, t.redo[i]) \in Image
                                        /\ t.redo[i] \in 1..Len(t.changes)
                                        /\ Tracked(t)
<1>1. /\ t.redo \in Seq(Nat) /\ Len(t.redo) \in Nat
      /\ DOMAIN t.redo = 1..Len(t.redo) /\ t \in Timeline
      /\ DOMAIN t.changes = 1..Len(t.changes)
  BY TimelineType DEF Kept, WellFormed
<1>2. ASSUME NEW i \in 1..Len(t.redo)
      PROVE  /\ t.redo[i] \in 1..Len(t.changes)
             /\ Tracked(t) /\ StateAt(t, t.redo[i]) \in Image
  <2>1. t.redo[i] \in 1..Len(t.changes)
    BY <1>1 DEF Kept, RedoChain
  <2>2. Tracked(t)
    BY <1>1, <2>1 DEF Tracked
  <2> QED
    BY <1>1, <2>1, <2>2, HistoryLines, StateAtType DEF Kept
<1>3. FutureOf(t) = [i \in 1..Len(t.redo) |-> StateAt(t, t.redo[i])]
  BY <1>1 DEF FutureOf
<1> QED
  BY <1>1, <1>2, <1>3

\* A jump leaves what can be reached as it is.
LEMMA Moved ==
    ASSUME NEW t, Kept(t), Tracked(t), NEW u, Kept(u), u.changes = t.changes,
           Reachable(t, u.current)
    PROVE  /\ PastOf(u) = Past(t)[u.current]
           /\ PresentOf(u) = StateAt(t, u.current)
           /\ HeldOf(u) = HeldOf(t)
<1>1. /\ WellFormed(t) /\ WellFormed(u) /\ Tracked(u)
      /\ Len(u.changes) = Len(t.changes) /\ Len(t.changes) \in Nat
      /\ Revisions(u) = Revisions(t) /\ u.current \in Revisions(t)
      /\ Barriers(u) = Barriers(t)
  BY HistoryLines DEF Kept, Tracked, Revisions, Barriers
<1>2. \A i \in Revisions(t) : /\ StateAt(u, i) = StateAt(t, i)
                              /\ Line(u)[i] = Line(t)[i]
                              /\ Past(u)[i] = Past(t)[i]
  <2>1. Len(t.changes) <= Len(u.changes)
    BY <1>1
  <2> QED
    BY <1>1, <2>1, SameChanges
<1>3. \A b \in Barriers(t) : b \in Line(t)[t.current] <=> b \in Line(t)[u.current]
  BY <1>1, ReachableMeans
<1>4. ASSUME NEW i \in Revisions(t) PROVE Reachable(u, i) <=> Reachable(t, i)
  <2>1. Reachable(u, i) <=>
          \A b \in Barriers(t) : b \in Line(t)[u.current] <=> b \in Line(t)[i]
    BY <1>1, <1>2, ReachableMeans
  <2>2. Reachable(t, i) <=>
          \A b \in Barriers(t) : b \in Line(t)[t.current] <=> b \in Line(t)[i]
    BY <1>1, ReachableMeans
  <2> QED
    BY <1>3, <2>1, <2>2
<1>5. PastOf(u) = Past(t)[u.current] /\ PresentOf(u) = StateAt(t, u.current)
  BY <1>1, <1>2 DEF PastOf, PresentOf, Expected
<1>6. HeldOf(u) = HeldOf(t)
  BY <1>1, <1>2, <1>4 DEF HeldOf
<1> QED
  BY <1>5, <1>6

\* A revision that can be reached from its parent ends in the parent's content.
LEMMA OneStep ==
    ASSUME NEW t, WellFormed(t), Tracked(t), NEW i \in 1..Len(t.changes),
           \/ t.current = i /\ Reachable(t, t.changes[i].parent)
           \/ t.current = t.changes[i].parent /\ Reachable(t, i)
    PROVE  LET p == t.changes[i].parent
           IN /\ p \in Revisions(t) /\ i \in Revisions(t)
              /\ Past(t)[p] \in Seq(Image) /\ StateAt(t, p) \in Image
              /\ Past(t)[i] = Append(Past(t)[p], StateAt(t, p))
<1> DEFINE p == t.changes[i].parent
<1>1. /\ p \in Revisions(t) /\ i \in Revisions(t) /\ p < i /\ p \in Nat /\ i \in Nat
      /\ Line(t)[i] = {i} \union Line(t)[p]
      /\ \A x \in Line(t)[p] : x \in 1..p
  BY HistoryLines
<1>2. i \notin Line(t)[p]
  BY <1>1
<1>3. ~Barrier(t.changes[i])
  <2>1. i \notin Barriers(t)
    BY <1>1, <1>2, ReachableMeans
  <2> QED
    BY <2>1 DEF Barriers
<1>4. Past(t)[i] = Append(Past(t)[p], StateAt(t, p))
  BY <1>3, PastFacts DEF Before
<1>5. Past(t)[p] \in Seq(Image) /\ StateAt(t, p) \in Image
  BY <1>1, PastFacts, StateAtType DEF WellFormed
<1> QED
  BY <1>1, <1>4, <1>5

LEMMA BackShows ==
    ASSUME NEW t, Kept(t), Tracked(t), t.current # 0, Reachable(t, UndoTarget(t))
    PROVE  LET n == Len(PastOf(t))
           IN /\ n > 0
              /\ Shows(Undo(t), SubSeq(PastOf(t), 1, n - 1), PastOf(t)[n],
                       Append(FutureOf(t), PresentOf(t)), HeldOf(t))
<1> DEFINE u == Undo(t)
           i == t.current
           p == UndoTarget(t)
           n == Len(PastOf(t))
<1>1. Kept(u) /\ u.changes = t.changes /\ u.current = p /\ u.redo = Append(t.redo, i)
  BY UndoIsKept DEF Undo
<1>2. WellFormed(t) /\ i \in 1..Len(t.changes) /\ p = t.changes[i].parent
  BY HistoryLines DEF Kept, UndoTarget
<1>3. /\ p \in Revisions(t) /\ i \in Revisions(t)
      /\ Past(t)[p] \in Seq(Image) /\ StateAt(t, p) \in Image
      /\ Past(t)[i] = Append(Past(t)[p], StateAt(t, p))
  BY <1>2, OneStep
<1>4. PastOf(t) = Append(Past(t)[p], StateAt(t, p)) /\ PresentOf(t) = StateAt(t, i)
  BY <1>3 DEF PastOf, PresentOf, Expected
<1>5. n > 0 /\ SubSeq(PastOf(t), 1, n - 1) = Past(t)[p] /\ PastOf(t)[n] = StateAt(t, p)
  <2> HIDE DEF p
  <2> QED
    BY <1>3, <1>4, LastOff
<1>6. PastOf(u) = Past(t)[p] /\ PresentOf(u) = StateAt(t, p) /\ HeldOf(u) = HeldOf(t)
  BY <1>1, Moved
<1>7. FutureOf(u) = Append(FutureOf(t), PresentOf(t))
  <2>1. /\ FutureOf(t) \in Seq(Image) /\ Len(FutureOf(t)) = Len(t.redo)
        /\ Len(t.redo) \in Nat
        /\ \A k \in 1..Len(t.redo) : FutureOf(t)[k] = StateAt(t, t.redo[k])
    BY FutureType
  <2>2. /\ FutureOf(u) \in Seq(Image) /\ Len(FutureOf(u)) = Len(u.redo)
        /\ \A k \in 1..Len(u.redo) : FutureOf(u)[k] = StateAt(u, u.redo[k])
    BY <1>1, FutureType
  <2>3. /\ t.redo \in Seq(Nat) /\ Len(u.redo) = Len(t.redo) + 1
        /\ u.redo[Len(t.redo) + 1] = i
        /\ \A k \in 1..Len(t.redo) : u.redo[k] = t.redo[k]
    BY <1>1, TimelineType DEF Kept, WellFormed
  <2>4. \A k \in 1..Len(u.redo) : StateAt(u, u.redo[k]) = StateAt(t, u.redo[k])
    BY <1>1 DEF StateAt
  <2>5. PresentOf(t) \in Image
    BY <1>2, PresentIsKnown
  <2> DEFINE a == FutureOf(u)
             b == Append(FutureOf(t), PresentOf(t))
  <2>6. b \in Seq(Image) /\ Len(b) = Len(t.redo) + 1
        /\ b[Len(t.redo) + 1] = PresentOf(t)
        /\ \A k \in 1..Len(t.redo) : b[k] = FutureOf(t)[k]
    BY <2>1, <2>5
  <2>7. \A k \in 1..Len(t.redo) + 1 : a[k] = b[k]
    BY <1>4, <2>1, <2>2, <2>3, <2>4, <2>6
  <2> HIDE DEF a, b
  <2>8. a \in Seq(Image) /\ Len(a) = Len(t.redo) + 1
    BY <2>2, <2>3 DEF a
  <2> QED
    BY <2>1, <2>6, <2>7, <2>8, SeqEqual DEF a, b
<1> QED
  BY <1>5, <1>6, <1>7 DEF Shows

LEMMA AheadShows ==
    ASSUME NEW t, Kept(t), Tracked(t), t.redo # <<>>, Reachable(t, RedoTarget(t))
    PROVE  LET n == Len(FutureOf(t))
           IN /\ n > 0
              /\ Shows(Redo(t), Append(PastOf(t), PresentOf(t)), FutureOf(t)[n],
                       SubSeq(FutureOf(t), 1, n - 1), HeldOf(t))
<1> DEFINE u == Redo(t)
           i == RedoTarget(t)
           n == Len(FutureOf(t))
<1>1. /\ Kept(u) /\ u.changes = t.changes /\ u.current = i
      /\ u.redo = SubSeq(t.redo, 1, Len(t.redo) - 1)
  BY RedoIsKept DEF Redo
<1>2. /\ FutureOf(t) \in Seq(Image) /\ n = Len(t.redo) /\ n \in Nat /\ n > 0
      /\ \A k \in 1..n : /\ FutureOf(t)[k] = StateAt(t, t.redo[k])
                         /\ t.redo[k] \in 1..Len(t.changes)
      /\ t.redo \in Seq(Nat) /\ DOMAIN t.redo = 1..n /\ WellFormed(t)
  <2>1. t.redo \in Seq(Nat) /\ WellFormed(t)
    BY TimelineType DEF Kept, WellFormed
  <2>2. Len(t.redo) # 0
    BY <2>1, EmptySeq
  <2> QED
    BY <2>1, <2>2, FutureType
<1>3. i = t.redo[n] /\ i \in 1..Len(t.changes) /\ t.changes[i].parent = t.current
  BY <1>2 DEF RedoTarget, Kept, RedoChain
<1>4. Past(t)[i] = Append(PastOf(t), PresentOf(t))
  <2>1. Past(t)[i] = Append(Past(t)[t.current], StateAt(t, t.current))
    BY <1>2, <1>3, OneStep
  <2> QED
    BY <2>1 DEF PastOf, PresentOf, Expected
<1>5. PastOf(u) = Past(t)[i] /\ PresentOf(u) = StateAt(t, i) /\ HeldOf(u) = HeldOf(t)
  BY <1>1, Moved
<1>6. PresentOf(u) = FutureOf(t)[n]
  BY <1>2, <1>3, <1>5
<1>7. FutureOf(u) = SubSeq(FutureOf(t), 1, n - 1)
  <2> DEFINE a == FutureOf(u)
             b == SubSeq(FutureOf(t), 1, n - 1)
  <2>1. /\ a \in Seq(Image) /\ Len(a) = Len(u.redo)
        /\ \A k \in 1..Len(u.redo) : a[k] = StateAt(u, u.redo[k])
    BY <1>1, FutureType
  <2>2. /\ Len(u.redo) = n - 1 /\ \A k \in 1..(n - 1) : u.redo[k] = t.redo[k]
    BY <1>1, <1>2
  <2>3. \A k \in 1..(n - 1) : StateAt(u, u.redo[k]) = StateAt(t, u.redo[k])
    BY <1>1 DEF StateAt
  <2>4. /\ b \in Seq(Image) /\ Len(b) = n - 1
        /\ \A k \in 1..(n - 1) : b[k] = FutureOf(t)[k]
    BY <1>2
  <2>5. \A k \in 1..(n - 1) : a[k] = b[k]
    BY <1>2, <2>1, <2>2, <2>3, <2>4
  <2> HIDE DEF a, b
  <2> QED
    BY <1>2, <2>1, <2>2, <2>4, <2>5, SeqEqual DEF a, b
<1> QED
  BY <1>2, <1>4, <1>5, <1>6, <1>7 DEF Shows

LEMMA JumpShows ==
    ASSUME NEW t, Kept(t), Tracked(t), NEW x, Reachable(t, x)
    PROVE  LET point == <<Past(t)[x], StateAt(t, x)>>
           IN /\ point \in HeldOf(t)
              /\ Shows(Restored(t, x), point[1], point[2], <<>>, HeldOf(t))
<1> DEFINE u == Restored(t, x)
<1>1. x \in Revisions(t)
  BY DEF Reachable
<1>2. Kept(u) /\ u.changes = t.changes /\ u.current = x /\ u.redo = <<>>
  BY <1>1, RestoredIsKept DEF Restored
<1>3. PastOf(u) = Past(t)[x] /\ PresentOf(u) = StateAt(t, x) /\ HeldOf(u) = HeldOf(t)
  BY <1>2, Moved
<1>4. FutureOf(u) = <<>>
  BY <1>2, NothingToRedo
<1>5. <<Past(t)[x], StateAt(t, x)>> \in HeldOf(t)
  BY <1>1 DEF HeldOf
<1> QED
  BY <1>3, <1>4, <1>5 DEF Shows

-----------------------------------------------------------------------------
(* The operations as steps of the stacks.                                    *)

\* A step of one history is seen as a step of its stacks.
LEMMA SeenAs ==
    ASSUME NEW f \in Files, NEW u, tl \in [Files -> Timeline], tl' = [tl EXCEPT ![f] = u],
           NEW p, NEW c, NEW after, NEW points, Shows(u, p, c, after, points)
    PROVE  Stacks!Become(f, p, c, after, points)
<1>1. tl'[f] = u /\ \A g \in Files \ {f} : tl'[g] = tl[g]
  OBVIOUS
<1>2. [g \in Files |-> PresentOf(tl'[g])] =
        [[g \in Files |-> PresentOf(tl[g])] EXCEPT ![f] = c]
  BY <1>1 DEF Shows
<1>3. [g \in Files |-> PastOf(tl'[g])] =
        [[g \in Files |-> PastOf(tl[g])] EXCEPT ![f] = p]
  BY <1>1 DEF Shows
<1>4. [g \in Files |-> FutureOf(tl'[g])] =
        [[g \in Files |-> FutureOf(tl[g])] EXCEPT ![f] = after]
  BY <1>1 DEF Shows
<1>5. [g \in Files |-> HeldOf(tl'[g])] =
        [[g \in Files |-> HeldOf(tl[g])] EXCEPT ![f] = points]
  BY <1>1 DEF Shows
<1> QED
  BY <1>2, <1>3, <1>4, <1>5 DEF Stacks!Become


\* An operation of agent.d on a history.
Moves(t, u) ==
    \/ \E old, new \in Contents : InStep(t, old) /\ u = Mutate(t, old, new)
    \/ /\ Tracked(t) /\ t.current # 0
       /\ Reachable(t, UndoTarget(t)) /\ u = Undo(t)
    \/ /\ Tracked(t) /\ t.redo # <<>>
       /\ Reachable(t, RedoTarget(t)) /\ u = Redo(t)
    \/ Tracked(t) /\ \E i : Reachable(t, i) /\ u = Restored(t, i)

\* Every content a history can go back to is one that files hold.
Within(t) == Tracked(t) => \A i \in Revisions(t) : StateAt(t, i) \in Contents

LEMMA MutateWithin ==
    ASSUME NEW t, Kept(t), Within(t), NEW old \in Contents, NEW new \in Contents,
           InStep(t, old)
    PROVE  Within(Mutate(t, old, new))
<1> DEFINE u == Mutate(t, old, new)
<1>1. PICK c : u = Push(t, c) /\ c.parent = t.current /\ c.before = old /\ c.after = new
  BY DEF Mutate
<1>2. WellFormed(t) /\ WellFormed(u)
  BY MutateIsKept, ContentsAssumption DEF Kept
<1> HIDE DEF u
<1>3. CASE Tracked(t)
  <2> DEFINE n == Len(t.changes) + 1
  <2>1. /\ Revisions(u) = Revisions(t) \union {n}
        /\ \A i \in Revisions(t) : StateAt(u, i) = StateAt(t, i)
        /\ StateAt(u, n) = new
    BY <1>1, <1>2, <1>3, Pushed
  <2> HIDE DEF n
  <2> QED
    BY <1>3, <2>1 DEF Within, u
<1>4. CASE ~Tracked(t)
  <2>0. t.changes = <<>>
    BY <1>4 DEF Tracked
  <2>1. u.changes = <<c>> /\ Len(u.changes) = 1 /\ u.changes[1] = c
    BY <1>1, <2>0 DEF Push
  <2>2. \A i \in Revisions(u) : StateAt(u, i) \in {old, new}
    BY <1>1, <1>2, <2>1, HistoryLines DEF StateAt
  <2> QED
    BY <2>2 DEF Within, u
<1> QED
  BY <1>3, <1>4

LEMMA AcknowledgeWithin ==
    ASSUME NEW t, Kept(t), Within(t), NEW image \in Contents
    PROVE  Within(AcknowledgeOutside(t, image))
<1> DEFINE u == AcknowledgeOutside(t, image)
<1>1. CASE InStep(t, image)
  BY <1>1 DEF AcknowledgeOutside
<1>2. CASE ~InStep(t, image)
  <2>1. PICK c : u = Push(t, c) /\ c.parent = t.current /\ c.after = image
    BY <1>2 DEF AcknowledgeOutside, PushOutside
  <2>2. WellFormed(t) /\ WellFormed(u) /\ Tracked(t)
    BY <1>2, AcknowledgeIsKept, ContentsAssumption DEF Kept, InStep
  <2> HIDE DEF u
  <2>3. /\ Revisions(u) = Revisions(t) \union {Len(t.changes) + 1}
        /\ \A i \in Revisions(t) : StateAt(u, i) = StateAt(t, i)
        /\ StateAt(u, Len(t.changes) + 1) = image
    BY <2>1, <2>2, Pushed
  <2> QED
    BY <2>2, <2>3 DEF Within, u
<1> QED
  BY <1>1, <1>2

LEMMA MovesWithin ==
    ASSUME NEW t, Kept(t), Within(t), NEW u, Moves(t, u)
    PROVE  Within(u)
<1>1. ASSUME NEW old \in Contents, NEW new \in Contents, InStep(t, old),
             u = Mutate(t, old, new)
      PROVE  Within(u)
  BY <1>1, MutateWithin
<1>2. CASE t.current # 0 /\ u = Undo(t)
  BY <1>2, UndoIsKept DEF Within
<1>3. CASE t.redo # <<>> /\ u = Redo(t)
  BY <1>3, RedoIsKept DEF Within
<1>4. ASSUME NEW i, Reachable(t, i), u = Restored(t, i) PROVE Within(u)
  BY <1>4, RestoredIsKept DEF Within, Reachable
<1> QED
  BY <1>1, <1>2, <1>3, <1>4 DEF Moves

-----------------------------------------------------------------------------
Under(s) ==
    job[s] # NoJob /\ job[s].then # "note" => Moves(tl[job[s].file], job[s].timeline)

\* A patch writes what files may hold.
Planned(s) ==
    patch[s] # NoPatch =>
        /\ \A i \in DOMAIN patch[s].todo : patch[s].todo[i][2] \in Contents
        /\ \A i \in DOMAIN patch[s].plan : patch[s].plan[i].image \in Contents

\* An operation under way brings what one operation makes of the history that
\* is still there.
StackInv ==
    /\ disk \in [Files -> Contents]
    /\ \A f \in Files : Within(tl[f])
    /\ \A s \in Scopes : Under(s) /\ Planned(s)

LEMMA InitStackInv == Init => StackInv
<1> SUFFICES ASSUME Init PROVE StackInv
  OBVIOUS
<1>1. \A f \in Files : Within(tl[f])
  BY NewIsKept DEF Init, Within
<1> QED
  BY <1>1 DEF Init, StackInv, Under, Planned

\* A move of a history is a step of its stacks.
LEMMA MovesAreSteps ==
    ASSUME IInv, StackInv, NEW f \in Files, NEW u, Moves(tl[f], u),
           tl' = [tl EXCEPT ![f] = u]
    PROVE  Stacks!StackNext
<1> DEFINE t == tl[f]
<1>0. Kept(t) /\ WellFormed(t) /\ tl \in [Files -> Timeline] /\ Contents \subseteq Image
  BY ContentsAssumption DEF IInv, TypeOK, Kept
<1>1. CASE \E old, new \in Contents : InStep(t, old) /\ u = Mutate(t, old, new)
  <2>1. PICK old \in Contents, new \in Contents :
          InStep(t, old) /\ u = Mutate(t, old, new)
    BY <1>1
  <2>2. CASE ~Tracked(t)
    <3>1. Shows(u, <<old>>, new, <<>>, {<<<<>>, old>>, <<<<old>>, new>>})
      BY <1>0, <2>1, <2>2, FirstShows
    <3>2. Stacks!Become(f, <<old>>, new, <<>>, {<<<<>>, old>>, <<<<old>>, new>>})
      BY <1>0, <3>1, SeenAs
    <3>3. PresentOf(t) = NotRead
      BY <1>0, <2>2, PresentIsKnown
    <3>4. Stacks!FirstEdit(f, old, new)
      BY <3>2, <3>3 DEF Stacks!FirstEdit
    <3> QED
      BY <3>4 DEF Stacks!StackNext
  <2>3. CASE Tracked(t)
    <3> DEFINE p == Append(PastOf(t), PresentOf(t))
    <3>1. old = Expected(t)
      BY <2>1, <2>3 DEF InStep
    <3> DEFINE points == HeldOf(t) \union {<<p, new>>}
    <3>2. Shows(u, p, new, <<>>, points)
      BY <1>0, <2>1, <2>3, <3>1, EditShows
    <3>3. Stacks!Become(f, p, new, <<>>, points)
      <4> HIDE DEF p, points
      <4> QED
        BY <1>0, <3>2, SeenAs
    <3>4. PresentOf(t) # NotRead
      BY <1>0, <2>3, PresentIsKnown
    <3>5. Stacks!Edit(f, new)
      BY <2>3, <3>3, <3>4 DEF Stacks!Edit
    <3> QED
      BY <3>5 DEF Stacks!StackNext
  <2> QED
    BY <2>2, <2>3
<1>2. CASE /\ Tracked(t) /\ t.current # 0
           /\ Reachable(t, UndoTarget(t)) /\ u = Undo(t)
  <2> DEFINE n == Len(PastOf(t))
             past == SubSeq(PastOf(t), 1, n - 1)
             after == Append(FutureOf(t), PresentOf(t))
  <2>1. n > 0 /\ Shows(u, past, PastOf(t)[n], after, HeldOf(t))
    BY <1>0, <1>2, BackShows
  <2>2. Stacks!Become(f, past, PastOf(t)[n], after, HeldOf(t))
    <3> HIDE DEF past, after, n
    <3> QED
      BY <1>0, <2>1, SeenAs
  <2>3. Stacks!StepBack(f)
    BY <1>2, <2>1, <2>2 DEF Stacks!StepBack
  <2> QED
    BY <2>3 DEF Stacks!StackNext
<1>3. CASE /\ Tracked(t) /\ t.redo # <<>>
           /\ Reachable(t, RedoTarget(t)) /\ u = Redo(t)
  <2> DEFINE n == Len(FutureOf(t))
             past == Append(PastOf(t), PresentOf(t))
             after == SubSeq(FutureOf(t), 1, n - 1)
  <2>1. n > 0 /\ Shows(u, past, FutureOf(t)[n], after, HeldOf(t))
    BY <1>0, <1>3, AheadShows
  <2>2. Stacks!Become(f, past, FutureOf(t)[n], after, HeldOf(t))
    <3> HIDE DEF past, after, n
    <3> QED
      BY <1>0, <2>1, SeenAs
  <2>3. Stacks!StepAhead(f)
    BY <1>3, <2>1, <2>2 DEF Stacks!StepAhead
  <2> QED
    BY <2>3 DEF Stacks!StackNext
<1>4. ASSUME Tracked(t), NEW i, Reachable(t, i), u = Restored(t, i)
      PROVE  Stacks!StackNext
  <2> DEFINE point == <<Past(t)[i], StateAt(t, i)>>
  <2>1. point \in HeldOf(t) /\ Shows(u, point[1], point[2], <<>>, HeldOf(t))
    BY <1>0, <1>4, JumpShows
  <2> HIDE DEF point
  <2>2. Stacks!Become(f, point[1], point[2], <<>>, HeldOf(t))
    BY <1>0, <2>1, SeenAs
  <2>3. \E x \in HeldOf(t) : Stacks!JumpTo(f, x)
    BY <1>4, <2>1, <2>2 DEF Stacks!JumpTo
  <2> QED
    BY <1>4, <2>3 DEF Stacks!StackNext
<1> QED
  BY <1>1, <1>2, <1>3, <1>4 DEF Moves

LEMMA AdoptIsAStep ==
    ASSUME IInv, StackInv, NEW f \in Files, NEW image \in Contents,
           ~InStep(tl[f], image),
           tl' = [tl EXCEPT ![f] = AcknowledgeOutside(tl[f], image)]
    PROVE  Stacks!StackNext
<1> DEFINE t == tl[f]
           u == AcknowledgeOutside(t, image)
<1>0. /\ Kept(t) /\ WellFormed(t) /\ tl \in [Files -> Timeline] /\ image \in Image
      /\ Tracked(t)
  BY ContentsAssumption DEF IInv, TypeOK, Kept, InStep
<1>1. Shows(u, <<>>, image, <<>>, {<<<<>>, image>>})
  BY <1>0, AdoptShows
<1> HIDE DEF u
<1>2. Stacks!Become(f, <<>>, image, <<>>, {<<<<>>, image>>})
  BY <1>0, <1>1, SeenAs DEF u
<1>3. PresentOf(t) # NotRead
  BY <1>0, PresentIsKnown
<1>4. Stacks!Adopt(f, image)
  BY <1>2, <1>3 DEF Stacks!Adopt
<1> QED
  BY <1>4 DEF Stacks!StackNext

\* An operation that takes a lock brings a move of the history there.
LEMMA StartFits ==
    ASSUME IInv, StackInv, NEW s \in Scopes, NEW f \in Files,
           NEW image, NEW timeline, NEW then,
           Begin(s, f, image, timeline, then), Moves(tl[f], timeline),
           UNCHANGED <<disk, tl, patch>>
    PROVE  StackInv' /\ tl' = tl
<1>1. /\ job'[s].file = f /\ job'[s].timeline = timeline
      /\ \A r \in Scopes \ {s} : job'[r] = job[r]
  BY DEF Begin, IInv, TypeOK
<1>2. \A r \in Scopes : Under(r)'
  BY <1>1 DEF StackInv, Under
<1>3. \A r \in Scopes : Planned(r)'
  BY DEF StackInv, Planned
<1> QED
  BY <1>2, <1>3 DEF StackInv, Within

\* Operations end, and patches go on.
LEMMA RestFits ==
    ASSUME IInv, StackInv, UNCHANGED tl, disk' \in [Files -> Contents],
           \A r \in Scopes : job'[r] # NoJob /\ job'[r].then # "note" => job'[r] = job[r],
           \A r \in Scopes : Planned(r)'
    PROVE  StackInv' /\ tl' = tl
<1>1. \A r \in Scopes : Under(r)'
  BY DEF StackInv, Under
<1> QED
  BY <1>1 DEF StackInv, Within

\* A history moves that no operation holds.
LEMMA UnlockedFits ==
    ASSUME IInv, StackInv, NEW f \in Files, ~Locked(f), NEW u, Within(u),
           tl' = [tl EXCEPT ![f] = u], UNCHANGED <<disk, job>>,
           \A r \in Scopes : Planned(r)'
    PROVE  StackInv'
<1>1. tl'[f] = u /\ \A g \in Files \ {f} : tl'[g] = tl[g]
  BY DEF IInv, TypeOK
<1>2. ASSUME NEW r \in Scopes, job[r] # NoJob PROVE tl'[job[r].file] = tl[job[r].file]
  <2>1. job[r].file \in Files \ {f}
    BY <1>2 DEF Locked, IInv, TypeOK, Job
  <2> QED
    BY <1>1, <2>1
<1>3. \A r \in Scopes : Under(r)'
  BY <1>2 DEF StackInv, Under
<1>4. \A g \in Files : Within(tl'[g])
  BY <1>1 DEF StackInv
<1> QED
  BY <1>3, <1>4 DEF StackInv

\* A history starts again from where it is: nothing is left to redo.
LEMMA HereFits ==
    ASSUME IInv, StackInv, NEW f \in Files, ~Locked(f),
           tl' = [tl EXCEPT ![f] = Restored(@, @.current)], UNCHANGED <<disk, job>>,
           \A r \in Scopes : Planned(r)'
    PROVE  StackInv' /\ (tl' # tl => Stacks!StackNext)
<1> DEFINE t == tl[f]
           u == Restored(t, t.current)
<1>1. Kept(t) /\ WellFormed(t) /\ Within(t) /\ tl \in [Files -> Timeline] /\ t \in Timeline
  BY DEF IInv, StackInv, TypeOK, Kept
<1>2. tl' = [tl EXCEPT ![f] = u]
  OBVIOUS
<1>3. CASE Tracked(t)
  <2>1. Reachable(t, t.current)
    BY <1>1, ReachableMeans, HistoryLines
  <2>2. Moves(t, u)
    BY <1>3, <2>1 DEF Moves
  <2>3. Within(u)
    BY <1>1, <2>2, MovesWithin
  <2> HIDE DEF u
  <2> QED
    BY <1>2, <2>2, <2>3, UnlockedFits, MovesAreSteps
<1>4. CASE ~Tracked(t)
  <2>1. /\ t = [changes |-> t.changes, current |-> t.current, redo |-> t.redo]
        /\ t.redo \in Seq(Nat)
    BY <1>1, TimelineType
  <2>2. t.redo = <<>>
    <3>1. Len(t.redo) = 0
      <4>1. 1 \notin 1..Len(t.redo) /\ Len(t.redo) \in Nat
        BY <1>1, <1>4, FutureType
      <4> QED
        BY <4>1
    <3> QED
      BY <2>1, <3>1, EmptySeq
  <2>3. u = t
    BY <2>1, <2>2 DEF Restored
  <2> HIDE DEF u
  <2>4. tl' = tl
    BY <1>1, <1>2, <2>3
  <2> QED
    BY <1>1, <1>2, <2>3, <2>4, UnlockedFits
<1> QED
  BY <1>3, <1>4

\* Somebody notices an edit made outside.
LEMMA NoticeFits ==
    ASSUME IInv, StackInv, NEW f \in Files, ~Locked(f),
           tl' = [tl EXCEPT ![f] = AcknowledgeOutside(@, disk[f])],
           UNCHANGED <<disk, job, patch>>
    PROVE  StackInv' /\ (tl' # tl => Stacks!StackNext)
<1> DEFINE t == tl[f]
           u == AcknowledgeOutside(t, disk[f])
<1>1. Kept(t) /\ Within(t) /\ tl \in [Files -> Timeline] /\ disk[f] \in Contents
  BY DEF IInv, StackInv, TypeOK
<1>2. tl' = [tl EXCEPT ![f] = u]
  OBVIOUS
<1>3. Within(u)
  BY <1>1, AcknowledgeWithin
<1>4. \A r \in Scopes : Planned(r)'
  BY DEF StackInv, Planned
<1>5. StackInv'
  <2> HIDE DEF u
  <2> QED
    BY <1>2, <1>3, <1>4, UnlockedFits
<1>6. CASE InStep(t, disk[f])
  <2>1. u = t
    BY <1>6 DEF AcknowledgeOutside
  <2>2. tl' = tl
    BY <1>1, <1>2, <2>1
  <2> QED
    BY <1>5, <2>2
<1>7. CASE ~InStep(t, disk[f])
  BY <1>1, <1>5, <1>7, AdoptIsAStep
<1> QED
  BY <1>6, <1>7

LEMMA CommitFits ==
    ASSUME IInv, StackInv, NEW s \in Scopes, Commit(s)
    PROVE  StackInv' /\ Stacks!StackNext
<1> DEFINE j == job[s]
           f == j.file
           u == j.timeline
<1>1. /\ f \in Files /\ j # NoJob /\ j.then # "note" /\ Moves(tl[f], u)
      /\ Kept(tl[f]) /\ Within(tl[f]) /\ Kept(u) /\ Tracked(u) /\ j.image = Expected(u)
      /\ tl \in [Files -> Timeline] /\ disk \in [Files -> Contents]
  BY DEF Commit, IInv, TypeOK, Job, StackInv, Under, JobFits
<1>2. tl' = [tl EXCEPT ![f] = u] /\ disk' = [disk EXCEPT ![f] = j.image]
  BY DEF Commit
<1>3. Within(u)
  BY <1>1, MovesWithin
<1>4. j.image \in Contents
  BY <1>1, <1>3, HistoryLines DEF Within, Expected, Kept
<1>5. disk' \in [Files -> Contents]
  BY <1>1, <1>2, <1>4
<1>6. tl'[f] = u /\ \A g \in Files \ {f} : tl'[g] = tl[g]
  BY <1>1, <1>2
<1>7. \A g \in Files : Within(tl'[g])
  BY <1>3, <1>6 DEF StackInv
<1>8. ASSUME NEW r \in Scopes PROVE Under(r)'
  <2>1. CASE r = s
    <3>1. job'[s] = NoJob \/ job'[s] = [j EXCEPT !.then = "note"]
      BY DEF Commit, IInv, TypeOK
    <3>2. job'[s] = NoJob \/ job'[s].then = "note"
      BY <1>1, <3>1 DEF IInv, TypeOK, Job
    <3> QED
      BY <2>1, <3>2 DEF Under
  <2>2. CASE r # s
    <3>1. job'[r] = job[r]
      BY <2>2 DEF Commit, IInv, TypeOK
    <3>2. job[r] # NoJob => job[r].file \in Files \ {f}
      BY <1>1, <2>2 DEF IInv, TypeOK, Job
    <3>3. job[r] # NoJob => tl'[job[r].file] = tl[job[r].file]
      BY <1>6, <3>2
    <3> QED
      BY <3>1, <3>3 DEF StackInv, Under
  <2> QED
    BY <2>1, <2>2
<1>9. ASSUME NEW r \in Scopes PROVE Planned(r)'
  <2>1. CASE patch'[r] = patch[r]
    BY <2>1 DEF StackInv, Planned
  <2>2. CASE patch'[r] # patch[r]
    <3>1. r = s /\ patch'[s] = PutBack(patch[s]) /\ j.then = "rolled"
      BY <2>2 DEF Commit, IInv, TypeOK
    <3>2. patch[s] # NoPatch
      BY <1>1, <3>1 DEF IInv, PatchFits
    <3>3. patch[s] \in Patch
      BY <3>2 DEF IInv, TypeOK
    <3>4. patch'[s].todo = patch[s].todo /\ patch'[s].plan = patch[s].plan
      BY <3>1, <3>3 DEF PutBack, Patch
    <3> QED
      BY <3>1, <3>2, <3>4 DEF StackInv, Planned
  <2> QED
    BY <2>1, <2>2
<1>10. StackInv'
  BY <1>5, <1>7, <1>8, <1>9 DEF StackInv
<1>11. Stacks!StackNext
  <2> HIDE DEF u
  <2> QED
    BY <1>1, <1>2, MovesAreSteps
<1> QED
  BY <1>10, <1>11

LEMMA ReplacingFits ==
    ASSUME IInv, StackInv, NEW s \in Scopes, NEW f \in Files,
           NEW image \in Contents, NEW then, Replacing(s, f, image, then),
           UNCHANGED <<disk, tl, patch>>
    PROVE  StackInv' /\ tl' = tl
<1> DEFINE u == Mutate(tl[f], disk[f], image)
<1>1. Begin(s, f, image, u, then) /\ disk[f] \in Contents /\ InStep(tl[f], disk[f])
  BY DEF Replacing, Begin, StackInv
<1>2. Moves(tl[f], u)
  BY <1>1 DEF Moves
<1> HIDE DEF u
<1> QED
  BY <1>1, <1>2, StartFits

LEMMA StartsFit ==
    ASSUME IInv, StackInv, NEW s \in Scopes, NEW f \in Files,
           \/ \E bytes \in Contents : StartWrite(s, f, bytes) \/ StartEdit(s, f, bytes)
           \/ \E b \in Byte : StartAppend(s, f, <<b>>)
           \/ StartRemove(s, f) \/ StartUndo(s, f) \/ StartRedo(s, f)
           \/ \E target \in Revisions(tl[f]) : StartRestore(s, f, target)
    PROVE  StackInv' /\ tl' = tl
<1>1. ASSUME NEW bytes \in Contents, StartWrite(s, f, bytes) PROVE StackInv' /\ tl' = tl
  BY <1>1, ReplacingFits DEF StartWrite
<1>2. ASSUME NEW bytes \in Contents, StartEdit(s, f, bytes) PROVE StackInv' /\ tl' = tl
  BY <1>2, ReplacingFits DEF StartEdit
<1>3. ASSUME NEW b \in Byte, StartAppend(s, f, <<b>>) PROVE StackInv' /\ tl' = tl
  BY <1>3, ReplacingFits DEF StartAppend
<1>4. CASE StartRemove(s, f)
  BY <1>4, ReplacingFits, ContentsAssumption DEF StartRemove
<1> DEFINE t == tl[f]
<1>5. CASE StartUndo(s, f)
  <2>1. /\ Tracked(t) /\ Reachable(t, UndoTarget(t)) /\ t.current # 0
        /\ Begin(s, f, JumpImage(t, disk[f], UndoTarget(t)), Undo(t), "done")
        /\ UNCHANGED <<disk, tl, patch>>
    BY <1>5 DEF StartUndo, Jump
  <2>2. Moves(t, Undo(t))
    BY <2>1 DEF Moves
  <2> QED
    BY <2>1, <2>2, StartFits
<1>6. CASE StartRedo(s, f)
  <2>1. /\ Tracked(t) /\ Reachable(t, RedoTarget(t)) /\ t.redo # <<>>
        /\ Begin(s, f, JumpImage(t, disk[f], RedoTarget(t)), Redo(t), "done")
        /\ UNCHANGED <<disk, tl, patch>>
    BY <1>6 DEF StartRedo, Jump
  <2>2. Moves(t, Redo(t))
    BY <2>1 DEF Moves
  <2> QED
    BY <2>1, <2>2, StartFits
<1>7. ASSUME NEW target \in Revisions(t), StartRestore(s, f, target)
      PROVE  StackInv' /\ tl' = tl
  <2>1. /\ Tracked(t) /\ Reachable(t, target)
        /\ Begin(s, f, JumpImage(t, disk[f], target), Restored(t, target), "done")
        /\ UNCHANGED <<disk, tl, patch>>
    BY <1>7 DEF StartRestore, Jump
  <2>2. Moves(t, Restored(t, target))
    BY <2>1 DEF Moves
  <2> QED
    BY <2>1, <2>2, StartFits
<1> QED
  BY <1>1, <1>2, <1>3, <1>4, <1>5, <1>6, <1>7

\* What a patch will still write stays what it said.
LEMMA StillPlanned ==
    ASSUME StackInv, NEW s \in Scopes, patch \in [Scopes -> Patch \union {NoPatch}],
           NEW p, patch' = [patch EXCEPT ![s] = p],
           p # NoPatch => /\ \A i \in DOMAIN p.todo : p.todo[i][2] \in Contents
                          /\ \A i \in DOMAIN p.plan : p.plan[i].image \in Contents
    PROVE  \A r \in Scopes : Planned(r)'
<1>1. patch'[s] = p /\ \A r \in Scopes \ {s} : patch'[r] = patch[r]
  OBVIOUS
<1> QED
  BY <1>1 DEF StackInv, Planned

\* One that keeps its files, or has one file less to write.
LEMMA FewerPlanned ==
    ASSUME IInv, StackInv, NEW s \in Scopes, NEW p, patch' = [patch EXCEPT ![s] = p],
           \/ p = NoPatch
           \/ p = patch[s]
           \/ /\ patch[s] # NoPatch
              /\ p.todo = patch[s].todo
              /\ p.plan = patch[s].plan \/ (patch[s].plan # <<>> /\ p.plan = Tail(patch[s].plan))
    PROVE  \A r \in Scopes : Planned(r)'
<1>1. CASE p = NoPatch \/ p = patch[s]
  <2>1. p # NoPatch => /\ \A i \in DOMAIN p.todo : p.todo[i][2] \in Contents
                       /\ \A i \in DOMAIN p.plan : p.plan[i].image \in Contents
    BY <1>1 DEF StackInv, Planned
  <2> QED
    BY <2>1, StillPlanned DEF IInv, TypeOK
<1>2. CASE /\ patch[s] # NoPatch
           /\ p.todo = patch[s].todo
           /\ \/ p.plan = patch[s].plan
              \/ patch[s].plan # <<>> /\ p.plan = Tail(patch[s].plan)
  <2> DEFINE q == patch[s]
             R == [file : Files, stamp : Image, image : Image]
  <2>1. q.plan \in Seq(R) /\ \A i \in DOMAIN q.plan : q.plan[i].image \in Contents
    BY <1>2, PatchParts DEF IInv, TypeOK, StackInv, Planned
  <2>2. \A i \in DOMAIN q.todo : q.todo[i][2] \in Contents
    BY <1>2 DEF StackInv, Planned
  <2>3. \A i \in DOMAIN p.plan : p.plan[i].image \in Contents
    <3>1. CASE p.plan = q.plan
      BY <2>1, <3>1
    <3>2. CASE q.plan # <<>> /\ p.plan = Tail(q.plan)
      <4> HIDE DEF R, q
      <4>1. ASSUME NEW i \in DOMAIN p.plan PROVE p.plan[i].image \in Contents
        <5>1. i + 1 \in DOMAIN q.plan /\ p.plan[i] = q.plan[i + 1]
          BY <2>1, <3>2, <4>1
        <5> QED
          BY <2>1, <5>1
      <4> QED
        BY <4>1
    <3> QED
      BY <1>2, <3>1, <3>2
  <2> QED
    BY <1>2, <2>2, <2>3, StillPlanned DEF IInv, TypeOK
<1> QED
  BY <1>1, <1>2

LEMMA NoMoreJobs ==
    ASSUME IInv, NEW s \in Scopes, job' = [job EXCEPT ![s] = NoJob]
    PROVE  \A r \in Scopes : job'[r] # NoJob /\ job'[r].then # "note" => job'[r] = job[r]
  BY DEF IInv, TypeOK

\* What an operation ends with, and how patches go on.
LEMMA EndsFit ==
    ASSUME IInv, StackInv, NEW s \in Scopes,
           \/ CommitFails(s) \/ NoteRead(s) \/ PlanFails(s)
           \/ WriteFails(s) \/ RollBackFails(s) \/ EndPatch(s)
    PROVE  StackInv' /\ tl' = tl
<1>0. /\ patch[s] # NoPatch => patch[s] \in Patch
      /\ disk \in [Files -> Contents]
  BY DEF IInv, TypeOK, StackInv
<1>a. ASSUME patch[s] # NoPatch, NEW q, q = PutBack(patch[s]) \/ q = LeftChanged(patch[s])
      PROVE  q.todo = patch[s].todo /\ q.plan = patch[s].plan
  BY <1>0, <1>a DEF PutBack, LeftChanged, Patch
<1>b. ASSUME patch[s] # NoPatch, NEW q, q = [patch[s] EXCEPT !.phase = "rollback"]
      PROVE  q.todo = patch[s].todo /\ q.plan = patch[s].plan
  BY <1>0, <1>b DEF Patch
<1>1. CASE CommitFails(s)
  <2> DEFINE p == IF job[s].then = "patched" THEN [patch[s] EXCEPT !.phase = "rollback"]
                  ELSE IF job[s].then = "rolled" THEN LeftChanged(patch[s]) ELSE patch[s]
  <2>1. patch' = [patch EXCEPT ![s] = p] /\ job' = [job EXCEPT ![s] = NoJob]
        /\ UNCHANGED <<disk, tl>> /\ job[s] # NoJob
    BY <1>1 DEF CommitFails
  <2>2. job[s].then \in {"patched", "rolled"} => patch[s] # NoPatch
    BY <2>1 DEF IInv, PatchFits
  <2>3. p = patch[s] \/ (patch[s] # NoPatch /\ p.todo = patch[s].todo /\ p.plan = patch[s].plan)
    BY <1>a, <1>b, <2>2
  <2> HIDE DEF p
  <2>4. \A r \in Scopes : Planned(r)'
    BY <2>1, <2>3, FewerPlanned
  <2> QED
    BY <1>0, <2>1, <2>4, NoMoreJobs, RestFits
<1>2. CASE NoteRead(s)
  <2> DEFINE p == IF patch[s] = NoPatch THEN NoPatch ELSE Wrote(patch[s], job[s].timeline)
  <2>1. patch' = [patch EXCEPT ![s] = p] /\ job' = [job EXCEPT ![s] = NoJob]
        /\ UNCHANGED <<disk, tl>> /\ job[s] # NoJob /\ job[s].then = "note"
    BY <1>2 DEF NoteRead
  <2>2. patch[s] # NoPatch => patch[s].phase = "write" /\ patch[s].plan # <<>>
    BY <2>1 DEF IInv, PatchFits
  <2>3. \/ p = NoPatch
        \/ /\ patch[s] # NoPatch /\ p.todo = patch[s].todo
           /\ p.plan = Tail(patch[s].plan) /\ patch[s].plan # <<>>
    BY <1>0, <2>2 DEF Wrote, Patch
  <2> HIDE DEF p
  <2>4. \A r \in Scopes : Planned(r)'
    BY <2>1, <2>3, FewerPlanned
  <2> QED
    BY <1>0, <2>1, <2>4, NoMoreJobs, RestFits
<1>3. CASE PlanFails(s) \/ EndPatch(s)
  <2>1. patch' = [patch EXCEPT ![s] = NoPatch] /\ UNCHANGED <<disk, tl, job>>
    BY <1>3 DEF PlanFails, EndPatch
  <2>2. \A r \in Scopes : Planned(r)'
    BY <2>1, FewerPlanned
  <2> QED
    BY <1>0, <2>1, <2>2, RestFits
<1>4. CASE WriteFails(s)
  <2> DEFINE p == [patch[s] EXCEPT !.phase = "rollback"]
  <2>1. patch' = [patch EXCEPT ![s] = p] /\ UNCHANGED <<disk, tl, job>> /\ patch[s] # NoPatch
    BY <1>4 DEF WriteFails
  <2>2. p.todo = patch[s].todo /\ p.plan = patch[s].plan
    BY <1>b, <2>1
  <2> HIDE DEF p
  <2>3. \A r \in Scopes : Planned(r)'
    BY <2>1, <2>2, FewerPlanned
  <2> QED
    BY <1>0, <2>1, <2>3, RestFits
<1>5. CASE RollBackFails(s)
  <2> DEFINE p == LeftChanged(patch[s])
  <2>1. patch' = [patch EXCEPT ![s] = p] /\ UNCHANGED <<disk, tl, job>> /\ patch[s] # NoPatch
    BY <1>5 DEF RollBackFails
  <2>2. p.todo = patch[s].todo /\ p.plan = patch[s].plan
    BY <1>a, <2>1
  <2> HIDE DEF p
  <2>3. \A r \in Scopes : Planned(r)'
    BY <2>1, <2>2, FewerPlanned
  <2> QED
    BY <1>0, <2>1, <2>3, RestFits
<1> QED
  BY <1>1, <1>2, <1>3, <1>4, <1>5

LEMMA PatchesFit ==
    ASSUME IInv, StackInv, NEW s \in Scopes,
           PlanFile(s) \/ \E p \in Patches : StartPatch(s, p)
    PROVE  StackInv' /\ tl' = tl
<1>0. disk \in [Files -> Contents] /\ patch \in [Scopes -> Patch \union {NoPatch}]
  BY DEF StackInv, IInv, TypeOK
<1>1. ASSUME NEW p \in Patches, StartPatch(s, p) PROVE StackInv' /\ tl' = tl
  <2> DEFINE q == [phase |-> "plan", todo |-> p, plan |-> <<>>,
                   earlier |-> reads[s], done |-> <<>>,
                   written |-> {}, back |-> {}, left |-> {}]
  <2>1. patch' = [patch EXCEPT ![s] = q] /\ UNCHANGED <<disk, tl, job>>
    BY <1>1 DEF StartPatch
  <2>2. \A i \in DOMAIN q.todo : q.todo[i][2] \in Contents
    <3>1. p \in Seq(Files \X Contents)
      BY PatchesAssumption
    <3> QED
      BY <3>1
  <2>3. \A i \in DOMAIN q.plan : q.plan[i].image \in Contents
    OBVIOUS
  <2> HIDE DEF q
  <2>4. \A r \in Scopes : Planned(r)'
    BY <1>0, <2>1, <2>2, <2>3, StillPlanned
  <2> QED
    BY <1>0, <2>1, <2>4, RestFits
<1>2. CASE PlanFile(s)
  <2> DEFINE p == patch[s]
             item == [file |-> Head(p.todo)[1], stamp |-> disk[Head(p.todo)[1]],
                      image |-> Head(p.todo)[2]]
             q == [p EXCEPT !.todo = Tail(p.todo), !.plan = Append(p.plan, item),
                            !.phase = IF Tail(p.todo) = <<>> THEN "write" ELSE p.phase]
             R == [file : Files, stamp : Image, image : Image]
  <2>1. /\ patch' = [patch EXCEPT ![s] = q] /\ UNCHANGED <<disk, tl, job>>
        /\ p # NoPatch /\ p.phase = "plan"
    BY <1>2 DEF PlanFile
  <2>2. /\ p \in Patch /\ p.todo \in Seq(Files \X Image) /\ p.plan \in Seq(R)
        /\ p.todo # <<>>
        /\ \A i \in DOMAIN p.todo : p.todo[i][2] \in Contents
        /\ \A i \in DOMAIN p.plan : p.plan[i].image \in Contents
    BY <1>0, <2>1, PatchParts DEF IInv, PatchFits, StackInv, Planned
  <2>3. q.todo = Tail(p.todo) /\ q.plan = Append(p.plan, item)
    BY <2>2 DEF Patch
  <2>4. \A i \in DOMAIN Tail(p.todo) :
          i + 1 \in DOMAIN p.todo /\ Tail(p.todo)[i] = p.todo[i + 1]
    <3> HIDE DEF p
    <3> QED
      BY <2>2
  <2>5. Head(p.todo) = p.todo[1] /\ 1 \in DOMAIN p.todo
    <3> HIDE DEF p
    <3> QED
      BY <2>2
  <2>6. item.image \in Contents
    BY <2>2, <2>5
  <2>7. \A i \in DOMAIN Append(p.plan, item) :
          \/ i \in DOMAIN p.plan /\ Append(p.plan, item)[i] = p.plan[i]
          \/ Append(p.plan, item)[i] = item
    <3> HIDE DEF p, item
    <3> QED
      BY <2>2
  <2> HIDE DEF q, item
  <2>8. /\ \A i \in DOMAIN q.todo : q.todo[i][2] \in Contents
        /\ \A i \in DOMAIN q.plan : q.plan[i].image \in Contents
    BY <2>2, <2>3, <2>4, <2>6, <2>7
  <2>9. \A r \in Scopes : Planned(r)'
    BY <1>0, <2>1, <2>8, StillPlanned
  <2> QED
    BY <1>0, <2>1, <2>9, RestFits
<1> QED
  BY <1>1, <1>2

LEMMA WriteFileFits ==
    ASSUME IInv, StackInv, NEW s \in Scopes, WriteFile(s)
    PROVE  StackInv' /\ tl' = tl
<1> DEFINE p == patch[s]
           next == Head(p.plan)
           R == [file : Files, stamp : Image, image : Image]
<1>1. /\ p # NoPatch /\ p.phase = "write" /\ UNCHANGED <<disk, tl, patch>>
      /\ Replacing(s, next.file, next.image, "patched")
  BY DEF WriteFile
<1>2. /\ p.plan \in Seq(R) /\ p.plan # <<>>
      /\ \A i \in DOMAIN p.plan : p.plan[i].image \in Contents
  BY <1>1, PatchParts DEF IInv, TypeOK, PatchFits, StackInv, Planned
<1>3. next = p.plan[1] /\ 1 \in DOMAIN p.plan /\ next \in R
  <2> HIDE DEF p, R
  <2>1. next = p.plan[1] /\ next \in R
    BY <1>2, HeadTailProperties
  <2>2. 1 \in DOMAIN p.plan
    BY <1>2, EmptySeq
  <2> QED
    BY <2>1, <2>2
<1>4. next.file \in Files /\ next.image \in Contents
  BY <1>2, <1>3
<1> HIDE DEF next
<1> QED
  BY <1>1, <1>4, ReplacingFits

LEMMA RollBackFits ==
    ASSUME IInv, StackInv, NEW s \in Scopes, RollBack(s)
    PROVE  StackInv' /\ (tl' # tl => Stacks!StackNext)
<1> DEFINE p == patch[s]
           last == Head(p.done)
           f == last.file
           x == last.previous
<1>1. p # NoPatch /\ p.done # <<>> /\ UNCHANGED disk
  BY DEF RollBack
<1>2. p \in Patch /\ f \in Files
  <2>1. p \in Patch
    BY <1>1 DEF IInv, TypeOK
  <2> QED
    BY <1>1, <2>1, LastWritten
<1>3. CASE tl[f].current = x
  <2>1. /\ ~Locked(f) /\ tl' = [tl EXCEPT ![f] = Restored(@, @.current)]
        /\ patch' = [patch EXCEPT ![s] = PutBack(p)] /\ UNCHANGED job
    BY <1>3 DEF RollBack
  <2>2. PutBack(p).todo = p.todo /\ PutBack(p).plan = p.plan
    BY <1>2 DEF PutBack, Patch
  <2>3. \A r \in Scopes : Planned(r)'
    <3> DEFINE q == PutBack(p)
    <3>1. patch' = [patch EXCEPT ![s] = q] /\ q.todo = p.todo /\ q.plan = p.plan
      BY <2>1, <2>2
    <3> HIDE DEF q
    <3> QED
      BY <1>1, <3>1, FewerPlanned
  <2> HIDE DEF f
  <2> QED
    BY <1>1, <1>2, <2>1, <2>3, HereFits
<1>4. CASE tl[f].current # x
  <2>1. /\ Jump(s, f, x, Restored(tl[f], x), "rolled")
        /\ UNCHANGED <<disk, tl, patch>>
    BY <1>4 DEF RollBack
  <2>2. /\ Tracked(tl[f]) /\ Reachable(tl[f], x)
        /\ Begin(s, f, JumpImage(tl[f], disk[f], x), Restored(tl[f], x), "rolled")
    BY <2>1 DEF Jump
  <2> HIDE DEF f, x
  <2>3. Moves(tl[f], Restored(tl[f], x))
    BY <2>2 DEF Moves
  <2> QED
    BY <1>2, <2>1, <2>2, <2>3, StartFits
<1> QED
  BY <1>3, <1>4

LEMMA RecordReadFits ==
    ASSUME IInv, StackInv, NEW s \in Scopes, RecordRead(s)
    PROVE  StackInv' /\ (tl' # tl => Stacks!StackNext)
<1> DEFINE f == hand[s][1]
<1>1. /\ f \in Files /\ ~Locked(f) /\ UNCHANGED <<disk, job, patch>>
  BY DEF RecordRead, IInv, TypeOK
<1>2. \/ tl' = tl
      \/ tl' = [tl EXCEPT ![f] = AcknowledgeOutside(@, disk[f])]
  BY <1>1 DEF RecordRead, AcknowledgeSeen, IInv, TypeOK
<1>3. CASE tl' = tl
  <2>1. \A r \in Scopes : Planned(r)'
    BY <1>1 DEF StackInv, Planned
  <2>2. disk' \in [Files -> Contents]
    BY <1>1 DEF StackInv
  <2> QED
    BY <1>1, <1>3, <2>1, <2>2, RestFits
<1>4. CASE tl' = [tl EXCEPT ![f] = AcknowledgeOutside(@, disk[f])]
  <2> HIDE DEF f
  <2> QED
    BY <1>1, <1>4, NoticeFits
<1> QED
  BY <1>2, <1>3, <1>4

LEMMA OthersFit ==
    ASSUME IInv, StackInv, NEW f \in Files,
           \/ Acknowledge(f)
           \/ \E s \in Scopes : Read(s, f) \/ RestoreCurrent(s, f)
           \/ \E image \in Contents : OutsideEdit(f, image)
    PROVE  StackInv' /\ (tl' # tl => Stacks!StackNext)
<1>1. UNCHANGED patch => \A r \in Scopes : Planned(r)'
  BY DEF StackInv, Planned
<1>2. CASE Acknowledge(f)
  BY <1>2, NoticeFits DEF Acknowledge
<1>3. ASSUME NEW s \in Scopes, Read(s, f)
      PROVE  StackInv' /\ tl' = tl
  <2>1. UNCHANGED <<disk, tl, job, patch>> /\ disk' \in [Files -> Contents]
    BY <1>3 DEF Read, StackInv
  <2> QED
    BY <1>1, <2>1, RestFits
<1>4. ASSUME NEW s \in Scopes, RestoreCurrent(s, f)
      PROVE  StackInv' /\ (tl' # tl => Stacks!StackNext)
  BY <1>1, <1>4, HereFits DEF RestoreCurrent
<1>5. ASSUME NEW image \in Contents, OutsideEdit(f, image)
      PROVE  StackInv' /\ tl' = tl
  <2>1. UNCHANGED <<tl, job, patch>> /\ disk' \in [Files -> Contents]
    BY <1>5 DEF OutsideEdit, StackInv
  <2> QED
    BY <1>1, <2>1, RestFits
<1> QED
  BY <1>2, <1>3, <1>4, <1>5

LEMMA NextStacks ==
    ASSUME IInv, StackInv, [Next]_vars
    PROVE  StackInv' /\ (tl' # tl => Stacks!StackNext)
<1>1. CASE UNCHANGED vars
  BY <1>1 DEF vars, StackInv, Under, Planned, Within
<1>2. ASSUME NEW s \in Scopes, Commit(s) PROVE StackInv' /\ Stacks!StackNext
  BY <1>2, CommitFits
<1>3. ASSUME NEW s \in Scopes,
             \/ CommitFails(s) \/ NoteRead(s) \/ PlanFails(s)
             \/ WriteFails(s) \/ RollBackFails(s) \/ EndPatch(s)
      PROVE  StackInv' /\ tl' = tl
  BY <1>3, EndsFit
<1>4. ASSUME NEW s \in Scopes, PlanFile(s) \/ \E p \in Patches : StartPatch(s, p)
      PROVE  StackInv' /\ tl' = tl
  BY <1>4, PatchesFit
<1>5. ASSUME NEW s \in Scopes, WriteFile(s) PROVE StackInv' /\ tl' = tl
  BY <1>5, WriteFileFits
<1>6. ASSUME NEW s \in Scopes, RollBack(s) \/ RecordRead(s)
      PROVE  StackInv' /\ (tl' # tl => Stacks!StackNext)
  BY <1>6, RollBackFits, RecordReadFits
<1>7. ASSUME NEW s \in Scopes, NEW f \in Files,
             \/ \E bytes \in Contents : StartWrite(s, f, bytes) \/ StartEdit(s, f, bytes)
             \/ \E b \in Byte : StartAppend(s, f, <<b>>)
             \/ StartRemove(s, f) \/ StartUndo(s, f) \/ StartRedo(s, f)
             \/ \E target \in Revisions(tl[f]) : StartRestore(s, f, target)
      PROVE  StackInv' /\ tl' = tl
  BY <1>7, StartsFit
<1>8. ASSUME NEW f \in Files,
             \/ Acknowledge(f)
             \/ \E s \in Scopes : Read(s, f) \/ RestoreCurrent(s, f)
             \/ \E image \in Contents : OutsideEdit(f, image)
      PROVE  StackInv' /\ (tl' # tl => Stacks!StackNext)
  BY <1>8, OthersFit
<1> QED
  BY <1>1, <1>2, <1>3, <1>4, <1>5, <1>6, <1>7, <1>8 DEF Next

LEMMA InitStacks == Init => Stacks!StackInit
<1> SUFFICES ASSUME Init PROVE Stacks!StackInit
  OBVIOUS
<1>1. ASSUME NEW f \in Files
      PROVE  /\ PastOf(tl[f]) = <<>> /\ PresentOf(tl[f]) = NotRead
             /\ FutureOf(tl[f]) = <<>> /\ HeldOf(tl[f]) = {}
  <2>1. tl[f] = NewTimeline /\ ~Tracked(tl[f]) /\ tl[f].redo = <<>>
    BY NewIsKept DEF Init, NewTimeline
  <2> QED
    BY <2>1, NothingToRedo DEF PastOf, PresentOf, HeldOf
<1> QED
  BY <1>1 DEF Stacks!StackInit

\* Whatever is done to files, their histories behave as two stacks around the
\* present content: undo, redo and jumps along the tree of revisions are those
\* of an editor, and nothing from before an edit made outside comes back.
THEOREM StacksRefined == Spec => ImplementsUndoStacks
<1>1. Init => Stacks!StackInit
  BY InitStacks
<1>2. IInv /\ StackInv /\ [Next]_vars => [tl' # tl => Stacks!StackNext]_vars
  BY NextStacks
<1>3. IInv /\ StackInv /\ [Next]_vars => StackInv'
  BY NextStacks
<1> QED
  BY <1>1, <1>2, <1>3, Invariance, InitStackInv, PTL DEF Spec, ImplementsUndoStacks

\* The same as an implementation of UndoStacks: steps that leave the histories
\* alone leave the stacks alone.
THEOREM UndoIsTwoStacks == Spec => Stacks!StackSpec
<1>1. tl' = tl => UNCHANGED Stacks!stackVars
  BY DEF Stacks!stackVars
<1>2. IInv /\ StackInv /\ [Next]_vars => [Stacks!StackNext]_(Stacks!stackVars)
  BY <1>1, NextStacks
<1>3. IInv /\ StackInv /\ [Next]_vars => StackInv'
  BY NextStacks
<1>4. Init => Stacks!StackInit
  BY InitStacks
<1> QED
  BY <1>2, <1>3, <1>4, Invariance, InitStackInv, PTL DEF Spec, Stacks!StackSpec
=============================================================================
