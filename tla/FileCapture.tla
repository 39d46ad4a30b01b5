---------------------------- MODULE FileCapture ----------------------------
(***************************************************************************)
(* How the executor finds out which files an action call changes           *)
(* (executor/src/capture.rs, over fs/src/baseline.rs and file history).    *)
(*                                                                         *)
(* A call that may run programs has the folders it may write scanned       *)
(* before and after it; any other call is followed through the history of  *)
(* the files.  Calls of the same folder take turns through a folder lock.  *)
(* A call made inside another never waits: it leaves its folders to the    *)
(* enclosing call or scans them under that call's lock.                    *)
(*                                                                         *)
(* A folder is the set of files in it.  A scan of one folder, and the      *)
(* acceptance of outside edits without a scan, are one step each.  No call *)
(* lasts as long as an idle snapshot is kept (`IDLE_FOR`).                 *)
(***************************************************************************)
EXTENDS FileTimeline

CONSTANTS Files, Folders,
          Inside,      \* the files of each folder
          Calls, NoCall,
          ParentOf,    \* the call each call is made in, or NoCall
          Wants,       \* the folders of each call's `fs.write` grants
          Programs,    \* calls that may run programs (`runs_programs`)
          Parallel,    \* scripts start calls in tasks and go on themselves
          Contents,    \* the images each file may hold in this instance
          NoBase,
          MaxChanges,  \* bound: revisions of a file when a call writes it
          MaxEdits     \* bound: changes made by programs and outside

ASSUME FoldersAssumption ==
    /\ Inside \in [Folders -> SUBSET Files]
    /\ Wants \in [Calls -> SUBSET Folders]
    /\ Programs \subseteq Calls
    /\ \A f \in Files : Contents[f] \subseteq Image
    /\ NoCall \notin Calls
    /\ ParentOf \in [Calls -> Calls \union {NoCall}]

\* The mark of a folder that was not scanned is no scan of it.
ASSUME NoBaseAssumption == \A r \in Folders : NoBase \notin [Inside[r] -> Image]

\* Folders of one tree: those that share a file lie one in the other.
ASSUME TreeAssumption ==
    \A r, q \in Folders :
        Inside[r] \intersect Inside[q] # {}
            => Inside[r] \subseteq Inside[q] \/ Inside[q] \subseteq Inside[r]

VARIABLES
    disk,      \* what each file holds
    tl,        \* the history of each file
    base,      \* the files of a folder as its last scan saw them
    phase,     \* where a call is
    pending,   \* the folders a call has yet to lock
    held,      \* the folders a call has locked
    woken,     \* the call registered for a release and one came
    roots,     \* the folders a call captures (`Started::roots`)
    passes,    \* what a call passes on (`Caller::capturing`, `capturing_scans`)
    todo,      \* the folders a call has yet to scan
    found,     \* what a scan found and the call has not dealt with
    unknown,   \* the one that file history turned out not to have
    mark,      \* the revision each file was at when a call began
    reported,  \* the files a call reports as changed
    notes,     \* the folders a call says it did not track
    edits,     \* how many changes programs and editors made
    start,     \* history variable: the files when a call began
    touched    \* history variable: who changed each file since then

locks == <<pending, held, woken>>
scans == <<base, roots, todo, found, unknown, notes>>
past == <<start, touched>>

vars == <<disk, tl, base, phase, pending, held, woken, roots, passes, todo,
          found, unknown, mark, reported, notes, edits, start, touched>>

Nothing == [roots |-> {}, scans |-> FALSE]
NoMark == [f \in Files |-> 0]
NoFiles == [f \in Files |-> Absent]
Untouched == [f \in Files |-> {}]

Init ==
    /\ disk \in {d \in [Files -> UNION {Contents[f] : f \in Files}] :
                   \A f \in Files : d[f] \in Contents[f]}
    /\ tl = [f \in Files |-> NewTimeline]
    /\ base = [r \in Folders |-> NoBase]
    /\ phase = [c \in Calls |-> "idle"]
    /\ pending = [c \in Calls |-> {}]
    /\ held = [c \in Calls |-> {}]
    /\ woken = [c \in Calls |-> FALSE]
    /\ roots = [c \in Calls |-> {}]
    /\ passes = [c \in Calls |-> Nothing]
    /\ todo = [c \in Calls |-> {}]
    /\ found = [c \in Calls |-> {}]
    /\ unknown = [c \in Calls |-> {}]
    /\ mark = [c \in Calls |-> NoMark]
    /\ reported = [c \in Calls |-> {}]
    /\ notes = [c \in Calls |-> {}]
    /\ edits = 0
    /\ start = [c \in Calls |-> NoFiles]
    /\ touched = [c \in Calls |-> Untouched]

-----------------------------------------------------------------------------
FilesIn(folders) == UNION {Inside[r] : r \in folders}

Within(a, b) == Inside[a] \subseteq Inside[b]

\* Mutant: a folder inside one that is held is not held itself.
OnlyAround(a, b) == Within(a, b)

Overlaps(a, b) == Within(a, b) \/ Within(b, a)

IsFree(r) == \A c \in Calls : \A h \in held[c] : ~Overlaps(h, r)

\* Calls with all the calls they are made in.
Upward(calls) ==
    \A c \in calls : ParentOf[c] # NoCall => ParentOf[c] \in calls

\* The calls a call is made in, itself included.
Above ==
    [c \in Calls |->
       {d \in Calls : \A calls \in SUBSET Calls :
                        c \in calls /\ Upward(calls) => d \in calls}]

\* What the enclosing calls of a call capture.
Given(c) == IF ParentOf[c] = NoCall THEN Nothing ELSE passes[ParentOf[c]]

Done == {"idle", "over"}

\* A call made by `c` has not ended.
Busy(c) == \E d \in Calls : ParentOf[d] = c /\ phase[d] \notin Done

\* The script of `c` is at work: it awaits the calls it makes, unless it
\* makes them in tasks of their own.
Acts(c) == phase[c] = "running" /\ (Parallel \/ ~Busy(c))

\* A task may even outlive the call that started it.
MayCall(c) ==
    ParentOf[c] # NoCall =>
        \/ Acts(ParentOf[c])
        \/ Parallel /\ phase[ParentOf[c]] = "over"

Capturing(c) ==
    /\ phase[c] \in {"before", "accept", "running", "after", "report", "release"}
    /\ roots[c] \union todo[c] # {}

\* How `c` sees a change `w` makes: some call captures it, or none does.
Kind(w, c, f) ==
    CASE w = c -> "own"
      [] w # c /\ c \in Above[w] -> "nested"
      [] c \notin Above[w] /\ f \in FilesIn(passes[w].roots) -> "other"
      [] OTHER -> "free"

\* The calls `w` is made in, which do not scan, will not see these changes.
Unseen(w, files) ==
    [c \in Calls |->
       IF Capturing(c) /\ c \in Above[w] \ {w}
       THEN [f \in Files |-> IF f \in files THEN touched[c][f] \union {"unseen"}
                             ELSE touched[c][f]]
       ELSE touched[c]]

Touch(kinds, f) ==
    touched' = [c \in Calls |->
                  IF Capturing(c)
                  THEN [touched[c] EXCEPT ![f] = @ \union kinds[c]]
                  ELSE touched[c]]

-----------------------------------------------------------------------------
(* Starting a call (`begin_capture`).                                      *)

Begin(c, folders) ==
    /\ phase' = [phase EXCEPT ![c] = IF c \in Programs THEN "before" ELSE "accept"]
    /\ todo' = [todo EXCEPT ![c] = folders]
    /\ start' = [start EXCEPT ![c] = disk]
    /\ touched' = [touched EXCEPT ![c] = Untouched]

Arrives(c) == phase[c] = "idle" /\ MayCall(c)

\* No enclosing call captures anything: the call locks its folders.
TakeFolders(c) ==
    /\ Arrives(c)
    /\ Given(c).roots = {}
    /\ Wants[c] # {}
    /\ phase' = [phase EXCEPT ![c] = "lock"]
    /\ pending' = [pending EXCEPT ![c] = Wants[c]]
    /\ UNCHANGED <<disk, tl, base, held, woken, roots, passes, todo, found,
                   unknown, mark, reported, notes, edits, start, touched>>

\* The folders of a call that lie in folders of an enclosing call.
Enclosed(c) == {r \in Wants[c] : \E h \in Given(c).roots : Within(r, h)}

\* Mutant: a call made inside another always leaves its folders to it.
NeverScansWithin(c) == FALSE

\* Nobody else will see what the programs of this call do.
MustScan(c) ==
    /\ Given(c).roots # {}
    /\ ~Given(c).scans
    /\ c \in Programs
    /\ Enclosed(c) # {}

ScanWithin(c) ==
    /\ Arrives(c)
    /\ MustScan(c)
    /\ Begin(c, Enclosed(c))
    /\ UNCHANGED <<disk, tl, locks, base, roots, passes, found, unknown,
                   mark, reported, notes, edits>>

\* The enclosing call sees all, or there is nothing to capture.
CaptureNothing(c) ==
    /\ Arrives(c)
    /\ IF Given(c).roots = {} THEN Wants[c] = {} ELSE ~MustScan(c)
    /\ phase' = [phase EXCEPT ![c] = "running"]
    /\ passes' = [passes EXCEPT ![c] = Given(c)]
    /\ UNCHANGED <<disk, tl, locks, scans, mark, reported, edits, past>>

-----------------------------------------------------------------------------
(* The folder lock (`Baseline::lock`).                                     *)

Locks(c) == Given(c).roots = {} /\ Wants[c] # {}

\* The call registers before it looks, so no release goes by unseen.
Register(c) ==
    /\ phase[c] = "lock"
    /\ phase' = [phase EXCEPT ![c] = "check"]
    /\ woken' = [woken EXCEPT ![c] = FALSE]
    /\ UNCHANGED <<disk, tl, scans, pending, held, passes, mark, reported,
                   edits, past>>

\* Take the folders nobody holds.
TryLock(c) ==
    LET got == {r \in pending[c] : IsFree(r)}
    IN /\ phase[c] = "check"
       /\ held' = [held EXCEPT ![c] = @ \union got]
       /\ pending' = [pending EXCEPT ![c] = @ \ got]
       /\ IF pending[c] = got
          THEN Begin(c, held[c] \union got)
          ELSE /\ phase' = [phase EXCEPT ![c] = "looked"]
               /\ UNCHANGED <<todo, past>>
       /\ UNCHANGED <<disk, tl, base, woken, roots, passes, found, unknown,
                      mark, reported, notes, edits>>

Sleep(c) ==
    /\ phase[c] = "looked"
    /\ phase' = [phase EXCEPT ![c] = "asleep"]
    /\ UNCHANGED <<disk, tl, locks, scans, passes, mark, reported, edits, past>>

Wake(c) ==
    /\ phase[c] = "asleep"
    /\ woken[c]
    /\ phase' = [phase EXCEPT ![c] = "lock"]
    /\ UNCHANGED <<disk, tl, locks, scans, passes, mark, reported, edits, past>>

\* Mutant: a call that gave up on a folder still asks for it.
TimeOutStillAsks(c) ==
    /\ phase[c] = "asleep"
    /\ ~woken[c]
    /\ Begin(c, held[c])
    /\ notes' = [notes EXCEPT ![c] = @ \union pending[c]]
    /\ UNCHANGED <<disk, tl, base, pending, held, woken, roots, passes, found,
                   unknown, mark, reported, edits>>

\* The call goes on without the folders it did not get in time.
TimeOut(c) ==
    /\ phase[c] = "asleep"
    /\ ~woken[c]
    /\ Begin(c, held[c])
    /\ notes' = [notes EXCEPT ![c] = @ \union pending[c]]
    /\ pending' = [pending EXCEPT ![c] = {}]
    /\ UNCHANGED <<disk, tl, base, held, woken, roots, passes, found, unknown,
                   mark, reported, edits>>

\* The capture of a call is dropped, and with it the lock: the folders are
\* free first, then all who wait for one wake up.
LetGo(c, seen) ==
    /\ phase' = [phase EXCEPT ![c] = IF Locks(c) THEN "notify" ELSE "over"]
    /\ held' = [held EXCEPT ![c] = {}]
    /\ roots' = [roots EXCEPT ![c] = {}]
    /\ passes' = [passes EXCEPT ![c] = IF Parallel THEN @ ELSE Nothing]
    /\ reported' = [reported EXCEPT ![c] = {}]
    /\ notes' = [notes EXCEPT ![c] = {}]
    /\ mark' = [mark EXCEPT ![c] = NoMark]
    /\ start' = [start EXCEPT ![c] = NoFiles]
    /\ touched' = [seen EXCEPT ![c] = Untouched]

Release(c) ==
    /\ phase[c] = "release"
    /\ LetGo(c, touched)
    /\ UNCHANGED <<disk, tl, base, pending, woken, todo, found, unknown, edits>>

\* Mutant: only a call that already sleeps hears of a release.
NotifySleepers(c) ==
    /\ phase[c] = "notify"
    /\ woken' = [d \in Calls |-> woken[d] \/ phase[d] = "asleep"]
    /\ phase' = [phase EXCEPT ![c] = "over"]
    /\ UNCHANGED <<disk, tl, scans, pending, held, passes, mark, reported,
                   edits, past>>

Notify(c) ==
    /\ phase[c] = "notify"
    /\ woken' = [d \in Calls |-> woken[d] \/ phase[d] \in {"check", "looked", "asleep"}]
    /\ phase' = [phase EXCEPT ![c] = "over"]
    /\ UNCHANGED <<disk, tl, scans, pending, held, passes, mark, reported,
                   edits, past>>

-----------------------------------------------------------------------------
(* Before a call runs (`Capture::begin`).                                  *)

\* What changed since the last scan of the folder; a first scan says nothing.
Changes(r) ==
    IF base[r] = NoBase THEN {}
    ELSE {[file |-> f, before |-> base[r][f], after |-> disk[f]] :
             f \in {f \in Inside[r] : base[r][f] # disk[f]}}

Scan(c, r) ==
    /\ r \in todo[c]
    /\ found[c] = {} /\ unknown[c] = {}
    /\ found' = [found EXCEPT ![c] = Changes(r)]
    /\ base' = [base EXCEPT ![r] = [f \in Inside[r] |-> disk[f]]]
    /\ todo' = [todo EXCEPT ![c] = @ \ {r}]

ScanBefore(c, r) ==
    /\ phase[c] = "before"
    /\ Scan(c, r)
    /\ roots' = [roots EXCEPT ![c] = @ \union {r}]
    /\ UNCHANGED <<disk, tl, locks, phase, passes, unknown, mark, reported,
                   notes, edits, past>>

\* The folder is too large or cannot be read.
ScanFails(c, r) ==
    /\ phase[c] \in {"before", "after"}
    /\ r \in todo[c]
    /\ found[c] = {} /\ unknown[c] = {}
    /\ todo' = [todo EXCEPT ![c] = @ \ {r}]
    /\ notes' = [notes EXCEPT ![c] = @ \union {r}]
    /\ touched' = Unseen(c, Inside[r])
    /\ UNCHANGED <<disk, tl, locks, phase, base, roots, passes, found, unknown,
                   mark, reported, edits, start>>

\* A change before the call was made outside agent.d.
AcceptOutside(c) ==
    /\ phase[c] = "before"
    /\ \E x \in found[c] :
         /\ tl' = [tl EXCEPT ![x.file] = AcknowledgeOutside(@, disk[x.file])]
         /\ found' = [found EXCEPT ![c] = @ \ {x}]
    /\ UNCHANGED <<disk, locks, phase, base, roots, passes, todo, unknown,
                   mark, reported, notes, edits, past>>

\* A call that cannot run programs accepts outside edits directly.
AcceptAll(c) ==
    /\ phase[c] = "accept"
    /\ todo[c] # {}
    /\ tl' = [f \in Files |-> IF f \in FilesIn(todo[c])
                              THEN AcknowledgeOutside(tl[f], disk[f]) ELSE tl[f]]
    /\ roots' = [roots EXCEPT ![c] = todo[c]]
    /\ todo' = [todo EXCEPT ![c] = {}]
    /\ UNCHANGED <<disk, locks, phase, base, passes, found, unknown, mark,
                   reported, notes, edits, past>>

\* The action is called, with what is captured passed on to it.
Run(c) ==
    /\ phase[c] \in {"before", "accept"}
    /\ todo[c] = {} /\ found[c] = {}
    /\ phase' = [phase EXCEPT ![c] = "running"]
    /\ mark' = [mark EXCEPT ![c] = [f \in Files |-> tl[f].current]]
    /\ passes' = [passes EXCEPT ![c] =
                    [roots |-> Given(c).roots \union roots[c],
                     scans |-> Given(c).scans \/ c \in Programs]]
    /\ UNCHANGED <<disk, tl, locks, scans, reported, edits, past>>

-----------------------------------------------------------------------------
(* While a call runs.                                                      *)

Reach(c) == FilesIn(Wants[c])

Room(f) == Len(tl[f].changes) < MaxChanges

Kinds(w, f) == [c \in Calls |-> {Kind(w, c, f)}]

\* `ctx.fs.write` and `ctx.fs.remove`
Write(c, f, image) ==
    /\ Acts(c) /\ f \in Reach(c) /\ Room(f)
    /\ image # disk[f]
    /\ InStep(tl[f], disk[f])
    /\ disk' = [disk EXCEPT ![f] = image]
    /\ tl' = [tl EXCEPT ![f] = Mutate(@, disk[f], image)]
    /\ Touch(Kinds(c, f), f)
    /\ UNCHANGED <<locks, scans, phase, passes, mark, reported, edits, start>>

\* `ctx.fs.undo`
UndoChange(c, f) ==
    /\ Acts(c) /\ f \in Reach(c)
    /\ tl[f].current # 0
    /\ InStep(tl[f], disk[f])
    /\ Reachable(tl[f], UndoTarget(tl[f]))
    /\ disk' = [disk EXCEPT ![f] = JumpImage(tl[f], @, UndoTarget(tl[f]))]
    /\ tl' = [tl EXCEPT ![f] = Undo(@)]
    /\ Touch(Kinds(c, f), f)
    /\ UNCHANGED <<locks, scans, phase, passes, mark, reported, edits, start>>

\* `ctx.fs.read` accepts what it finds (`acknowledge_seen`), and so moves the
\* history of a file on behalf of other calls.
Read(c, f) ==
    /\ Acts(c) /\ f \in Reach(c)
    /\ disk[f] # Absent
    /\ tl' = [tl EXCEPT ![f] = AcknowledgeSeen(@, disk[f], disk[f])]
    /\ Touch([d \in Calls |->
                IF InStep(tl[f], disk[f]) \/ d = c THEN {}
                ELSE IF d \in Above[c] THEN {"nested"} ELSE {"free"}], f)
    /\ UNCHANGED <<disk, locks, scans, phase, passes, mark, reported, edits,
                   start>>

Changed(kinds, f, image) ==
    /\ edits < MaxEdits
    /\ edits' = edits + 1
    /\ image # disk[f]
    /\ disk' = [disk EXCEPT ![f] = image]
    /\ Touch(kinds, f)
    /\ UNCHANGED <<tl, locks, scans, phase, passes, mark, reported, start>>

\* A program the call runs changes a file.  Calls around it that do not scan
\* can learn of it only in folders this call has to scan, if it could.
Program(c, f, image) ==
    /\ Acts(c) /\ f \in Reach(c)
    /\ c \in Programs
    /\ Changed([d \in Calls |->
                  IF Kind(c, d, f) # "nested" THEN Kinds(c, f)[d]
                  ELSE IF \/ Given(c).scans
                          \/ f \in FilesIn(Enclosed(c) \ notes[c])
                  THEN {"program"} ELSE {"unseen"}], f, image)

\* Somebody else saves the file.
OutsideEdit(f, image) == Changed([c \in Calls |-> {"free"}], f, image)

-----------------------------------------------------------------------------
(* After a call (`Capture::finish`).                                       *)

\* A script ends, or goes on in tasks that are still calling.
End(c) ==
    /\ Acts(c)
    /\ IF c \in Programs \/ roots[c] = {}
       THEN /\ phase' = [phase EXCEPT ![c] = "after"]
            /\ todo' = [todo EXCEPT ![c] = roots[c]]
       ELSE /\ phase' = [phase EXCEPT ![c] = "report"]
            /\ UNCHANGED todo
    /\ UNCHANGED <<disk, tl, locks, base, roots, passes, found, unknown, mark,
                   reported, notes, edits, past>>

\* `moved_since`: the files that history moved and that are where it left them.
ReportMoved(c) ==
    /\ phase[c] = "report"
    /\ reported' = [reported EXCEPT ![c] =
                      {f \in FilesIn(roots[c]) :
                         tl[f].current # mark[c][f] /\ disk[f] = Expected(tl[f])}]
    /\ phase' = [phase EXCEPT ![c] = "release"]
    /\ UNCHANGED <<disk, tl, locks, scans, passes, mark, edits, past>>

ScanAfter(c, r) ==
    /\ phase[c] = "after"
    /\ Scan(c, r)
    /\ UNCHANGED <<disk, tl, locks, phase, roots, passes, unknown, mark,
                   reported, notes, edits, past>>

\* `expected_revision`: has file history got this change already?
Judge(c) ==
    /\ phase[c] = "after"
    /\ unknown[c] = {}
    /\ \E x \in found[c] :
         /\ found' = [found EXCEPT ![c] = @ \ {x}]
         /\ IF Tracked(tl[x.file]) /\ Expected(tl[x.file]) = x.after
            THEN /\ reported' = [reported EXCEPT ![c] = @ \union {x.file}]
                 /\ UNCHANGED unknown
            ELSE /\ unknown' = [unknown EXCEPT ![c] = {x}]
                 /\ UNCHANGED reported
    /\ UNCHANGED <<disk, tl, locks, phase, base, roots, passes, todo, mark,
                   notes, edits, past>>

\* `record_external`
Record(c) ==
    /\ \E x \in unknown[c] :
         /\ tl' = [tl EXCEPT ![x.file] = PushExternal(@, x.before, x.after)]
         /\ reported' = [reported EXCEPT ![c] = @ \union {x.file}]
    /\ unknown' = [unknown EXCEPT ![c] = {}]
    /\ UNCHANGED <<disk, locks, phase, base, roots, passes, todo, found, mark,
                   notes, edits, past>>

Finish(c) ==
    /\ phase[c] = "after"
    /\ todo[c] = {} /\ found[c] = {} /\ unknown[c] = {}
    /\ phase' = [phase EXCEPT ![c] = "release"]
    /\ UNCHANGED <<disk, tl, locks, scans, passes, mark, reported, edits, past>>

\* The call is dropped where it stands, after the calls it made.  What it did
\* is not looked at.
Drop(c) ==
    /\ phase[c] \notin Done \union {"release", "notify"}
    /\ Parallel \/ ~Busy(c)
    /\ LetGo(c, Unseen(c, FilesIn(roots[c])))
    /\ pending' = [pending EXCEPT ![c] = {}]
    /\ todo' = [todo EXCEPT ![c] = {}]
    /\ found' = [found EXCEPT ![c] = {}]
    /\ unknown' = [unknown EXCEPT ![c] = {}]
    /\ UNCHANGED <<disk, tl, base, woken, edits>>

\* The snapshot of a folder no call is at is dropped (`evict_idle`).
Expire(r) ==
    /\ base[r] # NoBase
    /\ \A c \in Calls : r \in roots[c] => phase[c] \in Done
    /\ base' = [base EXCEPT ![r] = NoBase]
    /\ UNCHANGED <<disk, tl, locks, phase, roots, passes, todo, found, unknown,
                   mark, reported, notes, edits, past>>

-----------------------------------------------------------------------------
Next ==
    \/ \E c \in Calls :
         \/ TakeFolders(c) \/ ScanWithin(c) \/ CaptureNothing(c)
         \/ Register(c) \/ TryLock(c) \/ Sleep(c) \/ Wake(c) \/ TimeOut(c)
         \/ Release(c) \/ Notify(c)
         \/ AcceptOutside(c) \/ AcceptAll(c) \/ Run(c)
         \/ End(c) \/ ReportMoved(c) \/ Judge(c) \/ Record(c) \/ Finish(c)
         \/ Drop(c)
         \/ \E r \in Folders :
              ScanBefore(c, r) \/ ScanFails(c, r) \/ ScanAfter(c, r)
         \/ \E f \in Files :
              \/ UndoChange(c, f) \/ Read(c, f)
              \/ \E image \in Contents[f] :
                   Write(c, f, image) \/ Program(c, f, image)
    \/ \E r \in Folders : Expire(r)
    \/ \E f \in Files : \E image \in Contents[f] : OutsideEdit(f, image)

Spec == Init /\ [][Next]_vars

-----------------------------------------------------------------------------
(* Properties.                                                             *)

Phase == {"idle", "lock", "check", "looked", "asleep", "before", "accept", "running",
          "report", "after", "release", "notify", "over"}

Seen == [file : Files, before : Image, after : Image]

TypeOK ==
    /\ disk \in [Files -> Image]
    /\ tl \in [Files -> Timeline]
    /\ \A r \in Folders : base[r] # NoBase => base[r] \in [Inside[r] -> Image]
    /\ phase \in [Calls -> Phase]
    /\ {pending, held, roots, todo, notes} \subseteq [Calls -> SUBSET Folders]
    /\ woken \in [Calls -> BOOLEAN]
    /\ passes \in [Calls -> [roots : SUBSET Folders, scans : BOOLEAN]]
    /\ {found, unknown} \subseteq [Calls -> SUBSET Seen]
    /\ mark \in [Calls -> [Files -> Nat]]
    /\ reported \in [Calls -> SUBSET Files]
    /\ \A c \in Calls : pending[c] # {} => phase[c] \in {"lock", "check", "looked", "asleep"}
    /\ \A c \in Calls : unknown[c] # {} => phase[c] = "after"

\* Two calls never hold folders that overlap, and a call that could have a
\* folder does not sleep on: the release was announced to it, or is about to.
FoldersTakeTurns ==
    /\ \A c, d \in Calls : \A r \in held[c], q \in held[d] :
         Overlaps(r, q) => c = d
    /\ \A c \in Calls :
         /\ phase[c] = "asleep" /\ ~woken[c]
         /\ \E r \in pending[c] : IsFree(r)
         => \E d \in Calls : phase[d] = "notify"

\* "each call's changes are its own": no call reports a file that another
\* call, one that captures its own changes to that file, changed meanwhile.
CreditedToItsCall ==
    \A c \in Calls : \A f \in reported[c] : "other" \notin touched[c][f]

\* "What changed during the call is reported": a call that scans reports what
\* it and the calls inside it changed in its folders, and another one what it
\* wrote itself and what programs of the calls inside it did, unless it notes
\* the folder as untracked or somebody nobody captures had a hand in it.  (A
\* file whose history a call inside moved through `ctx.fs`, and that a program
\* then put back, is left out by a call that reads its changes from history.)
ReportsChanges(c) ==
    phase[c] = "release" =>
        \A r \in roots[c] \ notes[c] : \A f \in Inside[r] :
            /\ touched[c][f] \subseteq {"own", "program"}
                   \union IF c \in Programs THEN {"nested"} ELSE {}
            /\ disk[f] # start[c][f]
            => f \in reported[c]

\* Every call reports what was changed in its folders while it ran.
ChangesAreReported == \A c \in Calls : ReportsChanges(c)

\* A call made inside another is a tool call of a runner, and those count as
\* calls that may run programs (`caller.runner`).
ToolsRunPrograms == \A c \in Calls : ParentOf[c] # NoCall => c \in Programs

\* A call that scans for a call around it may write what the programs of the
\* calls inside it may write there: grants decide whether it does.
ScannersCover ==
    \A d \in Programs : \A b \in Above[d] \ {d} : b \in Programs =>
        \A c \in Above[b] : \A h \in Wants[c] : \A f \in Inside[h] :
            (\E r \in Wants[d] : f \in Inside[r]) =>
                \E q \in Wants[b] : f \in Inside[q] /\ Within(q, h)

\* The changes found on disk fit into the history of a file like its own.
HistoryIsConsistent == \A f \in Files : ChangesFit(tl[f])

=============================================================================
