------------------------- MODULE FileCaptureProofs -------------------------
(***************************************************************************)
(* The safety properties of FileCapture, for any folders of one tree and   *)
(* any calls.  The types and the histories come first; then how calls hold *)
(* folders; then whose changes a call can see, which needs that the calls  *)
(* that are at work form one chain below the call that holds the folders;  *)
(* then that none is missed, by calls that scan and by calls that do not.  *)
(***************************************************************************)
EXTENDS FileCapture, FileTimelineProofs

\* Those who may have changed a file, as a call sees it.
Hand == {"own", "nested", "other", "free", "program", "unseen"}

HasFiles ==
    /\ disk \in [Files -> Image]
    /\ tl \in [Files -> Timeline]
    /\ \A f \in Files : Kept(tl[f])
    /\ base = [r \in Folders |-> base[r]]
    /\ \A r \in Folders : base[r] # NoBase => base[r] \in [Inside[r] -> Image]

HasCalls ==
    /\ phase \in [Calls -> Phase]
    /\ pending \in [Calls -> SUBSET Folders]
    /\ held \in [Calls -> SUBSET Folders]
    /\ woken \in [Calls -> BOOLEAN]
    /\ roots \in [Calls -> SUBSET Folders]
    /\ todo \in [Calls -> SUBSET Folders]
    /\ notes \in [Calls -> SUBSET Folders]
    /\ passes \in [Calls -> [roots : SUBSET Folders, scans : BOOLEAN]]

HasFindings ==
    /\ found \in [Calls -> SUBSET Seen]
    /\ unknown \in [Calls -> SUBSET Seen]
    /\ mark \in [Calls -> [Files -> Nat]]
    /\ reported \in [Calls -> SUBSET Files]
    /\ \A c \in Calls : pending[c] # {} => phase[c] \in {"lock", "check", "looked", "asleep"}
    /\ \A c \in Calls : unknown[c] # {} => phase[c] = "after"

HasPast ==
    /\ start \in [Calls -> [Files -> Image]]
    /\ touched \in [Calls -> [Files -> SUBSET Hand]]

\* The types, and a history for each file that is kept.
Typed == HasFiles /\ HasCalls /\ HasFindings /\ HasPast

-----------------------------------------------------------------------------
(* Types.                                                                  *)

LEMMA TypedIsTypeOK == Typed => TypeOK /\ HistoryIsConsistent
<1> SUFFICES ASSUME Typed PROVE TypeOK /\ HistoryIsConsistent
  OBVIOUS
<1>1. TypeOK
  BY DEF Typed, HasFiles, HasCalls, HasFindings, TypeOK
<1>2. ASSUME NEW f \in Files PROVE ChangesFit(tl[f])
  <2>1. \A i \in DOMAIN tl[f].changes : Sound(tl[f], i)
    BY DEF Typed, HasFiles, Kept, WellFormed
  <2> QED
    BY <2>1 DEF ChangesFit, Sound
<1> QED
  BY <1>1, <1>2 DEF HistoryIsConsistent

LEMMA KeptType ==
    ASSUME NEW t, Kept(t)
    PROVE  t \in Timeline /\ t.current \in Revisions(t) /\ t.current \in Nat
  BY TimelineType DEF Kept, WellFormed

\* A change found on disk is kept, and the history goes on from it.
LEMMA PushExternalIsKept ==
    ASSUME NEW t, Kept(t), NEW before \in Image, NEW after \in Image
    PROVE  LET u == PushExternal(t, before, after)
           IN Kept(u) /\ Tracked(u) /\ Expected(u) = after
<1> DEFINE from == IF Tracked(t) THEN Expected(t) ELSE before
           known == from \in {before, Absent} \/ Replays(t, before)
           sp == Splice(Bytes(from), Bytes(after))
           c == [parent |-> t.current, operation |-> "external",
                 restorable |-> known, before |-> from, after |-> after,
                 splice |-> IF known THEN sp ELSE EmptySplice]
<1>1. t \in Timeline /\ t.current \in Revisions(t) /\ t.current \in Nat
  BY KeptType
<1>2. from \in Image
  BY <1>1, StateAtType DEF Expected
<1> HIDE DEF from
<1>3. known \in BOOLEAN
  <2>1. Replays(t, before) \in BOOLEAN
    BY DEF Replays
  <2> QED
    BY <2>1
<1>4. /\ Replace(Bytes(from), sp.offset, sp.removed, sp.added) = Bytes(after)
      /\ Replace(Bytes(after), sp.offset, sp.added, sp.removed) = Bytes(from)
      /\ sp \in [offset : Nat, removed : Seq(Byte), added : Seq(Byte)]
  BY <1>2, SpliceInverts, BytesOfImage
<1> HIDE DEF sp
<1>5. EmptySplice \in [offset : Nat, removed : Seq(Byte), added : Seq(Byte)]
  BY DEF EmptySplice
<1> HIDE DEF known
<1>6. c \in Change
  BY <1>1, <1>2, <1>3, <1>4, <1>5 DEF Change, Operation
<1>7. c.restorable => Redone(c.before, c) = c.after /\ Undone(c.after, c) = c.before
  <2> SUFFICES ASSUME known
               PROVE  Redone(c.before, c) = c.after /\ Undone(c.after, c) = c.before
    OBVIOUS
  <2>1. /\ c.splice = sp /\ c.before = from /\ c.after = after
    OBVIOUS
  <2> HIDE DEF c
  <2> QED
    BY <2>1, <1>2, <1>4, BytesOfImage DEF Redone, Undone
<1>8. PushExternal(t, before, after) = Push(t, c)
  BY DEF PushExternal, from, known, sp
<1>9. c.parent = t.current /\ c.after = after /\ (Tracked(t) => c.before = Expected(t))
  BY DEF from
<1> HIDE DEF c
<1> QED
  BY <1>6, <1>7, <1>8, <1>9, PushIsKept

\* What is noted about who changed a file.
LEMMA TouchTyped ==
    ASSUME HasPast, NEW f \in Files, NEW kinds, \A c \in Calls : kinds[c] \in SUBSET Hand,
           Touch(kinds, f)
    PROVE  touched' \in [Calls -> [Files -> SUBSET Hand]]
<1>1. ASSUME NEW c \in Calls
      PROVE  (IF Capturing(c) THEN [touched[c] EXCEPT ![f] = @ \union kinds[c]]
              ELSE touched[c]) \in [Files -> SUBSET Hand]
  <2>1. touched[c] \in [Files -> SUBSET Hand] /\ kinds[c] \in SUBSET Hand
    BY DEF HasPast
  <2>2. touched[c][f] \union kinds[c] \in SUBSET Hand
    BY <2>1
  <2>3. [touched[c] EXCEPT ![f] = @ \union kinds[c]] \in [Files -> SUBSET Hand]
    BY <2>1, <2>2
  <2> QED
    BY <2>1, <2>3
<1> QED
  BY <1>1 DEF Touch

LEMMA UnseenTyped ==
    ASSUME HasPast, NEW w \in Calls, NEW files
    PROVE  Unseen(w, files) \in [Calls -> [Files -> SUBSET Hand]]
<1>1. ASSUME NEW c \in Calls
      PROVE  (IF Capturing(c) /\ c \in Above[w] \ {w}
              THEN [f \in Files |-> IF f \in files THEN touched[c][f] \union {"unseen"}
                                    ELSE touched[c][f]]
              ELSE touched[c]) \in [Files -> SUBSET Hand]
  <2>1. touched[c] \in [Files -> SUBSET Hand]
    BY DEF HasPast
  <2>2. ASSUME NEW f \in Files
        PROVE  (IF f \in files THEN touched[c][f] \union {"unseen"} ELSE touched[c][f])
                 \in SUBSET Hand
    BY <2>1 DEF Hand
  <2> QED
    BY <2>1, <2>2
<1> QED
  BY <1>1 DEF Unseen

LEMMA KindTyped ==
    ASSUME NEW w, NEW f, NEW c
    PROVE  Kind(w, c, f) \in Hand
<1>1. CASE w = c
  BY <1>1 DEF Kind, Hand
<1>2. CASE w # c /\ c \in Above[w]
  BY <1>2 DEF Kind, Hand
<1>3. CASE w # c /\ c \notin Above[w] /\ f \in FilesIn(passes[w].roots)
  BY <1>3 DEF Kind, Hand
<1>4. CASE w # c /\ c \notin Above[w] /\ f \notin FilesIn(passes[w].roots)
  BY <1>4 DEF Kind, Hand
<1> QED
  BY <1>1, <1>2, <1>3, <1>4

\* The call of the capture is dropped.
LEMMA LetGoTyped ==
    ASSUME Typed, NEW c \in Calls, NEW seen, LetGo(c, seen),
           seen \in [Calls -> [Files -> SUBSET Hand]]
    PROVE  /\ phase' \in [Calls -> Phase] /\ phase'[c] \in {"notify", "over"}
           /\ \A d \in Calls \ {c} : phase'[d] = phase[d]
           /\ held' \in [Calls -> SUBSET Folders]
           /\ roots' \in [Calls -> SUBSET Folders]
           /\ notes' \in [Calls -> SUBSET Folders]
           /\ passes' \in [Calls -> [roots : SUBSET Folders, scans : BOOLEAN]]
           /\ mark' \in [Calls -> [Files -> Nat]]
           /\ reported' \in [Calls -> SUBSET Files]
           /\ HasPast'
<1> USE DEF Typed, HasCalls, HasFindings, HasPast
<1>1. phase' \in [Calls -> Phase] /\ phase'[c] \in {"notify", "over"}
      /\ \A d \in Calls \ {c} : phase'[d] = phase[d]
  BY DEF LetGo, Phase
<1>2. /\ held' \in [Calls -> SUBSET Folders] /\ roots' \in [Calls -> SUBSET Folders]
      /\ notes' \in [Calls -> SUBSET Folders] /\ reported' \in [Calls -> SUBSET Files]
  BY DEF LetGo
<1>3. passes' \in [Calls -> [roots : SUBSET Folders, scans : BOOLEAN]]
  BY DEF LetGo, Nothing
<1>4. mark' \in [Calls -> [Files -> Nat]]
  BY DEF LetGo, NoMark
<1>5. start' \in [Calls -> [Files -> Image]]
  <2>1. NoFiles \in [Files -> Image]
    BY DEF NoFiles, Image
  <2> QED
    BY <2>1 DEF LetGo
<1>6. touched' \in [Calls -> [Files -> SUBSET Hand]]
  <2>1. Untouched \in [Files -> SUBSET Hand]
    BY DEF Untouched
  <2> QED
    BY <2>1 DEF LetGo
<1> QED
  BY <1>1, <1>2, <1>3, <1>4, <1>5, <1>6

\* A call starts to capture.
LEMMA BeginTyped ==
    ASSUME Typed, NEW c \in Calls, NEW folders \in SUBSET Folders, Begin(c, folders)
    PROVE  /\ phase' \in [Calls -> Phase] /\ phase'[c] \in {"before", "accept"}
           /\ \A d \in Calls \ {c} : phase'[d] = phase[d]
           /\ todo' \in [Calls -> SUBSET Folders]
           /\ HasPast'
<1> USE DEF Typed, HasCalls, HasFindings, HasPast
<1>1. phase' \in [Calls -> Phase] /\ phase'[c] \in {"before", "accept"}
      /\ \A d \in Calls \ {c} : phase'[d] = phase[d]
  BY DEF Begin, Phase
<1>2. todo' \in [Calls -> SUBSET Folders]
  BY DEF Begin
<1>3. HasPast'
  <2>1. Untouched \in [Files -> SUBSET Hand]
    BY DEF Untouched
  <2>2. disk \in [Files -> Image]
    BY DEF HasFiles
  <2> QED
    BY <2>1, <2>2 DEF Begin
<1> QED
  BY <1>1, <1>2, <1>3

LEMMA InitTyped == Init => Typed
<1> SUFFICES ASSUME Init PROVE Typed
  OBVIOUS
<1>1. HasFiles
  <2>1. disk \in [Files -> Image]
    <3>1. ASSUME NEW f \in Files PROVE disk[f] \in Image
      BY FoldersAssumption DEF Init
    <3>2. disk = [f \in Files |-> disk[f]]
      BY DEF Init
    <3> QED
      BY <3>1, <3>2
  <2>2. Kept(NewTimeline) /\ NewTimeline \in Timeline
    BY NewIsKept, KeptType
  <2> QED
    BY <2>1, <2>2 DEF Init, HasFiles
<1>2. HasCalls
  BY DEF Init, HasCalls, Phase, Nothing
<1>3. HasFindings
  BY DEF Init, HasFindings, NoMark
<1>4. HasPast
  BY DEF Init, HasPast, NoFiles, Untouched, Image
<1> QED
  BY <1>1, <1>2, <1>3, <1>4 DEF Typed

LEMMA ArrivalTyped ==
    ASSUME Typed, NEW c \in Calls
    PROVE  /\ TakeFolders(c) => Typed'
           /\ ScanWithin(c) => Typed'
           /\ CaptureNothing(c) => Typed'
<1> USE DEF Typed, HasCalls, HasFindings
<1>1. ASSUME TakeFolders(c) PROVE Typed'
  <2>1. Wants[c] \in SUBSET Folders
    BY FoldersAssumption
  <2>2. phase' \in [Calls -> Phase] /\ pending' \in [Calls -> SUBSET Folders]
    BY <1>1, <2>1 DEF TakeFolders, Phase
  <2>3. HasCalls' /\ HasFindings'
    BY <1>1, <2>2 DEF TakeFolders, Arrives
  <2> QED
    BY <1>1, <2>3 DEF TakeFolders, HasFiles, HasPast
<1>2. ASSUME ScanWithin(c) PROVE Typed'
  <2>1. Enclosed(c) \in SUBSET Folders
    BY FoldersAssumption DEF Enclosed
  <2>2. Arrives(c) /\ Begin(c, Enclosed(c))
        /\ UNCHANGED <<disk, tl, locks, base, roots, passes, found, unknown,
                       mark, reported, notes, edits>>
    BY <1>2 DEF ScanWithin
  <2>3. /\ phase' \in [Calls -> Phase] /\ phase'[c] \in {"before", "accept"}
        /\ \A d \in Calls \ {c} : phase'[d] = phase[d]
        /\ todo' \in [Calls -> SUBSET Folders] /\ HasPast'
    BY <2>1, <2>2, BeginTyped
  <2>4. pending[c] = {} /\ unknown[c] = {}
    BY <2>2 DEF Arrives
  <2>5. HasCalls' /\ HasFindings'
    BY <2>2, <2>3, <2>4 DEF locks
  <2> QED
    BY <2>2, <2>3, <2>5 DEF HasFiles
<1>3. ASSUME CaptureNothing(c) PROVE Typed'
  <2>1. Given(c) \in [roots : SUBSET Folders, scans : BOOLEAN]
    BY FoldersAssumption DEF Given, Nothing
  <2>2. HasCalls' /\ HasFindings'
    BY <1>3, <2>1 DEF CaptureNothing, Arrives, locks, scans, Phase
  <2> QED
    BY <1>3, <2>2 DEF CaptureNothing, HasFiles, HasPast, scans, past
<1> QED
  BY <1>1, <1>2, <1>3

LEMMA LockTyped ==
    ASSUME Typed, NEW c \in Calls
    PROVE  /\ Register(c) => Typed'
           /\ TryLock(c) => Typed'
           /\ Sleep(c) => Typed'
           /\ Wake(c) => Typed'
           /\ TimeOut(c) => Typed'
<1> USE DEF Typed, HasCalls, HasFindings
<1>1. ASSUME Register(c) PROVE Typed'
  <2>1. HasCalls' /\ HasFindings'
    BY <1>1 DEF Register, scans, Phase
  <2> QED
    BY <1>1, <2>1 DEF Register, HasFiles, HasPast, scans, past
<1>2. ASSUME TryLock(c) PROVE Typed'
  <2> DEFINE got == {r \in pending[c] : IsFree(r)}
  <2>1. got \in SUBSET Folders /\ got \subseteq pending[c]
    OBVIOUS
  <2>2. /\ phase[c] = "check"
        /\ held' = [held EXCEPT ![c] = @ \union got]
        /\ pending' = [pending EXCEPT ![c] = @ \ got]
        /\ IF pending[c] = got
           THEN Begin(c, held[c] \union got)
           ELSE /\ phase' = [phase EXCEPT ![c] = "looked"]
                /\ UNCHANGED <<todo, past>>
        /\ UNCHANGED <<disk, tl, base, woken, roots, passes, found, unknown,
                       mark, reported, notes, edits>>
    BY <1>2 DEF TryLock
  <2> HIDE DEF got
  <2>3. held' \in [Calls -> SUBSET Folders] /\ pending' \in [Calls -> SUBSET Folders]
    BY <2>1, <2>2
  <2>4. /\ pending' = [pending EXCEPT ![c] = pending[c] \ got]
        /\ pending[c] = got => pending'[c] = {}
        /\ \A d \in Calls \ {c} : pending'[d] = pending[d]
    BY <2>1, <2>2
  <2>5. /\ phase' \in [Calls -> Phase]
        /\ pending'[c] # {} => phase'[c] \in {"lock", "check", "looked", "asleep"}
        /\ \A d \in Calls \ {c} : phase'[d] = phase[d]
        /\ todo' \in [Calls -> SUBSET Folders] /\ HasPast'
    <3>1. CASE pending[c] = got
      BY <2>1, <2>2, <2>4, <3>1, BeginTyped
    <3>2. CASE pending[c] # got
      BY <2>2, <3>2 DEF Phase, past, HasPast
    <3> QED
      BY <3>1, <3>2
  <2>6. unknown[c] = {}
    BY <2>2
  <2>7. HasCalls' /\ HasFindings'
    BY <2>2, <2>3, <2>4, <2>5, <2>6
  <2> QED
    BY <2>2, <2>5, <2>7 DEF HasFiles
<1>3. ASSUME Sleep(c) PROVE Typed'
  <2>1. HasCalls' /\ HasFindings'
    BY <1>3 DEF Sleep, scans, locks, Phase
  <2> QED
    BY <1>3, <2>1 DEF Sleep, HasFiles, HasPast, scans, past
<1>4. ASSUME Wake(c) PROVE Typed'
  <2>1. HasCalls' /\ HasFindings'
    BY <1>4 DEF Wake, scans, locks, Phase
  <2> QED
    BY <1>4, <2>1 DEF Wake, HasFiles, HasPast, scans, past
<1>5. ASSUME TimeOut(c) PROVE Typed'
  <2>1. /\ phase[c] = "asleep" /\ Begin(c, held[c])
        /\ notes' = [notes EXCEPT ![c] = @ \union pending[c]]
        /\ pending' = [pending EXCEPT ![c] = {}]
        /\ UNCHANGED <<disk, tl, base, held, woken, roots, passes, found, unknown,
                       mark, reported, edits>>
    BY <1>5 DEF TimeOut
  <2>2. /\ phase' \in [Calls -> Phase] /\ phase'[c] \in {"before", "accept"}
        /\ \A d \in Calls \ {c} : phase'[d] = phase[d]
        /\ todo' \in [Calls -> SUBSET Folders] /\ HasPast'
    BY <2>1, BeginTyped
  <2>3. HasCalls' /\ HasFindings'
    BY <2>1, <2>2
  <2> QED
    BY <2>1, <2>2, <2>3 DEF HasFiles
<1> QED
  BY <1>1, <1>2, <1>3, <1>4, <1>5

LEMMA EndTyped ==
    ASSUME Typed, NEW c \in Calls
    PROVE  /\ Release(c) => Typed'
           /\ Notify(c) => Typed'
           /\ Drop(c) => Typed'
<1> USE DEF Typed, HasCalls, HasFindings
<1>1. ASSUME Release(c) PROVE Typed'
  <2>1. /\ phase[c] = "release" /\ LetGo(c, touched)
        /\ UNCHANGED <<disk, tl, base, pending, woken, todo, found, unknown, edits>>
    BY <1>1 DEF Release
  <2>2. touched \in [Calls -> [Files -> SUBSET Hand]]
    BY DEF HasPast
  <2>3. pending[c] = {} /\ unknown[c] = {}
    BY <2>1
  <2> QED
    BY <2>1, <2>2, <2>3, LetGoTyped DEF HasFiles
<1>2. ASSUME Notify(c) PROVE Typed'
  <2>1. woken' \in [Calls -> BOOLEAN] /\ phase' \in [Calls -> Phase]
    BY <1>2 DEF Notify, Phase
  <2>2. HasCalls' /\ HasFindings'
    BY <1>2, <2>1 DEF Notify, scans
  <2> QED
    BY <1>2, <2>2 DEF Notify, HasFiles, HasPast, scans, past
<1>3. ASSUME Drop(c) PROVE Typed'
  <2>1. /\ LetGo(c, Unseen(c, FilesIn(roots[c])))
        /\ pending' = [pending EXCEPT ![c] = {}]
        /\ todo' = [todo EXCEPT ![c] = {}]
        /\ found' = [found EXCEPT ![c] = {}]
        /\ unknown' = [unknown EXCEPT ![c] = {}]
        /\ UNCHANGED <<disk, tl, base, woken, edits>>
    BY <1>3 DEF Drop
  <2>2. Unseen(c, FilesIn(roots[c])) \in [Calls -> [Files -> SUBSET Hand]]
    BY UnseenTyped
  <2> QED
    BY <2>1, <2>2, LetGoTyped DEF HasFiles
<1> QED
  BY <1>1, <1>2, <1>3

\* A history goes on.
LEMMA HistoryTyped ==
    ASSUME HasFiles, NEW f \in Files, NEW u, Kept(u), tl' = [tl EXCEPT ![f] = u]
    PROVE  tl' \in [Files -> Timeline] /\ \A g \in Files : Kept(tl'[g])
  BY KeptType DEF HasFiles

LEMMA ChangesTyped ==
    ASSUME Typed, NEW r \in Folders
    PROVE  Changes(r) \in SUBSET [file : Inside[r], before : Image, after : Image]
<1>1. CASE base[r] = NoBase
  BY <1>1 DEF Changes
<1>2. CASE base[r] # NoBase
  <2>1. base[r] \in [Inside[r] -> Image] /\ Inside[r] \subseteq Files /\ disk \in [Files -> Image]
    BY <1>2, FoldersAssumption DEF Typed, HasFiles
  <2> QED
    BY <1>2, <2>1 DEF Changes
<1> QED
  BY <1>1, <1>2

LEMMA ScanTyped ==
    ASSUME Typed, NEW c \in Calls, NEW r \in Folders, Scan(c, r), UNCHANGED <<disk, tl>>
    PROVE  /\ HasFiles'
           /\ found' \in [Calls -> SUBSET Seen] /\ todo' \in [Calls -> SUBSET Folders]
<1>1. Inside[r] \subseteq Files /\ disk \in [Files -> Image]
  BY FoldersAssumption DEF Typed, HasFiles
<1>2. Changes(r) \in SUBSET Seen
  BY <1>1, ChangesTyped DEF Seen
<1>3. found' \in [Calls -> SUBSET Seen] /\ todo' \in [Calls -> SUBSET Folders]
  BY <1>2 DEF Scan, Typed, HasCalls, HasFindings
<1>4. HasFiles'
  <2> DEFINE b == [f \in Inside[r] |-> disk[f]]
  <2>1. b \in [Inside[r] -> Image]
    BY <1>1
  <2>2. base' = [base EXCEPT ![r] = b] /\ base = [q \in Folders |-> base[q]]
    BY DEF Scan, Typed, HasFiles
  <2> HIDE DEF b
  <2>3. base' = [q \in Folders |-> base'[q]]
    BY <2>2
  <2>4. ASSUME NEW q \in Folders, base'[q] # NoBase PROVE base'[q] \in [Inside[q] -> Image]
    BY <2>1, <2>2, <2>4 DEF Typed, HasFiles
  <2> QED
    BY <2>3, <2>4 DEF Typed, HasFiles
<1> QED
  BY <1>3, <1>4

LEMMA BeforeTyped ==
    ASSUME Typed, NEW c \in Calls
    PROVE  /\ \A r \in Folders : ScanBefore(c, r) => Typed'
           /\ \A r \in Folders : ScanFails(c, r) => Typed'
           /\ AcceptOutside(c) => Typed'
           /\ AcceptAll(c) => Typed'
           /\ Run(c) => Typed'
<1>1. ASSUME NEW r \in Folders, ScanBefore(c, r) PROVE Typed'
  <2>1. /\ HasFiles'
        /\ found' \in [Calls -> SUBSET Seen] /\ todo' \in [Calls -> SUBSET Folders]
    BY <1>1, ScanTyped DEF ScanBefore
  <2>2. HasCalls' /\ HasFindings' /\ HasPast'
    BY <1>1, <2>1 DEF ScanBefore, Typed, HasCalls, HasFindings, HasPast, locks, past
  <2> QED
    BY <2>1, <2>2 DEF Typed
<1>2. ASSUME NEW r \in Folders, ScanFails(c, r) PROVE Typed'
  <2>1. HasFiles' /\ HasCalls' /\ HasFindings'
    BY <1>2 DEF ScanFails, Typed, HasFiles, HasCalls, HasFindings, locks
  <2>2. HasPast'
    BY <1>2, UnseenTyped DEF ScanFails, Typed, HasPast
  <2> QED
    BY <2>1, <2>2 DEF Typed
<1>3. ASSUME AcceptOutside(c) PROVE Typed'
  <2>1. PICK x \in found[c] :
          /\ tl' = [tl EXCEPT ![x.file] = AcknowledgeOutside(tl[x.file], disk[x.file])]
          /\ found' = [found EXCEPT ![c] = found[c] \ {x}]
    BY <1>3 DEF AcceptOutside
  <2>2. x.file \in Files /\ disk[x.file] \in Image /\ Kept(tl[x.file])
    BY DEF Typed, HasFiles, HasFindings, Seen
  <2>3. tl' \in [Files -> Timeline] /\ \A g \in Files : Kept(tl'[g])
    BY <2>1, <2>2, AcknowledgeIsKept, HistoryTyped DEF Typed
  <2>4. HasFiles'
    BY <1>3, <2>3 DEF AcceptOutside, Typed, HasFiles
  <2>5. HasCalls' /\ HasFindings' /\ HasPast'
    BY <1>3, <2>1 DEF AcceptOutside, Typed, HasCalls, HasFindings, HasPast, locks, past
  <2> QED
    BY <2>4, <2>5 DEF Typed
<1>4. ASSUME AcceptAll(c) PROVE Typed'
  <2>1. ASSUME NEW f \in Files
        PROVE  Kept(IF f \in FilesIn(todo[c])
                    THEN AcknowledgeOutside(tl[f], disk[f]) ELSE tl[f])
    BY AcknowledgeIsKept DEF Typed, HasFiles
  <2>2. tl' \in [Files -> Timeline] /\ \A g \in Files : Kept(tl'[g])
    BY <1>4, <2>1, KeptType DEF AcceptAll
  <2>3. HasFiles'
    BY <1>4, <2>2 DEF AcceptAll, Typed, HasFiles
  <2>4. HasCalls' /\ HasFindings' /\ HasPast'
    BY <1>4 DEF AcceptAll, Typed, HasCalls, HasFindings, HasPast, locks, past
  <2> QED
    BY <2>3, <2>4 DEF Typed
<1>5. ASSUME Run(c) PROVE Typed'
  <2>1. Given(c) \in [roots : SUBSET Folders, scans : BOOLEAN]
    BY FoldersAssumption DEF Given, Nothing, Typed, HasCalls
  <2>2. [roots |-> Given(c).roots \union roots[c], scans |-> Given(c).scans \/ c \in Programs]
          \in [roots : SUBSET Folders, scans : BOOLEAN]
    BY <2>1 DEF Typed, HasCalls
  <2>3. \A f \in Files : tl[f].current \in Nat
    BY KeptType DEF Typed, HasFiles
  <2>4. phase' = [phase EXCEPT ![c] = "running"] /\ phase[c] \in {"before", "accept"}
        /\ mark' = [mark EXCEPT ![c] = [f \in Files |-> tl[f].current]]
        /\ UNCHANGED <<disk, tl, locks, scans, reported, edits, past>>
    BY <1>5 DEF Run
  <2>5. HasCalls'
    BY <1>5, <2>2, <2>4 DEF Run, Typed, HasCalls, Phase, locks, scans
  <2>6. HasFindings'
    BY <2>3, <2>4 DEF Typed, HasFindings, HasCalls, locks, scans
  <2> QED
    BY <2>4, <2>5, <2>6 DEF Typed, HasFiles, HasPast, scans, past
<1> QED
  BY <1>1, <1>2, <1>3, <1>4, <1>5

LEMMA RunningTyped ==
    ASSUME Typed, NEW c \in Calls, NEW f \in Files
    PROVE  /\ \A image \in Contents[f] : Write(c, f, image) => Typed'
           /\ UndoChange(c, f) => Typed'
           /\ Read(c, f) => Typed'
           /\ \A image \in Contents[f] : Program(c, f, image) => Typed'
<1>1. Kept(tl[f]) /\ disk[f] \in Image /\ disk \in [Files -> Image]
      /\ Contents[f] \subseteq Image
  BY FoldersAssumption DEF Typed, HasFiles
<1>2. \A d \in Calls : Kinds(c, f)[d] \in SUBSET Hand
  BY KindTyped DEF Kinds
<1>3. ASSUME NEW image \in Contents[f], Write(c, f, image) PROVE Typed'
  <2>1. tl' \in [Files -> Timeline] /\ \A g \in Files : Kept(tl'[g])
    <3>1. Kept(Mutate(tl[f], disk[f], image))
      BY <1>1, <1>3, MutateIsKept DEF Write
    <3> QED
      BY <1>3, <3>1, HistoryTyped DEF Write, Typed
  <2>2. HasFiles'
    BY <1>1, <1>3, <2>1 DEF Write, Typed, HasFiles, scans
  <2>3. HasPast'
    BY <1>2, <1>3, TouchTyped DEF Write, Typed, HasPast
  <2>4. HasCalls' /\ HasFindings'
    BY <1>3 DEF Write, Typed, HasCalls, HasFindings, locks, scans
  <2> QED
    BY <2>2, <2>3, <2>4 DEF Typed
<1>4. ASSUME UndoChange(c, f) PROVE Typed'
  <2>1. tl' \in [Files -> Timeline] /\ \A g \in Files : Kept(tl'[g])
    <3>1. Kept(Undo(tl[f]))
      BY <1>1, <1>4, UndoIsKept DEF UndoChange
    <3> QED
      BY <1>4, <3>1, HistoryTyped DEF UndoChange, Typed
  <2>2. JumpImage(tl[f], disk[f], UndoTarget(tl[f])) \in Image
    <3>1. tl[f].current # 0 /\ Reachable(tl[f], UndoTarget(tl[f])) /\ InStep(tl[f], disk[f])
      BY <1>4 DEF UndoChange
    <3>2. Tracked(tl[f])
      BY <1>1, <3>1, TimelineType DEF Kept, WellFormed, Revisions, Tracked
    <3>3. disk[f] = Expected(tl[f]) /\ UndoTarget(tl[f]) \in Revisions(tl[f])
      BY <3>1, <3>2 DEF InStep, Reachable
    <3> QED
      BY <1>1, <3>1, <3>2, <3>3, JumpLands DEF Kept
  <2>3. disk' = [disk EXCEPT ![f] = JumpImage(tl[f], disk[f], UndoTarget(tl[f]))]
    BY <1>4 DEF UndoChange
  <2>4. disk' \in [Files -> Image]
    BY <1>1, <2>2, <2>3
  <2>5. HasFiles'
    BY <1>4, <2>1, <2>4 DEF UndoChange, Typed, HasFiles, scans
  <2>6. HasPast'
    BY <1>2, <1>4, TouchTyped DEF UndoChange, Typed, HasPast
  <2>7. HasCalls' /\ HasFindings'
    BY <1>4 DEF UndoChange, Typed, HasCalls, HasFindings, locks, scans
  <2> QED
    BY <2>5, <2>6, <2>7 DEF Typed
<1>5. ASSUME Read(c, f) PROVE Typed'
  <2>1. tl' \in [Files -> Timeline] /\ \A g \in Files : Kept(tl'[g])
    <3>1. Kept(AcknowledgeSeen(tl[f], disk[f], disk[f]))
      BY <1>1, AcknowledgeIsKept DEF AcknowledgeSeen
    <3> QED
      BY <1>5, <3>1, HistoryTyped DEF Read, Typed
  <2>2. HasFiles'
    BY <1>5, <2>1 DEF Read, Typed, HasFiles, scans
  <2> DEFINE kinds == [d \in Calls |->
                         IF InStep(tl[f], disk[f]) \/ d = c THEN {}
                         ELSE IF d \in Above[c] THEN {"nested"} ELSE {"free"}]
  <2>3. \A d \in Calls : kinds[d] \in SUBSET Hand
    BY DEF Hand
  <2>4. Touch(kinds, f)
    BY <1>5 DEF Read
  <2> HIDE DEF kinds
  <2>5. HasPast'
    BY <1>5, <2>3, <2>4, TouchTyped DEF Read, Typed, HasPast
  <2>6. HasCalls' /\ HasFindings'
    BY <1>5 DEF Read, Typed, HasCalls, HasFindings, locks, scans
  <2> QED
    BY <2>2, <2>5, <2>6 DEF Typed
<1>6. ASSUME NEW image \in Contents[f], Program(c, f, image) PROVE Typed'
  <2> DEFINE kinds == [d \in Calls |->
                  IF Kind(c, d, f) # "nested" THEN Kinds(c, f)[d]
                  ELSE IF \/ Given(c).scans
                          \/ f \in FilesIn(Enclosed(c) \ notes[c])
                  THEN {"program"} ELSE {"unseen"}]
  <2>1. \A d \in Calls : kinds[d] \in SUBSET Hand
    BY <1>2 DEF Hand
  <2>2. Changed(kinds, f, image)
    BY <1>6 DEF Program
  <2> HIDE DEF kinds
  <2>3. HasPast'
    BY <2>1, <2>2, TouchTyped DEF Changed, Typed, HasPast
  <2>4. HasFiles'
    BY <1>1, <2>2 DEF Changed, Typed, HasFiles, scans
  <2>5. HasCalls' /\ HasFindings'
    BY <2>2 DEF Changed, Typed, HasCalls, HasFindings, locks, scans
  <2> QED
    BY <2>3, <2>4, <2>5 DEF Typed
<1> QED
  BY <1>3, <1>4, <1>5, <1>6

LEMMA AfterTyped ==
    ASSUME Typed, NEW c \in Calls
    PROVE  /\ End(c) => Typed'
           /\ ReportMoved(c) => Typed'
           /\ \A r \in Folders : ScanAfter(c, r) => Typed'
           /\ Judge(c) => Typed'
           /\ Record(c) => Typed'
           /\ Finish(c) => Typed'
<1>1. ASSUME End(c) PROVE Typed'
  <2>1. /\ phase' \in [Calls -> Phase] /\ todo' \in [Calls -> SUBSET Folders]
        /\ \A d \in Calls \ {c} : phase'[d] = phase[d]
        /\ phase[c] = "running"
    BY <1>1 DEF End, Acts, Typed, HasCalls, Phase
  <2>2. HasCalls' /\ HasFindings'
    BY <1>1, <2>1 DEF End, Typed, HasCalls, HasFindings, locks
  <2> QED
    BY <1>1, <2>2 DEF End, Typed, HasFiles, HasPast, past
<1>2. ASSUME ReportMoved(c) PROVE Typed'
  <2>1. FilesIn(roots[c]) \subseteq Files
    BY FoldersAssumption DEF FilesIn, Typed, HasCalls
  <2>2. reported' \in [Calls -> SUBSET Files]
    BY <1>2, <2>1 DEF ReportMoved, Typed, HasFindings
  <2>3. HasCalls' /\ HasFindings'
    BY <1>2, <2>2 DEF ReportMoved, Typed, HasCalls, HasFindings, Phase, locks, scans
  <2> QED
    BY <1>2, <2>3 DEF ReportMoved, Typed, HasFiles, HasPast, scans, past
<1>3. ASSUME NEW r \in Folders, ScanAfter(c, r) PROVE Typed'
  <2>1. /\ HasFiles'
        /\ found' \in [Calls -> SUBSET Seen] /\ todo' \in [Calls -> SUBSET Folders]
    BY <1>3, ScanTyped DEF ScanAfter
  <2>2. HasCalls' /\ HasFindings' /\ HasPast'
    BY <1>3, <2>1 DEF ScanAfter, Typed, HasCalls, HasFindings, HasPast, locks, past
  <2> QED
    BY <2>1, <2>2 DEF Typed
<1>4. ASSUME Judge(c) PROVE Typed'
  <2>1. PICK x \in found[c] :
         /\ found' = [found EXCEPT ![c] = found[c] \ {x}]
         /\ IF Tracked(tl[x.file]) /\ Expected(tl[x.file]) = x.after
            THEN /\ reported' = [reported EXCEPT ![c] = reported[c] \union {x.file}]
                 /\ UNCHANGED unknown
            ELSE /\ unknown' = [unknown EXCEPT ![c] = {x}]
                 /\ UNCHANGED reported
    BY <1>4 DEF Judge
  <2>2. x \in Seen /\ x.file \in Files
    BY DEF Typed, HasFindings, Seen
  <2>3. /\ phase[c] = "after"
        /\ UNCHANGED <<disk, tl, locks, phase, base, roots, passes, todo, mark,
                       notes, edits, past>>
    BY <1>4 DEF Judge
  <2>4. /\ found' \in [Calls -> SUBSET Seen] /\ unknown' \in [Calls -> SUBSET Seen]
        /\ reported' \in [Calls -> SUBSET Files]
        /\ \A d \in Calls \ {c} : unknown'[d] = unknown[d]
    BY <2>1, <2>2 DEF Typed, HasFindings
  <2>5. HasFindings'
    BY <2>3, <2>4 DEF Typed, HasFindings, locks
  <2> QED
    BY <2>3, <2>5 DEF Typed, HasFiles, HasCalls, HasPast, locks, past
<1>5. ASSUME Record(c) PROVE Typed'
  <2>1. PICK x \in unknown[c] :
         /\ tl' = [tl EXCEPT ![x.file] = PushExternal(tl[x.file], x.before, x.after)]
         /\ reported' = [reported EXCEPT ![c] = reported[c] \union {x.file}]
    BY <1>5 DEF Record
  <2>2. x.file \in Files /\ x.before \in Image /\ x.after \in Image /\ Kept(tl[x.file])
    BY DEF Typed, HasFindings, HasFiles, Seen
  <2>3. tl' \in [Files -> Timeline] /\ \A g \in Files : Kept(tl'[g])
    BY <2>1, <2>2, PushExternalIsKept, HistoryTyped DEF Typed
  <2>4. /\ unknown' = [unknown EXCEPT ![c] = {}]
        /\ UNCHANGED <<disk, locks, phase, base, roots, passes, todo, found, mark,
                       notes, edits, past>>
    BY <1>5 DEF Record
  <2>5. HasFiles'
    BY <2>3, <2>4 DEF Typed, HasFiles
  <2>6. HasFindings'
    BY <2>1, <2>2, <2>4 DEF Typed, HasFindings, locks
  <2> QED
    BY <2>4, <2>5, <2>6 DEF Typed, HasCalls, HasPast, locks, past
<1>6. ASSUME Finish(c) PROVE Typed'
  <2>1. HasCalls' /\ HasFindings'
    BY <1>6 DEF Finish, Typed, HasCalls, HasFindings, Phase, locks, scans
  <2> QED
    BY <1>6, <2>1 DEF Finish, Typed, HasFiles, HasPast, scans, past
<1> QED
  BY <1>1, <1>2, <1>3, <1>4, <1>5, <1>6

LEMMA OthersTyped ==
    ASSUME Typed
    PROVE  /\ \A r \in Folders : Expire(r) => Typed'
           /\ \A f \in Files : \A image \in Contents[f] : OutsideEdit(f, image) => Typed'
           /\ UNCHANGED vars => Typed'
<1>1. ASSUME NEW r \in Folders, Expire(r) PROVE Typed'
  <2>1. base' = [base EXCEPT ![r] = NoBase] /\ base = [q \in Folders |-> base[q]]
    BY <1>1 DEF Expire, Typed, HasFiles
  <2>2. base' = [q \in Folders |-> base'[q]]
        /\ \A q \in Folders : base'[q] # NoBase => base'[q] \in [Inside[q] -> Image]
    BY <2>1 DEF Typed, HasFiles
  <2> QED
    BY <1>1, <2>2 DEF Expire, Typed, HasFiles, HasCalls, HasFindings, HasPast, locks, past
<1>2. ASSUME NEW f \in Files, NEW image \in Contents[f], OutsideEdit(f, image) PROVE Typed'
  <2> DEFINE kinds == [c \in Calls |-> {"free"}]
  <2>1. \A d \in Calls : kinds[d] \in SUBSET Hand
    BY DEF Hand
  <2>2. Changed(kinds, f, image)
    BY <1>2 DEF OutsideEdit
  <2> HIDE DEF kinds
  <2>3. HasPast'
    BY <2>1, <2>2, TouchTyped DEF Changed, Typed, HasPast
  <2>4. HasFiles'
    BY <2>2, FoldersAssumption DEF Changed, Typed, HasFiles, scans
  <2>5. HasCalls' /\ HasFindings'
    BY <2>2 DEF Changed, Typed, HasCalls, HasFindings, locks, scans
  <2> QED
    BY <2>3, <2>4, <2>5 DEF Typed
<1>3. ASSUME UNCHANGED vars PROVE Typed'
  BY <1>3 DEF vars, Typed, HasFiles, HasCalls, HasFindings, HasPast
<1> QED
  BY <1>1, <1>2, <1>3

LEMMA NextTyped == Typed /\ [Next]_vars => Typed'
<1> SUFFICES ASSUME Typed, [Next]_vars PROVE Typed'
  OBVIOUS
<1>1. ASSUME NEW c \in Calls,
             \/ TakeFolders(c) \/ ScanWithin(c) \/ CaptureNothing(c)
             \/ Register(c) \/ TryLock(c) \/ Sleep(c) \/ Wake(c) \/ TimeOut(c)
             \/ Release(c) \/ Notify(c)
             \/ AcceptOutside(c) \/ AcceptAll(c) \/ Run(c)
             \/ End(c) \/ ReportMoved(c) \/ Judge(c) \/ Record(c) \/ Finish(c)
             \/ Drop(c)
      PROVE  Typed'
  BY <1>1, ArrivalTyped, LockTyped, EndTyped, BeforeTyped, AfterTyped
<1>2. ASSUME NEW c \in Calls, NEW r \in Folders,
             ScanBefore(c, r) \/ ScanFails(c, r) \/ ScanAfter(c, r)
      PROVE  Typed'
  BY <1>2, BeforeTyped, AfterTyped
<1>3. ASSUME NEW c \in Calls, NEW f \in Files,
             \/ UndoChange(c, f) \/ Read(c, f)
             \/ \E image \in Contents[f] : Write(c, f, image) \/ Program(c, f, image)
      PROVE  Typed'
  BY <1>3, RunningTyped
<1> QED
  BY <1>1, <1>2, <1>3, OthersTyped DEF Next

LEMMA AlwaysTyped == Spec => []Typed
  BY InitTyped, NextTyped, PTL DEF Spec

\* The types of the executor's capture: what it scans, locks and passes on.
THEOREM CaptureTypes == Spec => []TypeOK
  BY AlwaysTyped, TypedIsTypeOK, PTL

\* The histories' changes fit on to each other, whatever is found on disk
\* (`record_external`, `acknowledge_outside`) between the changes of agent.d.
THEOREM HistoriesFit == Spec => []HistoryIsConsistent
  BY AlwaysTyped, TypedIsTypeOK, PTL

-----------------------------------------------------------------------------
(* How calls come and go.                                                  *)

Stays(c) == phase'[c] = phase[c] /\ passes'[c] = passes[c]

\* What a step of a call does to where it is and to what it passes on.
Moves(c) ==
    \/ Arrives(c) /\ phase'[c] \notin Done
    \/ /\ phase[c] \in {"lock", "check", "looked", "asleep", "before", "accept"}
       /\ phase'[c] \notin Done
    \/ /\ Acts(c)
       /\ phase'[c] \in {"after", "report"} /\ passes'[c] = passes[c]
    \/ /\ phase[c] \in {"after", "report"}
       /\ phase'[c] = "release" /\ passes'[c] = passes[c]
    \/ /\ phase[c] \notin Done \union {"notify"}
       /\ phase[c] = "release" \/ Parallel \/ ~Busy(c)
       /\ phase'[c] \in {"notify", "over"}
       /\ Parallel => passes'[c] = passes[c]
    \/ phase[c] = "notify" /\ phase'[c] = "over" /\ passes'[c] = passes[c]

\* Steps that leave alone where calls are, what they hold and what they pass on.
LEMMA Elsewhere ==
    ASSUME NEW c \in Calls
    PROVE  /\ AcceptOutside(c) => UNCHANGED <<phase, pending, held, woken, passes>>
           /\ AcceptAll(c) => UNCHANGED <<phase, pending, held, woken, passes>>
           /\ Judge(c) => UNCHANGED <<phase, pending, held, woken, passes>>
           /\ Record(c) => UNCHANGED <<phase, pending, held, woken, passes>>
           /\ \A r \in Folders :
                ScanBefore(c, r) \/ ScanFails(c, r) \/ ScanAfter(c, r) \/ Expire(r)
                  => UNCHANGED <<phase, pending, held, woken, passes>>
           /\ \A f \in Files :
                UndoChange(c, f) \/ Read(c, f)
                  => UNCHANGED <<phase, pending, held, woken, passes>>
           /\ \A f \in Files : \A image \in Contents[f] :
                Write(c, f, image) \/ Program(c, f, image) \/ OutsideEdit(f, image)
                  => UNCHANGED <<phase, pending, held, woken, passes>>
<1>1. /\ AcceptOutside(c) => UNCHANGED <<phase, pending, held, woken, passes>>
      /\ AcceptAll(c) => UNCHANGED <<phase, pending, held, woken, passes>>
  BY DEF AcceptOutside, AcceptAll, locks
<1>2. /\ Judge(c) => UNCHANGED <<phase, pending, held, woken, passes>>
      /\ Record(c) => UNCHANGED <<phase, pending, held, woken, passes>>
  BY DEF Judge, Record, locks
<1>3. \A r \in Folders :
        ScanBefore(c, r) \/ ScanFails(c, r) \/ ScanAfter(c, r) \/ Expire(r)
          => UNCHANGED <<phase, pending, held, woken, passes>>
  BY DEF ScanBefore, ScanFails, ScanAfter, Expire, locks
<1>4. \A f \in Files :
        UndoChange(c, f) \/ Read(c, f)
          => UNCHANGED <<phase, pending, held, woken, passes>>
  BY DEF UndoChange, Read, locks
<1>5. \A f \in Files : \A image \in Contents[f] :
        Write(c, f, image) \/ Program(c, f, image) \/ OutsideEdit(f, image)
          => UNCHANGED <<phase, pending, held, woken, passes>>
  BY DEF Write, Program, OutsideEdit, Changed, locks
<1> QED
  BY <1>1, <1>2, <1>3, <1>4, <1>5

\* The steps that do not.
Turn(c) ==
    \/ TakeFolders(c) \/ ScanWithin(c) \/ CaptureNothing(c)
    \/ Register(c) \/ TryLock(c) \/ Sleep(c) \/ Wake(c) \/ TimeOut(c)
    \/ Release(c) \/ Notify(c) \/ Run(c) \/ Drop(c)
    \/ End(c) \/ ReportMoved(c) \/ Finish(c)

LEMMA TurnOrElsewhere ==
    ASSUME [Next]_vars
    PROVE  \/ UNCHANGED <<phase, pending, held, woken, passes>>
           \/ \E c \in Calls : Turn(c)
<1>1. CASE UNCHANGED vars
  BY <1>1 DEF vars
<1>2. ASSUME NEW c \in Calls,
             \/ AcceptOutside(c) \/ AcceptAll(c) \/ Judge(c) \/ Record(c)
             \/ \E r \in Folders : ScanBefore(c, r) \/ ScanFails(c, r) \/ ScanAfter(c, r)
             \/ \E f \in Files :
                  \/ UndoChange(c, f) \/ Read(c, f)
                  \/ \E image \in Contents[f] : Write(c, f, image) \/ Program(c, f, image)
      PROVE  UNCHANGED <<phase, pending, held, woken, passes>>
  BY <1>2, Elsewhere
<1>3. ASSUME NEW r \in Folders, Expire(r)
      PROVE  UNCHANGED <<phase, pending, held, woken, passes>>
  BY <1>3 DEF Expire, locks
<1>4. ASSUME NEW f \in Files, NEW image \in Contents[f], OutsideEdit(f, image)
      PROVE  UNCHANGED <<phase, pending, held, woken, passes>>
  BY <1>4 DEF OutsideEdit, Changed, locks
<1> QED
  BY <1>1, <1>2, <1>3, <1>4 DEF Next, Turn

LEMMA TurnMoves ==
    ASSUME Typed, NEW c \in Calls, Turn(c)
    PROVE  Moves(c) /\ \A d \in Calls \ {c} : Stays(d)
<1> USE DEF Typed, HasCalls, Stays, Moves, Done
<1>1. CASE TakeFolders(c)
  BY <1>1 DEF TakeFolders, Arrives
<1>2. CASE ScanWithin(c)
  BY <1>2 DEF ScanWithin, Arrives, Begin
<1>3. CASE CaptureNothing(c)
  BY <1>3 DEF CaptureNothing, Arrives
<1>4. CASE Register(c)
  BY <1>4 DEF Register
<1>5. CASE TryLock(c)
  BY <1>5 DEF TryLock, Begin
<1>6. CASE Sleep(c)
  BY <1>6 DEF Sleep
<1>7. CASE Wake(c)
  BY <1>7 DEF Wake
<1>8. CASE TimeOut(c)
  BY <1>8 DEF TimeOut, Begin
<1>9. CASE Release(c)
  BY <1>9 DEF Release, LetGo
<1>10. CASE Notify(c)
  BY <1>10 DEF Notify
<1>11. CASE Run(c)
  BY <1>11 DEF Run
<1>12. CASE Drop(c)
  BY <1>12 DEF Drop, LetGo
<1>13. CASE End(c)
  BY <1>13 DEF End
<1>14. CASE ReportMoved(c)
  BY <1>14 DEF ReportMoved
<1>15. CASE Finish(c)
  BY <1>15 DEF Finish
<1> QED
  BY <1>1, <1>2, <1>3, <1>4, <1>5, <1>6, <1>7, <1>8, <1>9, <1>10, <1>11,
     <1>12, <1>13, <1>14, <1>15 DEF Turn

\* Where a call is while one it made is at work: it awaits it, or has gone on.
Underway ==
    IF Parallel THEN {"running", "after", "report", "release", "notify", "over"}
    ELSE {"running"}

\* A call that has not ended is made in one that is at work, and is the only
\* one made in it, unless scripts make calls in tasks.
Nested ==
    \A c \in Calls : phase[c] \notin Done /\ ParentOf[c] # NoCall =>
        /\ phase[ParentOf[c]] \in Underway
        /\ ~Parallel => \A d \in Calls :
             phase[d] \notin Done /\ ParentOf[d] = ParentOf[c] => d = c

LEMMA NextNested ==
    ASSUME Typed, Nested, [Next]_vars
    PROVE  /\ Nested'
           /\ \A c \in Calls : phase[c] \notin Done => Given(c)' = Given(c)
           /\ \A c \in Calls : phase'[c] \notin Done => Given(c)' = Given(c)
<1>1. CASE UNCHANGED <<phase, passes>>
  BY <1>1 DEF Nested, Given
<1>2. ASSUME NEW w \in Calls, Moves(w), \A d \in Calls \ {w} : Stays(d)
      PROVE  /\ Nested'
             /\ \A c \in Calls : phase[c] \notin Done => Given(c)' = Given(c)
             /\ \A c \in Calls : phase'[c] \notin Done => Given(c)' = Given(c)
  <2>1. ASSUME NEW c \in Calls, NEW p \in Calls, ParentOf[c] = p, phase[c] \notin Done
        PROVE  phase'[p] \in Underway /\ passes'[p] = passes[p]
    <3>1. phase[p] \in Underway /\ Busy(p)
      BY <2>1, FoldersAssumption DEF Nested, Busy
    <3>2. CASE p # w
      BY <1>2, <3>1, <3>2 DEF Stays
    <3>3. CASE p = w /\ ~Parallel
      BY <1>2, <3>1, <3>3 DEF Moves, Underway, Acts, Arrives, Done
    <3>4. CASE p = w /\ Parallel
      BY <1>2, <3>1, <3>4 DEF Moves, Underway, Acts, Arrives, Done
    <3> QED
      BY <3>2, <3>3, <3>4
  <2>2. ASSUME NEW c \in Calls, phase[c] \in Done, phase'[c] \notin Done
        PROVE  c = w /\ Arrives(c)
    <3>1. c = w
      BY <1>2, <2>2 DEF Stays
    <3> QED
      BY <1>2, <2>2, <3>1 DEF Moves, Acts, Arrives, Done
  <2>3. ASSUME NEW c \in Calls, NEW p \in Calls, ParentOf[c] = p,
               phase[c] \in Done, phase'[c] \notin Done
        PROVE  /\ phase'[p] \in Underway /\ passes'[p] = passes[p]
               /\ ~Parallel => ~Busy(p)
    <3>1. c = w /\ phase[c] = "idle" /\ MayCall(c)
      BY <2>2, <2>3 DEF Arrives
    <3>2. phase[p] \in Underway /\ phase[p] # "idle" /\ (~Parallel => ~Busy(p))
      BY <2>3, <3>1, FoldersAssumption DEF MayCall, Acts, Underway
    <3> QED
      BY <1>2, <2>3, <3>1, <3>2 DEF Stays
  <2>4. Nested'
    <3> SUFFICES ASSUME NEW c \in Calls, phase'[c] \notin Done, ParentOf[c] # NoCall
                 PROVE  /\ phase'[ParentOf[c]] \in Underway
                        /\ ~Parallel => \A d \in Calls :
                             phase'[d] \notin Done /\ ParentOf[d] = ParentOf[c] => d = c
      BY DEF Nested, Done, Underway
    <3>1. ParentOf[c] \in Calls
      BY FoldersAssumption
    <3>2. phase'[ParentOf[c]] \in Underway
      BY <2>1, <2>3, <3>1
    <3>3. ASSUME NEW d \in Calls, ~Parallel, phase'[d] \notin Done,
                 ParentOf[d] = ParentOf[c]
          PROVE  d = c
      <4>1. CASE phase[c] \notin Done /\ phase[d] \notin Done
        BY <3>3, <4>1 DEF Nested
      <4>2. CASE phase[c] \in Done /\ phase[d] \in Done
        BY <2>2, <3>3, <4>2
      <4>3. CASE phase[c] \in Done /\ phase[d] \notin Done
        BY <2>3, <3>1, <3>3, <4>3 DEF Busy
      <4>4. CASE phase[c] \notin Done /\ phase[d] \in Done
        BY <2>3, <3>1, <3>3, <4>4 DEF Busy
      <4> QED
        BY <4>1, <4>2, <4>3, <4>4
    <3> QED
      BY <3>2, <3>3
  <2>5. ASSUME NEW c \in Calls, phase[c] \notin Done \/ phase'[c] \notin Done
        PROVE  Given(c)' = Given(c)
    <3>1. CASE ParentOf[c] = NoCall
      BY <3>1 DEF Given
    <3>2. CASE ParentOf[c] # NoCall
      <4>1. ParentOf[c] \in Calls
        BY <3>2, FoldersAssumption
      <4>2. passes'[ParentOf[c]] = passes[ParentOf[c]]
        BY <2>1, <2>3, <2>5, <4>1
      <4> QED
        BY <4>2 DEF Given
    <3> QED
      BY <3>1, <3>2
  <2> QED
    BY <2>4, <2>5
<1> QED
  BY <1>1, <1>2, TurnOrElsewhere, TurnMoves

-----------------------------------------------------------------------------
(* Folders.                                                                *)

Waiting == {"lock", "check", "looked", "asleep"}

\* Only a call that locks its own folders waits for folders or holds them, and
\* it holds them until it is over.
Holds ==
    \A c \in Calls : phase[c] \in Waiting \/ held[c] # {} =>
        Locks(c) /\ phase[c] \notin Done \union {"notify"}

Apart ==
    \A c, d \in Calls : \A r \in held[c], q \in held[d] : Overlaps(r, q) => c = d

\* A call that looked in vain, has not been woken and could have a folder now:
\* the call that let go of it has yet to wake those who wait.
Heard ==
    \A c \in Calls :
        /\ phase[c] \in {"looked", "asleep"} /\ ~woken[c]
        /\ \E r \in pending[c] : IsFree(r)
        => \E d \in Calls : phase[d] = "notify"

Turns == Nested /\ Holds /\ Apart /\ Heard

LEMMA InitTurns == Init => Turns
<1> SUFFICES ASSUME Init PROVE Turns
  OBVIOUS
<1>1. \A c \in Calls : phase[c] = "idle" /\ held[c] = {}
  BY DEF Init
<1>2. Nested /\ Holds /\ Apart /\ Heard
  BY <1>1 DEF Nested, Holds, Apart, Heard, Done, Waiting
<1> QED
  BY <1>2 DEF Turns

\* How a step of a call changes what is held.
LEMMA TurnHolds ==
    ASSUME Typed, Holds, NEW c \in Calls, Turn(c)
    PROVE  /\ \A d \in Calls \ {c} :
                held'[d] = held[d] /\ pending'[d] = pending[d] /\ (woken[d] => woken'[d])
           /\ \/ held'[c] = held[c]
              \/ /\ phase[c] = "check" /\ phase'[c] \notin Done \union {"notify"}
                 /\ held'[c] = held[c] \union {r \in pending[c] : IsFree(r)}
                 /\ pending'[c] = pending[c] \ {r \in pending[c] : IsFree(r)}
              \/ /\ held'[c] = {}
                 /\ phase'[c] = IF Locks(c) THEN "notify" ELSE "over"
           /\ phase'[c] \in Waiting => Locks(c)
           /\ phase'[c] \in Done \union {"notify"} => held'[c] = {}
           /\ phase'[c] \in {"looked", "asleep"} =>
                \/ /\ phase[c] = "check"
                   /\ held'[c] = held[c] \union {r \in pending[c] : IsFree(r)}
                   /\ pending'[c] = pending[c] \ {r \in pending[c] : IsFree(r)}
                \/ /\ phase[c] \in {"looked", "asleep"}
                   /\ pending'[c] = pending[c] /\ woken'[c] = woken[c]
           /\ phase[c] = "notify" =>
                \A d \in Calls : phase[d] \in {"looked", "asleep"} => woken'[d]
<1> USE DEF Typed, HasCalls, Done, Waiting
<1>1. CASE TakeFolders(c)
  BY <1>1 DEF TakeFolders, Arrives, Locks
<1>2. CASE ScanWithin(c)
  BY <1>2 DEF ScanWithin, Arrives, Begin, locks
<1>3. CASE CaptureNothing(c)
  BY <1>3 DEF CaptureNothing, Arrives, locks
<1>4. CASE Register(c)
  BY <1>4 DEF Register, Holds
<1>5. CASE TryLock(c)
  <2> DEFINE got == {r \in pending[c] : IsFree(r)}
  <2>1. /\ phase[c] = "check"
        /\ held' = [held EXCEPT ![c] = held[c] \union got]
        /\ pending' = [pending EXCEPT ![c] = pending[c] \ got]
        /\ phase'[c] \in {"before", "accept", "looked"}
        /\ UNCHANGED woken
    BY <1>5 DEF TryLock, Begin
  <2> HIDE DEF got
  <2>2. /\ held'[c] = held[c] \union got /\ pending'[c] = pending[c] \ got
        /\ \A d \in Calls \ {c} : held'[d] = held[d] /\ pending'[d] = pending[d]
    BY <2>1
  <2>3. Locks(c)
    BY <2>1 DEF Holds
  <2> QED
    BY <2>1, <2>2, <2>3 DEF got
<1>6. CASE Sleep(c)
  BY <1>6 DEF Sleep, locks, Holds
<1>7. CASE Wake(c)
  BY <1>7 DEF Wake, locks, Holds
<1>8. CASE TimeOut(c)
  BY <1>8 DEF TimeOut, Begin
<1>9. CASE Release(c)
  BY <1>9 DEF Release, LetGo
<1>10. CASE Notify(c)
  BY <1>10 DEF Notify, Holds
<1>11. CASE Run(c)
  BY <1>11 DEF Run, locks
<1>12. CASE Drop(c)
  BY <1>12 DEF Drop, LetGo
<1>13. CASE End(c)
  BY <1>13 DEF End, Acts, locks
<1>14. CASE ReportMoved(c)
  BY <1>14 DEF ReportMoved, locks
<1>15. CASE Finish(c)
  BY <1>15 DEF Finish, locks
<1> QED
  BY <1>1, <1>2, <1>3, <1>4, <1>5, <1>6, <1>7, <1>8, <1>9, <1>10, <1>11,
     <1>12, <1>13, <1>14, <1>15 DEF Turn

LEMMA NextTurns == Typed /\ Turns /\ [Next]_vars => Turns'
<1> SUFFICES ASSUME Typed, Turns, [Next]_vars PROVE Turns'
  OBVIOUS
<1>1. /\ Nested' /\ Holds /\ Apart /\ Heard
      /\ \A c \in Calls : phase[c] \notin Done \/ phase'[c] \notin Done => Locks(c)' = Locks(c)
  BY NextNested DEF Turns, Locks
<1>2. CASE UNCHANGED <<phase, pending, held, woken, passes>>
  BY <1>1, <1>2 DEF Turns, Holds, Apart, Heard, Locks, Given, IsFree
<1>3. ASSUME NEW w \in Calls, Turn(w) PROVE Turns'
  <2>1. \A d \in Calls \ {w} :
          /\ phase'[d] = phase[d] /\ held'[d] = held[d] /\ pending'[d] = pending[d]
          /\ woken[d] => woken'[d]
    BY <1>1, <1>3, TurnMoves, TurnHolds DEF Stays
  <2>2. /\ \/ held'[w] = held[w]
           \/ /\ phase[w] = "check" /\ phase'[w] \notin Done \union {"notify"}
              /\ held'[w] = held[w] \union {r \in pending[w] : IsFree(r)}
              /\ pending'[w] = pending[w] \ {r \in pending[w] : IsFree(r)}
           \/ /\ held'[w] = {}
              /\ phase'[w] = IF Locks(w) THEN "notify" ELSE "over"
        /\ phase'[w] \in Waiting => Locks(w)
        /\ phase'[w] \in Done \union {"notify"} => held'[w] = {}
    BY <1>1, <1>3, TurnHolds
  <2>3. Holds'
    <3> SUFFICES ASSUME NEW c \in Calls, phase'[c] \in Waiting \/ held'[c] # {}
                 PROVE  Locks(c)' /\ phase'[c] \notin Done \union {"notify"}
      BY DEF Holds, Waiting, Done
    <3>1. CASE c # w
      BY <1>1, <2>1, <3>1 DEF Holds
    <3>2. CASE c = w
      <4>1. phase'[w] \notin Done \union {"notify"}
        BY <2>2, <3>2 DEF Waiting, Done
      <4>2. Locks(w)
        BY <1>1, <2>2, <3>2, <4>1 DEF Holds, Waiting
      <4> QED
        BY <1>1, <3>2, <4>1, <4>2
    <3> QED
      BY <3>1, <3>2
  <2>4. Apart'
    <3>1. ASSUME NEW c \in Calls, NEW r \in held'[c], r \notin held[c]
          PROVE  c = w /\ IsFree(r)
      BY <2>1, <2>2, <3>1
    <3> SUFFICES ASSUME NEW c \in Calls, NEW d \in Calls,
                        NEW r \in held'[c], NEW q \in held'[d], Overlaps(r, q), c # d
                 PROVE  FALSE
      BY DEF Apart, Overlaps, Within
    <3>2. CASE r \in held[c] /\ q \in held[d]
      BY <1>1, <3>2 DEF Apart
    <3>3. CASE r \notin held[c]
      <4>1. c = w /\ IsFree(r) /\ q \in held[d]
        BY <2>1, <3>1, <3>3
      <4> QED
        BY <4>1 DEF IsFree, Overlaps
    <3>4. CASE q \notin held[d]
      <4>1. d = w /\ IsFree(q) /\ r \in held[c]
        BY <2>1, <3>1, <3>4
      <4> QED
        BY <4>1 DEF IsFree, Overlaps
    <3> QED
      BY <3>2, <3>3, <3>4
  <2>5. Heard'
    <3> SUFFICES ASSUME NEW c \in Calls, phase'[c] \in {"looked", "asleep"}, ~woken'[c],
                        NEW r \in pending'[c], IsFree(r)'
                 PROVE  \E d \in Calls : phase'[d] = "notify"
      BY DEF Heard
    <3>1. CASE held'[w] = {} /\ held[w] # {}
      BY <1>1, <2>2, <3>1 DEF Holds, Done
    <3>2. CASE ~(held'[w] = {} /\ held[w] # {})
      <4>1. held[w] \subseteq held'[w]
        BY <2>2, <3>2
      <4>2. IsFree(r)
        BY <2>1, <4>1 DEF IsFree, Overlaps, Within
      <4>3. CASE c = w /\ phase[w] = "check"
        <5>1. /\ held'[w] = held[w] \union {q \in pending[w] : IsFree(q)}
              /\ pending'[w] = pending[w] \ {q \in pending[w] : IsFree(q)}
          BY <1>1, <1>3, <4>3, TurnHolds
        <5> QED
          BY <4>2, <4>3, <5>1
      <4>4. CASE ~(c = w /\ phase[w] = "check")
        <5>1. phase[c] \in {"looked", "asleep"} /\ pending'[c] = pending[c] /\ ~woken[c]
          BY <1>1, <1>3, <2>1, <4>4, TurnHolds
        <5>2. PICK d \in Calls : phase[d] = "notify"
          BY <1>1, <4>2, <5>1 DEF Heard
        <5>3. d # w
          BY <1>1, <1>3, <5>1, <5>2, TurnHolds
        <5> QED
          BY <2>1, <5>2, <5>3
      <4> QED
        BY <4>3, <4>4
    <3> QED
      BY <3>1, <3>2
  <2> QED
    BY <1>1, <2>3, <2>4, <2>5 DEF Turns
<1> QED
  BY <1>2, <1>3, TurnOrElsewhere

\* Calls whose folders overlap take turns, and none of them sleeps through the
\* release of a folder it waits for (`Baseline::lock`): it registers before it
\* looks, and a release frees the folders before it wakes those who wait.
THEOREM FolderTurns == Spec => []FoldersTakeTurns
<1>1. Spec => [](Typed /\ Turns)
  BY InitTyped, NextTyped, InitTurns, NextTurns, PTL DEF Spec
<1>2. Turns => FoldersTakeTurns
  BY DEF Turns, Apart, Heard, FoldersTakeTurns
<1> QED
  BY <1>1, <1>2, PTL

-----------------------------------------------------------------------------
(* Whose changes a call sees: scripts await the calls they make.           *)

\* A call around `c`, or `c`, holds a folder that the folder `r` lies in.
Covered(c, r) == \E a \in Above[c] : \E h \in held[a] : Within(r, h)

\* What a call captures and passes on lies in folders that are held for it.
Sheltered ==
    \A c \in Calls :
        /\ \A r \in roots[c] \union todo[c] \union passes[c].roots : Covered(c, r)
        /\ roots[c] \union passes[c].roots # {} =>
             phase[c] \in {"before", "accept", "running", "after", "report", "release"}
        /\ todo[c] # {} => phase[c] \in {"before", "accept", "after"}

\* What a call finds and reports lies in the folders it captures.
KeepsToItsFolders(c) ==
    /\ phase[c] = "after" => todo[c] \subseteq roots[c]
    /\ found[c] # {} => phase[c] \in {"before", "after"}
    /\ \A x \in found[c] \union unknown[c] : x.file \in FilesIn(roots[c])
    /\ reported[c] \subseteq FilesIn(roots[c])
    /\ reported[c] # {} => phase[c] \in {"after", "release"}

InItsFolders == \A c \in Calls : KeepsToItsFolders(c)

\* No call that captures the same file for itself has a hand in it.
Credited ==
    \A c \in Calls : \A f \in FilesIn(roots[c] \union todo[c]) :
        "other" \notin touched[c][f]


LEMMA AboveFacts ==
    ASSUME NEW c \in Calls
    PROVE  /\ c \in Above[c] /\ Above[c] \subseteq Calls
           /\ Upward(Above[c])
           /\ \A calls \in SUBSET Calls :
                c \in calls /\ Upward(calls) => Above[c] \subseteq calls
<1>1. Above[c] = {d \in Calls : \A calls \in SUBSET Calls :
                                  c \in calls /\ Upward(calls) => d \in calls}
  BY DEF Above
<1>2. ASSUME NEW d \in Above[c], ParentOf[d] # NoCall PROVE ParentOf[d] \in Above[c]
  <2>1. d \in Calls /\ ParentOf[d] \in Calls
    BY <1>1, <1>2, FoldersAssumption
  <2> SUFFICES ASSUME NEW calls \in SUBSET Calls, c \in calls, Upward(calls)
               PROVE  ParentOf[d] \in calls
    BY <1>1, <2>1
  <2> QED
    BY <1>1, <1>2 DEF Upward
<1> QED
  BY <1>1, <1>2 DEF Upward

LEMMA AboveParent ==
    ASSUME NEW c \in Calls, ParentOf[c] # NoCall
    PROVE  /\ ParentOf[c] \in Calls
           /\ Above[ParentOf[c]] \subseteq Above[c]
           /\ Above[c] \subseteq {c} \union Above[ParentOf[c]]
<1> DEFINE p == ParentOf[c]
<1>1. p \in Calls
  BY FoldersAssumption
<1>2. Above[p] \subseteq Above[c]
  BY <1>1, AboveFacts DEF Upward
<1>3. Above[c] \subseteq {c} \union Above[p]
  <2>1. {c} \union Above[p] \in SUBSET Calls /\ p \in Above[p] /\ Upward(Above[p])
    BY <1>1, AboveFacts
  <2>2. Upward({c} \union Above[p])
    BY <2>1 DEF Upward
  <2> QED
    BY <2>1, <2>2, AboveFacts
<1> QED
  BY <1>1, <1>2, <1>3

\* The calls around one that has not ended await it.
LEMMA AboveAwaits ==
    ASSUME Nested, ~Parallel, NEW c \in Calls, phase[c] \notin Done,
           NEW a \in Above[c]
    PROVE  phase[a] \notin Done /\ (a = c \/ (phase[a] = "running" /\ Busy(a)))
<1> DEFINE T == {c} \union {d \in Calls : phase[d] = "running" /\ Busy(d)}
<1>1. \A d \in T : phase[d] \notin Done
  BY DEF Done
<1>2. Upward(T)
  <2> SUFFICES ASSUME NEW d \in T, ParentOf[d] # NoCall PROVE ParentOf[d] \in T
    BY DEF Upward
  <2>1. ParentOf[d] \in Calls /\ phase[d] \notin Done
    BY <1>1, FoldersAssumption
  <2>2. phase[ParentOf[d]] = "running" /\ Busy(ParentOf[d])
    BY <2>1 DEF Nested, Underway, Busy
  <2> QED
    BY <2>1, <2>2
<1>3. T \in SUBSET Calls /\ c \in T
  OBVIOUS
<1> HIDE DEF T
<1>4. Above[c] \subseteq T
  BY <1>2, <1>3, AboveFacts
<1>5. a \in T /\ phase[a] \notin Done
  BY <1>1, <1>4
<1> QED
  BY <1>5 DEF T

\* Calls that have not ended and have one around both are one inside the other.
LEMMA Chain ==
    ASSUME Nested, ~Parallel, NEW c \in Calls, NEW w \in Calls,
           phase[c] \notin Done, phase[w] \notin Done,
           NEW a \in Above[c], a \in Above[w]
    PROVE  c \in Above[w] \/ w \in Above[c]
<1> SUFFICES ASSUME c \notin Above[w], w \notin Above[c] PROVE FALSE
  OBVIOUS
<1> DEFINE S == Above[c] \ Above[w]
<1>1. Upward(S)
  <2> SUFFICES ASSUME NEW d \in S, ParentOf[d] # NoCall PROVE ParentOf[d] \in S
    BY DEF Upward
  <2> DEFINE p == ParentOf[d]
  <2>1. d \in Calls /\ phase[d] \notin Done /\ p \in Calls /\ p \in Above[c]
    BY AboveFacts, AboveAwaits DEF Upward
  <2>2. SUFFICES ASSUME p \in Above[w] PROVE FALSE
    BY <2>1
  <2>3. p # w
    BY <2>1
  <2>4. \E y \in Above[w] : ParentOf[y] = p
    <3>1. SUFFICES ASSUME \A y \in Above[w] : ParentOf[y] # p PROVE FALSE
      OBVIOUS
    <3>2. Upward(Above[w] \ {p})
      BY <3>1, AboveFacts DEF Upward
    <3>3. w \in Above[w] \ {p} /\ Above[w] \ {p} \in SUBSET Calls
      BY <2>3, AboveFacts
    <3>4. Above[w] \subseteq Above[w] \ {p}
      BY <3>2, <3>3, AboveFacts
    <3> QED
      BY <2>2, <3>4
  <2>5. PICK y \in Above[w] : ParentOf[y] = p
    BY <2>4
  <2>6. y \in Calls /\ phase[y] \notin Done
    BY AboveFacts, AboveAwaits
  <2>7. y = d
    BY <2>1, <2>5, <2>6 DEF Nested
  <2> QED
    BY <2>5, <2>7
<1>2. c \in S /\ S \in SUBSET Calls
  BY AboveFacts
<1>3. Above[c] \subseteq S
  BY <1>1, <1>2, AboveFacts
<1> QED
  BY <1>3

\* So each that has not made a call that is at work is inside all the others.
LEMMA OneChain ==
    ASSUME Nested, ~Parallel, NEW c \in Calls, NEW w \in Calls,
           phase[c] \notin Done, phase[w] \notin Done, ~Busy(w),
           NEW a \in Above[c], a \in Above[w]
    PROVE  c \in Above[w]
<1>1. c \in Above[w] \/ w \in Above[c]
  BY Chain
<1>2. w \in Above[c] => w = c
  BY AboveAwaits
<1> QED
  BY <1>1, <1>2, AboveFacts

\* Two calls that capture the same file have one around both.
LEMMA OneHolder ==
    ASSUME Apart, NEW c \in Calls, NEW w \in Calls,
           NEW r \in Folders, NEW q \in Folders,
           Covered(c, r), Covered(w, q), held \in [Calls -> SUBSET Folders],
           NEW f, f \in Inside[r], f \in Inside[q]
    PROVE  \E a \in Above[c] : a \in Above[w]
<1>1. PICK a \in Above[c] : \E h \in held[a] : Within(r, h)
  BY DEF Covered
<1>2. PICK b \in Above[w] : \E g \in held[b] : Within(q, g)
  BY DEF Covered
<1> PICK h \in held[a] : Within(r, h)
  BY <1>1
<1> PICK g \in held[b] : Within(q, g)
  BY <1>2
<1>3. a \in Calls /\ b \in Calls /\ h \in Folders /\ g \in Folders
  BY <1>1, <1>2, AboveFacts
<1>4. f \in Inside[h] \intersect Inside[g]
  BY DEF Within
<1>5. Overlaps(h, g)
  BY <1>3, <1>4, TreeAssumption DEF Overlaps, Within
<1>6. a = b
  BY <1>3, <1>5 DEF Apart
<1> QED
  BY <1>6

\* Nobody lets go of the folders that shelter a call before the call does.
LEMMA CoverStays ==
    ASSUME Typed, Turns, ~Parallel, [Next]_vars, NEW c \in Calls,
           phase[c] \notin Done, held[c] \subseteq held'[c], NEW r, Covered(c, r)
    PROVE  Covered(c, r)'
<1>1. PICK a \in Above[c] : \E h \in held[a] : Within(r, h)
  BY DEF Covered
<1>2. held[a] \subseteq held'[a]
  <2>1. CASE a = c
    BY <2>1
  <2>2. CASE a # c
    <3>1. a \in Calls /\ phase[a] = "running" /\ Busy(a)
      BY <2>2, AboveFacts, AboveAwaits DEF Turns
    <3>2. CASE UNCHANGED <<phase, pending, held, woken, passes>>
      BY <3>2
    <3>3. ASSUME NEW w \in Calls, Turn(w) PROVE held[a] \subseteq held'[a]
      <4>1. CASE w = a
        <5>1. Moves(a)
          BY <3>1, <3>3, <4>1, TurnMoves
        <5> QED
          BY <3>1, <5>1 DEF Moves, Arrives, Acts, Done
      <4>2. CASE w # a
        BY <3>1, <3>3, <4>2, TurnHolds DEF Turns
      <4> QED
        BY <4>1, <4>2
    <3> QED
      BY <3>2, <3>3, TurnOrElsewhere
  <2> QED
    BY <2>1, <2>2
<1> QED
  BY <1>1, <1>2 DEF Covered, Within


\* The steps that move what a call captures, beside its turns.
Scans(c) ==
    \/ AcceptAll(c)
    \/ \E r \in Folders : ScanBefore(c, r) \/ ScanFails(c, r) \/ ScanAfter(c, r)

LEMMA ScansOrNot ==
    ASSUME [Next]_vars
    PROVE  \/ UNCHANGED <<phase, pending, held, woken, passes, roots, todo, notes>>
           \/ \E c \in Calls : Turn(c) \/ Scans(c)
<1>1. CASE UNCHANGED vars
  BY <1>1 DEF vars
<1>2. ASSUME NEW c \in Calls, AcceptOutside(c) \/ Judge(c) \/ Record(c)
      PROVE  UNCHANGED <<phase, pending, held, woken, passes, roots, todo, notes>>
  BY <1>2 DEF AcceptOutside, Judge, Record, locks
<1>3. ASSUME NEW c \in Calls, NEW f \in Files, UndoChange(c, f) \/ Read(c, f)
      PROVE  UNCHANGED <<phase, pending, held, woken, passes, roots, todo, notes>>
  BY <1>3 DEF UndoChange, Read, locks, scans
<1>4. ASSUME NEW c \in Calls, NEW f \in Files, NEW image \in Contents[f],
             Write(c, f, image) \/ Program(c, f, image)
      PROVE  UNCHANGED <<phase, pending, held, woken, passes, roots, todo, notes>>
  BY <1>4 DEF Write, Program, Changed, locks, scans
<1>5. ASSUME NEW r \in Folders, Expire(r)
      PROVE  UNCHANGED <<phase, pending, held, woken, passes, roots, todo, notes>>
  BY <1>5 DEF Expire, locks
<1>6. ASSUME NEW f \in Files, NEW image \in Contents[f], OutsideEdit(f, image)
      PROVE  UNCHANGED <<phase, pending, held, woken, passes, roots, todo, notes>>
  BY <1>6 DEF OutsideEdit, Changed, locks, scans
<1> QED
  BY <1>1, <1>2, <1>3, <1>4, <1>5, <1>6 DEF Next, Turn, Scans

Capturers == {"before", "accept", "running", "after", "report", "release"}

\* Where what a call captures and passes on after a step comes from.
LEMMA ShelterMoves ==
    ASSUME Typed, Turns, Sheltered, ~Parallel, NEW c \in Calls, Turn(c) \/ Scans(c)
    PROVE  /\ \A d \in Calls \ {c} :
                /\ phase'[d] = phase[d] /\ passes'[d] = passes[d] /\ held'[d] = held[d]
                /\ roots'[d] = roots[d] /\ todo'[d] = todo[d]
           /\ \A r \in roots'[c] \union todo'[c] \union passes'[c].roots :
                \/ /\ r \in roots[c] \union todo[c] \union passes[c].roots
                   /\ held[c] \subseteq held'[c]
                \/ r \in held'[c]
                \/ /\ Arrives(c) \/ phase[c] \in {"before", "accept"}
                   /\ \E h \in Given(c).roots : Within(r, h)
           /\ roots'[c] \union passes'[c].roots # {} => phase'[c] \in Capturers
           /\ todo'[c] # {} => phase'[c] \in {"before", "accept", "after"}
           /\ \/ roots'[c] \union todo'[c] \subseteq roots[c] \union todo[c]
              \/ /\ Given(c).roots = {} \/ ~Given(c).scans
                 /\ touched'[c] = Untouched /\ start'[c] = disk /\ roots'[c] = {}
                 /\ phase'[c] = IF c \in Programs THEN "before" ELSE "accept"
<1> USE DEF Typed, HasCalls, Capturers
<1>0. /\ phase[c] \notin Capturers =>
           roots[c] = {} /\ todo[c] = {} /\ passes[c].roots = {}
      /\ todo[c] # {} => phase[c] \in {"before", "accept", "after"}
  BY DEF Sheltered
<1> DEFINE P == /\ \A d \in Calls \ {c} :
                     /\ phase'[d] = phase[d] /\ passes'[d] = passes[d] /\ held'[d] = held[d]
                     /\ roots'[d] = roots[d] /\ todo'[d] = todo[d]
                /\ \A r \in roots'[c] \union todo'[c] \union passes'[c].roots :
                     \/ /\ r \in roots[c] \union todo[c] \union passes[c].roots
                        /\ held[c] \subseteq held'[c]
                     \/ r \in held'[c]
                     \/ /\ Arrives(c) \/ phase[c] \in {"before", "accept"}
                        /\ \E h \in Given(c).roots : Within(r, h)
                /\ roots'[c] \union passes'[c].roots # {} => phase'[c] \in Capturers
                /\ todo'[c] # {} => phase'[c] \in {"before", "accept", "after"}
                /\ \/ roots'[c] \union todo'[c] \subseteq roots[c] \union todo[c]
                   \/ /\ Given(c).roots = {} \/ ~Given(c).scans
                      /\ touched'[c] = Untouched /\ start'[c] = disk /\ roots'[c] = {}
                      /\ phase'[c] = IF c \in Programs THEN "before" ELSE "accept"
<1> SUFFICES P
  OBVIOUS
<1>1. CASE TakeFolders(c)
  BY <1>0, <1>1 DEF TakeFolders, Arrives
<1>2. CASE ScanWithin(c)
  <2>1. /\ Arrives(c) /\ Begin(c, Enclosed(c)) /\ phase[c] \notin Capturers
        /\ UNCHANGED <<disk, tl, locks, base, roots, passes, found, unknown,
                       mark, reported, notes, edits>>
    BY <1>2 DEF ScanWithin, Arrives
  <2>2. /\ todo' = [todo EXCEPT ![c] = Enclosed(c)]
        /\ touched'[c] = Untouched /\ start'[c] = disk /\ ~Given(c).scans
        /\ phase'[c] = IF c \in Programs THEN "before" ELSE "accept"
    BY <1>2, <2>1 DEF ScanWithin, MustScan, Begin, HasPast
  <2>3. phase'[c] \in {"before", "accept"} /\ \A d \in Calls \ {c} : phase'[d] = phase[d]
    BY <2>1 DEF Begin
  <2>4. \A r \in Enclosed(c) : \E h \in Given(c).roots : Within(r, h)
    BY DEF Enclosed
  <2> QED
    BY <1>0, <2>1, <2>2, <2>3, <2>4 DEF locks
<1>3. CASE CaptureNothing(c)
  BY <1>0, <1>3 DEF CaptureNothing, Arrives, Within, locks, scans
<1>4. CASE Register(c)
  BY <1>0, <1>4 DEF Register, scans
<1>5. CASE TryLock(c)
  <2> DEFINE got == {r \in pending[c] : IsFree(r)}
  <2>1. /\ phase[c] = "check"
        /\ held' = [held EXCEPT ![c] = held[c] \union got]
        /\ IF pending[c] = got
           THEN Begin(c, held[c] \union got)
           ELSE /\ phase' = [phase EXCEPT ![c] = "looked"]
                /\ UNCHANGED <<todo, past>>
        /\ UNCHANGED <<roots, passes>>
    BY <1>5 DEF TryLock
  <2> HIDE DEF got
  <2>2. CASE pending[c] = got
    <3>1. Given(c).roots = {}
      BY <2>1 DEF Turns, Holds, Waiting, Locks
    <3> QED
      BY <1>0, <2>1, <2>2, <3>1 DEF Begin, HasPast
  <2>3. CASE pending[c] # got
    BY <1>0, <2>1, <2>3
  <2> QED
    BY <2>2, <2>3
<1>6. CASE Sleep(c)
  BY <1>0, <1>6 DEF Sleep, locks, scans
<1>7. CASE Wake(c)
  BY <1>0, <1>7 DEF Wake, locks, scans
<1>8. CASE TimeOut(c)
  <2>1. Given(c).roots = {}
    BY <1>8 DEF TimeOut, Turns, Holds, Waiting, Locks
  <2> QED
    BY <1>0, <1>8, <2>1 DEF TimeOut, Begin, HasPast
<1>9. CASE Release(c)
  BY <1>0, <1>9 DEF Release, LetGo, Nothing
<1>10. CASE Notify(c)
  BY <1>0, <1>10 DEF Notify, scans
<1>11. CASE Run(c)
  <2>1. /\ phase[c] \in {"before", "accept"} /\ todo[c] = {}
        /\ phase' = [phase EXCEPT ![c] = "running"]
        /\ passes' = [passes EXCEPT ![c] =
                        [roots |-> Given(c).roots \union roots[c],
                         scans |-> Given(c).scans \/ c \in Programs]]
        /\ UNCHANGED <<locks, scans, past>>
    BY <1>11 DEF Run
  <2>2. passes'[c].roots = Given(c).roots \union roots[c]
    BY <2>1
  <2>3. \A r : Within(r, r)
    BY DEF Within
  <2> QED
    BY <1>0, <2>1, <2>2, <2>3 DEF locks, scans
<1>12. CASE Drop(c)
  BY <1>0, <1>12 DEF Drop, LetGo, Nothing
<1>13. CASE End(c)
  BY <1>0, <1>13 DEF End, Acts, locks
<1>14. CASE ReportMoved(c)
  BY <1>0, <1>14 DEF ReportMoved, locks, scans
<1>15. CASE Finish(c)
  BY <1>0, <1>15 DEF Finish, locks, scans
<1>16. CASE AcceptAll(c)
  BY <1>0, <1>16 DEF AcceptAll, locks
<1>17. ASSUME NEW r \in Folders, ScanBefore(c, r) PROVE P
  BY <1>0, <1>17 DEF ScanBefore, Scan, locks
<1>18. ASSUME NEW r \in Folders, ScanFails(c, r) PROVE P
  BY <1>0, <1>18 DEF ScanFails, locks
<1>19. ASSUME NEW r \in Folders, ScanAfter(c, r) PROVE P
  BY <1>0, <1>19 DEF ScanAfter, Scan, locks
<1> HIDE DEF P
<1> QED
  BY <1>1, <1>2, <1>3, <1>4, <1>5, <1>6, <1>7, <1>8, <1>9, <1>10, <1>11,
     <1>12, <1>13, <1>14, <1>15, <1>16, <1>17, <1>18, <1>19 DEF Turn, Scans


LEMMA InitSheltered == Init => Sheltered /\ InItsFolders /\ Credited
  BY DEF Init, Sheltered, InItsFolders, KeepsToItsFolders, Credited, Nothing, FilesIn

LEMMA NextSheltered ==
    ASSUME Typed, Turns, Sheltered, ~Parallel, [Next]_vars
    PROVE  Sheltered'
<1>1. CASE UNCHANGED <<phase, pending, held, woken, passes, roots, todo, notes>>
  BY <1>1 DEF Sheltered, Covered, Within
<1>2. ASSUME NEW w \in Calls, Turn(w) \/ Scans(w) PROVE Sheltered'
  <2>1. \A d \in Calls \ {w} :
          /\ phase'[d] = phase[d] /\ passes'[d] = passes[d] /\ held'[d] = held[d]
          /\ roots'[d] = roots[d] /\ todo'[d] = todo[d]
    BY <1>2, ShelterMoves
  <2>2. ASSUME NEW c \in Calls, NEW r \in roots[c] \union todo[c] \union passes[c].roots
        PROVE  Covered(c, r) /\ phase[c] \notin Done
    BY DEF Sheltered, Done
  <2>3. ASSUME NEW c \in Calls, c # w,
               NEW r \in roots'[c] \union todo'[c] \union passes'[c].roots
        PROVE  Covered(c, r)'
    <3>1. r \in roots[c] \union todo[c] \union passes[c].roots /\ held'[c] = held[c]
      BY <2>1, <2>3
    <3> QED
      BY <2>2, <3>1, CoverStays
  <2>4. ASSUME NEW r \in roots'[w] \union todo'[w] \union passes'[w].roots
        PROVE  Covered(w, r)'
    <3>1. \/ /\ r \in roots[w] \union todo[w] \union passes[w].roots
             /\ held[w] \subseteq held'[w]
          \/ r \in held'[w]
          \/ /\ Arrives(w) \/ phase[w] \in {"before", "accept"}
             /\ \E h \in Given(w).roots : Within(r, h)
      BY <1>2, <2>4, ShelterMoves
    <3>2. CASE r \in roots[w] \union todo[w] \union passes[w].roots /\ held[w] \subseteq held'[w]
      BY <2>2, <3>2, CoverStays
    <3>3. CASE r \in held'[w]
      BY <3>3, AboveFacts DEF Covered, Within
    <3>4. CASE /\ Arrives(w) \/ phase[w] \in {"before", "accept"}
               /\ \E h \in Given(w).roots : Within(r, h)
      <4>1. PICK h \in Given(w).roots : Within(r, h)
        BY <3>4
      <4>2. ParentOf[w] # NoCall /\ ParentOf[w] \in Calls
        BY <4>1, FoldersAssumption DEF Given, Nothing
      <4> DEFINE p == ParentOf[w]
      <4>3. phase[p] = "running" /\ p # w
        BY <3>4, <4>2 DEF Arrives, MayCall, Acts, Turns, Nested, Underway, Done
      <4>4. Covered(p, h)
        BY <4>1, <4>2, <2>2 DEF Given
      <4>5. Covered(p, h)'
        BY <2>1, <4>2, <4>3, <4>4, CoverStays DEF Done
      <4>6. Above[p] \subseteq Above[w]
        BY <4>2, AboveParent
      <4> QED
        BY <4>1, <4>5, <4>6 DEF Covered, Within
    <3> QED
      BY <3>1, <3>2, <3>3, <3>4
  <2>5. ASSUME NEW c \in Calls
        PROVE  /\ roots'[c] \union passes'[c].roots # {} => phase'[c] \in Capturers
               /\ todo'[c] # {} => phase'[c] \in {"before", "accept", "after"}
    <3>1. CASE c = w
      BY <1>2, <3>1, ShelterMoves
    <3>2. CASE c # w
      BY <2>1, <3>2 DEF Sheltered, Capturers
    <3> QED
      BY <3>1, <3>2
  <2>6. \A c \in Calls : \A r \in roots'[c] \union todo'[c] \union passes'[c].roots :
          Covered(c, r)'
    BY <2>3, <2>4
  <2> QED
    BY <2>5, <2>6 DEF Sheltered, Capturers
<1> QED
  BY <1>1, <1>2, ScansOrNot

\* Nobody else changes what a call captures for itself.
LEMMA NoOther ==
    ASSUME Typed, Turns, Sheltered, ~Parallel, NEW c \in Calls, NEW w \in Calls,
           NEW f \in FilesIn(roots[c] \union todo[c]), Acts(w)
    PROVE  Kind(w, c, f) # "other"
<1> SUFFICES ASSUME c # w, c \notin Above[w], f \in FilesIn(passes[w].roots) PROVE FALSE
  <2>1. CASE w = c
    BY <2>1, AboveFacts DEF Kind
  <2>2. CASE w # c /\ c \in Above[w]
    BY <2>2 DEF Kind
  <2>3. CASE w # c /\ c \notin Above[w] /\ f \notin FilesIn(passes[w].roots)
    BY <2>3 DEF Kind
  <2> QED
    BY <2>1, <2>2, <2>3
<1>1. PICK r \in roots[c] \union todo[c] : f \in Inside[r]
  BY DEF FilesIn
<1>2. PICK q \in passes[w].roots : f \in Inside[q]
  BY DEF FilesIn
<1>3. r \in Folders /\ q \in Folders /\ held \in [Calls -> SUBSET Folders]
  BY DEF Typed, HasCalls
<1>4. Covered(c, r) /\ Covered(w, q) /\ phase[c] \notin Done /\ phase[w] \notin Done
  BY <1>1, <1>2 DEF Sheltered, Done
<1>5. PICK a \in Above[c] : a \in Above[w]
  BY <1>1, <1>2, <1>3, <1>4, OneHolder DEF Turns
<1>6. ~Busy(w)
  BY DEF Acts
<1> QED
  BY <1>4, <1>5, <1>6, OneChain DEF Turns


\* What a call finds in one of its folders.
LEMMA ScanKeepsToFolders ==
    ASSUME Typed, NEW c \in Calls, KeepsToItsFolders(c), NEW r \in Folders, Scan(c, r),
           phase[c] \in {"before", "after"}, UNCHANGED <<phase, unknown, reported>>,
           r \in roots'[c], roots[c] \subseteq roots'[c],
           phase[c] = "after" => roots'[c] = roots[c]
    PROVE  KeepsToItsFolders(c)'
<1> USE DEF Typed, HasCalls, HasFindings
<1>1. /\ found' = [found EXCEPT ![c] = Changes(r)] /\ unknown[c] = {}
      /\ todo' = [todo EXCEPT ![c] = todo[c] \ {r}]
  BY DEF Scan
<1>2. \A x \in Changes(r) : x.file \in Inside[r]
  BY ChangesTyped
<1>3. FilesIn(roots[c]) \subseteq FilesIn(roots'[c]) /\ Inside[r] \subseteq FilesIn(roots'[c])
  BY DEF FilesIn
<1>4. \A x \in found'[c] \union unknown'[c] : x.file \in FilesIn(roots'[c])
  BY <1>1, <1>2, <1>3
<1> QED
  BY <1>1, <1>3, <1>4 DEF KeepsToItsFolders, FilesIn

\* A turn of a call keeps to its folders.
LEMMA TurnKeepsToFolders ==
    ASSUME Typed, NEW c \in Calls, KeepsToItsFolders(c), Turn(c),
           todo[c] # {} => phase[c] \in {"before", "accept", "after"}
    PROVE  /\ KeepsToItsFolders(c)'
           /\ \A d \in Calls \ {c} : UNCHANGED <<phase[d], todo[d], roots[d], found[d],
                                                 unknown[d], reported[d]>>
<1> USE DEF Typed, HasCalls, HasFindings, KeepsToItsFolders, FilesIn
<1>1. CASE TakeFolders(c)
  BY <1>1 DEF TakeFolders, Arrives
<1>2. CASE ScanWithin(c)
  BY <1>2 DEF ScanWithin, Arrives, Begin
<1>3. CASE CaptureNothing(c)
  BY <1>3 DEF CaptureNothing, Arrives, scans
<1>4. CASE Register(c)
  BY <1>4 DEF Register, scans
<1>5. CASE TryLock(c)
  BY <1>5 DEF TryLock, Begin
<1>6. CASE Sleep(c)
  BY <1>6 DEF Sleep, scans
<1>7. CASE Wake(c)
  BY <1>7 DEF Wake, scans
<1>8. CASE TimeOut(c)
  BY <1>8 DEF TimeOut, Begin
<1>9. CASE Release(c)
  BY <1>9 DEF Release, LetGo
<1>10. CASE Notify(c)
  BY <1>10 DEF Notify, scans
<1>11. CASE Run(c)
  BY <1>11 DEF Run, scans
<1>12. CASE Drop(c)
  BY <1>12 DEF Drop, LetGo
<1>13. CASE End(c)
  BY <1>13 DEF End, Acts
<1>14. CASE ReportMoved(c)
  BY <1>14 DEF ReportMoved, scans
<1>15. CASE Finish(c)
  BY <1>15 DEF Finish, scans
<1> QED
  BY <1>1, <1>2, <1>3, <1>4, <1>5, <1>6, <1>7, <1>8, <1>9, <1>10, <1>11,
     <1>12, <1>13, <1>14, <1>15 DEF Turn

LEMMA NextInItsFolders ==
    ASSUME Typed, Sheltered, InItsFolders, [Next]_vars
    PROVE  InItsFolders'
<1> DEFINE Same(d) == UNCHANGED <<phase[d], todo[d], roots[d], found[d],
                                  unknown[d], reported[d]>>
<1>1. CASE UNCHANGED <<phase, todo, roots, found, unknown, reported>>
  BY <1>1 DEF InItsFolders, KeepsToItsFolders, FilesIn
<1>2. ASSUME NEW w \in Calls, KeepsToItsFolders(w)',
             \A d \in Calls \ {w} : UNCHANGED <<phase[d], todo[d], roots[d], found[d],
                                                unknown[d], reported[d]>>
      PROVE  InItsFolders'
  <2>1. ASSUME NEW c \in Calls, c # w PROVE KeepsToItsFolders(c)'
    BY <1>2, <2>1 DEF InItsFolders, KeepsToItsFolders, FilesIn
  <2> QED
    BY <1>2, <2>1 DEF InItsFolders
<1>3. ASSUME NEW w \in Calls, Turn(w) PROVE InItsFolders'
  BY <1>2, <1>3, TurnKeepsToFolders DEF InItsFolders, Sheltered
<1>4. ASSUME NEW w \in Calls,
             AcceptOutside(w) \/ AcceptAll(w) \/ Judge(w) \/ Record(w)
      PROVE  InItsFolders'
  <2>1. KeepsToItsFolders(w)
    BY DEF InItsFolders
  <2>2. KeepsToItsFolders(w)' /\ \A d \in Calls \ {w} : Same(d)
    <3>1. CASE AcceptOutside(w)
      <4>1. PICK x \in found[w] : found' = [found EXCEPT ![w] = found[w] \ {x}]
        BY <3>1 DEF AcceptOutside
      <4>2. UNCHANGED <<phase, todo, roots, unknown, reported>>
        BY <3>1 DEF AcceptOutside
      <4> QED
        BY <2>1, <4>1, <4>2 DEF KeepsToItsFolders, Typed, HasFindings, FilesIn
    <3>2. CASE AcceptAll(w)
      <4>1. found[w] = {} /\ unknown[w] = {} /\ reported[w] = {}
        BY <2>1, <3>2 DEF AcceptAll, KeepsToItsFolders, Typed, HasFindings
      <4>2. /\ UNCHANGED <<phase, found, unknown, reported>> /\ phase[w] = "accept"
            /\ \A d \in Calls \ {w} : roots'[d] = roots[d] /\ todo'[d] = todo[d]
        BY <3>2 DEF AcceptAll, Typed, HasCalls
      <4> QED
        BY <4>1, <4>2 DEF KeepsToItsFolders
    <3>3. CASE Judge(w)
      <4>1. PICK x \in found[w] :
              /\ found' = [found EXCEPT ![w] = found[w] \ {x}]
              /\ \/ /\ reported' = [reported EXCEPT ![w] = reported[w] \union {x.file}]
                    /\ UNCHANGED unknown
                 \/ /\ unknown' = [unknown EXCEPT ![w] = {x}]
                    /\ UNCHANGED reported
        BY <3>3 DEF Judge
      <4>2. UNCHANGED <<phase, todo, roots>> /\ phase[w] = "after"
        BY <3>3 DEF Judge
      <4>3. /\ found'[w] \union unknown'[w] \subseteq found[w] \union unknown[w]
            /\ reported'[w] \subseteq reported[w] \union {x.file}
            /\ \A d \in Calls \ {w} : /\ found'[d] = found[d] /\ unknown'[d] = unknown[d]
                                       /\ reported'[d] = reported[d]
        BY <4>1 DEF Typed, HasFindings
      <4>4. reported'[w] \subseteq FilesIn(roots[w])
        BY <2>1, <4>3 DEF KeepsToItsFolders
      <4> QED
        BY <2>1, <4>2, <4>3, <4>4 DEF KeepsToItsFolders, FilesIn
    <3>4. CASE Record(w)
      <4>1. PICK x \in unknown[w] :
              reported' = [reported EXCEPT ![w] = reported[w] \union {x.file}]
        BY <3>4 DEF Record
      <4>2. /\ unknown' = [unknown EXCEPT ![w] = {}]
            /\ UNCHANGED <<phase, todo, roots, found>>
        BY <3>4 DEF Record
      <4>3. reported'[w] \subseteq FilesIn(roots[w]) /\ phase[w] = "after"
            /\ unknown'[w] = {}
            /\ \A d \in Calls \ {w} : unknown'[d] = unknown[d] /\ reported'[d] = reported[d]
        BY <2>1, <4>1, <4>2 DEF KeepsToItsFolders, Typed, HasFindings
      <4> QED
        BY <2>1, <4>2, <4>3 DEF KeepsToItsFolders, FilesIn
    <3> QED
      BY <1>4, <3>1, <3>2, <3>3, <3>4
  <2> QED
    BY <1>2, <2>2
<1>5. ASSUME NEW w \in Calls, NEW r \in Folders,
             ScanBefore(w, r) \/ ScanFails(w, r) \/ ScanAfter(w, r)
      PROVE  InItsFolders'
  <2>1. KeepsToItsFolders(w)
    BY DEF InItsFolders
  <2>2. KeepsToItsFolders(w)' /\ \A d \in Calls \ {w} : Same(d)
    <3>1. CASE ScanBefore(w, r)
      <4>1. /\ Scan(w, r) /\ phase[w] = "before" /\ UNCHANGED <<phase, unknown, reported>>
            /\ roots' = [roots EXCEPT ![w] = roots[w] \union {r}]
        BY <3>1 DEF ScanBefore
      <4>2. r \in roots'[w] /\ roots[w] \subseteq roots'[w]
            /\ \A d \in Calls \ {w} : roots'[d] = roots[d]
        BY <4>1 DEF Typed, HasCalls
      <4>3. KeepsToItsFolders(w)'
        BY <2>1, <4>1, <4>2, ScanKeepsToFolders
      <4> QED
        BY <4>1, <4>2, <4>3 DEF Scan, Typed, HasCalls, HasFindings
    <3>2. CASE ScanFails(w, r)
      BY <2>1, <3>2 DEF ScanFails, KeepsToItsFolders, Typed, HasCalls, HasFindings, FilesIn
    <3>3. CASE ScanAfter(w, r)
      <4>1. Scan(w, r) /\ phase[w] = "after" /\ UNCHANGED <<phase, unknown, reported, roots>>
        BY <3>3 DEF ScanAfter
      <4>2. r \in roots[w]
        BY <2>1, <4>1 DEF KeepsToItsFolders, Scan
      <4>3. KeepsToItsFolders(w)'
        BY <2>1, <4>1, <4>2, ScanKeepsToFolders
      <4> QED
        BY <4>1, <4>3 DEF Scan, Typed, HasCalls, HasFindings
    <3> QED
      BY <1>5, <3>1, <3>2, <3>3
  <2> QED
    BY <1>2, <2>2
<1>6. ASSUME NEW w \in Calls, NEW f \in Files, UndoChange(w, f) \/ Read(w, f)
      PROVE  InItsFolders'
  BY <1>1, <1>6 DEF UndoChange, Read, scans
<1>7. ASSUME NEW w \in Calls, NEW f \in Files, NEW image \in Contents[f],
             Write(w, f, image) \/ Program(w, f, image)
      PROVE  InItsFolders'
  BY <1>1, <1>7 DEF Write, Program, Changed, scans
<1>8. ASSUME NEW r \in Folders, Expire(r) PROVE InItsFolders'
  BY <1>1, <1>8 DEF Expire
<1>9. ASSUME NEW f \in Files, NEW image \in Contents[f], OutsideEdit(f, image)
      PROVE  InItsFolders'
  BY <1>1, <1>9 DEF OutsideEdit, Changed, scans
<1>10. CASE UNCHANGED vars
  BY <1>1, <1>10 DEF vars
<1> QED
  BY <1>3, <1>4, <1>5, <1>6, <1>7, <1>8, <1>9, <1>10 DEF Next, Turn


\* Only a call at work, and only as its kind says, has a hand in a file as one
\* that another call captures for itself.
Another(c, f) == \E w \in Calls : Acts(w) /\ Kind(w, c, f) = "other"

LEMMA TouchOther ==
    ASSUME HasPast, NEW g \in Files, NEW kinds, Touch(kinds, g),
           NEW c \in Calls, NEW f \in Files, "other" \in touched'[c][f],
           "other" \notin touched[c][f]
    PROVE  f = g /\ "other" \in kinds[c]
<1>1. touched'[c] = IF Capturing(c) THEN [touched[c] EXCEPT ![g] = @ \union kinds[c]]
                    ELSE touched[c]
  BY DEF Touch
<1>2. touched[c] \in [Files -> SUBSET Hand]
  BY DEF HasPast
<1> QED
  BY <1>1, <1>2

LEMMA OtherIsAnother ==
    ASSUME Typed, [Next]_vars, NEW c \in Calls, NEW f \in Files,
           "other" \in touched'[c][f], "other" \notin touched[c][f]
    PROVE  Another(c, f)
<1> USE DEF Typed
<1>1. \A d \in Calls : touched[d] \in [Files -> SUBSET Hand]
  BY DEF HasPast
<1>2. ~UNCHANGED touched
  OBVIOUS
<1>3. \A w \in Calls : \A files : "other" \notin Unseen(w, files)[c][f]
  BY DEF Unseen
<1>4. "other" \notin Untouched[f]
  BY DEF Untouched
<1>5. ASSUME NEW w \in Calls, NEW seen, LetGo(w, seen), "other" \notin seen[c][f],
             seen \in [Calls -> [Files -> SUBSET Hand]]
      PROVE  FALSE
  <2>1. touched' = [seen EXCEPT ![w] = Untouched]
    BY <1>5 DEF LetGo
  <2>2. touched'[c] = IF c = w THEN Untouched ELSE seen[c]
    BY <1>5, <2>1
  <2> QED
    BY <1>4, <1>5, <2>2
<1>6. ASSUME NEW w \in Calls, NEW folders, Begin(w, folders) PROVE FALSE
  <2>1. touched'[c] = IF c = w THEN Untouched ELSE touched[c]
    BY <1>6 DEF Begin, HasPast
  <2> QED
    BY <1>4, <2>1
<1>7. ASSUME NEW w \in Calls, Turn(w) PROVE FALSE
  <2>1. CASE TakeFolders(w) \/ CaptureNothing(w) \/ Register(w) \/ Sleep(w) \/ Wake(w)
             \/ Notify(w) \/ Run(w) \/ End(w) \/ ReportMoved(w) \/ Finish(w)
    BY <1>2, <2>1 DEF TakeFolders, CaptureNothing, Register, Sleep, Wake, Notify, Run,
                      End, ReportMoved, Finish, past
  <2>2. CASE ScanWithin(w) \/ TimeOut(w)
    BY <1>6, <2>2 DEF ScanWithin, TimeOut
  <2>3. CASE TryLock(w)
    BY <1>2, <1>6, <2>3 DEF TryLock, past
  <2>4. CASE Release(w)
    BY <1>5, <2>4 DEF Release, HasPast
  <2>5. CASE Drop(w)
    BY <1>3, <1>5, <2>5, UnseenTyped DEF Drop
  <2> QED
    BY <1>7, <2>1, <2>2, <2>3, <2>4, <2>5 DEF Turn
<1>8. ASSUME NEW w \in Calls, Scans(w) PROVE FALSE
  BY <1>2, <1>3, <1>8 DEF Scans, AcceptAll, ScanBefore, ScanFails, ScanAfter, past
<1>9. ASSUME NEW w \in Calls, AcceptOutside(w) \/ Judge(w) \/ Record(w) PROVE FALSE
  BY <1>2, <1>9 DEF AcceptOutside, Judge, Record, past
<1>10. ASSUME NEW w \in Calls, NEW g \in Files, UndoChange(w, g) PROVE Another(c, f)
  BY <1>10, TouchOther DEF UndoChange, Kinds, Another
<1>11. ASSUME NEW w \in Calls, NEW g \in Files, NEW image \in Contents[g], Write(w, g, image)
       PROVE  Another(c, f)
  BY <1>11, TouchOther DEF Write, Kinds, Another
<1>12. ASSUME NEW w \in Calls, NEW g \in Files, Read(w, g) PROVE FALSE
  <2> DEFINE kinds == [d \in Calls |->
                         IF InStep(tl[g], disk[g]) \/ d = w THEN {}
                         ELSE IF d \in Above[w] THEN {"nested"} ELSE {"free"}]
  <2>1. Touch(kinds, g) /\ "other" \notin kinds[c]
    BY <1>12 DEF Read
  <2> HIDE DEF kinds
  <2> QED
    BY <2>1, TouchOther
<1>13. ASSUME NEW w \in Calls, NEW g \in Files, NEW image \in Contents[g],
              Program(w, g, image)
       PROVE  Another(c, f)
  <2> DEFINE kinds == [d \in Calls |->
                  IF Kind(w, d, g) # "nested" THEN Kinds(w, g)[d]
                  ELSE IF \/ Given(w).scans
                          \/ g \in FilesIn(Enclosed(w) \ notes[w])
                  THEN {"program"} ELSE {"unseen"}]
  <2>1. Touch(kinds, g) /\ Acts(w)
    BY <1>13 DEF Program, Changed
  <2>2. "other" \in kinds[c] => Kind(w, c, g) = "other"
    BY DEF Kinds
  <2> HIDE DEF kinds
  <2> QED
    BY <2>1, <2>2, TouchOther DEF Another
<1>14. ASSUME NEW r \in Folders, Expire(r) PROVE FALSE
  BY <1>2, <1>14 DEF Expire, past
<1>15. ASSUME NEW g \in Files, NEW image \in Contents[g], OutsideEdit(g, image) PROVE FALSE
  <2> DEFINE kinds == [d \in Calls |-> {"free"}]
  <2>1. Touch(kinds, g) /\ "other" \notin kinds[c]
    BY <1>15 DEF OutsideEdit, Changed
  <2> HIDE DEF kinds
  <2> QED
    BY <2>1, TouchOther
<1>16. CASE UNCHANGED vars
  BY <1>2, <1>16 DEF vars
<1> QED
  BY <1>7, <1>8, <1>9, <1>10, <1>11, <1>12, <1>13, <1>14, <1>15, <1>16
     DEF Next, Turn, Scans

LEMMA NextCredited ==
    ASSUME Typed, Turns, Sheltered, Credited, ~Parallel, [Next]_vars
    PROVE  Credited'
<1> SUFFICES ASSUME NEW c \in Calls, NEW f \in FilesIn(roots'[c] \union todo'[c]),
                    "other" \in touched'[c][f]
             PROVE  FALSE
  BY DEF Credited, FilesIn
<1>1. touched'[c] # Untouched /\ f \in Files
  <2>1. f \in Files
    BY NextTyped, FoldersAssumption DEF FilesIn, Typed, HasCalls
  <2> QED
    BY <2>1 DEF Untouched
<1>2. roots'[c] \union todo'[c] \subseteq roots[c] \union todo[c]
  BY <1>1, ScansOrNot, ShelterMoves
<1>3. f \in FilesIn(roots[c] \union todo[c])
  BY <1>2 DEF FilesIn
<1>4. Another(c, f)
  BY <1>1, <1>3, OtherIsAnother DEF Credited
<1> QED
  BY <1>3, <1>4, NoOther DEF Another

\* A call reports no file that another call captures for itself and changed
\* meanwhile (`Capture::finish`, `moved_since`), when scripts await the calls
\* they make: the calls at work are one chain under the call that holds the
\* folders, and what the others hold does not overlap.
THEOREM CreditIsDue ==
    ASSUME ~Parallel
    PROVE  Spec => []CreditedToItsCall
<1> DEFINE IInv == Typed /\ Turns /\ Sheltered /\ InItsFolders /\ Credited
<1>1. Init => IInv
  BY InitTyped, InitTurns, InitSheltered
<1>2. IInv /\ [Next]_vars => IInv'
  BY NextTyped, NextTurns, NextSheltered, NextInItsFolders, NextCredited
<1>3. IInv => CreditedToItsCall
  <2> SUFFICES ASSUME IInv, NEW c \in Calls, NEW f \in reported[c]
               PROVE  "other" \notin touched[c][f]
    BY DEF CreditedToItsCall
  <2>1. f \in FilesIn(roots[c] \union todo[c])
    BY DEF InItsFolders, KeepsToItsFolders, FilesIn
  <2> QED
    BY <2>1 DEF Credited
<1> HIDE DEF IInv
<1> QED
  BY <1>1, <1>2, <1>3, PTL DEF Spec

-----------------------------------------------------------------------------
(* What a call that scans reports.                                         *)

Began == {"running", "after", "report", "release"}

\* Whoever is given `q` knows at least what `p` says.
GoesOn(p, q) == p.roots \subseteq q.roots /\ (p.scans => q.scans)

\* A call passes on all that the calls around it do, and what it captures.
PassesOn(c) ==
    /\ \A a \in Above[c] : GoesOn(passes[a], passes[c])
    /\ roots[c] \subseteq passes[c].roots
    /\ c \in Programs /\ roots[c] # {} => passes[c].scans

PassedOn == \A c \in Calls : phase[c] \in Began => PassesOn(c)

\* A call captures only what no call around it scans.
OnlyUnscanned ==
    \A c \in Calls : roots[c] \union todo[c] # {} =>
        Given(c).roots = {} \/ ~Given(c).scans

\* Nobody but the call and the calls inside it had a hand in the file.
Quiet(c, f) == touched[c][f] \subseteq {"own", "program", "nested"}

\* A call that scans has, until it scans a folder again, the files of the
\* folder as they were when it began, and then knows of every change since.
KnowsOf(c, r, f) ==
    /\ phase[c] \in {"before", "running"} \/ r \in todo[c] =>
         base[r] # NoBase /\ (Quiet(c, f) => base[r][f] = start[c][f])
    /\ phase[c] = "after" /\ r \notin todo[c] \union notes[c] /\ Quiet(c, f)
         /\ disk[f] # start[c][f]
         => \/ f \in reported[c]
            \/ \E x \in found[c] \union unknown[c] : x.file = f
    /\ phase[c] = "release" /\ r \notin notes[c] /\ Quiet(c, f)
         /\ disk[f] # start[c][f]
         => f \in reported[c]

KnowsItsChanges(c) ==
    /\ phase[c] \notin {"accept", "report"}
    /\ \A x, y \in unknown[c] : x = y
    /\ phase[c] = "before" =>
         \A f \in FilesIn(roots[c] \union todo[c]) : Quiet(c, f) => disk[f] = start[c][f]
    /\ \A r \in roots[c] : \A f \in Inside[r] : KnowsOf(c, r, f)

ScannersKnow == \A c \in Programs : KnowsItsChanges(c)


LEMMA InitKnows == Init => PassedOn /\ OnlyUnscanned /\ ScannersKnow
  BY FoldersAssumption
     DEF Init, PassedOn, PassesOn, OnlyUnscanned, ScannersKnow, KnowsItsChanges, KnowsOf,
         Began, FilesIn

\* A call that awaits another stays as it is.
LEMMA AwaitedStays ==
    ASSUME Typed, Turns, ~Parallel, [Next]_vars, NEW c \in Calls,
           phase[c] \notin Done, NEW a \in Above[c], a # c
    PROVE  /\ a \in Calls /\ phase[a] = "running" /\ phase'[a] = "running"
           /\ passes'[a] = passes[a]
<1>1. a \in Calls /\ phase[a] = "running" /\ Busy(a)
  BY AboveFacts, AboveAwaits DEF Turns
<1>2. CASE UNCHANGED <<phase, pending, held, woken, passes>>
  BY <1>1, <1>2
<1>3. ASSUME NEW w \in Calls, Turn(w)
      PROVE  phase'[a] = phase[a] /\ passes'[a] = passes[a]
  <2>1. CASE w = a
    <3>1. Moves(a)
      BY <1>1, <1>3, <2>1, TurnMoves
    <3> QED
      BY <1>1, <3>1 DEF Moves, Arrives, Acts, Done
  <2>2. CASE w # a
    BY <1>1, <1>3, <2>2, TurnMoves DEF Stays
  <2> QED
    BY <2>1, <2>2
<1> QED
  BY <1>1, <1>2, <1>3, TurnOrElsewhere

\* While a call is under way, what it captures and passes on stays.
LEMMA BegunStays ==
    ASSUME Typed, Turns, Sheltered, ~Parallel, [Next]_vars, NEW c \in Calls,
           phase[c] \in Began, phase'[c] \in Began
    PROVE  passes'[c] = passes[c] /\ roots'[c] = roots[c]
<1> USE DEF Began
<1>1. CASE UNCHANGED <<phase, pending, held, woken, passes, roots, todo, notes>>
  BY <1>1
<1>2. ASSUME NEW w \in Calls, w # c, Turn(w) \/ Scans(w)
      PROVE  passes'[c] = passes[c] /\ roots'[c] = roots[c]
  BY <1>2, ShelterMoves
<1>3. CASE Turn(c)
  <2>1. passes'[c] = passes[c]
    BY <1>3, TurnMoves DEF Moves, Arrives
  <2>2. roots'[c] = roots[c]
    <3>1. CASE End(c) \/ ReportMoved(c) \/ Finish(c) \/ Run(c)
      BY <3>1 DEF End, ReportMoved, Finish, Run, scans
    <3>2. CASE ~(End(c) \/ ReportMoved(c) \/ Finish(c) \/ Run(c))
      BY <1>3, <3>2 DEF Turn, TakeFolders, ScanWithin, CaptureNothing, Arrives, Register,
         TryLock, Sleep, Wake, TimeOut, Release, Notify, Drop, LetGo, Typed, HasCalls
    <3> QED
      BY <3>1, <3>2
  <2> QED
    BY <2>1, <2>2
<1>4. CASE Scans(c)
  BY <1>4 DEF Scans, AcceptAll, ScanBefore, ScanFails, ScanAfter
<1> QED
  BY <1>1, <1>2, <1>3, <1>4, ScansOrNot

LEMMA NextPassedOn ==
    ASSUME Typed, Turns, Sheltered, PassedOn, ~Parallel, [Next]_vars
    PROVE  PassedOn'
<1> SUFFICES ASSUME NEW c \in Calls, phase'[c] \in Began
             PROVE  /\ \A a \in Above[c] : GoesOn(passes'[a], passes'[c])
                    /\ roots'[c] \subseteq passes'[c].roots
                    /\ c \in Programs /\ roots'[c] # {} => passes'[c].scans
  BY DEF PassedOn, PassesOn, GoesOn
<1>1. CASE phase[c] \in Began
  <2>1. passes'[c] = passes[c] /\ roots'[c] = roots[c]
    BY <1>1, BegunStays
  <2>2. phase[c] \notin Done
    BY <1>1 DEF Began, Done
  <2>3. \A a \in Above[c] : passes'[a] = passes[a]
    BY <2>1, <2>2, AwaitedStays
  <2>4. PassesOn(c)
    BY <1>1 DEF PassedOn
  <2> QED
    BY <2>1, <2>3, <2>4 DEF PassesOn
<1>2. CASE phase[c] \notin Began
  <2>1. Turn(c)
    BY <1>2, TurnOrElsewhere, TurnMoves DEF Stays
  <2>2. CaptureNothing(c) \/ Run(c)
    <3> USE DEF Typed, HasCalls, Began
    <3>1. ~TakeFolders(c) /\ ~ScanWithin(c) /\ ~Register(c) /\ ~Sleep(c) /\ ~Wake(c)
          /\ ~TimeOut(c)
      BY <1>2 DEF TakeFolders, ScanWithin, Register, Sleep, Wake, TimeOut, Begin
    <3>2. ~TryLock(c)
      BY <1>2 DEF TryLock, Begin
    <3>3. ~Release(c) /\ ~Notify(c) /\ ~Drop(c)
      BY <1>2 DEF Release, Notify, Drop, LetGo
    <3>4. ~End(c) /\ ~ReportMoved(c) /\ ~Finish(c)
      BY <1>2 DEF End, Acts, ReportMoved, Finish
    <3> QED
      BY <2>1, <3>1, <3>2, <3>3, <3>4 DEF Turn
  <2>3. /\ GoesOn(Given(c), passes'[c])
        /\ roots'[c] \subseteq passes'[c].roots
        /\ c \in Programs /\ roots'[c] # {} => passes'[c].scans
        /\ \A a \in Calls \ {c} : passes'[a] = passes[a]
    <3>1. CASE CaptureNothing(c)
      <4>1. passes' = [passes EXCEPT ![c] = Given(c)] /\ roots'[c] = {}
        BY <3>1 DEF CaptureNothing, scans, Arrives, Sheltered
      <4> QED
        BY <4>1 DEF Typed, HasCalls, GoesOn
    <3>2. CASE Run(c)
      <4>1. /\ passes' = [passes EXCEPT ![c] =
                            [roots |-> Given(c).roots \union roots[c],
                             scans |-> Given(c).scans \/ c \in Programs]]
            /\ roots' = roots
        BY <3>2 DEF Run, scans
      <4> QED
        BY <4>1 DEF Typed, HasCalls, GoesOn
    <3> QED
      BY <2>2, <3>1, <3>2
  <2>4. ASSUME NEW a \in Above[c], a # c
        PROVE  GoesOn(passes'[a], passes'[c])
    <3>1. ParentOf[c] # NoCall
      <4>1. SUFFICES ASSUME ParentOf[c] = NoCall PROVE FALSE
        OBVIOUS
      <4>2. Upward({c}) /\ c \in {c} /\ {c} \in SUBSET Calls
        BY <4>1 DEF Upward
      <4> QED
        BY <2>4, <4>2, AboveFacts
    <3> DEFINE p == ParentOf[c]
    <3>2. p \in Calls /\ a \in Above[p] /\ a \in Calls
      BY <2>4, <3>1, AboveParent, AboveFacts
    <3>3. phase[p] = "running"
      BY <2>2, <3>1, <3>2 DEF CaptureNothing, Arrives, MayCall, Acts, Run, Turns, Nested,
         Underway, Done
    <3>4. GoesOn(passes[a], passes[p])
      BY <3>2, <3>3 DEF PassedOn, PassesOn, Began
    <3>5. Given(c) = passes[p] /\ passes'[a] = passes[a]
      BY <2>3, <2>4, <3>1, <3>2 DEF Given
    <3>6. \A x, y, z : GoesOn(x, y) /\ GoesOn(y, z) => GoesOn(x, z)
      BY DEF GoesOn
    <3> QED
      BY <2>3, <3>4, <3>5, <3>6
  <2>5. GoesOn(passes'[c], passes'[c])
    BY DEF GoesOn
  <2> QED
    BY <2>3, <2>4, <2>5
<1> QED
  BY <1>1, <1>2

LEMMA NextOnlyUnscanned ==
    ASSUME Typed, Turns, Sheltered, OnlyUnscanned, ~Parallel, [Next]_vars
    PROVE  OnlyUnscanned'
<1> SUFFICES ASSUME NEW c \in Calls, roots'[c] \union todo'[c] # {}
             PROVE  Given(c).roots' = {} \/ ~Given(c).scans'
  BY DEF OnlyUnscanned
<1>1. phase'[c] \notin Done
  BY NextSheltered DEF Sheltered, Done
<1>2. Given(c)' = Given(c)
  BY <1>1, NextNested DEF Turns
<1>3. Given(c).roots = {} \/ ~Given(c).scans
  BY ScansOrNot, ShelterMoves DEF OnlyUnscanned
<1> QED
  BY <1>2, <1>3

\* No other call scans a file that a call scans.
LEMMA SoleScanner ==
    ASSUME Typed, Turns, Sheltered, PassedOn, OnlyUnscanned, ~Parallel,
           NEW c \in Programs, NEW r \in roots[c], NEW d \in Calls, c # d,
           r \in todo[d], phase[d] \in {"before", "after"}, NEW f \in Inside[r]
    PROVE  FALSE
<1>1. c \in Calls /\ r \in Folders /\ held \in [Calls -> SUBSET Folders]
  BY FoldersAssumption DEF Typed, HasCalls
<1>2. Covered(c, r) /\ Covered(d, r) /\ phase[c] \notin Done /\ phase[d] \notin Done
  BY <1>1 DEF Sheltered, Done
<1>3. ~Busy(d)
  BY FoldersAssumption DEF Busy, Turns, Nested, Underway
<1>4. PICK a \in Above[c] : a \in Above[d]
  BY <1>1, <1>2, OneHolder DEF Turns
<1>5. c \in Above[d]
  BY <1>1, <1>2, <1>3, <1>4, OneChain DEF Turns
<1>6. phase[c] = "running"
  BY <1>2, <1>5, AboveAwaits DEF Turns
<1>7. r \in passes[c].roots /\ passes[c].scans
  BY <1>1, <1>6 DEF PassedOn, PassesOn, Began
<1>8. ParentOf[d] # NoCall
  <2>1. SUFFICES ASSUME ParentOf[d] = NoCall PROVE FALSE
    OBVIOUS
  <2>2. Upward({d}) /\ d \in {d} /\ {d} \in SUBSET Calls
    BY <2>1 DEF Upward
  <2> QED
    BY <1>5, <2>2, AboveFacts
<1> DEFINE p == ParentOf[d]
<1>9. p \in Calls /\ c \in Above[p]
  BY <1>5, <1>8, AboveParent
<1>10. phase[p] = "running"
  BY <1>2, <1>8, <1>9 DEF Turns, Nested, Underway
<1>11. r \in Given(d).roots /\ Given(d).scans
  BY <1>7, <1>8, <1>9, <1>10 DEF PassedOn, PassesOn, GoesOn, Began, Given
<1> QED
  BY <1>11 DEF OnlyUnscanned


\* A call stays where it is and keeps what it has seen; it may only learn of
\* others who had a hand in a file.
Rests(c) ==
    /\ UNCHANGED <<phase[c], roots[c], todo[c], found[c], unknown[c], reported[c],
                   notes[c], start[c]>>
    /\ \A f \in Files : touched[c][f] \subseteq touched'[c][f]

LEMMA TouchGrows ==
    ASSUME HasPast, NEW g \in Files, NEW kinds, Touch(kinds, g), NEW c \in Calls,
           NEW f \in Files
    PROVE  /\ touched[c][f] \subseteq touched'[c][f]
           /\ Capturing(c) => kinds[c] \subseteq touched'[c][g]
<1>1. touched'[c] = IF Capturing(c) THEN [touched[c] EXCEPT ![g] = @ \union kinds[c]]
                    ELSE touched[c]
  BY DEF Touch
<1>2. touched[c] \in [Files -> SUBSET Hand]
  BY DEF HasPast
<1> QED
  BY <1>1, <1>2

LEMMA UnseenGrows ==
    ASSUME HasPast, NEW w \in Calls, NEW files, NEW c \in Calls, NEW f \in Files
    PROVE  touched[c][f] \subseteq Unseen(w, files)[c][f]
  BY DEF Unseen, HasPast

\* Steps that scan nothing and leave where calls are leave the calls at rest.
LEMMA AllRest ==
    ASSUME Typed, UNCHANGED <<phase, roots, todo, found, unknown, reported, notes, start>>,
           UNCHANGED touched \/ \E g \in Files, kinds \in [Calls -> SUBSET Hand] :
                                  Touch(kinds, g)
    PROVE  \A c \in Calls : Rests(c)
  BY TouchGrows DEF Rests, Typed

LEMMA OthersRestInTurn ==
    ASSUME Typed, NEW w \in Calls, Turn(w), NEW c \in Calls, c # w
    PROVE  Rests(c)
<1> USE DEF Typed, HasCalls, HasFindings, HasPast, Rests
<1>1. CASE TakeFolders(w)
  BY <1>1 DEF TakeFolders
<1>2. CASE ScanWithin(w)
  BY <1>2 DEF ScanWithin, Begin
<1>3. CASE CaptureNothing(w)
  BY <1>3 DEF CaptureNothing, scans, past
<1>4. CASE Register(w)
  BY <1>4 DEF Register, scans, past
<1>5. CASE TryLock(w)
  BY <1>5 DEF TryLock, Begin, past
<1>6. CASE Sleep(w)
  BY <1>6 DEF Sleep, scans, past
<1>7. CASE Wake(w)
  BY <1>7 DEF Wake, scans, past
<1>8. CASE TimeOut(w)
  BY <1>8 DEF TimeOut, Begin
<1>9. CASE Release(w)
  BY <1>9 DEF Release, LetGo
<1>10. CASE Notify(w)
  BY <1>10 DEF Notify, scans, past
<1>11. CASE Run(w)
  BY <1>11 DEF Run, scans, past
<1>12. CASE Drop(w)
  <2>1. touched' = [Unseen(w, FilesIn(roots[w])) EXCEPT ![w] = Untouched]
    BY <1>12 DEF Drop, LetGo
  <2>2. touched'[c] = Unseen(w, FilesIn(roots[w]))[c]
    BY <2>1 DEF Unseen
  <2> QED
    BY <1>12, <2>2, UnseenGrows DEF Drop, LetGo
<1>13. CASE End(w)
  BY <1>13 DEF End, past
<1>14. CASE ReportMoved(w)
  BY <1>14 DEF ReportMoved, scans, past
<1>15. CASE Finish(w)
  BY <1>15 DEF Finish, scans, past
<1> QED
  BY <1>1, <1>2, <1>3, <1>4, <1>5, <1>6, <1>7, <1>8, <1>9, <1>10, <1>11,
     <1>12, <1>13, <1>14, <1>15 DEF Turn

LEMMA OthersRestInScans ==
    ASSUME Typed, NEW w \in Calls, NEW c \in Calls, c # w,
           Scans(w) \/ AcceptOutside(w) \/ Judge(w) \/ Record(w)
    PROVE  Rests(c)
<1> USE DEF Typed, HasCalls, HasFindings, HasPast, Rests
<1>1. CASE AcceptAll(w)
  BY <1>1 DEF AcceptAll, past
<1>2. ASSUME NEW r \in Folders, ScanBefore(w, r) \/ ScanAfter(w, r) PROVE Rests(c)
  BY <1>2 DEF ScanBefore, ScanAfter, Scan, past
<1>3. ASSUME NEW r \in Folders, ScanFails(w, r) PROVE Rests(c)
  BY <1>3, UnseenGrows DEF ScanFails
<1>4. CASE AcceptOutside(w)
  BY <1>4 DEF AcceptOutside, past
<1>5. CASE Judge(w)
  BY <1>5 DEF Judge, past
<1>6. CASE Record(w)
  BY <1>6 DEF Record, past
<1> QED
  BY <1>1, <1>2, <1>3, <1>4, <1>5, <1>6 DEF Scans


\* What the scripts, programs and editors do to a file: every call rests, and
\* learns what kind of change it was.
LEMMA WorkIsSeen ==
    ASSUME Typed, NEW c \in Calls, NEW g \in Files,
           \/ \E w \in Calls : \/ UndoChange(w, g) \/ Read(w, g)
                               \/ \E image \in Contents[g] :
                                    Write(w, g, image) \/ Program(w, g, image)
           \/ \E image \in Contents[g] : OutsideEdit(g, image)
    PROVE  /\ Rests(c) /\ UNCHANGED base
           /\ \A f \in Files : disk'[f] # disk[f] /\ Capturing(c) =>
                \/ "free" \in touched'[c][f]
                \/ \E w \in Calls : /\ Acts(w)
                                    /\ \/ Kind(w, c, f) \in touched'[c][f]
                                       \/ Kind(w, c, f) = "nested"
<1> DEFINE Goal == /\ Rests(c) /\ UNCHANGED base
                   /\ \A f \in Files : disk'[f] # disk[f] /\ Capturing(c) =>
                        \/ "free" \in touched'[c][f]
                        \/ \E w \in Calls : /\ Acts(w)
                                            /\ \/ Kind(w, c, f) \in touched'[c][f]
                                               \/ Kind(w, c, f) = "nested"
<1>0. disk \in [Files -> Image] /\ HasPast
  BY DEF Typed, HasFiles
<1>1. ASSUME NEW kinds, Touch(kinds, g), UNCHANGED <<phase, scans, reported, start>>,
             \A f \in Files : f # g => disk'[f] = disk[f],
             disk'[g] # disk[g] =>
                \/ "free" \in kinds[c]
                \/ \E w \in Calls : /\ Acts(w)
                                    /\ Kind(w, c, g) \in kinds[c] \/ Kind(w, c, g) = "nested"
      PROVE  Goal
  <2>1. /\ \A f \in Files : touched[c][f] \subseteq touched'[c][f]
        /\ Capturing(c) => kinds[c] \subseteq touched'[c][g]
    BY <1>0, <1>1, TouchGrows
  <2>2. Rests(c) /\ UNCHANGED base
    BY <1>1, <2>1 DEF Rests, scans
  <2> QED
    BY <1>1, <2>1, <2>2
<1> HIDE DEF Goal
<1>2. ASSUME NEW w \in Calls, UndoChange(w, g) PROVE Goal
  <2>1. Touch(Kinds(w, g), g) /\ Kinds(w, g)[c] = {Kind(w, c, g)} /\ Acts(w)
    BY <1>2 DEF UndoChange, Kinds
  <2>2. disk' = [disk EXCEPT ![g] = JumpImage(tl[g], disk[g], UndoTarget(tl[g]))]
        /\ UNCHANGED <<phase, scans, reported, start>>
    BY <1>2 DEF UndoChange
  <2>3. \A f \in Files : f # g => disk'[f] = disk[f]
    BY <1>0, <2>2
  <2> QED
    BY <1>1, <2>1, <2>2, <2>3
<1>3. ASSUME NEW w \in Calls, NEW image \in Contents[g], Write(w, g, image) PROVE Goal
  <2>1. Touch(Kinds(w, g), g) /\ Kinds(w, g)[c] = {Kind(w, c, g)} /\ Acts(w)
    BY <1>3 DEF Write, Kinds
  <2>2. disk' = [disk EXCEPT ![g] = image] /\ UNCHANGED <<phase, scans, reported, start>>
    BY <1>3 DEF Write
  <2>3. \A f \in Files : f # g => disk'[f] = disk[f]
    BY <1>0, <2>2
  <2> QED
    BY <1>1, <2>1, <2>2, <2>3
<1>4. ASSUME NEW w \in Calls, Read(w, g) PROVE Goal
  <2> DEFINE kinds == [d \in Calls |->
                         IF InStep(tl[g], disk[g]) \/ d = w THEN {}
                         ELSE IF d \in Above[w] THEN {"nested"} ELSE {"free"}]
  <2>1. Touch(kinds, g) /\ UNCHANGED <<disk, phase, scans, reported, start>>
    BY <1>4 DEF Read
  <2> HIDE DEF kinds
  <2> QED
    BY <1>1, <2>1
<1>5. ASSUME NEW w \in Calls, NEW image \in Contents[g], Program(w, g, image) PROVE Goal
  <2> DEFINE kinds == [d \in Calls |->
                  IF Kind(w, d, g) # "nested" THEN Kinds(w, g)[d]
                  ELSE IF \/ Given(w).scans
                          \/ g \in FilesIn(Enclosed(w) \ notes[w])
                  THEN {"program"} ELSE {"unseen"}]
  <2>1. Changed(kinds, g, image) /\ Acts(w)
    BY <1>5 DEF Program
  <2>2. Kind(w, c, g) \in kinds[c] \/ Kind(w, c, g) = "nested"
    BY DEF Kinds
  <2> HIDE DEF kinds
  <2>3. /\ Touch(kinds, g) /\ UNCHANGED <<phase, scans, reported, start>>
        /\ \A f \in Files : f # g => disk'[f] = disk[f]
    BY <1>0, <2>1 DEF Changed
  <2> QED
    BY <1>1, <2>1, <2>2, <2>3
<1>6. ASSUME NEW image \in Contents[g], OutsideEdit(g, image) PROVE Goal
  <2> DEFINE kinds == [d \in Calls |-> {"free"}]
  <2>1. Changed(kinds, g, image) /\ "free" \in kinds[c]
    BY <1>6 DEF OutsideEdit
  <2> HIDE DEF kinds
  <2>2. /\ Touch(kinds, g) /\ UNCHANGED <<phase, scans, reported, start>>
        /\ \A f \in Files : f # g => disk'[f] = disk[f]
    BY <1>0, <2>1 DEF Changed
  <2> QED
    BY <1>1, <2>1, <2>2
<1>7. Goal
  BY <1>2, <1>3, <1>4, <1>5, <1>6
<1> QED
  BY <1>7 DEF Goal

\* A call that is not at work sees every change to its files as another's.
LEMMA ChangesAreSeen ==
    ASSUME Typed, Turns, ~Parallel, NEW c \in Calls, Capturing(c),
           phase[c] # "running", NEW f \in Files, NEW w \in Calls, Acts(w)
    PROVE  Kind(w, c, f) \in {"other", "free"}
<1>1. w # c /\ phase[w] \notin Done
  BY DEF Acts, Done
<1>2. c \notin Above[w]
  BY <1>1, AboveAwaits DEF Turns
<1> QED
  BY <1>1, <1>2 DEF Kind

\* A call at rest knows what it did as long as the files it looks at, and the
\* scans of its folders, are left alone or it learns who had a hand in them.
LEMMA RestingKnows ==
    ASSUME Typed, NEW c \in Calls, KnowsItsChanges(c), Rests(c),
           \A f \in FilesIn(roots[c] \union todo[c]) :
              /\ disk'[f] # disk[f] /\ phase[c] \in {"before", "after", "release"}
              => ~Quiet(c, f)',
           \A r \in roots[c] : \A f \in Inside[r] : base'[r] = base[r]
    PROVE  KnowsItsChanges(c)'
<1>1. roots[c] \subseteq Folders /\ todo[c] \subseteq Folders
  BY DEF Typed, HasCalls
<1>2. \A f \in FilesIn(roots[c] \union todo[c]) : Quiet(c, f)' => Quiet(c, f)
  <2>1. \A f \in FilesIn(roots[c] \union todo[c]) : f \in Files
    BY <1>1, FoldersAssumption DEF FilesIn
  <2> QED
    BY <2>1 DEF Rests, Quiet
<1>3. \A r \in roots[c] : \A f \in Inside[r] : f \in FilesIn(roots[c] \union todo[c])
  BY DEF FilesIn
<1>4. FilesIn(roots'[c] \union todo'[c]) = FilesIn(roots[c] \union todo[c])
  BY DEF Rests
<1> HIDE DEF FilesIn
<1>5. phase'[c] = phase[c] /\ roots'[c] = roots[c] /\ todo'[c] = todo[c]
      /\ found'[c] = found[c] /\ unknown'[c] = unknown[c] /\ reported'[c] = reported[c]
      /\ notes'[c] = notes[c] /\ start'[c] = start[c]
  BY DEF Rests
<1>6. phase'[c] = "before" =>
         \A f \in FilesIn(roots'[c] \union todo'[c]) : Quiet(c, f)' => disk'[f] = start'[c][f]
  BY <1>2, <1>4, <1>5 DEF KnowsItsChanges
<1>7. ASSUME NEW r \in roots[c], NEW f \in Inside[r] PROVE KnowsOf(c, r, f)'
  <2>1. base'[r] = base[r] /\ (Quiet(c, f)' => Quiet(c, f)) /\ KnowsOf(c, r, f)
    BY <1>2, <1>3 DEF KnowsItsChanges
  <2>2. phase[c] \in {"after", "release"} /\ Quiet(c, f)' => disk'[f] = disk[f]
    BY <1>3
  <2> HIDE DEF Quiet
  <2> QED
    BY <1>5, <2>1, <2>2 DEF KnowsOf
<1>8. phase'[c] \notin {"accept", "report"} /\ \A x, y \in unknown'[c] : x = y
  BY <1>5 DEF KnowsItsChanges
<1> QED
  BY <1>5, <1>6, <1>7, <1>8, Zenon DEF KnowsItsChanges


\* A call that captures nothing yet knows all there is to know.
LEMMA NewcomerKnows ==
    ASSUME NEW c \in Calls, phase'[c] \notin {"accept", "report"}, unknown'[c] = {},
           roots'[c] = {}, todo'[c] = {} \/ start'[c] = disk'
    PROVE  KnowsItsChanges(c)'
  BY DEF KnowsItsChanges, FilesIn

\* A call that scans keeps its knowledge through the turns it takes.
LEMMA TurnKnows ==
    ASSUME Typed, Sheltered, NEW c \in Programs, KnowsItsChanges(c), Turn(c)
    PROVE  KnowsItsChanges(c)'
<1>0. /\ c \in Calls
      /\ phase[c] \notin Capturers => roots[c] = {} /\ todo[c] = {}
      /\ phase[c] # "after" => unknown[c] = {}
      /\ phase[c] \notin {"accept", "report"}
  BY FoldersAssumption
     DEF Sheltered, Capturers, Typed, HasCalls, HasFindings, KnowsItsChanges
<1> USE DEF Typed, HasCalls, HasFindings, HasPast
<1>1. CASE TakeFolders(c)
  BY <1>0, <1>1, NewcomerKnows DEF TakeFolders, Arrives, Capturers
<1>2. CASE ScanWithin(c)
  BY <1>0, <1>2, NewcomerKnows DEF ScanWithin, Begin, Arrives, Capturers
<1>3. CASE CaptureNothing(c)
  BY <1>0, <1>3, NewcomerKnows DEF CaptureNothing, Arrives, Capturers, scans
<1>4. CASE Register(c)
  BY <1>0, <1>4, NewcomerKnows DEF Register, Capturers, scans
<1>5. CASE TryLock(c)
  BY <1>0, <1>5, NewcomerKnows DEF TryLock, Begin, Capturers, past
<1>6. CASE Sleep(c)
  BY <1>0, <1>6, NewcomerKnows DEF Sleep, Capturers, scans
<1>7. CASE Wake(c)
  BY <1>0, <1>7, NewcomerKnows DEF Wake, Capturers, scans
<1>8. CASE TimeOut(c)
  BY <1>0, <1>8, NewcomerKnows DEF TimeOut, Begin, Capturers
<1>9. CASE Release(c)
  <2>1. phase[c] = "release" /\ todo[c] = {}
    BY <1>0, <1>9 DEF Release, Sheltered
  <2> QED
    BY <1>0, <1>9, <2>1, NewcomerKnows DEF Release, LetGo
<1>10. CASE Notify(c)
  BY <1>0, <1>10, NewcomerKnows DEF Notify, Capturers, scans
<1>11. CASE Run(c)
  <2>1. /\ phase[c] = "before" /\ phase'[c] = "running"
        /\ UNCHANGED <<disk, base, roots, todo, unknown, start, touched>>
    BY <1>0, <1>11 DEF Run, scans, past
  <2> QED
    BY <2>1 DEF KnowsItsChanges, KnowsOf, Quiet
<1>12. CASE Drop(c)
  BY <1>0, <1>12, NewcomerKnows DEF Drop, LetGo
<1>13. CASE End(c)
  <2>1. /\ phase[c] = "running" /\ phase'[c] = "after" /\ todo'[c] = roots[c]
        /\ UNCHANGED <<disk, base, roots, unknown, start, touched>>
    BY <1>0, <1>13 DEF End, Acts, past
  <2> QED
    BY <2>1 DEF KnowsItsChanges, KnowsOf, Quiet
<1>14. CASE ReportMoved(c)
  BY <1>0, <1>14 DEF ReportMoved
<1>15. CASE Finish(c)
  <2>1. /\ phase[c] = "after" /\ phase'[c] = "release"
        /\ todo[c] = {} /\ found[c] = {} /\ unknown[c] = {}
        /\ UNCHANGED <<disk, base, roots, todo, unknown, notes, reported, start, touched>>
    BY <1>0, <1>15 DEF Finish, scans, past
  <2> QED
    BY <2>1 DEF KnowsItsChanges, KnowsOf, Quiet
<1> QED
  BY <1>1, <1>2, <1>3, <1>4, <1>5, <1>6, <1>7, <1>8, <1>9, <1>10, <1>11,
     <1>12, <1>13, <1>14, <1>15 DEF Turn

\* A scan sees the files of the folder as they are.
LEMMA ScanSees ==
    ASSUME Typed, NEW c \in Calls, NEW r \in Folders, Scan(c, r)
    PROVE  /\ base'[r] # NoBase /\ \A f \in Inside[r] : base'[r][f] = disk[f]
           /\ \A q \in Folders \ {r} : base'[q] = base[q]
           /\ todo'[c] = todo[c] \ {r} /\ r \in todo[c]
           /\ found[c] = {} /\ unknown[c] = {}
           /\ base[r] # NoBase =>
                \A f \in Inside[r] : base[r][f] # disk[f] =>
                  \E x \in found'[c] : x.file = f
<1>1. disk \in [Files -> Image] /\ Inside[r] \subseteq Files
      /\ base = [q \in Folders |-> base[q]]
  BY FoldersAssumption DEF Typed, HasFiles
<1>2. base' = [base EXCEPT ![r] = [f \in Inside[r] |-> disk[f]]]
      /\ todo' = [todo EXCEPT ![c] = todo[c] \ {r}]
      /\ found' = [found EXCEPT ![c] = Changes(r)]
      /\ r \in todo[c] /\ found[c] = {} /\ unknown[c] = {}
  BY DEF Scan
<1>3. [f \in Inside[r] |-> disk[f]] \in [Inside[r] -> Image]
  BY <1>1
<1>4. [f \in Inside[r] |-> disk[f]] # NoBase
  BY <1>3, NoBaseAssumption
<1>5. base'[r] = [f \in Inside[r] |-> disk[f]] /\ \A q \in Folders \ {r} : base'[q] = base[q]
  BY <1>1, <1>2
<1>6. todo'[c] = todo[c] \ {r} /\ found'[c] = Changes(r)
  BY <1>2 DEF Typed, HasCalls, HasFindings
<1>7. ASSUME base[r] # NoBase, NEW f \in Inside[r], base[r][f] # disk[f]
      PROVE  \E x \in Changes(r) : x.file = f
  <2>1. [file |-> f, before |-> base[r][f], after |-> disk[f]] \in Changes(r)
    BY <1>7 DEF Changes
  <2> QED
    BY <2>1
<1> QED
  BY <1>2, <1>4, <1>5, <1>6, <1>7

\* A call that scans keeps its knowledge as it scans and goes through what it
\* found.
LEMMA ScansKnow ==
    ASSUME Typed, Sheltered, InItsFolders, NEW c \in Programs, KnowsItsChanges(c),
           Scans(c) \/ AcceptOutside(c) \/ Judge(c) \/ Record(c)
    PROVE  KnowsItsChanges(c)'
<1>0. /\ c \in Calls /\ roots[c] \subseteq Folders /\ todo[c] \subseteq Folders
      /\ phase[c] = "after" => todo[c] \subseteq roots[c]
      /\ phase[c] \notin {"accept", "report"}
  BY FoldersAssumption DEF InItsFolders, KeepsToItsFolders, Typed, HasCalls, KnowsItsChanges
<1> USE DEF Typed, HasCalls, HasFindings, HasPast
<1>1. ~AcceptAll(c)
  BY <1>0 DEF AcceptAll
<1>2. ASSUME NEW r \in Folders, ScanBefore(c, r) PROVE KnowsItsChanges(c)'
  <2>1. /\ phase[c] = "before" /\ phase'[c] = "before" /\ Scan(c, r)
        /\ roots'[c] = roots[c] \union {r}
        /\ UNCHANGED <<disk, unknown, start, touched>>
    BY <1>0, <1>2 DEF ScanBefore, past
  <2>2. /\ base'[r] # NoBase /\ \A f \in Inside[r] : base'[r][f] = disk[f]
        /\ \A q \in Folders \ {r} : base'[q] = base[q]
        /\ todo'[c] = todo[c] \ {r} /\ r \in todo[c]
    BY <1>0, <2>1, ScanSees
  <2>3. FilesIn(roots'[c] \union todo'[c]) = FilesIn(roots[c] \union todo[c])
    BY <2>1, <2>2 DEF FilesIn
  <2>4. ASSUME NEW q \in roots'[c], NEW f \in Inside[q] PROVE KnowsOf(c, q, f)'
    <3>1. CASE q = r
      <4>1. f \in FilesIn(roots[c] \union todo[c])
        BY <2>2, <2>4, <3>1 DEF FilesIn
      <4> QED
        BY <2>1, <2>2, <2>4, <3>1, <4>1 DEF KnowsOf, KnowsItsChanges, Quiet
    <3>2. CASE q # r
      <4>1. q \in roots[c] /\ KnowsOf(c, q, f) /\ base'[q] = base[q]
        BY <1>0, <2>1, <2>2, <2>4, <3>2 DEF KnowsItsChanges
      <4> QED
        BY <2>1, <4>1 DEF KnowsOf, Quiet
    <3> QED
      BY <3>1, <3>2
  <2> QED
    BY <2>1, <2>3, <2>4 DEF KnowsItsChanges, Quiet
<1>3. ASSUME NEW r \in Folders, ScanFails(c, r) PROVE KnowsItsChanges(c)'
  <2>1. /\ UNCHANGED <<disk, phase, base, roots, found, unknown, reported, start>>
        /\ todo'[c] = todo[c] \ {r} /\ notes'[c] = notes[c] \union {r}
        /\ touched'[c] = touched[c]
        /\ phase[c] \in {"before", "after"}
    BY <1>0, <1>3 DEF ScanFails, Unseen
  <2>2. FilesIn(roots'[c] \union todo'[c]) \subseteq FilesIn(roots[c] \union todo[c])
    BY <2>1 DEF FilesIn
  <2>3. ASSUME NEW q \in roots[c], NEW f \in Inside[q] PROVE KnowsOf(c, q, f)'
    <3>1. KnowsOf(c, q, f)
      BY DEF KnowsItsChanges
    <3> QED
      BY <2>1, <3>1 DEF KnowsOf, Quiet
  <2>4. phase'[c] = "before" =>
          \A f \in FilesIn(roots'[c] \union todo'[c]) :
            Quiet(c, f)' => disk'[f] = start'[c][f]
    BY <2>1, <2>2 DEF KnowsItsChanges, Quiet
  <2> QED
    BY <2>1, <2>3, <2>4 DEF KnowsItsChanges
<1>4. ASSUME NEW r \in Folders, ScanAfter(c, r) PROVE KnowsItsChanges(c)'
  <2>1. /\ phase[c] = "after" /\ Scan(c, r)
        /\ UNCHANGED <<disk, phase, roots, unknown, reported, notes, start, touched>>
    BY <1>4 DEF ScanAfter, past
  <2>2. /\ base'[r] # NoBase /\ \A f \in Inside[r] : base'[r][f] = disk[f]
        /\ \A q \in Folders \ {r} : base'[q] = base[q]
        /\ todo'[c] = todo[c] \ {r} /\ r \in todo[c]
        /\ found[c] = {} /\ unknown[c] = {}
        /\ base[r] # NoBase =>
             \A f \in Inside[r] : base[r][f] # disk[f] => \E x \in found'[c] : x.file = f
    BY <1>0, <2>1, ScanSees
  <2>3. ASSUME NEW q \in roots[c], NEW f \in Inside[q] PROVE KnowsOf(c, q, f)'
    <3>1. KnowsOf(c, q, f)
      BY DEF KnowsItsChanges
    <3>2. CASE q = r
      BY <2>1, <2>2, <3>1, <3>2 DEF KnowsOf, Quiet
    <3>3. CASE q # r
      BY <1>0, <2>1, <2>2, <3>1, <3>3 DEF KnowsOf, Quiet
    <3> QED
      BY <3>2, <3>3
  <2> QED
    BY <2>1, <2>3 DEF KnowsItsChanges
<1>5. CASE AcceptOutside(c)
  <2>1. /\ phase[c] = "before"
        /\ UNCHANGED <<disk, phase, base, roots, todo, unknown, start, touched>>
    BY <1>5 DEF AcceptOutside, past
  <2>2. ASSUME NEW q \in roots[c], NEW f \in Inside[q] PROVE KnowsOf(c, q, f)'
    <3>1. KnowsOf(c, q, f)
      BY DEF KnowsItsChanges
    <3> QED
      BY <2>1, <3>1 DEF KnowsOf, Quiet
  <2> QED
    BY <2>1, <2>2 DEF KnowsItsChanges, Quiet
<1>6. CASE Judge(c)
  <2>1. PICK x \in found[c] :
          /\ found' = [found EXCEPT ![c] = found[c] \ {x}]
          /\ \/ /\ reported' = [reported EXCEPT ![c] = reported[c] \union {x.file}]
                /\ UNCHANGED unknown
             \/ /\ unknown' = [unknown EXCEPT ![c] = {x}]
                /\ UNCHANGED reported
    BY <1>6 DEF Judge
  <2>2. /\ phase[c] = "after" /\ unknown[c] = {}
        /\ UNCHANGED <<disk, phase, base, roots, todo, notes, start, touched>>
    BY <1>6 DEF Judge, past
  <2>3. /\ found'[c] = found[c] \ {x} /\ reported[c] \subseteq reported'[c]
        /\ \A y, z \in unknown'[c] : y = z
        /\ x.file \in reported'[c] \/ x \in unknown'[c]
    BY <1>0, <2>1, <2>2
  <2>4. ASSUME NEW q \in roots[c], NEW f \in Inside[q] PROVE KnowsOf(c, q, f)'
    <3>1. KnowsOf(c, q, f)
      BY DEF KnowsItsChanges
    <3> QED
      BY <2>2, <2>3, <3>1 DEF KnowsOf, Quiet
  <2> QED
    BY <2>2, <2>3, <2>4 DEF KnowsItsChanges
<1>7. CASE Record(c)
  <2>1. PICK x \in unknown[c] :
          reported' = [reported EXCEPT ![c] = reported[c] \union {x.file}]
    BY <1>7 DEF Record
  <2>2. /\ unknown' = [unknown EXCEPT ![c] = {}]
        /\ UNCHANGED <<disk, phase, base, roots, todo, found, notes, start, touched>>
    BY <1>7 DEF Record, past
  <2>3. phase[c] = "after" /\ \A y \in unknown[c] : y = x
    BY <1>0 DEF KnowsItsChanges
  <2>4. unknown'[c] = {} /\ reported'[c] = reported[c] \union {x.file}
    BY <1>0, <2>1, <2>2
  <2>5. ASSUME NEW q \in roots[c], NEW f \in Inside[q] PROVE KnowsOf(c, q, f)'
    <3>1. KnowsOf(c, q, f)
      BY DEF KnowsItsChanges
    <3> QED
      BY <2>2, <2>3, <2>4, <3>1 DEF KnowsOf, Quiet
  <2> QED
    BY <2>2, <2>3, <2>4, <2>5 DEF KnowsItsChanges
<1> QED
  BY <1>1, <1>2, <1>3, <1>4, <1>5, <1>6, <1>7 DEF Scans

LEMMA NextScannersKnow ==
    ASSUME Typed, Turns, Sheltered, InItsFolders, PassedOn, OnlyUnscanned, ScannersKnow,
           ~Parallel, [Next]_vars
    PROVE  ScannersKnow'
<1> SUFFICES ASSUME NEW c \in Programs PROVE KnowsItsChanges(c)'
  BY DEF ScannersKnow
<1>0. c \in Calls /\ KnowsItsChanges(c)
  BY FoldersAssumption DEF ScannersKnow
<1>1. ASSUME NEW w \in Calls, Turn(w) PROVE KnowsItsChanges(c)'
  <2>1. CASE w = c
    BY <1>0, <1>1, <2>1, TurnKnows
  <2>2. CASE w # c
    <3>1. UNCHANGED <<disk, base>>
      BY <1>1 DEF Turn, TakeFolders, ScanWithin, CaptureNothing, Register, TryLock, Sleep,
         Wake, TimeOut, Release, Notify, Run, Drop, End, ReportMoved, Finish, scans
    <3> QED
      BY <1>0, <1>1, <2>2, <3>1, OthersRestInTurn, RestingKnows
  <2> QED
    BY <2>1, <2>2
<1>2. ASSUME NEW w \in Calls, Scans(w) \/ AcceptOutside(w) \/ Judge(w) \/ Record(w)
      PROVE  KnowsItsChanges(c)'
  <2>1. CASE w = c
    BY <1>0, <1>2, <2>1, ScansKnow
  <2>2. CASE w # c
    <3>1. UNCHANGED disk
      BY <1>2 DEF Scans, AcceptAll, ScanBefore, ScanFails, ScanAfter, AcceptOutside, Judge,
         Record
    <3>2. ASSUME NEW r \in roots[c], NEW f \in Inside[r] PROVE base'[r] = base[r]
      <4>1. r \in Folders
        BY <1>0 DEF Typed, HasCalls
      <4>2. CASE UNCHANGED base
        BY <4>2
      <4>3. ASSUME NEW q \in Folders, ScanBefore(w, q) \/ ScanAfter(w, q)
            PROVE  base'[r] = base[r]
        <5>1. Scan(w, q) /\ phase[w] \in {"before", "after"}
          BY <4>3 DEF ScanBefore, ScanAfter
        <5>2. q \in todo[w] /\ \A p \in Folders \ {q} : base'[p] = base[p]
          BY <5>1, ScanSees
        <5>3. q # r
          BY <1>0, <2>2, <3>2, <5>1, <5>2, SoleScanner
        <5> QED
          BY <4>1, <5>2, <5>3
      <4> QED
        BY <1>2, <4>2, <4>3
           DEF Scans, AcceptAll, ScanFails, AcceptOutside, Judge, Record
    <3> QED
      BY <1>0, <1>2, <2>2, <3>1, <3>2, OthersRestInScans, RestingKnows
  <2> QED
    BY <2>1, <2>2
<1>3. ASSUME NEW g \in Files,
             \/ \E w \in Calls : \/ UndoChange(w, g) \/ Read(w, g)
                                 \/ \E image \in Contents[g] :
                                      Write(w, g, image) \/ Program(w, g, image)
             \/ \E image \in Contents[g] : OutsideEdit(g, image)
      PROVE  KnowsItsChanges(c)'
  <2>1. /\ Rests(c) /\ UNCHANGED base
        /\ \A f \in Files : disk'[f] # disk[f] /\ Capturing(c) =>
             \/ "free" \in touched'[c][f]
             \/ \E w \in Calls : /\ Acts(w)
                                 /\ \/ Kind(w, c, f) \in touched'[c][f]
                                    \/ Kind(w, c, f) = "nested"
    BY <1>0, <1>3, WorkIsSeen
  <2>2. ASSUME NEW f \in FilesIn(roots[c] \union todo[c]), disk'[f] # disk[f],
               phase[c] \in {"before", "after", "release"}
        PROVE  ~Quiet(c, f)'
    <3>1. Capturing(c) /\ phase[c] # "running"
      BY <2>2 DEF Capturing, FilesIn
    <3>2. f \in Files
      BY <1>0, FoldersAssumption DEF FilesIn, Typed, HasCalls
    <3>3. ASSUME NEW w \in Calls, Acts(w) PROVE Kind(w, c, f) \in {"other", "free"}
      BY <1>0, <3>1, <3>2, <3>3, ChangesAreSeen
    <3>4. "free" \in touched'[c][f] \/ "other" \in touched'[c][f]
      BY <2>1, <2>2, <3>1, <3>2, <3>3
    <3> QED
      BY <3>4 DEF Quiet
  <2> QED
    BY <1>0, <2>1, <2>2, RestingKnows
<1>4. ASSUME NEW r \in Folders, Expire(r) PROVE KnowsItsChanges(c)'
  <2>1. /\ UNCHANGED <<disk, phase, roots, todo, found, unknown, reported, notes, start,
                       touched>>
        /\ base' = [base EXCEPT ![r] = NoBase]
    BY <1>4 DEF Expire, past
  <2>2. r \notin roots[c]
    BY <1>0, <1>4 DEF Expire, Sheltered, Done
  <2>3. \A q \in roots[c] : base'[q] = base[q]
    BY <1>0, <2>1, <2>2 DEF Typed, HasFiles, HasCalls
  <2>4. Rests(c)
    BY <2>1 DEF Rests
  <2> QED
    BY <1>0, <2>1, <2>3, <2>4, RestingKnows
<1>5. CASE UNCHANGED vars
  <2>1. Rests(c) /\ UNCHANGED <<disk, base>>
    BY <1>5 DEF vars, Rests
  <2> QED
    BY <1>0, <2>1, RestingKnows
<1> QED
  BY <1>1, <1>2, <1>3, <1>4, <1>5 DEF Next, Turn, Scans

\* A call that scans reports what it and the calls inside it changed in the
\* folders it captures and does not note as untracked, unless somebody else had
\* a hand in it (`Capture::begin`, `Capture::finish`), when scripts await the
\* calls they make: nobody else scans its folders meanwhile, as calls inside it
\* know that it does and all others wait for the folder lock.
THEOREM ScannersReport ==
    ASSUME ~Parallel
    PROVE  Spec => [](\A c \in Programs : ReportsChanges(c))
<1> DEFINE IInv == /\ Typed /\ Turns /\ Sheltered /\ InItsFolders
                   /\ PassedOn /\ OnlyUnscanned /\ ScannersKnow
<1>1. Init => IInv
  BY InitTyped, InitTurns, InitSheltered, InitKnows
<1>2. IInv /\ [Next]_vars => IInv'
  BY NextTyped, NextTurns, NextSheltered, NextInItsFolders, NextPassedOn,
     NextOnlyUnscanned, NextScannersKnow
<1>3. IInv => \A c \in Programs : ReportsChanges(c)
  <2> SUFFICES ASSUME IInv, NEW c \in Programs, phase[c] = "release",
                      NEW r \in roots[c] \ notes[c], NEW f \in Inside[r],
                      touched[c][f] \subseteq {"own", "program"} \union {"nested"},
                      disk[f] # start[c][f]
               PROVE  f \in reported[c]
    BY DEF ReportsChanges
  <2>1. KnowsOf(c, r, f)
    BY DEF ScannersKnow, KnowsItsChanges
  <2>2. Quiet(c, f)
    BY DEF Quiet
  <2> QED
    BY <2>1, <2>2 DEF KnowsOf
<1> HIDE DEF IInv
<1> QED
  BY <1>1, <1>2, <1>3, PTL DEF Spec

-----------------------------------------------------------------------------
(* What a call that runs no programs reports.                              *)

Active == {"before", "running", "after"}

\* All that is known of calls that hold folders and of those that scan.
Known ==
    /\ Typed /\ Turns /\ Sheltered /\ InItsFolders
    /\ PassedOn /\ OnlyUnscanned /\ ScannersKnow

LEMMA InitKnown == Init => Known
  BY InitTyped, InitTurns, InitSheltered, InitKnows DEF Known

LEMMA NextKnown == ~Parallel /\ Known /\ [Next]_vars => Known'
  BY NextTyped, NextTurns, NextSheltered, NextInItsFolders, NextPassedOn,
     NextOnlyUnscanned, NextScannersKnow DEF Known

\* A call captures, and waits for, folders it may write, and only when it locks
\* them or has to scan them; one that runs no programs scans nothing.  A call
\* passes on that a scan is made if it has to scan, and says so only if one is;
\* and one that has to scan scans its folders or notes them.
InOrder(c) ==
    /\ roots[c] \union todo[c] \union held[c] \union pending[c] \subseteq Wants[c]
    /\ phase[c] \in {"before", "accept"} \/ roots[c] \union todo[c] # {} =>
         Locks(c) \/ MustScan(c)
    /\ c \notin Programs /\ phase[c] \in {"before", "after"} =>
         roots[c] \union todo[c] = {}
    /\ phase[c] \in Began =>
         /\ MustScan(c) => passes[c].scans
         /\ passes[c].scans => Given(c).scans \/ c \in Programs
    /\ notes[c] # {} => phase[c] \in Capturers
    /\ MustScan(c) /\ phase[c] \in Active =>
         Enclosed(c) \subseteq roots[c] \union todo[c] \union notes[c]

\* When a call passes on that a scan is made, and one around it that captures
\* does not, there is one between them that has to scan.
SomeoneScans ==
    \A w \in Calls : \A c \in Above[w] :
        /\ phase[w] \in Began /\ passes[w].scans
        /\ phase[c] \in Began /\ ~passes[c].scans /\ passes[c].roots # {}
        => \E b \in Above[w] : b # c /\ c \in Above[b] /\ MustScan(b)

Told == (\A c \in Calls : InOrder(c)) /\ SomeoneScans

LEMMA InitTold == Init => Told
<1> SUFFICES ASSUME Init PROVE Told
  OBVIOUS
<1>1. \A c \in Calls : /\ phase[c] = "idle" /\ notes[c] = {}
                       /\ pending[c] = {} /\ held[c] = {} /\ roots[c] = {} /\ todo[c] = {}
  BY DEF Init
<1> QED
  BY <1>1 DEF Told, InOrder, SomeoneScans, Began, Active

\* What a call was given stays as long as it has not ended.
LEMMA GivenStays ==
    ASSUME Typed, Turns, [Next]_vars, NEW c \in Calls,
           phase[c] \notin Done \/ phase'[c] \notin Done
    PROVE  /\ Given(c)' = Given(c)
           /\ MustScan(c)' <=> MustScan(c)
           /\ Enclosed(c)' = Enclosed(c)
           /\ Locks(c)' <=> Locks(c)
<1>1. Given(c)' = Given(c)
  BY NextNested DEF Turns
<1>2. Enclosed(c)' = Enclosed(c)
  BY <1>1 DEF Enclosed, Within
<1> QED
  BY <1>1, <1>2 DEF MustScan, Locks

\* What the calls around one pass on is what it is given.
LEMMA GivenBy ==
    ASSUME Known, ~Parallel, NEW b \in Calls, phase[b] \notin Done \/ Arrives(b),
           NEW c \in Above[b], c # b
    PROVE  /\ ParentOf[b] # NoCall /\ ParentOf[b] \in Calls /\ c \in Above[ParentOf[b]]
           /\ c \in Calls /\ phase[c] = "running" /\ phase[ParentOf[b]] = "running"
           /\ Above[ParentOf[b]] \subseteq Above[b]
           /\ Given(b) = passes[ParentOf[b]]
           /\ GoesOn(passes[c], Given(b)) /\ roots[c] \subseteq Given(b).roots
<1> USE DEF Known
<1>1. ParentOf[b] # NoCall
  <2>1. SUFFICES ASSUME ParentOf[b] = NoCall PROVE FALSE
    OBVIOUS
  <2>2. Upward({b}) /\ b \in {b} /\ {b} \in SUBSET Calls
    BY <2>1 DEF Upward
  <2> QED
    BY <2>2, AboveFacts
<1> DEFINE p == ParentOf[b]
<1>2. p \in Calls /\ c \in Above[p] /\ Above[p] \subseteq Above[b] /\ c \in Calls
  BY <1>1, AboveParent, AboveFacts
<1>3. phase[p] = "running"
  BY <1>1 DEF Arrives, MayCall, Acts, Turns, Nested, Underway
<1>4. phase[c] = "running"
  <2>1. phase[p] \notin Done
    BY <1>3 DEF Done
  <2> QED
    BY <1>2, <1>3, <2>1, AboveAwaits DEF Turns
<1>5. Given(b) = passes[p]
  BY <1>1 DEF Given
<1>6. GoesOn(passes[c], passes[p]) /\ roots[c] \subseteq passes[c].roots
  BY <1>2, <1>3, <1>4 DEF PassedOn, PassesOn, Began
<1>7. roots[c] \subseteq passes[p].roots
  BY <1>6 DEF GoesOn
<1> QED
  BY <1>1, <1>2, <1>3, <1>4, <1>5, <1>6, <1>7

\* A call that comes, waits or starts to capture.
LEMMA ArrivalInOrder ==
    ASSUME Known, Told, ~Parallel, [Next]_vars, NEW c \in Calls,
           \/ TakeFolders(c) \/ ScanWithin(c) \/ CaptureNothing(c)
           \/ Register(c) \/ TryLock(c) \/ Sleep(c) \/ Wake(c) \/ TimeOut(c)
    PROVE  InOrder(c)'
<1> USE DEF Known, Told, Typed, HasCalls, HasFindings
<1>1. phase[c] \notin Done \/ phase'[c] \notin Done
  BY DEF TakeFolders, ScanWithin, CaptureNothing, Register, TryLock, Sleep, Wake, TimeOut,
     Begin, Done
<1>2. /\ Given(c)' = Given(c) /\ Enclosed(c)' = Enclosed(c)
      /\ MustScan(c)' <=> MustScan(c)
      /\ Locks(c)' <=> Locks(c)
  BY <1>1, GivenStays
<1>3. InOrder(c) /\ pending[c] \subseteq Wants[c]
  BY DEF InOrder
<1>4. ASSUME phase[c] \in {"idle"} \union Waiting
      PROVE  roots[c] = {} /\ todo[c] = {} /\ notes[c] = {}
  BY <1>3, <1>4 DEF Sheltered, Waiting, InOrder, Capturers
<1>5. ASSUME phase[c] \in Waiting PROVE Locks(c) /\ ~MustScan(c)
  BY <1>5 DEF Turns, Holds, Locks, MustScan
<1>6. ASSUME phase[c] = "idle" PROVE held[c] = {} /\ pending[c] = {}
  BY <1>6 DEF Turns, Holds, Done
<1>7. CASE TakeFolders(c)
  BY <1>2, <1>4, <1>6, <1>7 DEF TakeFolders, Arrives, InOrder, Began, Active
<1>8. CASE ScanWithin(c)
  <2>1. /\ Arrives(c) /\ MustScan(c) /\ Begin(c, Enclosed(c)) /\ c \in Programs
        /\ UNCHANGED <<locks, roots, notes>>
    BY <1>8 DEF ScanWithin, MustScan
  <2>2. Enclosed(c) \subseteq Wants[c]
    BY DEF Enclosed
  <2>3. phase[c] = "idle"
    BY <2>1 DEF Arrives
  <2>4. /\ phase'[c] = "before" /\ todo'[c] = Enclosed(c) /\ roots'[c] = {}
        /\ held'[c] = {} /\ pending'[c] = {} /\ notes'[c] = {}
    BY <1>4, <1>6, <2>1, <2>3 DEF Begin, locks
  <2> QED
    BY <1>2, <2>1, <2>2, <2>4 DEF InOrder, Began, Active
<1>9. CASE CaptureNothing(c)
  <2>1. /\ phase[c] = "idle" /\ phase'[c] = "running" /\ passes'[c] = Given(c)
        /\ UNCHANGED <<locks, scans>>
    BY <1>9 DEF CaptureNothing, Arrives
  <2>2. ~MustScan(c)
    BY <1>9 DEF CaptureNothing, MustScan
  <2> QED
    BY <1>2, <1>4, <1>6, <2>1, <2>2 DEF InOrder, Began, Active, locks, scans
<1>10. CASE Register(c) \/ Sleep(c) \/ Wake(c)
  <2>1. /\ phase[c] \in Waiting /\ phase'[c] \in Waiting
        /\ UNCHANGED <<held, pending, roots, todo, notes>>
    BY <1>10 DEF Register, Sleep, Wake, Waiting, scans, locks
  <2> QED
    BY <1>2, <1>3, <1>4, <1>5, <2>1 DEF InOrder, Began, Active, Waiting
<1>11. CASE TryLock(c)
  <2> DEFINE got == {r \in pending[c] : IsFree(r)}
  <2>1. /\ phase[c] \in Waiting
        /\ held' = [held EXCEPT ![c] = @ \union got]
        /\ pending' = [pending EXCEPT ![c] = @ \ got]
        /\ IF pending[c] = got
           THEN Begin(c, held[c] \union got)
           ELSE /\ phase' = [phase EXCEPT ![c] = "looked"]
                /\ UNCHANGED <<todo, past>>
        /\ UNCHANGED <<roots, notes>>
    BY <1>11 DEF TryLock, Waiting
  <2>2. got \subseteq pending[c]
    OBVIOUS
  <2> HIDE DEF got
  <2>3. /\ held'[c] = held[c] \union got /\ pending'[c] = pending[c] \ got
        /\ roots'[c] = {} /\ notes'[c] = {}
    BY <1>4, <2>1
  <2>4. \/ /\ phase'[c] = IF c \in Programs THEN "before" ELSE "accept"
           /\ todo'[c] = held[c] \union got
        \/ phase'[c] = "looked" /\ todo'[c] = {}
    BY <1>4, <2>1 DEF Begin
  <2> QED
    BY <1>2, <1>3, <1>5, <2>1, <2>2, <2>3, <2>4 DEF InOrder, Began, Active
<1>12. CASE TimeOut(c)
  <2>1. /\ phase[c] \in Waiting /\ Begin(c, held[c])
        /\ notes' = [notes EXCEPT ![c] = @ \union pending[c]]
        /\ pending' = [pending EXCEPT ![c] = {}]
        /\ UNCHANGED <<held, roots>>
    BY <1>12 DEF TimeOut, Waiting
  <2>2. /\ phase'[c] = IF c \in Programs THEN "before" ELSE "accept"
        /\ todo'[c] = held[c] /\ roots'[c] = {} /\ pending'[c] = {} /\ held'[c] = held[c]
    BY <1>4, <2>1 DEF Begin
  <2> QED
    BY <1>2, <1>3, <1>5, <2>1, <2>2 DEF InOrder, Began, Active, Capturers
<1> QED
  BY <1>7, <1>8, <1>9, <1>10, <1>11, <1>12

\* A call that runs, ends or lets go.
LEMMA TurnInOrder ==
    ASSUME Known, Told, ~Parallel, [Next]_vars, NEW c \in Calls,
           \/ Release(c) \/ Notify(c) \/ Run(c) \/ Drop(c)
           \/ End(c) \/ ReportMoved(c) \/ Finish(c)
    PROVE  InOrder(c)'
<1> USE DEF Known, Told, Typed, HasCalls, HasFindings
<1>1. phase[c] \notin Done
  BY DEF Release, Notify, Run, Drop, End, ReportMoved, Finish, Acts, Done
<1>2. /\ Given(c)' = Given(c) /\ Enclosed(c)' = Enclosed(c)
      /\ MustScan(c)' <=> MustScan(c)
      /\ Locks(c)' <=> Locks(c)
  BY <1>1, GivenStays
<1>3. InOrder(c)
  OBVIOUS
<1>4. CASE Release(c) \/ Notify(c) \/ Drop(c)
  <2>1. /\ phase'[c] \in {"notify", "over"} /\ roots'[c] = {} /\ notes'[c] = {}
        /\ held'[c] = {} /\ pending'[c] = {} /\ todo'[c] = {}
    <3>1. CASE Release(c)
      BY <3>1 DEF Release, LetGo, Sheltered
    <3>2. CASE Notify(c)
      <4>1. /\ phase[c] = "notify" /\ phase'[c] = "over"
            /\ UNCHANGED <<scans, held, pending>>
        BY <3>2 DEF Notify
      <4> QED
        BY <1>3, <4>1 DEF Sheltered, Turns, Holds, InOrder, Capturers, scans
    <3>3. CASE Drop(c)
      BY <3>3 DEF Drop, LetGo
    <3> QED
      BY <1>4, <3>1, <3>2, <3>3
  <2> QED
    BY <2>1 DEF InOrder, Began, Active
<1>5. CASE Run(c)
  <2>1. /\ phase[c] \in {"before", "accept"} /\ phase'[c] = "running" /\ todo[c] = {}
        /\ passes'[c].scans = (Given(c).scans \/ c \in Programs)
        /\ UNCHANGED <<locks, scans>>
    BY <1>5 DEF Run
  <2>2. MustScan(c) => c \in Programs /\ phase[c] = "before"
    BY <2>1 DEF MustScan, ScannersKnow, KnowsItsChanges
  <2> QED
    BY <1>2, <1>3, <2>1, <2>2 DEF InOrder, Began, Active, Capturers, locks, scans
<1>6. CASE End(c)
  <2>1. /\ phase[c] = "running" /\ UNCHANGED <<locks, roots, notes, passes>>
        /\ \/ phase'[c] = "after" /\ todo'[c] = roots[c]
              /\ (c \in Programs \/ roots[c] = {})
           \/ phase'[c] = "report" /\ UNCHANGED todo
    BY <1>6 DEF End, Acts
  <2>2. todo[c] = {}
    BY <2>1 DEF Sheltered
  <2>3. MustScan(c) => c \in Programs
    BY DEF MustScan
  <2> QED
    BY <1>2, <1>3, <2>1, <2>2, <2>3 DEF InOrder, Began, Active, Capturers, locks
<1>7. CASE ReportMoved(c) \/ Finish(c)
  <2>1. /\ phase[c] \in {"report", "after"} /\ phase'[c] = "release"
        /\ UNCHANGED <<locks, scans, passes>>
    BY <1>7 DEF ReportMoved, Finish
  <2> QED
    BY <1>2, <1>3, <2>1 DEF InOrder, Began, Active, Capturers, locks, scans
<1> QED
  BY <1>4, <1>5, <1>6, <1>7

\* A call that scans or accepts what it finds.
LEMMA ScansInOrder ==
    ASSUME Known, Told, ~Parallel, [Next]_vars, NEW c \in Calls, Scans(c)
    PROVE  InOrder(c)'
<1> USE DEF Known, Told, Typed, HasCalls, HasFindings
<1>1. phase[c] \notin Done /\ UNCHANGED <<locks, phase, passes>>
  BY DEF Scans, AcceptAll, ScanBefore, ScanAfter, ScanFails, Done
<1>2. /\ Given(c)' = Given(c) /\ Enclosed(c)' = Enclosed(c)
      /\ MustScan(c)' <=> MustScan(c)
      /\ Locks(c)' <=> Locks(c)
  BY <1>1, GivenStays
<1>3. InOrder(c) /\ KeepsToItsFolders(c)
  BY DEF InItsFolders
<1>4. CASE AcceptAll(c)
  <2>1. phase[c] = "accept" /\ roots'[c] = todo[c] /\ todo'[c] = {} /\ UNCHANGED notes
    BY <1>4 DEF AcceptAll
  <2> QED
    BY <1>1, <1>2, <1>3, <2>1 DEF InOrder, Began, Active, locks
<1>5. ASSUME NEW r \in Folders, ScanBefore(c, r) PROVE InOrder(c)'
  <2>1. /\ phase[c] = "before" /\ r \in todo[c] /\ todo'[c] = todo[c] \ {r}
        /\ roots'[c] = roots[c] \union {r} /\ UNCHANGED notes
    BY <1>5 DEF ScanBefore, Scan
  <2> QED
    BY <1>1, <1>2, <1>3, <2>1 DEF InOrder, Began, Active, locks
<1>6. ASSUME NEW r \in Folders, ScanAfter(c, r) PROVE InOrder(c)'
  <2>1. /\ phase[c] = "after" /\ r \in todo[c] /\ todo'[c] = todo[c] \ {r}
        /\ r \in roots[c] /\ UNCHANGED <<roots, notes>>
    BY <1>3, <1>6 DEF ScanAfter, Scan, KeepsToItsFolders
  <2> QED
    BY <1>1, <1>2, <1>3, <2>1 DEF InOrder, Began, Active, locks
<1>7. ASSUME NEW r \in Folders, ScanFails(c, r) PROVE InOrder(c)'
  <2>1. /\ phase[c] \in {"before", "after"} /\ r \in todo[c] /\ todo'[c] = todo[c] \ {r}
        /\ notes'[c] = notes[c] \union {r} /\ UNCHANGED roots
    BY <1>7 DEF ScanFails
  <2> QED
    BY <1>1, <1>2, <1>3, <2>1 DEF InOrder, Began, Active, Capturers, locks
<1> QED
  BY <1>4, <1>5, <1>6, <1>7 DEF Scans

\* A call to which nothing happens.
LEMMA StaysInOrder ==
    ASSUME Known, Told, ~Parallel, [Next]_vars, NEW c \in Calls,
           UNCHANGED <<phase[c], passes[c], held[c], pending[c], roots[c], todo[c], notes[c]>>
    PROVE  InOrder(c)'
<1> USE DEF Known, Told
<1>1. InOrder(c)
  OBVIOUS
<1>2. CASE phase[c] \notin Done
  <2>1. /\ Given(c)' = Given(c) /\ Enclosed(c)' = Enclosed(c)
        /\ MustScan(c)' <=> MustScan(c)
        /\ Locks(c)' <=> Locks(c)
    BY <1>2, GivenStays
  <2> QED
    BY <1>1, <2>1 DEF InOrder
<1>3. CASE phase[c] \in Done
  <2>1. /\ held[c] = {} /\ pending[c] = {} /\ roots[c] = {} /\ todo[c] = {} /\ notes[c] = {}
    BY <1>1, <1>3 DEF Turns, Holds, Sheltered, Typed, HasFindings, InOrder, Capturers, Done
  <2> QED
    BY <1>3, <2>1 DEF InOrder, Began, Active, Done
<1> QED
  BY <1>2, <1>3

LEMMA NextInOrder ==
    ASSUME Known, Told, ~Parallel, [Next]_vars
    PROVE  \A c \in Calls : InOrder(c)'
<1> SUFFICES ASSUME NEW c \in Calls PROVE InOrder(c)'
  OBVIOUS
<1>1. CASE UNCHANGED <<phase, pending, held, woken, passes, roots, todo, notes>>
  BY <1>1, StaysInOrder
<1>2. ASSUME NEW w \in Calls, w # c, Turn(w) \/ Scans(w) PROVE InOrder(c)'
  <2>1. /\ phase'[c] = phase[c] /\ passes'[c] = passes[c] /\ held'[c] = held[c]
        /\ roots'[c] = roots[c] /\ todo'[c] = todo[c]
    BY <1>2, ShelterMoves DEF Known
  <2>2. pending'[c] = pending[c]
    <3>1. CASE Turn(w)
      BY <1>2, <3>1, TurnHolds DEF Known, Turns
    <3>2. CASE Scans(w)
      BY <3>2 DEF Scans, AcceptAll, ScanBefore, ScanAfter, ScanFails, locks
    <3> QED
      BY <1>2, <3>1, <3>2
  <2>3. notes'[c] = notes[c]
    BY <1>2, OthersRestInTurn, OthersRestInScans DEF Known, Rests
  <2> QED
    BY <2>1, <2>2, <2>3, StaysInOrder
<1>3. CASE Turn(c)
  BY <1>3, ArrivalInOrder, TurnInOrder DEF Turn
<1>4. CASE Scans(c)
  BY <1>4, ScansInOrder
<1> QED
  BY <1>1, <1>2, <1>3, <1>4, ScansOrNot

\* A call begins to run.
LEMMA Begins ==
    ASSUME Known, ~Parallel, [Next]_vars, NEW w \in Calls,
           phase[w] \notin Began, phase'[w] \in Began
    PROVE  Run(w) \/ CaptureNothing(w)
<1>1. phase'[w] # phase[w]
  OBVIOUS
<1>2. PICK x \in Calls : Turn(x) \/ Scans(x)
  BY <1>1, ScansOrNot
<1>3. x = w
  BY <1>1, <1>2, ShelterMoves DEF Known
<1>4. Turn(w)
  BY <1>1, <1>2, <1>3 DEF Scans, AcceptAll, ScanBefore, ScanAfter, ScanFails
<1>5. phase'[w] \notin Began \/ phase[w] \in Began \/ Run(w) \/ CaptureNothing(w)
  <2> USE DEF Known, Typed, HasCalls
  <2>1. ASSUME TakeFolders(w) \/ ScanWithin(w) \/ Register(w) \/ TryLock(w) \/ Sleep(w)
               \/ Wake(w) \/ TimeOut(w)
        PROVE  phase'[w] \notin Began
    BY <2>1 DEF TakeFolders, ScanWithin, Register, TryLock, Sleep, Wake, TimeOut, Begin, Began
  <2>2. ASSUME Release(w) \/ Notify(w) \/ Drop(w) PROVE phase'[w] \notin Began
    BY <2>2 DEF Release, Notify, Drop, LetGo, Began
  <2>3. ASSUME End(w) \/ ReportMoved(w) \/ Finish(w) PROVE phase[w] \in Began
    BY <2>3 DEF End, ReportMoved, Finish, Acts, Began
  <2> QED
    BY <1>4, <2>1, <2>2, <2>3 DEF Turn
<1> QED
  BY <1>5

\* A call begins to pass on what its parent passes on, or has to scan itself.
LEMMA NextSomeoneScans ==
    ASSUME Known, Told, ~Parallel, [Next]_vars
    PROVE  SomeoneScans'
<1> USE DEF Known, Told
<1> SUFFICES ASSUME NEW w \in Calls, NEW c \in Above[w],
                    phase'[w] \in Began, passes'[w].scans,
                    phase'[c] \in Began, ~passes'[c].scans, passes'[c].roots # {}
             PROVE  \E b \in Above[w] : b # c /\ c \in Above[b] /\ MustScan(b)'
  BY DEF SomeoneScans
<1>1. c \in Calls /\ c # w
  BY AboveFacts
<1>2. CASE phase[w] \in Began
  <2>1. phase[w] \notin Done
    BY <1>2 DEF Began, Done
  <2>2. phase[c] = "running" /\ phase[c] \in Began /\ passes'[c] = passes[c]
    BY <1>1, <2>1, AwaitedStays DEF Began
  <2>3. passes'[w] = passes[w]
    BY <1>2, BegunStays
  <2>4. PICK b \in Above[w] : b # c /\ c \in Above[b] /\ MustScan(b)
    BY <1>2, <2>2, <2>3 DEF SomeoneScans
  <2>5. b \in Calls /\ phase[b] \notin Done
    BY <2>1, AboveFacts, AboveAwaits DEF Turns
  <2>6. MustScan(b)'
    BY <2>4, <2>5, GivenStays
  <2> QED
    BY <2>4, <2>6
<1>3. CASE phase[w] \notin Began
  <2>1. Run(w) \/ CaptureNothing(w)
    BY <1>3, Begins
  <2>2. phase[w] \notin Done \/ Arrives(w)
    BY <2>1 DEF Run, CaptureNothing, Done
  <2> DEFINE p == ParentOf[w]
  <2>3. /\ p \in Calls /\ c \in Above[p] /\ phase[c] = "running" /\ phase[p] = "running"
        /\ Above[p] \subseteq Above[w] /\ Given(w) = passes[p]
        /\ GoesOn(passes[c], Given(w))
    BY <1>1, <2>2, GivenBy
  <2>4. passes'[c] = passes[c]
    <3>1. p \in Calls /\ phase[p] \notin Done
      BY <2>3 DEF Done
    <3>2. phase'[c] \in Began /\ phase[c] \in Began
      BY <2>3 DEF Began
    <3> QED
      BY <1>1, <3>2, BegunStays
  <2>5. CASE Given(w).scans
    <3>1. PICK b \in Above[p] : b # c /\ c \in Above[b] /\ MustScan(b)
      BY <2>3, <2>4, <2>5 DEF SomeoneScans, Began
    <3>2. b \in Calls /\ phase[b] \notin Done
      BY <2>3, AboveFacts, AboveAwaits DEF Turns, Done
    <3>3. MustScan(b)'
      BY <3>1, <3>2, GivenStays
    <3> QED
      BY <2>3, <3>1, <3>3
  <2>6. CASE ~Given(w).scans
    <3>1. Run(w) /\ w \in Programs
      <4>1. CaptureNothing(w) => passes'[w] = Given(w)
        BY DEF CaptureNothing, Typed, HasCalls
      <4>2. CASE Run(w)
        <5>1. passes'[w] = [roots |-> Given(w).roots \union roots[w],
                            scans |-> Given(w).scans \/ w \in Programs]
          BY <4>2 DEF Run, Typed, HasCalls
        <5>2. Given(w).scans \/ w \in Programs
          <6>1. Given(w).scans \in BOOLEAN
            BY <2>3 DEF Typed, HasCalls
          <6> QED
            BY <5>1, <6>1
        <5> QED
          BY <2>6, <4>2, <5>2
      <4> QED
        BY <2>1, <2>6, <4>1, <4>2
    <3>2. Given(w).roots # {}
      BY <2>3, <2>4 DEF GoesOn
    <3>3. MustScan(w)
      BY <3>1, <3>2 DEF InOrder, Run, Locks
    <3>4. MustScan(w)'
      <4>1. phase[w] \notin Done
        BY <3>1 DEF Run, Done
      <4> QED
        BY <3>3, <4>1, GivenStays
    <3> QED
      BY <1>1, <3>4, AboveFacts
  <2> QED
    BY <2>5, <2>6
<1> QED
  BY <1>2, <1>3

LEMMA NextTold == ~Parallel /\ Known /\ Told /\ [Next]_vars => Told'
  BY NextInOrder, NextSomeoneScans DEF Told

-----------------------------------------------------------------------------
(* Who scans for a call, and what both are told of others.                 *)

\* The calls inside `c` that scan for it what it cannot see.
ScansFor(b, c) ==
    /\ b \in Programs /\ b # c /\ c \in Above[b]
    /\ MustScan(b) /\ phase[b] \in Active

\* At most one call scans what another captures.
LEMMA OneScanner ==
    ASSUME Known, Told, ~Parallel, NEW c \in Calls, NEW x \in Calls, NEW y \in Calls,
           ScansFor(x, c), ScansFor(y, c)
    PROVE  x = y
<1> USE DEF Known, Told
<1>1. phase[x] \notin Done /\ phase[y] \notin Done
  BY DEF ScansFor, Active, Done
<1>2. ASSUME NEW u \in Calls, NEW v \in Calls, phase[u] \notin Done, MustScan(u),
             MustScan(v), v \in Above[u], u # v
      PROVE  FALSE
  <2>1. phase[v] = "running" /\ GoesOn(passes[v], Given(u))
    BY <1>2, GivenBy
  <2>2. passes[v].scans
    BY <1>2, <2>1 DEF InOrder, Began
  <2> QED
    BY <1>2, <2>1, <2>2 DEF GoesOn, MustScan
<1>3. x \in Above[y] \/ y \in Above[x]
  BY <1>1, Chain DEF ScansFor, Turns
<1> QED
  BY <1>1, <1>2, <1>3 DEF ScansFor

\* A call that awaits another takes no step.
LEMMA AwaitedIsStill ==
    ASSUME Known, ~Parallel, NEW b \in Calls, phase[b] \notin Done, NEW c \in Above[b], c # b
    PROVE  /\ c \in Calls /\ phase[c] = "running" /\ ~Acts(c)
           /\ ~Turn(c) /\ ~Scans(c) /\ ~AcceptOutside(c) /\ ~Judge(c) /\ ~Record(c)
<1>1. c \in Calls /\ phase[c] = "running" /\ Busy(c)
  BY AboveFacts, AboveAwaits DEF Known, Turns
<1>2. ~Acts(c)
  BY <1>1 DEF Acts
<1>3. ~Turn(c)
  BY <1>1, <1>2 DEF Turn, TakeFolders, ScanWithin, CaptureNothing, Arrives, Register, TryLock,
     Sleep, Wake, TimeOut, Release, Notify, Run, Drop, End, ReportMoved, Finish
<1>4. ~Scans(c) /\ ~AcceptOutside(c) /\ ~Judge(c)
  BY <1>1 DEF Scans, AcceptAll, ScanBefore, ScanFails, ScanAfter, AcceptOutside, Judge
<1>5. unknown[c] = {}
  BY <1>1 DEF Known, Typed, HasFindings
<1>6. ~Record(c)
  BY <1>5 DEF Record
<1> QED
  BY <1>1, <1>2, <1>3, <1>4, <1>6

\* Only the call and programs of the calls inside it had a hand in the file.
Only(c, f) == touched[c][f] \subseteq {"own", "program"}

\* What a call that scans for `c` is told of others, `c` is told too.
Together(b, c, f) ==
    /\ Only(c, f)' => Only(c, f)
    /\ Only(c, f)' /\ Quiet(b, f) => Quiet(b, f)'

\* Scripts, programs and editors are seen by the call that scans and by the one
\* it scans for.
LEMMA WorkSeenTogether ==
    ASSUME Known, ~Parallel, NEW b \in Calls, NEW c \in Calls, ScansFor(b, c),
           Capturing(c), NEW g \in Files, NEW kinds, Touch(kinds, g),
           kinds[b] \subseteq {"own", "program", "nested"}
             \/ ~(kinds[c] \subseteq {"own", "program"}),
           NEW f \in Files
    PROVE  Together(b, c, f)
<1>1. /\ touched[c][f] \subseteq touched'[c][f]
      /\ kinds[c] \subseteq touched'[c][g]
  BY TouchGrows DEF Known, Typed
<1>2. touched'[b][f] = touched[b][f] \/ touched'[b][f] = touched[b][f] \union kinds[b]
  BY DEF Touch, Known, Typed, HasPast
<1>3. f # g => touched'[b][f] = touched[b][f]
  BY DEF Touch, Known, Typed, HasPast
<1>4. Only(c, f)' => Only(c, f)
  BY <1>1 DEF Only
<1>5. ASSUME Only(c, f)', Quiet(b, f) PROVE Quiet(b, f)'
  <2>1. CASE f = g
    BY <1>1, <1>2, <1>5, <2>1 DEF Only, Quiet
  <2>2. CASE f # g
    BY <1>3, <1>5, <2>2 DEF Quiet
  <2> QED
    BY <2>1, <2>2
<1> QED
  BY <1>4, <1>5 DEF Together

\* A call cannot scan what others do: whoever is told, so is the one it scans for.
LEMMA UnseenTogether ==
    ASSUME Known, ~Parallel, NEW b \in Calls, NEW c \in Calls, ScansFor(b, c),
           Capturing(c), NEW w \in Calls \ {c}, NEW files,
           touched'[b] = Unseen(w, files)[b], touched'[c] = Unseen(w, files)[c],
           NEW f \in Files
    PROVE  Together(b, c, f)
<1>1. touched[c][f] \subseteq touched'[c][f]
  BY UnseenGrows DEF Known, Typed
<1>2. touched'[b][f] = touched[b][f] \/ (b \in Above[w] \ {w} /\ f \in files)
  BY DEF Unseen, Known, Typed, HasPast
<1>3. ASSUME b \in Above[w] \ {w}, f \in files PROVE "unseen" \in touched'[c][f]
  <2>1. c \in Above[w]
    BY <1>3, AboveFacts DEF ScansFor
  <2> QED
    BY <1>3, <2>1 DEF Unseen, Known, Typed, HasPast
<1> QED
  BY <1>1, <1>2, <1>3 DEF Together, Only, Quiet

\* The scanner of a call, and the call, are at it before and after a step.
LEMMA ScannersBegin ==
    ASSUME Known, Told, ~Parallel, [Next]_vars, NEW b \in Calls, NEW c \in Calls,
           ScansFor(b, c)'
    PROVE  \/ ScansFor(b, c)
           \/ ScanWithin(b) /\ notes'[b] = {} /\ touched'[b] = Untouched
<1> USE DEF Known, Told
<1>1. b \in Programs /\ b # c /\ c \in Above[b] /\ MustScan(b)' /\ phase'[b] \in Active
  BY DEF ScansFor
<1>2. MustScan(b)
  BY <1>1, GivenStays DEF Active, Done
<1>3. CASE phase[b] \in Active
  BY <1>1, <1>2, <1>3 DEF ScansFor
<1>4. CASE phase[b] \notin Active
  <2>1. PICK x \in Calls : Turn(x) \/ Scans(x)
    BY <1>1, <1>4, ScansOrNot
  <2>2. x = b
    BY <1>1, <1>4, <2>1, ShelterMoves
  <2>3. Turn(b)
    BY <1>1, <1>4, <2>1, <2>2 DEF Scans, AcceptAll, ScanBefore, ScanAfter, ScanFails
  <2>4. phase[b] \notin Waiting \union {"accept"}
    BY <1>1, <1>2 DEF Turns, Holds, Locks, MustScan, ScannersKnow, KnowsItsChanges
  <2>5. phase[b] \notin {"release", "notify", "over", "report"}
    <3> USE DEF Typed, HasCalls
    <3>1. phase[b] # "report"
      BY <1>1 DEF ScannersKnow, KnowsItsChanges
    <3>2. phase[b] \in {"release", "notify", "over"} =>
            phase'[b] \in {"notify", "over"} \/ phase'[b] = phase[b]
      <4>1. Release(b) \/ Notify(b) => phase'[b] \in {"notify", "over"}
        BY DEF Release, Notify, LetGo
      <4> QED
        BY <2>3, <4>1 DEF Turn, TakeFolders, ScanWithin, CaptureNothing, Arrives, Register,
           TryLock, Sleep, Wake, TimeOut, Run, Drop, End, Acts, ReportMoved, Finish, Done
    <3> QED
      BY <1>1, <3>1, <3>2 DEF Active
  <2>6. phase[b] = "idle"
    BY <1>4, <2>4, <2>5 DEF Active, Waiting, Typed, HasCalls, Phase
  <2>7. ScanWithin(b)
    <3>1. ~TakeFolders(b) /\ ~CaptureNothing(b)
      BY <1>2 DEF TakeFolders, CaptureNothing, MustScan
    <3> QED
      BY <2>3, <2>6, <3>1 DEF Turn, Register,
           TryLock, Sleep, Wake, TimeOut, Release, Notify, Run, Drop, End, Acts, ReportMoved,
           Finish, Done
  <2>8. notes'[b] = {} /\ touched'[b] = Untouched
    <3>1. notes[b] = {}
      BY <2>6 DEF InOrder, Capturers
    <3> QED
      BY <2>7, <3>1 DEF ScanWithin, Begin, Typed, HasPast
  <2> QED
    BY <2>7, <2>8
<1> QED
  BY <1>3, <1>4

\* What a call that scans noted, or saw others change, `c` knows of.
Relays(b, c) ==
    \A f \in Files : /\ f \in FilesIn(notes[b]) => "unseen" \in touched[c][f]
                     /\ Only(c, f) => Quiet(b, f)

Relayed == \A b, c \in Calls : ScansFor(b, c) /\ roots[c] # {} => Relays(b, c)

\* A step of another call, or of none.
LEMMA RelaysOn ==
    ASSUME Known, ~Parallel, NEW b \in Calls, NEW c \in Calls, Relays(b, c),
           notes'[b] = notes[b],
           \A f \in Files : touched[c][f] \subseteq touched'[c][f] /\ Together(b, c, f)
    PROVE  Relays(b, c)'
  BY DEF Relays, Together, FilesIn

\* The turns of calls, as the call that scans and the one it scans for see them.
LEMMA TurnRelays ==
    ASSUME Known, ~Parallel, NEW b \in Calls, NEW c \in Calls, ScansFor(b, c),
           ScansFor(b, c)', Capturing(c), Relays(b, c), NEW w \in Calls, Turn(w)
    PROVE  Relays(b, c)'
<1> USE DEF Known, Typed, HasCalls, HasPast
<1>1. w # c
  BY AwaitedIsStill DEF ScansFor, Active, Done
<1>2. ASSUME touched'[b] = touched[b], touched'[c] = touched[c], notes'[b] = notes[b]
      PROVE  Relays(b, c)'
  <2>1. \A f \in Files : Together(b, c, f)
    BY <1>2 DEF Together, Only, Quiet
  <2> QED
    BY <1>2, <2>1, RelaysOn
<1>3. CASE w = b
  <2>1. phase[b] \in Active /\ phase'[b] \in Active
    BY DEF ScansFor
  <2>2. Run(b) \/ End(b)
    <3>1. ~Release(b) /\ ~Drop(b) /\ ~Notify(b) /\ ~ReportMoved(b) /\ ~Finish(b)
      BY <2>1 DEF Release, Drop, Notify, ReportMoved, Finish, LetGo, Active
    <3> QED
      BY <1>3, <2>1, <3>1 DEF Turn, TakeFolders, ScanWithin, CaptureNothing, Arrives, Register,
         TryLock, Sleep, Wake, TimeOut, Active
  <2>3. UNCHANGED <<touched, notes>>
    BY <2>2 DEF Run, End, scans, past
  <2> QED
    BY <1>2, <2>3
<1>4. CASE w # b
  <2>1. Rests(b) /\ Rests(c)
    BY <1>1, <1>4, OthersRestInTurn
  <2>2. CASE Drop(w)
    <3>1. touched' = [Unseen(w, FilesIn(roots[w])) EXCEPT ![w] = Untouched]
      BY <2>2 DEF Drop, LetGo
    <3>2. /\ touched'[b] = Unseen(w, FilesIn(roots[w]))[b]
          /\ touched'[c] = Unseen(w, FilesIn(roots[w]))[c]
      BY <1>1, <1>4, <3>1 DEF Unseen
    <3>3. \A f \in Files : Together(b, c, f)
      BY <1>1, <3>2, UnseenTogether
    <3> QED
      BY <2>1, <3>3, RelaysOn DEF Rests
  <2>3. CASE ~Drop(w)
    <3>1. touched'[b] = touched[b] /\ touched'[c] = touched[c]
      BY <1>1, <1>4, <2>3 DEF Turn, TakeFolders, ScanWithin, CaptureNothing, Register,
         TryLock, Sleep, Wake, TimeOut, Release, Notify, Run, End, ReportMoved, Finish,
         Begin, LetGo, past
    <3> QED
      BY <1>2, <2>1, <3>1 DEF Rests
  <2> QED
    BY <2>2, <2>3
<1> QED
  BY <1>3, <1>4

\* Their scans and what they deal with after them.
LEMMA ScansRelay ==
    ASSUME Known, ~Parallel, NEW b \in Calls, NEW c \in Calls, ScansFor(b, c),
           Capturing(c), Relays(b, c), NEW w \in Calls,
           Scans(w) \/ AcceptOutside(w) \/ Judge(w) \/ Record(w)
    PROVE  Relays(b, c)'
<1> USE DEF Known, Typed, HasCalls, HasPast
<1>1. w # c
  BY AwaitedIsStill DEF ScansFor, Active, Done
<1>2. CASE UNCHANGED <<touched, notes>>
  <2>1. \A f \in Files : Together(b, c, f)
    BY <1>2 DEF Together, Only, Quiet
  <2> QED
    BY <1>2, <2>1, RelaysOn
<1>3. ASSUME NEW r \in Folders, ScanFails(w, r) PROVE Relays(b, c)'
  <2>1. touched' = Unseen(w, Inside[r]) /\ notes' = [notes EXCEPT ![w] = @ \union {r}]
    BY <1>3 DEF ScanFails
  <2>2. \A f \in Files : touched[c][f] \subseteq touched'[c][f] /\ Together(b, c, f)
    BY <1>1, <2>1, UnseenTogether, UnseenGrows
  <2>3. CASE w # b
    <3>1. notes'[b] = notes[b]
      BY <2>1, <2>3
    <3> QED
      BY <2>2, <3>1, RelaysOn
  <2>4. CASE w = b
    <3>1. notes'[b] = notes[b] \union {r}
      BY <2>1, <2>4
    <3>2. \A f \in Inside[r] : f \in Files => "unseen" \in touched'[c][f]
      BY <2>1, <2>4 DEF Unseen, ScansFor
    <3>3. FilesIn(notes'[b]) = FilesIn(notes[b]) \union Inside[r]
      BY <3>1 DEF FilesIn
    <3> QED
      BY <2>2, <3>2, <3>3 DEF Relays, Together
  <2> QED
    BY <2>3, <2>4
<1> QED
  BY <1>2, <1>3 DEF Scans, AcceptAll, ScanBefore, ScanAfter, AcceptOutside, Judge, Record, past

\* What scripts do to files.
LEMMA WorkRelays ==
    ASSUME Known, ~Parallel, NEW b \in Calls, NEW c \in Calls, ScansFor(b, c),
           Capturing(c), Relays(b, c), NEW g \in Files,
           \/ \E w \in Calls : \/ UndoChange(w, g) \/ Read(w, g)
                               \/ \E image \in Contents[g] :
                                    Write(w, g, image) \/ Program(w, g, image)
           \/ \E image \in Contents[g] : OutsideEdit(g, image)
    PROVE  Relays(b, c)'
<1>1. phase[b] \notin Done /\ c \in Above[b] /\ c # b /\ Above[b] \subseteq Calls
  BY AboveFacts DEF ScansFor, Active, Done
<1>2. ASSUME NEW w \in Calls, Acts(w)
      PROVE  /\ w # c /\ phase[w] \notin Done
             /\ b \in Above[w] => c \in Above[w]
             /\ c \in Above[w] => w = b \/ b \in Above[w]
  <2>1. w # c
    BY <1>1, <1>2, AwaitedIsStill
  <2>2. phase[w] \notin Done /\ ~Busy(w)
    BY <1>2 DEF Acts, Done, Known
  <2>3. b \in Above[w] => c \in Above[w]
    BY <1>1, AboveFacts
  <2>4. c \in Above[w] => b \in Above[w]
    BY <1>1, <2>2, OneChain DEF Known, Turns
  <2> QED
    BY <2>1, <2>2, <2>3, <2>4
<1>3. ASSUME NEW kinds, Touch(kinds, g), UNCHANGED notes,
             kinds[b] \subseteq {"own", "program", "nested"}
               \/ ~(kinds[c] \subseteq {"own", "program"})
      PROVE  Relays(b, c)'
  <2>1. \A f \in Files : Together(b, c, f)
    BY <1>3, WorkSeenTogether
  <2>2. \A f \in Files : touched[c][f] \subseteq touched'[c][f]
    BY <1>3, TouchGrows DEF Known, Typed
  <2> QED
    BY <1>3, <2>1, <2>2, RelaysOn
<1>4. ASSUME NEW w \in Calls, Acts(w) PROVE ~(Kinds(w, g)[c] \subseteq {"own", "program"})
  <2>1. Kinds(w, g)[c] = {Kind(w, c, g)}
    BY DEF Kinds
  <2>2. w # c
    BY <1>2, <1>4
  <2>3. Kind(w, c, g) \in {"nested", "other", "free"}
    BY <2>2 DEF Kind
  <2> QED
    BY <2>1, <2>3
<1>5. ASSUME NEW w \in Calls, UndoChange(w, g) PROVE Relays(b, c)'
  <2>1. Touch(Kinds(w, g), g) /\ Acts(w) /\ UNCHANGED notes
    BY <1>5 DEF UndoChange, scans
  <2> QED
    BY <1>3, <1>4, <2>1
<1>6. ASSUME NEW w \in Calls, NEW image \in Contents[g], Write(w, g, image)
      PROVE  Relays(b, c)'
  <2>1. Touch(Kinds(w, g), g) /\ Acts(w) /\ UNCHANGED notes
    BY <1>6 DEF Write, scans
  <2> QED
    BY <1>3, <1>4, <2>1
<1>7. ASSUME NEW w \in Calls, Read(w, g) PROVE Relays(b, c)'
  <2> DEFINE kinds == [d \in Calls |->
                         IF InStep(tl[g], disk[g]) \/ d = w THEN {}
                         ELSE IF d \in Above[w] THEN {"nested"} ELSE {"free"}]
  <2>1. Touch(kinds, g) /\ Acts(w) /\ UNCHANGED notes
    BY <1>7 DEF Read, scans
  <2>2. kinds[b] = {} \/ ~(kinds[c] \subseteq {"own", "program"})
    BY <1>2, <2>1
  <2> HIDE DEF kinds
  <2> QED
    BY <1>3, <2>1, <2>2
<1>8. ASSUME NEW w \in Calls, NEW image \in Contents[g], Program(w, g, image)
      PROVE  Relays(b, c)'
  <2> DEFINE seen == Given(w).scans \/ g \in FilesIn(Enclosed(w) \ notes[w])
             kinds == [d \in Calls |->
                  IF Kind(w, d, g) # "nested" THEN Kinds(w, g)[d]
                  ELSE IF \/ Given(w).scans
                          \/ g \in FilesIn(Enclosed(w) \ notes[w])
                  THEN {"program"} ELSE {"unseen"}]
  <2>1. Changed(kinds, g, image) /\ Acts(w)
    BY <1>8 DEF Program
  <2>2. \A d \in Calls : /\ Kind(w, d, g) # "nested" => kinds[d] = {Kind(w, d, g)}
                         /\ Kind(w, d, g) = "nested" =>
                              kinds[d] = IF seen THEN {"program"} ELSE {"unseen"}
    BY DEF Kinds
  <2>3. kinds[b] \subseteq {"own", "program", "nested"}
          \/ ~(kinds[c] \subseteq {"own", "program"})
    <3> HIDE DEF seen, kinds
    <3>1. /\ w # c
          /\ b \in Above[w] => c \in Above[w]
          /\ c \in Above[w] => w = b \/ b \in Above[w]
      BY <1>2, <2>1
    <3>2. CASE c \notin Above[w]
      <4>1. Kind(w, c, g) \in {"other", "free"}
        BY <3>1, <3>2 DEF Kind
      <4> QED
        BY <2>2, <4>1
    <3>3. CASE c \in Above[w]
      <4>1. Kind(w, c, g) = "nested"
        BY <3>1, <3>3 DEF Kind
      <4>2. Kind(w, b, g) \in {"own", "nested"}
        BY <3>1, <3>3, AboveFacts DEF Kind
      <4> QED
        BY <2>2, <4>1, <4>2
    <3> QED
      BY <3>2, <3>3
  <2> HIDE DEF kinds
  <2>4. Touch(kinds, g) /\ UNCHANGED notes
    BY <2>1 DEF Changed, scans
  <2> QED
    BY <1>3, <2>3, <2>4
<1>9. ASSUME NEW image \in Contents[g], OutsideEdit(g, image) PROVE Relays(b, c)'
  <2> DEFINE kinds == [d \in Calls |-> {"free"}]
  <2>1. Changed(kinds, g, image) /\ kinds[c] = {"free"}
    BY <1>9 DEF OutsideEdit
  <2> HIDE DEF kinds
  <2>2. Touch(kinds, g) /\ UNCHANGED notes
    BY <2>1 DEF Changed, scans
  <2> QED
    BY <1>3, <2>1, <2>2
<1> QED
  BY <1>5, <1>6, <1>7, <1>8, <1>9

LEMMA NextRelayed ==
    ASSUME Known, Told, Relayed, ~Parallel, [Next]_vars
    PROVE  Relayed'
<1> SUFFICES ASSUME NEW b \in Calls, NEW c \in Calls, ScansFor(b, c)', roots'[c] # {}
             PROVE  Relays(b, c)'
  BY DEF Relayed
<1>1. CASE ScanWithin(b) /\ notes'[b] = {} /\ touched'[b] = Untouched
  BY <1>1 DEF Relays, FilesIn, Untouched, Quiet
<1>2. CASE ScansFor(b, c)
  <2>1. phase[b] \notin Done /\ c \in Above[b] /\ c # b
    BY <1>2 DEF ScansFor, Active, Done
  <2>2. phase[c] = "running" /\ phase'[c] = "running"
    BY <2>1, AwaitedStays DEF Known
  <2>3. roots'[c] = roots[c]
    BY <2>2, BegunStays DEF Known, Began
  <2>4. Relays(b, c) /\ Capturing(c)
    BY <1>2, <2>2, <2>3 DEF Relayed, Capturing
  <2>5. CASE UNCHANGED <<touched, notes>>
    <3>1. \A f \in Files : Together(b, c, f)
      BY <2>5 DEF Together, Only, Quiet
    <3> QED
      BY <2>4, <2>5, <3>1, RelaysOn
  <2>6. ASSUME NEW w \in Calls, Turn(w) PROVE Relays(b, c)'
    BY <1>2, <2>4, <2>6, TurnRelays
  <2>7. ASSUME NEW w \in Calls, Scans(w) \/ AcceptOutside(w) \/ Judge(w) \/ Record(w)
        PROVE  Relays(b, c)'
    BY <1>2, <2>4, <2>7, ScansRelay
  <2>8. ASSUME NEW g \in Files,
               \/ \E w \in Calls : \/ UndoChange(w, g) \/ Read(w, g)
                                   \/ \E image \in Contents[g] :
                                        Write(w, g, image) \/ Program(w, g, image)
               \/ \E image \in Contents[g] : OutsideEdit(g, image)
        PROVE  Relays(b, c)'
    BY <1>2, <2>4, <2>8, WorkRelays
  <2>9. ASSUME NEW r \in Folders, Expire(r) PROVE UNCHANGED <<touched, notes>>
    BY <2>9 DEF Expire, past
  <2>10. UNCHANGED vars => UNCHANGED <<touched, notes>>
    BY DEF vars
  <2> QED
    BY <2>5, <2>6, <2>7, <2>8, <2>9, <2>10 DEF Next, Turn, Scans
<1> QED
  BY <1>1, <1>2, ScannersBegin

-----------------------------------------------------------------------------
(* What a scan found.                                                      *)

\* What a call that scans found tells what it was when the call began, and what
\* it still is, unless others have a hand in it.
FindsTheTruth(c) ==
    phase[c] = "after" =>
        \A x \in found[c] \union unknown[c] :
            Quiet(c, x.file) => x.after = disk[x.file] /\ x.before = start[c][x.file]

Truthful == \A c \in Programs : FindsTheTruth(c)

\* Others leave alone what a call found, or it learns who had a hand in it.
LEMMA RestingTruth ==
    ASSUME Known, NEW c \in Calls, FindsTheTruth(c), Rests(c),
           \A f \in FilesIn(roots[c] \union todo[c]) :
              disk'[f] # disk[f] /\ phase[c] \in {"before", "after", "release"}
              => ~Quiet(c, f)'
    PROVE  FindsTheTruth(c)'
<1> SUFFICES ASSUME phase'[c] = "after", NEW x \in found'[c] \union unknown'[c],
                    Quiet(c, x.file)'
             PROVE  x.after = disk'[x.file] /\ x.before = start'[c][x.file]
  BY DEF FindsTheTruth
<1>1. /\ phase[c] = "after" /\ x \in found[c] \union unknown[c] /\ start'[c] = start[c]
      /\ x \in Seen /\ x.file \in Files
  BY DEF Rests, Known, Typed, HasFindings, Seen
<1>2. x.file \in FilesIn(roots[c] \union todo[c])
  <2>1. x.file \in FilesIn(roots[c])
    BY <1>1 DEF Known, InItsFolders, KeepsToItsFolders
  <2> QED
    BY <2>1 DEF FilesIn
<1>3. disk'[x.file] = disk[x.file]
  BY <1>1, <1>2
<1>4. Quiet(c, x.file)
  BY <1>1 DEF Rests, Quiet
<1> QED
  BY <1>1, <1>3, <1>4 DEF FindsTheTruth

\* Every step leaves a call at rest, and what it looks at alone unless it learns
\* who had a hand in it; or it is a step of the call.
LEMMA RestsOrMoves ==
    ASSUME Known, ~Parallel, [Next]_vars, NEW c \in Calls
    PROVE  \/ Turn(c) \/ Scans(c) \/ AcceptOutside(c) \/ Judge(c) \/ Record(c)
           \/ /\ Rests(c)
              /\ \A f \in FilesIn(roots[c] \union todo[c]) :
                    disk'[f] # disk[f] /\ phase[c] \in {"before", "after", "release"}
                    => ~Quiet(c, f)'
<1> DEFINE Goal == /\ Rests(c)
                   /\ \A f \in FilesIn(roots[c] \union todo[c]) :
                         disk'[f] # disk[f] /\ phase[c] \in {"before", "after", "release"}
                         => ~Quiet(c, f)'
<1> USE DEF Known
<1>1. ASSUME NEW w \in Calls, w # c, Turn(w) PROVE Goal
  <2>1. UNCHANGED disk
    BY <1>1 DEF Turn, TakeFolders, ScanWithin, CaptureNothing, Register, TryLock, Sleep,
       Wake, TimeOut, Release, Notify, Run, Drop, End, ReportMoved, Finish
  <2> QED
    BY <1>1, <2>1, OthersRestInTurn
<1>2. ASSUME NEW w \in Calls, w # c, Scans(w) \/ AcceptOutside(w) \/ Judge(w) \/ Record(w)
      PROVE  Goal
  <2>1. UNCHANGED disk
    BY <1>2 DEF Scans, AcceptAll, ScanBefore, ScanFails, ScanAfter, AcceptOutside, Judge,
       Record
  <2> QED
    BY <1>2, <2>1, OthersRestInScans
<1>3. ASSUME NEW g \in Files,
             \/ \E w \in Calls : \/ UndoChange(w, g) \/ Read(w, g)
                                 \/ \E image \in Contents[g] :
                                      Write(w, g, image) \/ Program(w, g, image)
             \/ \E image \in Contents[g] : OutsideEdit(g, image)
      PROVE  Goal
  <2>1. /\ Rests(c)
        /\ \A f \in Files : disk'[f] # disk[f] /\ Capturing(c) =>
             \/ "free" \in touched'[c][f]
             \/ \E w \in Calls : /\ Acts(w)
                                 /\ \/ Kind(w, c, f) \in touched'[c][f]
                                    \/ Kind(w, c, f) = "nested"
    BY <1>3, WorkIsSeen
  <2>2. ASSUME NEW f \in FilesIn(roots[c] \union todo[c]), disk'[f] # disk[f],
               phase[c] \in {"before", "after", "release"}
        PROVE  ~Quiet(c, f)'
    <3>1. Capturing(c) /\ phase[c] # "running"
      BY <2>2 DEF Capturing, FilesIn
    <3>2. f \in Files
      BY FoldersAssumption DEF FilesIn, Typed, HasCalls
    <3>3. ASSUME NEW w \in Calls, Acts(w) PROVE Kind(w, c, f) \in {"other", "free"}
      BY <3>1, <3>2, <3>3, ChangesAreSeen
    <3>4. "free" \in touched'[c][f] \/ "other" \in touched'[c][f]
      BY <2>1, <2>2, <3>1, <3>2, <3>3
    <3> QED
      BY <3>4 DEF Quiet
  <2> QED
    BY <2>1, <2>2
<1>4. ASSUME NEW r \in Folders, Expire(r) PROVE Goal
  BY <1>4 DEF Expire, past, Rests
<1>5. CASE UNCHANGED vars
  BY <1>5 DEF vars, Rests
<1> QED
  BY <1>1, <1>2, <1>3, <1>4, <1>5 DEF Next, Turn, Scans

\* A step of the call itself: its own scans, and what it deals with.
LEMMA NextTruthful ==
    ASSUME Known, Truthful, ~Parallel, [Next]_vars
    PROVE  Truthful'
<1> SUFFICES ASSUME NEW c \in Programs PROVE FindsTheTruth(c)'
  BY DEF Truthful
<1> USE DEF Known, Typed, HasCalls, HasFindings
<1>0. c \in Calls /\ FindsTheTruth(c) /\ KnowsItsChanges(c) /\ KeepsToItsFolders(c)
  BY FoldersAssumption DEF Truthful, ScannersKnow, InItsFolders
<1>1. CASE Rests(c) /\ \A f \in FilesIn(roots[c] \union todo[c]) :
                          disk'[f] # disk[f] /\ phase[c] \in {"before", "after", "release"}
                          => ~Quiet(c, f)'
  BY <1>0, <1>1, RestingTruth
<1>2. CASE Turn(c)
  <2>1. CASE End(c)
    <3>1. phase[c] = "running" /\ UNCHANGED <<found, unknown>>
      BY <2>1 DEF End, Acts
    <3>2. found'[c] = {} /\ unknown'[c] = {}
      BY <1>0, <3>1 DEF KeepsToItsFolders
    <3> QED
      BY <3>2 DEF FindsTheTruth
  <2>2. CASE ~End(c)
    <3>1. phase'[c] # "after"
      BY <1>0, <1>2, <2>2 DEF Turn, TakeFolders, ScanWithin, CaptureNothing, Register, TryLock,
         Sleep, Wake, TimeOut, Release, Notify, Run, Drop, ReportMoved, Finish, Begin, LetGo
    <3> QED
      BY <3>1 DEF FindsTheTruth
  <2> QED
    BY <2>1, <2>2
<1>3. CASE AcceptOutside(c) \/ AcceptAll(c) \/ \E r \in Folders : ScanBefore(c, r)
  BY <1>3 DEF AcceptOutside, AcceptAll, ScanBefore, FindsTheTruth
<1>4. ASSUME NEW r \in Folders, ScanFails(c, r) PROVE FindsTheTruth(c)'
  <2>1. found'[c] = {} /\ unknown'[c] = {}
    BY <1>4 DEF ScanFails
  <2> QED
    BY <2>1 DEF FindsTheTruth
<1>5. ASSUME NEW r \in Folders, ScanAfter(c, r) PROVE FindsTheTruth(c)'
  <2>1. /\ phase[c] = "after" /\ r \in todo[c] /\ r \in roots[c]
        /\ found' = [found EXCEPT ![c] = Changes(r)] /\ unknown'[c] = {}
        /\ UNCHANGED <<disk, start, touched>>
    BY <1>0, <1>5 DEF ScanAfter, Scan, KeepsToItsFolders, past
  <2>2. found'[c] = Changes(r)
    BY <1>0, <2>1
  <2>3. ASSUME NEW f \in Inside[r]
        PROVE  base[r] # NoBase /\ (Quiet(c, f) => base[r][f] = start[c][f])
    BY <1>0, <2>1 DEF KnowsItsChanges, KnowsOf
  <2>4. ASSUME NEW x \in Changes(r), Quiet(c, x.file)
        PROVE  x.after = disk[x.file] /\ x.before = start[c][x.file]
    <3>1. x.file \in Inside[r] /\ x.before = base[r][x.file] /\ x.after = disk[x.file]
      BY <2>4 DEF Changes
    <3> QED
      BY <2>3, <2>4, <3>1
  <2>5. \A f : Quiet(c, f)' <=> Quiet(c, f)
    BY <2>1 DEF Quiet
  <2> QED
    BY <2>1, <2>2, <2>4, <2>5 DEF FindsTheTruth
<1>6. CASE Judge(c)
  <2>1. /\ found'[c] \union unknown'[c] \subseteq found[c] \union unknown[c]
        /\ UNCHANGED <<phase, disk, start, touched>>
    BY <1>0, <1>6 DEF Judge, past
  <2> QED
    BY <1>0, <2>1 DEF FindsTheTruth, Quiet
<1>7. CASE Record(c)
  <2>1. /\ found'[c] \union unknown'[c] \subseteq found[c] \union unknown[c]
        /\ UNCHANGED <<phase, disk, start, touched>>
    BY <1>0, <1>7 DEF Record, past
  <2> QED
    BY <1>0, <2>1 DEF FindsTheTruth, Quiet
<1> QED
  BY <1>0, <1>1, <1>2, <1>3, <1>4, <1>5, <1>6, <1>7, RestsOrMoves DEF Scans

\* A program changes a file `c` captures from history, and `c` is told that it
\* can learn of it: there is a call that scans the file for it.
LEMMA WhoScans ==
    ASSUME Known, Told, Relayed, ScannersCover, ~Parallel,
           NEW c \in Calls \ Programs, ~Given(c).scans,
           NEW f \in FilesIn(roots[c]), Only(c, f),
           NEW w \in Programs, Acts(w), c \in Above[w], f \in Reach(w),
           Given(w).scans \/ f \in FilesIn(Enclosed(w) \ notes[w])
    PROVE  \E b \in Calls : /\ ScansFor(b, c) /\ phase[b] = "running"
                            /\ f \in FilesIn(roots[b])
<1> USE DEF Known, Told
<1>1. /\ w \in Calls /\ w # c /\ phase[w] = "running" /\ phase[w] \notin Done /\ c \in Calls
      /\ f \in Files
  BY FoldersAssumption DEF Acts, Done, FilesIn, Typed, HasCalls
<1>2. PICK h \in roots[c] : f \in Inside[h]
  BY DEF FilesIn
<1>3. /\ phase[c] = "running" /\ GoesOn(passes[c], Given(w)) /\ roots[c] \subseteq Given(w).roots
      /\ ParentOf[w] \in Calls /\ c \in Above[ParentOf[w]] /\ phase[ParentOf[w]] = "running"
      /\ Above[ParentOf[w]] \subseteq Above[w] /\ Given(w) = passes[ParentOf[w]]
  BY <1>1, GivenBy
<1>4. h \in Wants[c]
  BY <1>1 DEF InOrder
<1>5. ~passes[c].scans /\ passes[c].roots # {}
  BY <1>1, <1>2, <1>3 DEF InOrder, Began, PassedOn, PassesOn
<1>6. \E b \in Above[w] : b # c /\ c \in Above[b] /\ MustScan(b)
  <2>1. CASE Given(w).scans
    BY <1>3, <1>5, <2>1 DEF SomeoneScans, Began
  <2>2. CASE ~Given(w).scans
    <3>1. Enclosed(w) # {}
      BY <2>2 DEF FilesIn
    <3>2. MustScan(w)
      BY <1>2, <1>3, <2>2, <3>1 DEF MustScan
    <3> QED
      BY <1>1, <3>2, AboveFacts
  <2> QED
    BY <2>1, <2>2
<1>7. PICK b \in Above[w] : b # c /\ c \in Above[b] /\ MustScan(b)
  BY <1>6
<1>8. b \in Calls /\ b \in Programs /\ phase[b] = "running"
  BY <1>1, <1>7, AboveFacts, AboveAwaits DEF Turns, MustScan
<1>9. ScansFor(b, c)
  BY <1>7, <1>8 DEF ScansFor, Active
<1>10. roots[c] \subseteq Given(b).roots
  BY <1>7, <1>8, GivenBy DEF Done
<1>11. PICK q \in Enclosed(b) : f \in Inside[q]
  <2>1. CASE b # w
    <3>1. \E q \in Wants[b] : f \in Inside[q] /\ Within(q, h)
      BY <1>2, <1>4, <1>7, <1>8, <2>1 DEF ScannersCover, Reach, FilesIn
    <3> QED
      BY <1>2, <1>10, <3>1 DEF Enclosed
  <2>2. CASE b = w
    <3>1. ~Given(w).scans
      BY <1>7, <2>2 DEF MustScan
    <3> QED
      BY <2>2, <3>1 DEF FilesIn
  <2> QED
    BY <2>1, <2>2
<1>12. q \notin notes[b]
  <2>1. Relays(b, c)
    BY <1>1, <1>2, <1>8, <1>9 DEF Relayed
  <2> QED
    BY <1>1, <1>11, <2>1 DEF Relays, FilesIn, Only
<1>13. q \in roots[b]
  <2>1. todo[b] = {}
    BY <1>8 DEF Sheltered
  <2> QED
    BY <1>7, <1>8, <1>11, <1>12, <2>1 DEF InOrder, Active
<1> QED
  BY <1>8, <1>9, <1>11, <1>13 DEF FilesIn

-----------------------------------------------------------------------------
(* How calls that run no programs follow their files.                      *)

\* All that is known of those who scan, and of what they tell.
Aware == Known /\ Told /\ Relayed /\ Truthful

LEMMA InitAware == Init => Aware
<1> SUFFICES ASSUME Init PROVE Aware
  OBVIOUS
<1>1. \A c \in Calls : phase[c] = "idle"
  BY DEF Init
<1>2. Relayed
  BY <1>1 DEF Relayed, ScansFor, Active
<1>3. Truthful
  BY <1>1, FoldersAssumption DEF Truthful, FindsTheTruth
<1> QED
  BY <1>2, <1>3, InitKnown, InitTold DEF Aware

LEMMA NextAware == ~Parallel /\ Aware /\ [Next]_vars => Aware'
  BY NextKnown, NextTold, NextRelayed, NextTruthful DEF Aware

\* The history of a file leads to `image`, or there is none and it began so.
Left(c, f, image) ==
    IF Tracked(tl[f]) THEN image = Expected(tl[f]) ELSE image = start[c][f]

\* The revision the file was at when the call began has what it held then.
Marked(c, f) ==
    /\ mark[c][f] \in Revisions(tl[f])
    /\ Tracked(tl[f]) => StateAt(tl[f], mark[c][f]) = start[c][f]

\* What a file held when a call that scans for `c` began is in its history, and
\* what it holds since will be, or is.
Learns(b, c, f) ==
    /\ phase[b] \in {"before", "running"} => Left(c, f, start[b][f])
    /\ phase[b] = "before" => disk[f] = start[b][f]
    /\ phase[b] = "running" /\ disk[f] # start[b][f] => f \in FilesIn(roots[b])
    /\ phase[b] = "after" =>
         /\ ~Tracked(tl[f]) => start[b][f] = start[c][f]
         /\ \/ Left(c, f, disk[f])
            \/ /\ Left(c, f, start[b][f])
               /\ \/ f \in FilesIn(todo[b])
                  \/ \E x \in found[b] \union unknown[b] : x.file = f

\* The history of a file `c` captures leads to what the file holds, but for what
\* a call that scans for `c` has yet to record.
UpToDate(c, f) ==
    /\ \A b \in Calls : ScansFor(b, c) => Learns(b, c, f)
    /\ (\A b \in Calls : ~ScansFor(b, c)) => Left(c, f, disk[f])

Follows(c, f) ==
    /\ phase[c] = "accept" => disk[f] = start[c][f]
    /\ phase[c] \in {"running", "report"} => Marked(c, f)
    /\ f \in FilesIn(roots[c]) /\ phase[c] \in {"accept", "running", "report"} =>
         UpToDate(c, f)
    /\ phase[c] = "release" /\ f \in FilesIn(roots[c]) /\ disk[f] # start[c][f] =>
         f \in reported[c]

\* A call that runs no programs follows its files through their history, unless
\* a call it is made in scans.
Reading(c) == c \in Calls \ Programs /\ ~Given(c).scans

ReadersFollow ==
    \A c \in Calls : Reading(c) =>
        \A f \in FilesIn(roots[c] \union todo[c]) : Only(c, f) => Follows(c, f)

\* Whoever stays where it is scans for whom it scanned.
LEMMA ScannersStay ==
    ASSUME Known, ~Parallel, [Next]_vars, NEW b \in Calls, NEW c, phase'[b] = phase[b]
    PROVE  ScansFor(b, c)' <=> ScansFor(b, c)
  BY GivenStays DEF ScansFor, Active, Done, Known

\* Nobody scans for a call that is not under way, or at work itself.
LEMMA NobodyScans ==
    ASSUME Known, ~Parallel, NEW c \in Calls, phase[c] # "running" \/ ~Busy(c)
    PROVE  \A b \in Calls : ~ScansFor(b, c)
  BY AboveAwaits DEF ScansFor, Active, Done, Known, Turns

\* The files a call captures are files, and the call is under way.
LEMMA Captured ==
    ASSUME Known, NEW c \in Calls, NEW f \in FilesIn(roots[c] \union todo[c])
    PROVE  /\ f \in Files /\ Capturing(c) /\ phase[c] \notin Done
           /\ FilesIn(roots[c]) \subseteq FilesIn(roots[c] \union todo[c])
           /\ phase[c] \in {"running", "report", "release"} => f \in FilesIn(roots[c])
  BY FoldersAssumption DEF FilesIn, Capturing, Known, Typed, HasCalls, Sheltered, Done

\* A call takes its own steps.
LEMMA OwnFollows ==
    ASSUME Aware, ReadersFollow, ~Parallel, [Next]_vars, NEW c \in Calls, Reading(c),
           Turn(c) \/ Scans(c) \/ AcceptOutside(c) \/ Judge(c) \/ Record(c),
           NEW f \in FilesIn(roots'[c] \union todo'[c]), Only(c, f)'
    PROVE  Follows(c, f)'
<1> USE DEF Aware, Known, Typed, HasCalls, HasPast
<1>0. c \notin Programs /\ InOrder(c) /\ KeepsToItsFolders(c)
  BY DEF Reading, Told, InItsFolders
<1>1. FilesIn(roots'[c] \union todo'[c]) # {} /\ roots'[c] \union todo'[c] # {}
  BY DEF FilesIn
<1>2. ASSUME phase[c] \in {"before", "after"} PROVE roots[c] = {} /\ todo[c] = {}
  BY <1>0, <1>2 DEF InOrder
<1>3. ASSUME phase[c] \in {"idle"} \union Waiting PROVE roots[c] = {} /\ todo[c] = {}
  BY <1>3 DEF Sheltered, Waiting
<1>4. ASSUME \A b \in Calls : ~ScansFor(b, c), Turn(c) \/ Scans(c)
      PROVE  \A b \in Calls : ~ScansFor(b, c)'
  <2> SUFFICES ASSUME NEW b \in Calls, b # c PROVE ~ScansFor(b, c)'
    BY DEF ScansFor
  <2>1. phase'[b] = phase[b]
    BY <1>4, ShelterMoves
  <2> QED
    BY <1>4, <2>1, ScannersStay
<1>5. CASE TryLock(c) \/ TimeOut(c)
  <2>1. phase[c] \in Waiting
    BY <1>5 DEF TryLock, TimeOut, Waiting
  <2>2. roots'[c] = {} /\ disk' = disk
    BY <1>3, <1>5, <2>1 DEF TryLock, TimeOut
  <2>3. \E folders : Begin(c, folders)
    BY <1>1, <1>3, <1>5, <2>1, <2>2 DEF TryLock, TimeOut
  <2>4. phase'[c] = "accept" /\ start'[c] = disk
    BY <1>0, <2>3 DEF Begin
  <2> QED
    BY <2>2, <2>4 DEF Follows, FilesIn
<1>6. CASE AcceptAll(c)
  <2>1. /\ phase[c] = "accept" /\ roots'[c] = todo[c] /\ todo'[c] = {}
        /\ UNCHANGED <<disk, phase, start, touched>>
        /\ tl' = [g \in Files |-> IF g \in FilesIn(todo[c])
                                  THEN AcknowledgeOutside(tl[g], disk[g]) ELSE tl[g]]
    BY <1>6 DEF AcceptAll, past
  <2>2. f \in FilesIn(todo[c])
    BY <2>1 DEF FilesIn
  <2>3. f \in FilesIn(roots[c] \union todo[c])
    BY <2>2 DEF FilesIn
  <2>4. f \in Files
    BY <2>3, Captured
  <2>5. disk[f] = start[c][f]
    BY <2>1, <2>3 DEF ReadersFollow, Follows, Only
  <2>6. tl'[f] = AcknowledgeOutside(tl[f], disk[f]) /\ Kept(tl[f])
    BY <2>1, <2>2, <2>4 DEF HasFiles
  <2>7. Left(c, f, disk[f])'
    <3>1. CASE Tracked(tl[f])
      BY <2>1, <2>6, <3>1, AcceptsTheFile DEF Left
    <3>2. CASE ~Tracked(tl[f])
      <4>1. tl'[f] = tl[f]
        BY <2>6, <3>2, AcceptsTheFile DEF InStep
      <4> QED
        BY <2>1, <2>5, <3>2, <4>1 DEF Left
    <3> QED
      BY <3>1, <3>2
  <2>8. \A b \in Calls : ~ScansFor(b, c)'
    BY <1>4, <1>6, <2>1, NobodyScans DEF Scans
  <2> QED
    BY <2>1, <2>5, <2>7, <2>8 DEF Follows, UpToDate
<1>7. CASE Run(c)
  <2>1. /\ todo[c] = {} /\ phase'[c] = "running"
        /\ UNCHANGED <<disk, tl, roots, todo, start, touched>>
        /\ phase[c] \in {"before", "accept"}
        /\ mark' = [mark EXCEPT ![c] = [g \in Files |-> tl[g].current]]
    BY <1>7 DEF Run, scans, past
  <2>2. phase[c] = "accept"
    BY <1>1, <1>2, <2>1
  <2>3. f \in FilesIn(roots[c]) /\ f \in FilesIn(roots[c] \union todo[c])
    BY <2>1 DEF FilesIn
  <2>4. f \in Files
    BY <2>3, Captured
  <2>5. disk[f] = start[c][f] /\ UpToDate(c, f)
    BY <2>1, <2>2, <2>3 DEF ReadersFollow, Follows, Only
  <2>6. \A b \in Calls : ~ScansFor(b, c)
    BY <2>2, NobodyScans
  <2>7. \A b \in Calls : ~ScansFor(b, c)'
    BY <1>4, <1>7, <2>6 DEF Turn
  <2>8. Left(c, f, disk[f])
    BY <2>5, <2>6 DEF UpToDate
  <2>9. Left(c, f, disk[f])'
    BY <2>1, <2>8 DEF Left
  <2>10. mark'[c][f] = tl[f].current /\ tl[f].current \in Revisions(tl[f])
    <3>1. mark'[c] = [g \in Files |-> tl[g].current]
      BY <2>1 DEF HasFindings
    <3> QED
      BY <2>4, <3>1, KeptType DEF HasFiles
  <2>11. Marked(c, f)'
    BY <2>1, <2>5, <2>8, <2>10 DEF Marked, Left, Expected
  <2> QED
    BY <2>1, <2>7, <2>9, <2>11 DEF Follows, UpToDate
<1>8. CASE End(c)
  <2>1. /\ Acts(c) /\ phase[c] = "running" /\ todo[c] = {}
        /\ UNCHANGED <<disk, tl, roots, mark, start, touched>>
    BY <1>8 DEF End, Acts, Sheltered, past
  <2>2. phase'[c] = "report" /\ UNCHANGED todo
    <3>1. roots[c] # {}
      <4>1. roots[c] = {} => todo'[c] = {}
        BY <1>8 DEF End
      <4> QED
        BY <1>1, <2>1, <4>1
    <3> QED
      BY <1>0, <1>8, <3>1 DEF End
  <2>3. f \in FilesIn(roots[c]) /\ f \in FilesIn(roots[c] \union todo[c])
    BY <2>1, <2>2 DEF FilesIn
  <2>4. Marked(c, f) /\ UpToDate(c, f)
    BY <2>1, <2>3 DEF ReadersFollow, Follows, Only
  <2>5. \A b \in Calls : ~ScansFor(b, c)
    BY <2>1, NobodyScans DEF Acts
  <2>6. \A b \in Calls : ~ScansFor(b, c)'
    BY <1>4, <1>8, <2>5 DEF Turn
  <2>7. Left(c, f, disk[f])
    BY <2>4, <2>5 DEF UpToDate
  <2>8. Left(c, f, disk[f])' /\ Marked(c, f)'
    BY <2>1, <2>4, <2>7 DEF Left, Marked
  <2> QED
    BY <2>2, <2>6, <2>8 DEF Follows, UpToDate
<1>9. CASE ReportMoved(c)
  <2>1. /\ phase[c] = "report" /\ phase'[c] = "release" /\ todo[c] = {}
        /\ UNCHANGED <<disk, tl, roots, todo, start, touched>>
        /\ reported' = [reported EXCEPT ![c] =
                      {g \in FilesIn(roots[c]) :
                         tl[g].current # mark[c][g] /\ disk[g] = Expected(tl[g])}]
    BY <1>9 DEF ReportMoved, scans, past, Sheltered
  <2>2. f \in FilesIn(roots[c]) /\ f \in FilesIn(roots[c] \union todo[c])
    BY <2>1 DEF FilesIn
  <2>3. Marked(c, f) /\ UpToDate(c, f)
    BY <2>1, <2>2 DEF ReadersFollow, Follows, Only
  <2>4. Left(c, f, disk[f])
    BY <2>1, <2>3, NobodyScans DEF UpToDate
  <2>5. ASSUME disk[f] # start[c][f]
        PROVE  tl[f].current # mark[c][f] /\ disk[f] = Expected(tl[f])
    BY <2>3, <2>4, <2>5 DEF Left, Marked, Expected
  <2>6. disk[f] # start[c][f] => f \in reported'[c]
    BY <2>1, <2>2, <2>5 DEF HasFindings
  <2> QED
    BY <2>1, <2>6 DEF Follows
<1>10. CASE TakeFolders(c) \/ CaptureNothing(c) \/ Register(c) \/ Sleep(c) \/ Wake(c)
  <2>1. phase[c] \in {"idle"} \union Waiting /\ UNCHANGED <<roots, todo>>
    BY <1>10 DEF TakeFolders, CaptureNothing, Arrives, Register, Sleep, Wake, Waiting,
       scans
  <2> QED
    BY <1>1, <1>3, <2>1
<1>11. CASE ScanWithin(c)
  BY <1>0, <1>11 DEF ScanWithin, MustScan
<1>12. CASE Release(c) \/ Notify(c) \/ Drop(c)
  <2>1. roots'[c] = {} /\ todo'[c] = {}
    BY <1>12 DEF Release, Notify, Drop, LetGo, Sheltered, scans
  <2> QED
    BY <1>1, <2>1
<1>13. CASE Finish(c)
  BY <1>1, <1>2, <1>13 DEF Finish, scans
<1>14. ASSUME NEW r \in Folders, ScanBefore(c, r) \/ ScanFails(c, r) \/ ScanAfter(c, r)
       PROVE  FALSE
  BY <1>2, <1>14 DEF ScanBefore, ScanFails, ScanAfter, Scan
<1>15. CASE AcceptOutside(c) \/ Judge(c)
  <2>1. phase[c] \in {"before", "after"} /\ UNCHANGED <<roots, todo>>
    BY <1>15 DEF AcceptOutside, Judge
  <2> QED
    BY <1>1, <1>2, <2>1
<1>16. CASE Record(c)
  <2>1. phase[c] = "after" /\ UNCHANGED <<roots, todo>>
    BY <1>16 DEF Record, HasFindings
  <2> QED
    BY <1>1, <1>2, <2>1
<1> QED
  BY <1>5, <1>6, <1>7, <1>8, <1>9, <1>10, <1>11, <1>12, <1>13, <1>14, <1>15, <1>16
     DEF Turn, Scans

\* A call at rest follows its files as long as the history goes on from what it
\* was, and the files it reports, or is about to capture, stay.
LEMMA RestingFollows ==
    ASSUME NEW c \in Calls, NEW f, Rests(c), Follows(c, f), mark'[c] = mark[c],
           Marked(c, f) => Marked(c, f)',
           phase[c] \in {"accept", "release"} => disk'[f] = disk[f],
           /\ f \in FilesIn(roots[c]) /\ phase[c] \in {"accept", "running", "report"}
           /\ UpToDate(c, f)
           => UpToDate(c, f)'
    PROVE  Follows(c, f)'
<1>1. /\ phase'[c] = phase[c] /\ roots'[c] = roots[c] /\ start'[c] = start[c]
      /\ reported'[c] = reported[c]
  BY DEF Rests
<1>2. FilesIn(roots'[c]) = FilesIn(roots[c])
  BY <1>1
<1> QED
  BY <1>1, <1>2 DEF Follows

\* The history of a file, and the file, are left alone.
LEMMA AloneIsLeft ==
    ASSUME NEW c \in Calls, NEW f, Rests(c), mark'[c] = mark[c], tl'[f] = tl[f],
           disk'[f] = disk[f]
    PROVE  /\ Marked(c, f)' <=> Marked(c, f)
           /\ Left(c, f, disk[f])' <=> Left(c, f, disk[f])
           /\ \A image : Left(c, f, image)' <=> Left(c, f, image)
  BY DEF Rests, Marked, Left

\* And so is what the call that scans knows of it.
LEMMA AloneIsLearnt ==
    ASSUME NEW b \in Calls, NEW c \in Calls, NEW f, Rests(b), Rests(c), mark'[c] = mark[c],
           tl'[f] = tl[f], disk'[f] = disk[f]
    PROVE  Learns(b, c, f)' <=> Learns(b, c, f)
<1>1. /\ phase'[b] = phase[b] /\ roots'[b] = roots[b] /\ todo'[b] = todo[b]
      /\ found'[b] = found[b] /\ unknown'[b] = unknown[b]
      /\ start'[b] = start[b] /\ start'[c] = start[c]
  BY DEF Rests
<1>2. /\ FilesIn(roots'[b]) = FilesIn(roots[b]) /\ FilesIn(todo'[b]) = FilesIn(todo[b])
      /\ Tracked(tl'[f]) = Tracked(tl[f]) /\ Expected(tl'[f]) = Expected(tl[f])
  BY <1>1
<1> QED
  BY <1>1, <1>2 DEF Learns, Left

\* The call that scans for `c` takes its turns.
LEMMA ScannerTurns ==
    ASSUME Aware, ~Parallel, [Next]_vars, NEW b \in Calls, NEW c \in Calls, Turn(b),
           ScansFor(b, c), NEW f \in Files, Learns(b, c, f), Capturing(c), Only(c, f)',
           UNCHANGED <<disk, tl>>, Rests(c), mark'[c] = mark[c]
    PROVE  /\ ScansFor(b, c)' => Learns(b, c, f)'
           /\ ~ScansFor(b, c)' => Left(c, f, disk[f])
<1> USE DEF Aware, Known, Typed, HasCalls, HasPast
<1>0. /\ phase[b] \in Active /\ b \in Programs /\ b # c /\ c \in Above[b]
      /\ phase[b] \notin Done
      /\ start'[c] = start[c] /\ KeepsToItsFolders(b)
  BY DEF ScansFor, Active, Done, Rests, InItsFolders
<1>1. \A image : Left(c, f, image)' <=> Left(c, f, image)
  BY AloneIsLeft
<1>2. CASE Run(b)
  <2>1. /\ phase[b] = "before" /\ phase'[b] = "running" /\ UNCHANGED start
    BY <1>0, <1>2 DEF Run, past, Active
  <2>2. ScansFor(b, c)'
    BY <1>0, <2>1, GivenStays DEF ScansFor, Active
  <2>3. Left(c, f, start[b][f]) /\ disk[f] = start[b][f]
    BY <2>1 DEF Learns
  <2>4. Left(c, f, start[b][f])' /\ disk'[f] = start'[b][f]
    BY <1>1, <2>1, <2>3
  <2> QED
    BY <2>1, <2>2, <2>4 DEF Learns
<1>3. CASE End(b)
  <2>1. /\ phase[b] = "running" /\ phase'[b] = "after" /\ UNCHANGED <<start, roots>>
        /\ todo'[b] = roots[b]
    BY <1>0, <1>3 DEF End, past, Acts
  <2>2. ScansFor(b, c)'
    BY <1>0, <2>1, GivenStays DEF ScansFor, Active
  <2>3. /\ Left(c, f, start[b][f])
        /\ disk[f] # start[b][f] => f \in FilesIn(todo'[b])
    BY <2>1 DEF Learns
  <2>4. Left(c, f, disk[f])' \/ (Left(c, f, start[b][f])' /\ f \in FilesIn(todo'[b]))
    BY <1>1, <2>1, <2>3
  <2>5. ~Tracked(tl'[f]) => start'[b][f] = start'[c][f]
    BY <1>0, <2>1, <2>3 DEF Left
  <2> QED
    BY <2>1, <2>2, <2>4, <2>5 DEF Learns
<1>4. CASE Finish(b)
  <2>1. phase[b] = "after" /\ phase'[b] = "release"
        /\ todo[b] = {} /\ found[b] = {} /\ unknown[b] = {}
    BY <1>4 DEF Finish
  <2>2. Left(c, f, disk[f])
    BY <2>1 DEF Learns, FilesIn
  <2> QED
    BY <2>1, <2>2 DEF ScansFor, Active
<1>5. CASE Drop(b)
  <2>1. touched' = [Unseen(b, FilesIn(roots[b])) EXCEPT ![b] = Untouched]
    BY <1>5 DEF Drop, LetGo
  <2>2. f \in FilesIn(roots[b]) => "unseen" \in touched'[c][f]
    BY <1>0, <2>1 DEF Unseen
  <2>3. f \notin FilesIn(roots[b])
    BY <2>2 DEF Only
  <2>4. Left(c, f, disk[f])
    <3>1. CASE phase[b] = "before"
      BY <3>1 DEF Learns
    <3>2. CASE phase[b] = "running"
      <4>1. disk[f] = start[b][f] /\ Left(c, f, start[b][f])
        BY <2>3, <3>2 DEF Learns
      <4> QED
        BY <4>1
    <3>3. CASE phase[b] = "after"
      <4>1. f \notin FilesIn(todo[b])
        BY <1>0, <2>3, <3>3 DEF KeepsToItsFolders, FilesIn
      <4>2. \A x \in found[b] \union unknown[b] : x.file # f
        BY <1>0, <2>3 DEF KeepsToItsFolders
      <4> QED
        BY <3>3, <4>1, <4>2 DEF Learns
    <3> QED
      BY <1>0, <3>1, <3>2, <3>3 DEF Active
  <2>5. phase'[b] \in {"notify", "over"}
    BY <1>5 DEF Drop, LetGo
  <2> QED
    BY <2>4, <2>5 DEF ScansFor, Active
<1> QED
  <2>1. ~Release(b) /\ ~Notify(b) /\ ~ReportMoved(b)
    BY <1>0 DEF Release, Notify, ReportMoved, Active
  <2> QED
    BY <1>0, <1>2, <1>3, <1>4, <1>5, <2>1 DEF Turn, TakeFolders, ScanWithin, CaptureNothing,
       Arrives, Register, TryLock, Sleep, Wake, TimeOut, Active

\* `OneScanner`, after a step.
LEMMA OneScannerAfter ==
    ~Parallel /\ Aware' =>
        \A c, x, y \in Calls : ScansFor(x, c)' /\ ScansFor(y, c)' => x = y
<1>1. ~Parallel /\ Aware =>
         \A c, x, y \in Calls : ScansFor(x, c) /\ ScansFor(y, c) => x = y
  BY OneScanner DEF Aware
<1>2. (~Parallel /\ Aware =>
         \A c, x, y \in Calls : ScansFor(x, c) /\ ScansFor(y, c) => x = y)'
  BY <1>1, PTL
<1> QED
  BY <1>2

\* Another call takes a turn.
LEMMA TurnFollows ==
    ASSUME Aware, ~Parallel, [Next]_vars, NEW c \in Calls, NEW w \in Calls, w # c, Turn(w),
           NEW f \in FilesIn(roots[c] \union todo[c]), Only(c, f)', Follows(c, f)
    PROVE  Follows(c, f)'
<1> USE DEF Aware, Known, Typed, HasCalls
<1>1. Rests(c) /\ UNCHANGED <<disk, tl>>
  BY OthersRestInTurn DEF Turn, TakeFolders, ScanWithin, CaptureNothing, Register, TryLock,
     Sleep, Wake, TimeOut, Release, Notify, Run, Drop, End, ReportMoved, Finish
<1>2. mark'[c] = mark[c]
  BY DEF Turn, TakeFolders, ScanWithin, CaptureNothing, Register, TryLock,
     Sleep, Wake, TimeOut, Release, Notify, Run, Drop, End, ReportMoved, Finish, LetGo,
     HasFindings
<1>3. f \in Files /\ Capturing(c)
  BY Captured
<1>4. \A b \in Calls \ {w} : Rests(b) /\ phase'[b] = phase[b]
  BY OthersRestInTurn DEF Rests
<1>5. \A b \in Calls \ {w} : /\ ScansFor(b, c)' <=> ScansFor(b, c)
                             /\ Learns(b, c, f)' <=> Learns(b, c, f)
  BY <1>1, <1>2, <1>4, ScannersStay, AloneIsLearnt
<1>6. /\ Marked(c, f)' <=> Marked(c, f)
      /\ \A image : Left(c, f, image)' <=> Left(c, f, image)
  BY <1>1, <1>2, AloneIsLeft
<1>7. ASSUME UpToDate(c, f) PROVE UpToDate(c, f)'
  <2>1. CASE ScansFor(w, c)
    <3>1. Learns(w, c, f)
      BY <1>7, <2>1 DEF UpToDate
    <3>2. /\ ScansFor(w, c)' => Learns(w, c, f)'
          /\ ~ScansFor(w, c)' => Left(c, f, disk[f])
      BY <1>1, <1>2, <1>3, <2>1, <3>1, ScannerTurns
    <3>3. ~ScansFor(w, c)' => Left(c, f, disk[f])'
      BY <1>1, <1>6, <3>2
    <3>4. ASSUME NEW b \in Calls, ScansFor(b, c)' PROVE Learns(b, c, f)'
      BY <1>5, <1>7, <3>2, <3>4 DEF UpToDate
    <3> QED
      BY <3>3, <3>4 DEF UpToDate
  <2>2. CASE ~ScansFor(w, c) /\ ~ScansFor(w, c)'
    <3>1. \A b \in Calls : ScansFor(b, c)' <=> ScansFor(b, c)
      BY <1>5, <2>2
    <3>2. \A b \in Calls : ScansFor(b, c)' => Learns(b, c, f)'
      BY <1>5, <1>7, <2>2 DEF UpToDate
    <3>3. (\A b \in Calls : ~ScansFor(b, c)') => Left(c, f, disk[f])'
      BY <1>1, <1>6, <1>7, <3>1 DEF UpToDate
    <3> QED
      BY <3>2, <3>3 DEF UpToDate
  <2>3. CASE ~ScansFor(w, c) /\ ScansFor(w, c)'
    <3>1. ScanWithin(w)
      BY <2>3, ScannersBegin
    <3>2. phase'[w] = "before" /\ start'[w] = disk
      BY <2>3, <3>1 DEF ScanWithin, Begin, ScansFor, HasPast
    <3>3. Aware'
      BY NextAware
    <3>4. \A b \in Calls : ScansFor(b, c)' => b = w
      BY <2>3, <3>3, OneScannerAfter
    <3>5. \A b \in Calls : ~ScansFor(b, c)
      BY <1>5, <2>3, <3>4
    <3>6. Left(c, f, disk[f])'
      BY <1>1, <1>6, <1>7, <3>5 DEF UpToDate
    <3>7. Learns(w, c, f)'
      BY <1>1, <3>2, <3>6 DEF Learns
    <3> QED
      BY <2>3, <3>4, <3>7 DEF UpToDate
  <2> QED
    BY <2>1, <2>2, <2>3
<1> QED
  BY <1>1, <1>2, <1>6, <1>7, RestingFollows

\* Whoever looks at a file that `c` captures scans it for `c`.
LEMMA OnlyItsScanner ==
    ASSUME Aware, ~Parallel, NEW c \in Calls, NEW w \in Calls, w # c,
           phase[w] \in {"before", "accept", "after"},
           NEW f \in FilesIn(roots[c] \union todo[c]), f \in FilesIn(roots[w] \union todo[w])
    PROVE  ScansFor(w, c) /\ phase[c] = "running" /\ f \in FilesIn(roots[c])
<1> USE DEF Aware, Known, Typed, HasCalls
<1>1. PICK r \in roots[c] \union todo[c] : f \in Inside[r]
  BY DEF FilesIn
<1>2. PICK q \in roots[w] \union todo[w] : f \in Inside[q]
  BY DEF FilesIn
<1>3. r \in Folders /\ q \in Folders /\ Covered(c, r) /\ Covered(w, q)
  BY DEF Sheltered
<1>4. phase[c] \notin Done /\ phase[w] \notin Done
  BY Captured DEF Done
<1>5. \E a \in Above[c] : a \in Above[w]
  BY <1>1, <1>2, <1>3, OneHolder DEF Turns
<1>6. w \notin Above[c]
  BY <1>4, AboveAwaits DEF Turns
<1>7. c \in Above[w]
  BY <1>4, <1>5, <1>6, Chain DEF Turns
<1>8. phase[c] = "running" /\ roots[c] \subseteq Given(w).roots
  BY <1>4, <1>7, GivenBy
<1>9. f \in FilesIn(roots[c])
  BY <1>8, Captured
<1>10. MustScan(w)
  <2>1. roots[c] # {}
    BY <1>9 DEF FilesIn
  <2>2. InOrder(w)
    BY DEF Told
  <2> QED
    BY <1>2, <1>8, <2>1, <2>2 DEF InOrder, Locks
<1>11. w \in Programs /\ phase[w] # "accept"
  BY <1>10 DEF MustScan, ScannersKnow, KnowsItsChanges
<1> QED
  BY <1>7, <1>8, <1>9, <1>10, <1>11 DEF ScansFor, Active

\* The call that scans for `c` scans and records what it found.
LEMMA ScannerScans ==
    ASSUME Aware, ~Parallel, [Next]_vars, NEW b \in Calls, NEW c \in Calls,
           Scans(b) \/ AcceptOutside(b) \/ Judge(b) \/ Record(b),
           ScansFor(b, c), NEW f \in FilesIn(roots[c]), Learns(b, c, f), Marked(c, f),
           Only(c, f)'
    PROVE  Marked(c, f)' /\ Learns(b, c, f)'
<1> USE DEF Aware, Known, Typed, HasCalls, HasFindings, HasPast
<1>0. /\ b \in Programs /\ b # c /\ c \in Above[b] /\ MustScan(b) /\ phase[b] \in Active
      /\ KnowsItsChanges(b) /\ KeepsToItsFolders(b) /\ FindsTheTruth(b)
      /\ phase[b] \notin Done
  BY DEF ScansFor, ScannersKnow, InItsFolders, Truthful, Active, Done
<1>1. Rests(c) /\ UNCHANGED <<disk, mark, start, phase>>
  <2>1. Rests(c)
    BY <1>0, OthersRestInScans
  <2> QED
    BY <2>1 DEF Scans, AcceptAll, ScanBefore, ScanFails, ScanAfter, AcceptOutside, Judge,
       Record, past
<1>2. f \in Files /\ Capturing(c) /\ phase[c] = "running"
  <2>1. phase[c] = "running"
    BY <1>0, AwaitedIsStill
  <2>2. f \in FilesIn(roots[c] \union todo[c])
    BY DEF FilesIn
  <2> QED
    BY <2>1, <2>2, Captured
<1>3. Quiet(b, f)
  <2>1. Relays(b, c)
    BY DEF Relayed, FilesIn
  <2>2. Only(c, f)
    BY <1>1, <1>2 DEF Rests, Only
  <2> QED
    BY <1>2, <2>1, <2>2 DEF Relays
<1>4. Kept(tl[f])
  BY <1>2 DEF HasFiles
\* As long as the history stays, so does what it leads to.
<1>5. ASSUME tl'[f] = tl[f]
      PROVE  /\ Marked(c, f)'
             /\ \A image : Left(c, f, image)' <=> Left(c, f, image)
  BY <1>1, <1>5 DEF Marked, Left
<1>6. ASSUME NEW r \in Folders, ScanBefore(b, r) PROVE Marked(c, f)' /\ Learns(b, c, f)'
  <2>1. phase[b] = "before" /\ UNCHANGED tl
    BY <1>6 DEF ScanBefore
  <2>2. Left(c, f, start[b][f]) /\ disk[f] = start[b][f]
    BY <2>1 DEF Learns
  <2>3. Left(c, f, start[b][f])' /\ Marked(c, f)'
    BY <1>1, <1>5, <2>1, <2>2
  <2> QED
    BY <1>1, <2>1, <2>2, <2>3 DEF Learns
<1>7. ASSUME NEW r \in Folders, ScanFails(b, r) PROVE Marked(c, f)' /\ Learns(b, c, f)'
  <2>1. /\ phase[b] \in {"before", "after"} /\ UNCHANGED <<tl, found, unknown>>
        /\ todo' = [todo EXCEPT ![b] = @ \ {r}] /\ touched' = Unseen(b, Inside[r])
    BY <1>7 DEF ScanFails
  <2>2. f \notin Inside[r]
    <3>1. f \in Inside[r] => "unseen" \in touched'[c][f]
      BY <1>0, <1>2, <2>1 DEF Unseen
    <3> QED
      BY <3>1 DEF Only
  <2>3. f \in FilesIn(todo[b]) => f \in FilesIn(todo'[b])
    BY <2>1, <2>2 DEF FilesIn
  <2>4. /\ Marked(c, f)' /\ (Left(c, f, disk[f])' <=> Left(c, f, disk[f]))
        /\ (Left(c, f, start[b][f])' <=> Left(c, f, start[b][f]))
    BY <1>1, <1>5, <2>1
  <2>5. phase'[b] = phase[b] /\ disk'[f] = disk[f] /\ start' = start /\ found'[b] = found[b]
        /\ unknown'[b] = unknown[b] /\ phase[b] # "running" /\ tl' = tl
    BY <1>1, <2>1
  <2> HIDE DEF Left
  <2> QED
    BY <2>3, <2>4, <2>5 DEF Learns
<1>8. ASSUME NEW r \in Folders, ScanAfter(b, r) PROVE Marked(c, f)' /\ Learns(b, c, f)'
  <2>1. /\ phase[b] = "after" /\ UNCHANGED <<tl, unknown>> /\ Scan(b, r) /\ r \in todo[b]
        /\ r \in roots[b]
    BY <1>0, <1>8 DEF ScanAfter, Scan, KeepsToItsFolders
  <2>2. /\ todo'[b] = todo[b] \ {r} /\ found[b] = {} /\ unknown[b] = {}
        /\ base[r] # NoBase =>
             \A g \in Inside[r] : base[r][g] # disk[g] => \E x \in found'[b] : x.file = g
    BY <2>1, ScanSees
  <2>3. f \in Inside[r] => base[r] # NoBase /\ base[r][f] = start[b][f]
    BY <1>0, <1>3, <2>1 DEF KnowsItsChanges, KnowsOf
  <2>4. /\ Marked(c, f)' /\ (Left(c, f, disk[f])' <=> Left(c, f, disk[f]))
        /\ (Left(c, f, start[b][f])' <=> Left(c, f, start[b][f]))
    BY <1>1, <1>5, <2>1
  <2>5. \/ Left(c, f, disk[f])
        \/ Left(c, f, start[b][f]) /\ f \in FilesIn(todo[b])
    BY <2>1, <2>2 DEF Learns
  <2>6. ASSUME ~Left(c, f, disk[f])
        PROVE  f \in FilesIn(todo'[b]) \/ \E x \in found'[b] : x.file = f
    <3>1. disk[f] # start[b][f] /\ f \in FilesIn(todo[b])
      BY <2>5, <2>6
    <3>2. CASE f \in Inside[r]
      BY <2>2, <2>3, <3>1, <3>2
    <3>3. CASE f \notin Inside[r]
      BY <2>2, <3>1, <3>3 DEF FilesIn
    <3> QED
      BY <3>2, <3>3
  <2>7. ~Tracked(tl[f]) => start[b][f] = start[c][f]
    BY <2>1 DEF Learns
  <2>8. phase'[b] = "after" /\ disk' = disk /\ start' = start /\ tl' = tl
    BY <1>1, <2>1
  <2> HIDE DEF Left
  <2> QED
    BY <2>4, <2>5, <2>6, <2>7, <2>8 DEF Learns
<1>9. CASE AcceptOutside(b)
  <2>1. PICK x \in found[b] :
           /\ tl' = [tl EXCEPT ![x.file] = AcknowledgeOutside(@, disk[x.file])]
           /\ phase[b] = "before" /\ UNCHANGED <<roots, todo>>
    BY <1>9 DEF AcceptOutside
  <2>2. Left(c, f, start[b][f]) /\ disk[f] = start[b][f]
    BY <2>1 DEF Learns
  <2>3. InStep(tl[f], disk[f])
    BY <2>2 DEF Left, InStep
  <2>4. tl'[f] = tl[f]
    <3>1. CASE x.file = f
      BY <1>2, <1>4, <2>1, <2>3, <3>1, AcceptsTheFile DEF HasFiles
    <3>2. CASE x.file # f
      BY <1>2, <2>1, <3>2 DEF HasFiles
    <3> QED
      BY <3>1, <3>2
  <2>5. Marked(c, f)' /\ Left(c, f, start[b][f])'
    BY <1>1, <1>5, <2>2, <2>4
  <2> QED
    BY <1>1, <2>1, <2>2, <2>5 DEF Learns
<1>10. CASE Judge(b)
  <2>1. PICK x \in found[b] :
           /\ phase[b] = "after" /\ unknown[b] = {}
           /\ found' = [found EXCEPT ![b] = @ \ {x}]
           /\ \/ /\ Tracked(tl[x.file]) /\ Expected(tl[x.file]) = x.after
                 /\ UNCHANGED unknown
              \/ unknown' = [unknown EXCEPT ![b] = {x}]
           /\ UNCHANGED <<tl, todo>>
    BY <1>10 DEF Judge
  <2>2. \/ found'[b] \union unknown'[b] = found[b] \union unknown[b]
        \/ /\ Tracked(tl[x.file]) /\ Expected(tl[x.file]) = x.after
           /\ found'[b] \union unknown'[b] = (found[b] \union unknown[b]) \ {x}
    BY <2>1
  <2>3. ASSUME x.file = f PROVE x.after = disk[f]
    <3>1. Quiet(b, x.file)
      BY <1>3, <2>3
    <3>2. x.after = disk[x.file]
      BY <1>0, <2>1, <3>1 DEF FindsTheTruth
    <3> QED
      BY <2>3, <3>2
  <2>4. x.file = f /\ Tracked(tl[f]) /\ Expected(tl[f]) = x.after => Left(c, f, disk[f])
    BY <2>3 DEF Left
  <2>5. /\ Marked(c, f)' /\ (Left(c, f, disk[f])' <=> Left(c, f, disk[f]))
        /\ (Left(c, f, start[b][f])' <=> Left(c, f, start[b][f]))
    BY <1>1, <1>5, <2>1
  <2>6. /\ ~Tracked(tl[f]) => start[b][f] = start[c][f]
        /\ \/ Left(c, f, disk[f])
           \/ /\ Left(c, f, start[b][f])
              /\ \/ f \in FilesIn(todo[b])
                 \/ \E y \in found[b] \union unknown[b] : y.file = f
    BY <2>1 DEF Learns
  <2>7. phase'[b] = "after" /\ disk' = disk /\ start' = start /\ tl' = tl /\ todo' = todo
    BY <1>1, <2>1
  <2>8. \/ Left(c, f, disk[f])
        \/ /\ Left(c, f, start[b][f])
           /\ \/ f \in FilesIn(todo[b])
              \/ \E y \in found'[b] \union unknown'[b] : y.file = f
    BY <2>2, <2>4, <2>6
  <2> HIDE DEF Left
  <2> QED
    BY <2>5, <2>6, <2>7, <2>8 DEF Learns
<1>11. CASE Record(b)
  <2>1. PICK x \in unknown[b] :
           tl' = [tl EXCEPT ![x.file] = PushExternal(@, x.before, x.after)]
    BY <1>11 DEF Record
  <2>2. /\ phase[b] = "after" /\ unknown'[b] = {} /\ UNCHANGED <<found, todo>>
        /\ \A y \in unknown[b] : y = x
    BY <1>0, <1>11, <2>1 DEF Record, KnowsItsChanges
  <2>3. phase'[b] = "after" /\ disk' = disk /\ start' = start /\ mark' = mark
    BY <1>1, <2>2
  <2>4. /\ ~Tracked(tl[f]) => start[b][f] = start[c][f]
        /\ \/ Left(c, f, disk[f])
           \/ /\ Left(c, f, start[b][f])
              /\ \/ f \in FilesIn(todo[b])
                 \/ \E y \in found[b] \union unknown[b] : y.file = f
    BY <2>2 DEF Learns
  <2>5. CASE x.file = f
    <3>1. x.after = disk[f] /\ x.before = start[b][f]
      BY <1>0, <1>3, <2>2, <2>5 DEF FindsTheTruth
    <3>2. tl'[f] = PushExternal(tl[f], x.before, x.after)
      BY <1>2, <2>1, <2>5 DEF HasFiles
    <3>3. /\ Tracked(tl'[f]) /\ Expected(tl'[f]) = disk[f]
          /\ \A i \in Revisions(tl[f]) :
               /\ i \in Revisions(tl'[f])
               /\ StateAt(tl'[f], i) = IF Tracked(tl[f]) THEN StateAt(tl[f], i)
                                       ELSE start[b][f]
      BY <1>4, <3>1, <3>2, ExternalRemembers
    <3>4. Marked(c, f)'
      BY <2>3, <2>4, <3>3 DEF Marked
    <3>5. Left(c, f, disk[f])'
      BY <2>3, <3>3 DEF Left
    <3> QED
      BY <2>3, <3>3, <3>4, <3>5 DEF Learns
  <2>6. CASE x.file # f
    <3>1. tl'[f] = tl[f]
      BY <1>2, <2>1, <2>6 DEF HasFiles
    <3>2. /\ Marked(c, f)' /\ (Left(c, f, disk[f])' <=> Left(c, f, disk[f]))
          /\ (Left(c, f, start[b][f])' <=> Left(c, f, start[b][f]))
      BY <1>1, <1>5, <3>1
    <3>3. (\E y \in found[b] \union unknown[b] : y.file = f) =>
             \E y \in found'[b] \union unknown'[b] : y.file = f
      BY <2>2, <2>6
    <3> HIDE DEF Left
    <3> QED
      BY <2>2, <2>3, <2>4, <3>1, <3>2, <3>3 DEF Learns
  <2> QED
    BY <2>5, <2>6
<1>12. ~AcceptAll(b)
  BY <1>0 DEF AcceptAll, Active
<1> QED
  BY <1>6, <1>7, <1>8, <1>9, <1>10, <1>11, <1>12 DEF Scans

\* Another call scans, or deals with what it found.
LEMMA ScansFollow ==
    ASSUME Aware, ~Parallel, [Next]_vars, NEW c \in Calls, NEW w \in Calls, w # c,
           Scans(w) \/ AcceptOutside(w) \/ Judge(w) \/ Record(w),
           NEW f \in FilesIn(roots[c] \union todo[c]), Only(c, f)', Follows(c, f)
    PROVE  Follows(c, f)'
<1> USE DEF Aware, Known, Typed, HasCalls, HasFindings
<1>1. Rests(c) /\ UNCHANGED <<disk, mark, phase>>
  <2>1. Rests(c)
    BY OthersRestInScans
  <2> QED
    BY <2>1 DEF Scans, AcceptAll, ScanBefore, ScanFails, ScanAfter, AcceptOutside, Judge,
       Record
<1>2. f \in Files /\ Capturing(c)
  BY Captured
<1>3. \A b \in Calls : ScansFor(b, c)' <=> ScansFor(b, c)
  BY <1>1, ScannersStay
<1>4. CASE ScansFor(w, c)
  <2>1. phase[c] = "running" /\ f \in FilesIn(roots[c])
    <3>1. phase[w] \notin Done /\ c \in Above[w]
      BY <1>4 DEF ScansFor, Active, Done
    <3>2. phase[c] = "running"
      BY <3>1, AwaitedIsStill
    <3> QED
      BY <3>2, Captured
  <2>2. Marked(c, f) /\ Learns(w, c, f)
    BY <1>4, <2>1 DEF Follows, UpToDate
  <2>3. Marked(c, f)' /\ Learns(w, c, f)'
    BY <1>4, <2>1, <2>2, ScannerScans
  <2>4. \A b \in Calls : ScansFor(b, c) => b = w
    BY <1>4, OneScanner
  <2>5. UpToDate(c, f)'
    BY <1>3, <1>4, <2>3, <2>4 DEF UpToDate
  <2> QED
    BY <1>1, <2>3, <2>5, RestingFollows
<1>5. CASE ~ScansFor(w, c)
  <2>1. tl'[f] = tl[f]
    <3>0. /\ FilesIn(roots[w]) \subseteq FilesIn(roots[w] \union todo[w])
          /\ FilesIn(todo[w]) \subseteq FilesIn(roots[w] \union todo[w])
      BY DEF FilesIn
    <3>1. CASE AcceptAll(w)
      <4>1. f \notin FilesIn(todo[w])
        BY <1>5, <3>0, <3>1, OnlyItsScanner DEF AcceptAll
      <4> QED
        BY <1>2, <3>1, <4>1 DEF AcceptAll, HasFiles
    <3>2. CASE AcceptOutside(w)
      <4>1. PICK x \in found[w] :
              tl' = [tl EXCEPT ![x.file] = AcknowledgeOutside(@, disk[x.file])]
        BY <3>2 DEF AcceptOutside
      <4>2. x.file \in FilesIn(roots[w])
        BY DEF InItsFolders, KeepsToItsFolders
      <4>3. x.file # f
        <5>1. phase[w] = "before"
          BY <3>2 DEF AcceptOutside
        <5>2. SUFFICES ASSUME x.file = f PROVE FALSE
          OBVIOUS
        <5>3. f \in FilesIn(roots[w] \union todo[w])
          BY <3>0, <4>2, <5>2
        <5> QED
          BY <1>5, <5>1, <5>3, OnlyItsScanner
      <4> QED
        BY <1>2, <4>1, <4>3 DEF HasFiles
    <3>3. CASE Record(w)
      <4>1. PICK x \in unknown[w] :
              tl' = [tl EXCEPT ![x.file] = PushExternal(@, x.before, x.after)]
        BY <3>3 DEF Record
      <4>2. x.file \in FilesIn(roots[w]) /\ phase[w] = "after"
        BY DEF InItsFolders, KeepsToItsFolders
      <4>3. x.file # f
        BY <1>5, <3>0, <4>2, OnlyItsScanner
      <4> QED
        BY <1>2, <4>1, <4>3 DEF HasFiles
    <3> QED
      BY <3>1, <3>2, <3>3 DEF Scans, ScanBefore, ScanFails, ScanAfter, Judge
  <2>2. \A b \in Calls \ {w} : Learns(b, c, f)' <=> Learns(b, c, f)
    BY <1>1, <2>1, OthersRestInScans, AloneIsLearnt
  <2>3. /\ Marked(c, f)' <=> Marked(c, f)
        /\ Left(c, f, disk[f])' <=> Left(c, f, disk[f])
    BY <1>1, <2>1, AloneIsLeft
  <2>4. UpToDate(c, f) => UpToDate(c, f)'
    BY <1>3, <1>5, <2>2, <2>3 DEF UpToDate
  <2> QED
    BY <1>1, <2>3, <2>4, RestingFollows
<1> QED
  BY <1>4, <1>5

\* What scripts, programs and editors do to a file.
Work(g) ==
    \/ \E w \in Calls : \/ UndoChange(w, g) \/ Read(w, g)
                        \/ \E image \in Contents[g] :
                             Write(w, g, image) \/ Program(w, g, image)
    \/ \E image \in Contents[g] : OutsideEdit(g, image)

LEMMA WorkFollows ==
    ASSUME Aware, ScannersCover, ~Parallel, [Next]_vars, NEW c \in Calls, Reading(c),
           NEW f \in FilesIn(roots[c] \union todo[c]), Only(c, f)', Follows(c, f),
           NEW g \in Files, Work(g)
    PROVE  Follows(c, f)'
<1> USE DEF Aware, Known, Typed
<1>1. /\ \A b \in Calls : Rests(b)
      /\ UNCHANGED <<phase, mark, roots, todo, found, unknown, start>>
  <2>1. \A b \in Calls : Rests(b)
    BY WorkIsSeen DEF Work
  <2> QED
    BY <2>1 DEF Work, UndoChange, Read, Write, Program, OutsideEdit, Changed, scans
<1>2. f \in Files /\ Capturing(c)
  BY Captured
<1>3. \A b \in Calls : ScansFor(b, c)' <=> ScansFor(b, c)
  BY <1>1, ScannersStay
<1>4. Kept(tl[f]) /\ disk[f] \in Image /\ tl = [h \in Files |-> tl[h]]
      /\ disk = [h \in Files |-> disk[h]]
  BY <1>2 DEF HasFiles
<1>5. ASSUME tl'[f] = tl[f], disk'[f] = disk[f] PROVE Follows(c, f)'
  <2>1. \A b \in Calls : Learns(b, c, f)' <=> Learns(b, c, f)
    BY <1>1, <1>5, AloneIsLearnt
  <2>2. /\ Marked(c, f)' <=> Marked(c, f)
        /\ Left(c, f, disk[f])' <=> Left(c, f, disk[f])
    BY <1>1, <1>5, AloneIsLeft
  <2>3. UpToDate(c, f) => UpToDate(c, f)'
    BY <1>3, <2>1, <2>2 DEF UpToDate
  <2> QED
    BY <1>1, <1>5, <2>2, <2>3, RestingFollows
\* The call itself at work: nobody scans for it.
<1>6. ASSUME Acts(c)
      PROVE  /\ phase[c] = "running" /\ Marked(c, f) /\ Left(c, f, disk[f])
             /\ Marked(c, f)' /\ Left(c, f, disk[f])' => Follows(c, f)'
  <2>1. phase[c] = "running" /\ ~Busy(c)
    BY <1>6 DEF Acts
  <2>2. \A b \in Calls : ~ScansFor(b, c)
    BY <2>1, NobodyScans
  <2>3. f \in FilesIn(roots[c])
    BY <2>1, Captured
  <2>4. Marked(c, f) /\ Left(c, f, disk[f])
    BY <2>1, <2>2, <2>3 DEF Follows, UpToDate
  <2>5. Left(c, f, disk[f])' => UpToDate(c, f)'
    BY <1>3, <2>2 DEF UpToDate
  <2>6. Marked(c, f)' /\ UpToDate(c, f)' => Follows(c, f)'
    BY <1>1, <2>1, RestingFollows
  <2> QED
    BY <2>1, <2>4, <2>5, <2>6
\* What the call is told of the change.
<1>7. ASSUME NEW kinds, Touch(kinds, f) PROVE kinds[c] \subseteq {"own", "program"}
  <2>1. kinds[c] \subseteq touched'[c][f]
    BY <1>2, <1>7, TouchGrows
  <2> QED
    BY <2>1 DEF Only
<1>8. ASSUME NEW w \in Calls, Touch(Kinds(w, f), f) PROVE w = c
  <2>1. Kinds(w, f)[c] = {Kind(w, c, f)}
    BY DEF Kinds
  <2>2. Kind(w, c, f) \in {"own", "program"}
    BY <1>7, <1>8, <2>1
  <2>3. w # c => Kind(w, c, f) \in {"nested", "other", "free"}
    BY DEF Kind
  <2> QED
    BY <2>2, <2>3
<1>9. ASSUME NEW w \in Calls, NEW image \in Contents[g], Write(w, g, image)
      PROVE  Follows(c, f)'
  <2>1. /\ Acts(w) /\ disk' = [disk EXCEPT ![g] = image]
        /\ tl' = [tl EXCEPT ![g] = Mutate(tl[g], disk[g], image)]
        /\ Touch(Kinds(w, g), g)
    BY <1>9 DEF Write
  <2>2. CASE g # f
    BY <1>2, <1>4, <1>5, <2>1, <2>2
  <2>3. CASE g = f
    <3>1. w = c /\ Acts(c)
      BY <1>8, <2>1, <2>3
    <3>2. Marked(c, f) /\ Left(c, f, disk[f])
      BY <1>6, <3>1
    <3>3. disk'[f] = image /\ tl'[f] = Mutate(tl[f], disk[f], image)
      BY <1>2, <1>4, <2>1, <2>3
    <3>4. /\ Tracked(tl'[f]) /\ Expected(tl'[f]) = image
          /\ \A i \in Revisions(tl[f]) :
               /\ i \in Revisions(tl'[f])
               /\ StateAt(tl'[f], i) = IF Tracked(tl[f]) THEN StateAt(tl[f], i)
                                       ELSE disk[f]
      BY <1>4, <3>3, MutateRemembers
    <3>5. Marked(c, f)'
      BY <1>1, <3>2, <3>4 DEF Marked, Left
    <3>6. Left(c, f, disk[f])'
      BY <3>3, <3>4 DEF Left
    <3> QED
      BY <1>6, <3>1, <3>5, <3>6
  <2> QED
    BY <2>2, <2>3
<1>10. ASSUME NEW w \in Calls, UndoChange(w, g) PROVE Follows(c, f)'
  <2> DEFINE target == UndoTarget(tl[g])
  <2>1. /\ Acts(w) /\ tl[g].current # 0 /\ InStep(tl[g], disk[g])
        /\ Reachable(tl[g], target)
        /\ disk' = [disk EXCEPT ![g] = JumpImage(tl[g], disk[g], target)]
        /\ tl' = [tl EXCEPT ![g] = Undo(tl[g])]
        /\ Touch(Kinds(w, g), g)
    BY <1>10 DEF UndoChange
  <2>2. CASE g # f
    BY <1>2, <1>4, <1>5, <2>1, <2>2
  <2>3. CASE g = f
    <3>1. w = c /\ Acts(c)
      BY <1>8, <2>1, <2>3
    <3>2. Marked(c, f) /\ Left(c, f, disk[f])
      BY <1>6, <3>1
    <3>3. /\ disk'[f] = JumpImage(tl[f], disk[f], target) /\ tl'[f] = Undo(tl[f])
          /\ target = UndoTarget(tl[f])
      BY <1>2, <1>4, <2>1, <2>3
    <3>4. Tracked(tl[f])
      <4>1. Revisions(tl[f]) = {0} \/ Tracked(tl[f])
        BY DEF Revisions, Tracked
      <4> QED
        BY <1>4, <2>1, <2>3, <4>1, KeptType
    <3>5. /\ target \in Revisions(tl[f]) /\ disk[f] = Expected(tl[f])
      BY <2>1, <2>3, <3>4 DEF Reachable, InStep
    <3>6. JumpImage(tl[f], Expected(tl[f]), target) = StateAt(tl[f], target)
      BY <1>4, <2>1, <2>3, <3>4, <3>5, JumpLands DEF Kept
    <3>7. /\ Undo(tl[f]).current = target /\ Revisions(Undo(tl[f])) = Revisions(tl[f])
          /\ Tracked(Undo(tl[f])) = Tracked(tl[f])
          /\ \A i : StateAt(Undo(tl[f]), i) = StateAt(tl[f], i)
      BY <1>4, <2>1, <2>3, <3>3, UndoIsKept
    <3>8. disk'[f] = Expected(tl'[f]) /\ Tracked(tl'[f])
      <4> HIDE DEF target
      <4> QED
        BY <3>3, <3>4, <3>5, <3>6, <3>7 DEF Expected
    <3>9. Marked(c, f)'
      BY <1>1, <3>2, <3>3, <3>7 DEF Marked
    <3>10. Left(c, f, disk[f])'
      BY <3>8 DEF Left
    <3> QED
      BY <1>6, <3>1, <3>9, <3>10
  <2> QED
    BY <2>2, <2>3
<1>11. ASSUME NEW w \in Calls, Read(w, g) PROVE Follows(c, f)'
  <2> DEFINE kinds == [d \in Calls |->
                         IF InStep(tl[g], disk[g]) \/ d = w THEN {}
                         ELSE IF d \in Above[w] THEN {"nested"} ELSE {"free"}]
  <2>1. /\ Acts(w) /\ UNCHANGED disk /\ Touch(kinds, g)
        /\ tl' = [tl EXCEPT ![g] = AcknowledgeOutside(tl[g], disk[g])]
    BY <1>11 DEF Read, AcknowledgeSeen
  <2>2. CASE g # f
    BY <1>2, <1>4, <1>5, <2>1, <2>2
  <2>3. CASE g = f
    <3>1. InStep(tl[f], disk[f]) \/ w = c
      <4>1. kinds[c] \subseteq {"own", "program"}
        BY <1>7, <2>1, <2>3
      <4> QED
        BY <2>3, <4>1
    <3>2. InStep(tl[f], disk[f])
      BY <1>6, <2>1, <3>1 DEF Left, InStep
    <3>3. tl'[f] = tl[f]
      BY <1>2, <1>4, <2>1, <2>3, <3>2, AcceptsTheFile
    <3> QED
      BY <1>5, <2>1, <3>3
  <2> QED
    BY <2>2, <2>3
<1>12. ASSUME NEW w \in Calls, NEW image \in Contents[g], Program(w, g, image)
       PROVE  Follows(c, f)'
  <2> DEFINE seen == Given(w).scans \/ g \in FilesIn(Enclosed(w) \ notes[w])
             kinds == [d \in Calls |->
                  IF Kind(w, d, g) # "nested" THEN Kinds(w, g)[d]
                  ELSE IF \/ Given(w).scans
                          \/ g \in FilesIn(Enclosed(w) \ notes[w])
                  THEN {"program"} ELSE {"unseen"}]
  <2>1. /\ Acts(w) /\ w \in Programs /\ g \in Reach(w) /\ Changed(kinds, g, image)
    BY <1>12 DEF Program
  <2>2. /\ Kind(w, c, g) # "nested" => kinds[c] = {Kind(w, c, g)}
        /\ Kind(w, c, g) = "nested" => kinds[c] = IF seen THEN {"program"} ELSE {"unseen"}
    BY DEF Kinds
  <2> HIDE DEF kinds
  <2>3. /\ Touch(kinds, g) /\ tl' = tl /\ disk' = [disk EXCEPT ![g] = image]
    BY <2>1 DEF Changed
  <2>4. CASE g # f
    BY <1>2, <1>4, <1>5, <2>3, <2>4
  <2>5. CASE g = f
    <3>1. w # c /\ c \notin Programs
      BY <2>1 DEF Reading
    <3>2. Kind(w, c, g) = "nested" /\ c \in Above[w]
      <4>1. kinds[c] \subseteq {"own", "program"}
        BY <1>7, <2>3, <2>5
      <4>2. (w # c /\ c \in Above[w]) \/ Kind(w, c, g) \in {"other", "free"}
        BY <3>1 DEF Kind
      <4>3. Kind(w, c, g) = "nested"
        BY <2>2, <3>1, <4>1, <4>2 DEF Kind
      <4> QED
        BY <4>2, <4>3
    <3>3. seen
      <4>1. kinds[c] \subseteq {"own", "program"}
        BY <1>7, <2>3, <2>5
      <4> HIDE DEF seen
      <4> QED
        BY <2>2, <3>2, <4>1
    <3>4. phase[c] = "running"
      <4>1. phase[w] \notin Done
        BY <2>1 DEF Acts, Done
      <4> QED
        BY <3>1, <3>2, <4>1, AwaitedIsStill
    <3>5. f \in FilesIn(roots[c]) /\ Only(c, f)
      <4>1. Only(c, f)
        BY <1>1, <1>2 DEF Rests, Only
      <4> QED
        BY <3>4, <4>1, Captured
    <3>6. PICK b \in Calls : /\ ScansFor(b, c) /\ phase[b] = "running"
                             /\ f \in FilesIn(roots[b])
      BY <2>1, <2>5, <3>2, <3>3, <3>5, WhoScans DEF Reading
    <3>7. Learns(b, c, f) /\ Marked(c, f)
      BY <3>4, <3>5, <3>6 DEF Follows, UpToDate
    <3>8. Left(c, f, start[b][f])' /\ Marked(c, f)'
      BY <1>1, <2>3, <3>6, <3>7 DEF Learns, Left, Marked
    <3>9. Learns(b, c, f)'
      <4>1. phase'[b] = "running" /\ FilesIn(roots'[b]) = FilesIn(roots[b])
        BY <1>1, <3>6
      <4> QED
        BY <3>6, <3>8, <4>1 DEF Learns
    <3>10. \A x \in Calls : ScansFor(x, c) => x = b
      BY <3>6, OneScanner
    <3>11. UpToDate(c, f)'
      BY <1>3, <3>6, <3>9, <3>10 DEF UpToDate
    <3> QED
      BY <1>1, <3>4, <3>8, <3>11, RestingFollows
  <2> QED
    BY <2>4, <2>5
<1>13. ASSUME NEW image \in Contents[g], OutsideEdit(g, image) PROVE Follows(c, f)'
  <2> DEFINE kinds == [d \in Calls |-> {"free"}]
  <2>1. Changed(kinds, g, image) /\ kinds[c] = {"free"}
    BY <1>13 DEF OutsideEdit
  <2> HIDE DEF kinds
  <2>2. /\ Touch(kinds, g) /\ tl' = tl /\ disk' = [disk EXCEPT ![g] = image]
    BY <2>1 DEF Changed
  <2>3. g # f
    BY <1>7, <2>1, <2>2
  <2> QED
    BY <1>2, <1>4, <1>5, <2>2, <2>3
<1> QED
  BY <1>9, <1>10, <1>11, <1>12, <1>13 DEF Work

\* A reader's call, and what it captures, before and after a step.
LEMMA NextReadersFollow ==
    ASSUME Aware, ReadersFollow, ScannersCover, ~Parallel, [Next]_vars
    PROVE  ReadersFollow'
<1> SUFFICES ASSUME NEW c \in Calls, Reading(c)',
                    NEW f \in FilesIn(roots'[c] \union todo'[c]), Only(c, f)'
             PROVE  Follows(c, f)'
  BY DEF ReadersFollow
<1> USE DEF Aware
<1>1. Reading(c)
  <2>1. Aware'
    BY NextAware
  <2>2. Sheltered' /\ roots'[c] \union todo'[c] # {}
    BY <2>1 DEF Known, FilesIn
  <2>3. phase'[c] \notin Done
    BY <2>2 DEF Sheltered, Done
  <2>4. Given(c)' = Given(c)
    BY <2>3, GivenStays DEF Known
  <2> QED
    BY <2>4 DEF Reading
<1>2. CASE Turn(c) \/ Scans(c) \/ AcceptOutside(c) \/ Judge(c) \/ Record(c)
  BY <1>1, <1>2, OwnFollows
<1>3. CASE Rests(c)
  <2>1. FilesIn(roots'[c] \union todo'[c]) = FilesIn(roots[c] \union todo[c])
    BY <1>3 DEF Rests
  <2>2. f \in FilesIn(roots[c] \union todo[c])
    BY <2>1
  <2>3. f \in Files
    BY <2>2, Captured
  <2>4. Only(c, f)
    BY <1>3, <2>3 DEF Rests, Only
  <2>5. Follows(c, f)
    BY <1>1, <2>2, <2>4 DEF ReadersFollow
  <2>6. ASSUME NEW w \in Calls, w # c, Turn(w) PROVE Follows(c, f)'
    BY <2>2, <2>5, <2>6, TurnFollows
  <2>7. ASSUME NEW w \in Calls, w # c, Scans(w) \/ AcceptOutside(w) \/ Judge(w) \/ Record(w)
        PROVE  Follows(c, f)'
    BY <2>2, <2>5, <2>7, ScansFollow
  <2>8. ASSUME NEW g \in Files, Work(g) PROVE Follows(c, f)'
    BY <1>1, <2>2, <2>5, <2>8, WorkFollows
  <2>9. ASSUME \/ \E r \in Folders : Expire(r)
               \/ UNCHANGED vars
        PROVE  Follows(c, f)'
    <3>1. UNCHANGED <<disk, tl, phase, roots, todo, found, unknown, mark, reported, notes,
                      start, touched>>
      BY <2>9 DEF Expire, vars, past
    <3>2. \A b \in Calls : Rests(b)
      BY <3>1 DEF Rests
    <3>3. \A b \in Calls : /\ ScansFor(b, c)' <=> ScansFor(b, c)
                           /\ Learns(b, c, f)' <=> Learns(b, c, f)
      BY <3>1, <3>2, ScannersStay, AloneIsLearnt
    <3>4. /\ Marked(c, f)' <=> Marked(c, f)
          /\ Left(c, f, disk[f])' <=> Left(c, f, disk[f])
      BY <3>1, <3>2, AloneIsLeft
    <3>5. UpToDate(c, f) => UpToDate(c, f)'
      BY <3>3, <3>4 DEF UpToDate
    <3> QED
      BY <2>5, <3>1, <3>2, <3>4, <3>5, RestingFollows
  <2> QED
    BY <1>2, <2>6, <2>7, <2>8, <2>9 DEF Next, Turn, Scans, Work
<1> QED
  BY <1>2, <1>3, RestsOrMoves

\* A call that runs no programs reports what it wrote itself and what programs
\* of the calls inside it did in its folders (`moved_since`), unless it is told
\* of others: what it wrote is in the history of the files, and what the
\* programs did is scanned for it and recorded there before the next call is
\* made (`Capture::begin`, `Capture::finish`).  It holds when scripts await the
\* calls they make, when calls that have to scan may write what the calls inside
\* them may, and not for a call whose enclosing call says it scans and captures
\* nothing.
THEOREM ReadersReport ==
    ASSUME ~Parallel, ScannersCover
    PROVE  Spec => [](\A c \in Calls \ Programs :
                         (Given(c).scans => Given(c).roots # {}) => ReportsChanges(c))
<1> DEFINE IInv == Aware /\ ReadersFollow
           Goal == \A c \in Calls \ Programs :
                     (Given(c).scans => Given(c).roots # {}) => ReportsChanges(c)
<1>1. Init => IInv
  <2>1. Init => ReadersFollow
    <3> SUFFICES ASSUME Init PROVE ReadersFollow
      OBVIOUS
    <3>1. \A c \in Calls : FilesIn(roots[c] \union todo[c]) = {}
      BY DEF Init, FilesIn
    <3> QED
      BY <3>1 DEF ReadersFollow
  <2> QED
    BY <2>1, InitAware
<1>2. IInv /\ [Next]_vars => IInv'
  BY NextAware, NextReadersFollow
<1>3. IInv => Goal
  <2> SUFFICES ASSUME IInv, NEW c \in Calls \ Programs, phase[c] = "release",
                      Given(c).scans => Given(c).roots # {},
                      NEW r \in roots[c] \ notes[c], NEW f \in Inside[r],
                      touched[c][f] \subseteq {"own", "program"} \union {},
                      disk[f] # start[c][f]
               PROVE  f \in reported[c]
    BY DEF ReportsChanges
  <2>1. f \in FilesIn(roots[c]) /\ f \in FilesIn(roots[c] \union todo[c])
    BY DEF FilesIn
  <2>2. Reading(c)
    BY DEF Reading, Aware, Known, OnlyUnscanned
  <2>3. Follows(c, f)
    BY <2>1, <2>2 DEF ReadersFollow, Only
  <2> QED
    BY <2>1, <2>3 DEF Follows
<1> HIDE DEF IInv, Goal
<1>4. Spec => []Goal
  BY <1>1, <1>2, <1>3, PTL DEF Spec
<1> QED
  BY <1>4 DEF Goal

\* Every call reports what was changed in its folders while it ran
\* (`Capture::begin`, `Capture::finish`), when scripts await the calls they
\* make, calls made inside others are runners' tool calls, as they are here, and
\* a call that has to scan may write what the programs inside it may.
THEOREM ChangesReported ==
    ASSUME ~Parallel, ToolsRunPrograms, ScannersCover
    PROVE  Spec => []ChangesAreReported
<1> DEFINE Readers == \A c \in Calls \ Programs :
                        (Given(c).scans => Given(c).roots # {}) => ReportsChanges(c)
           Scanners == \A c \in Programs : ReportsChanges(c)
<1>1. Readers /\ Scanners => ChangesAreReported
  <2> SUFFICES ASSUME Readers, NEW c \in Calls \ Programs PROVE ReportsChanges(c)
    BY DEF ChangesAreReported
  <2>1. ~Given(c).scans
    BY DEF ToolsRunPrograms, Given, Nothing
  <2> QED
    BY <2>1
<1>2. Spec => []Readers
  BY ReadersReport
<1>3. Spec => []Scanners
  BY ScannersReport
<1> HIDE DEF Readers, Scanners
<1> QED
  BY <1>1, <1>2, <1>3, PTL
=============================================================================
