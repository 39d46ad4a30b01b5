---------------------------- MODULE FileTimeline ----------------------------
(***************************************************************************)
(* The history of one file (fs/src/history.rs, `Timeline`): a tree of      *)
(* revisions that each keep one reversible byte splice, the revision the   *)
(* file is at, and the stack of what was undone.  Operators on timelines   *)
(* and file images; FileHistory and FileCapture are the state machines.    *)
(*                                                                         *)
(* A stamp is the digest of a file, which is taken to tell images apart:   *)
(* a stamp is the image itself.  Permissions, sizes and the directories a  *)
(* write creates are left out.                                             *)
(***************************************************************************)
EXTENDS Naturals, Sequences

CONSTANTS Byte,      \* what a file is made of
          Absent     \* the image of a file that does not exist

ASSUME AbsentAssumption == Absent \notin Seq(Byte)

Image == Seq(Byte) \union {Absent}

(* `unwrap_or_default` on the bytes of an image *)
Bytes(image) == IF image = Absent THEN <<>> ELSE image

-----------------------------------------------------------------------------
(* Splices.                                                                *)

Shorter(m, n) == IF m < n THEN m ELSE n

(* How many leading bytes the two agree in. *)
CommonPrefix(old, new) ==
    LET most == Shorter(Len(old), Len(new))
    IN CHOOSE n \in 0..most :
         /\ \A i \in 1..n : old[i] = new[i]
         /\ n = most \/ old[n + 1] # new[n + 1]

(* Mutant: the common suffix is sought in the whole files, so it may overlap
   the common prefix. *)
OverlappingSuffix(old, new, n) ==
    LET most == Shorter(Len(old), Len(new))
    IN CHOOSE m \in 0..most :
         /\ \A i \in 0..(m - 1) : old[Len(old) - i] = new[Len(new) - i]
         /\ m = most \/ old[Len(old) - m] # new[Len(new) - m]

(* How many trailing bytes the two agree in, not counting the first n. *)
CommonSuffix(old, new, n) ==
    LET most == Shorter(Len(old), Len(new)) - n
    IN CHOOSE m \in 0..most :
         /\ \A i \in 0..(m - 1) : old[Len(old) - i] = new[Len(new) - i]
         /\ m = most \/ old[Len(old) - m] # new[Len(new) - m]

Splice(old, new) ==
    LET p == CommonPrefix(old, new)
        s == CommonSuffix(old, new, p)
    IN [offset  |-> p,
        removed |-> SubSeq(old, p + 1, Len(old) - s),
        added   |-> SubSeq(new, p + 1, Len(new) - s)]

EmptySplice == [offset |-> 0, removed |-> <<>>, added |-> <<>>]

(* Cut `out` at `offset` and put `in` there. *)
Replace(bytes, offset, out, in) ==
    SubSeq(bytes, 1, offset) \o in
        \o SubSeq(bytes, offset + Len(out) + 1, Len(bytes))

Redone(image, change) ==
    IF change.after = Absent THEN Absent
    ELSE Replace(Bytes(image), change.splice.offset,
                 change.splice.removed, change.splice.added)

Undone(image, change) ==
    IF change.before = Absent THEN Absent
    ELSE Replace(Bytes(image), change.splice.offset,
                 change.splice.added, change.splice.removed)

-----------------------------------------------------------------------------
(* Timelines.                                                              *)

Operation == {"own", "external", "outside"}

Change == [parent : Nat, operation : Operation, restorable : BOOLEAN,
           before : Image, after : Image,
           splice : [offset : Nat, removed : Seq(Byte), added : Seq(Byte)]]

Timeline == [changes : Seq(Change), current : Nat, redo : Seq(Nat)]

(* Mutant: the first revision is taken for granted. *)
NewTimelineAtOne == [changes |-> <<>>, current |-> 1, redo |-> <<>>]

NewTimeline == [changes |-> <<>>, current |-> 0, redo |-> <<>>]

Tracked(t) == t.changes # <<>>

Revisions(t) == 0..Len(t.changes)

(* The image the file has at a revision of a tracked file. *)
StateAt(t, id) ==
    IF id = 0 THEN t.changes[1].before ELSE t.changes[id].after

Expected(t) == StateAt(t, t.current)

(* The file holds what its history left there, or has none yet. *)
InStep(t, image) == Tracked(t) => image = Expected(t)

Push(t, change) ==
    [changes |-> Append(t.changes, change),
     current |-> Len(t.changes) + 1,
     redo    |-> <<>>]

(* A write, an append or a removal by agent.d. *)
Mutate(t, old, new) ==
    Push(t, [parent |-> t.current, operation |-> "own", restorable |-> TRUE,
             before |-> old, after |-> new,
             splice |-> Splice(Bytes(old), Bytes(new))])

(* The barrier before an edit made outside agent.d. *)
PushOutside(t, image) ==
    Push(t, [parent |-> t.current, operation |-> "outside",
             restorable |-> FALSE, before |-> Expected(t), after |-> image,
             splice |-> EmptySplice])

AcknowledgeOutside(t, image) ==
    IF InStep(t, image) THEN t ELSE PushOutside(t, image)

(* `acknowledge_seen`: only when the caller was handed what the file still holds. *)
AcknowledgeSeen(t, image, seen) ==
    IF seen = image THEN AcknowledgeOutside(t, image) ELSE t

-----------------------------------------------------------------------------
(* Jumps: undo, redo and restore.                                          *)

(* The revisions from the root to `id`. *)
Line(t) ==
    LET line[i \in Revisions(t)] ==
          IF i = 0 THEN {} ELSE {i} \union line[t.changes[i].parent]
    IN line

Backward(t, target) == LET line == Line(t) IN line[t.current] \ line[target]
Forward(t, target) == LET line == Line(t) IN line[target] \ line[t.current]

Barrier(change) == change.operation = "outside" \/ ~change.restorable

(* Mutant: a jump does not ask what it crosses. *)
ReachableAnyway(t, target) == target \in Revisions(t)

Reachable(t, target) ==
    /\ target \in Revisions(t)
    /\ \A i \in Backward(t, target) \union Forward(t, target) :
           ~Barrier(t.changes[i])

(* Mutant: a jump stops at the last revision the two lines share. *)
JumpImageBack(t, image, target) ==
    LET last == Len(t.changes)
        backward == Backward(t, target)
        back[n \in 0..last] ==
          IF n = 0 THEN image
          ELSE IF last + 1 - n \in backward
               THEN Undone(back[n - 1], t.changes[last + 1 - n])
               ELSE back[n - 1]
    IN back[last]

(* Ids increase along every branch: undo what leads to `current` from the
   last id down, then redo what leads to `target` from the first id up. *)
JumpImage(t, image, target) ==
    LET last == Len(t.changes)
        backward == Backward(t, target)
        forward == Forward(t, target)
        back[n \in 0..last] ==
          IF n = 0 THEN image
          ELSE IF last + 1 - n \in backward
               THEN Undone(back[n - 1], t.changes[last + 1 - n])
               ELSE back[n - 1]
        ahead[i \in 0..last] ==
          IF i = 0 THEN back[last]
          ELSE IF i \in forward THEN Redone(ahead[i - 1], t.changes[i])
               ELSE ahead[i - 1]
    IN ahead[last]

Restored(t, target) ==
    [changes |-> t.changes, current |-> target, redo |-> <<>>]

UndoTarget(t) == t.changes[t.current].parent

Undo(t) ==
    [changes |-> t.changes, current |-> UndoTarget(t),
     redo |-> Append(t.redo, t.current)]

RedoTarget(t) == t.redo[Len(t.redo)]

Redo(t) ==
    [changes |-> t.changes, current |-> RedoTarget(t),
     redo |-> SubSeq(t.redo, 1, Len(t.redo) - 1)]

-----------------------------------------------------------------------------
(* Changes found on disk.                                                  *)

(* The content expected can be rebuilt from `start`: the changes since the
   file held it are this history's own. *)
Replays(t, start) ==
    LET line == Line(t)[t.current]
    IN \E i \in line :
         /\ t.changes[i].before = start
         /\ \A k \in line : k >= i => ~Barrier(t.changes[k])

(* Mutant: the revision starts from the content the scan saw before. *)
PushExternalFromScan(t, before, after) ==
    Push(t, [parent |-> t.current, operation |-> "external", restorable |-> TRUE,
             before |-> before, after |-> after,
             splice |-> Splice(Bytes(before), Bytes(after))])

(* A change found on disk, from `before` to `after`.  It goes on from what
   the history expects, and can be undone when that content is known. *)
PushExternal(t, before, after) ==
    LET from == IF Tracked(t) THEN Expected(t) ELSE before
        known == from \in {before, Absent} \/ Replays(t, before)
    IN Push(t, [parent |-> t.current, operation |-> "external", restorable |-> known,
                before |-> from, after |-> after,
                splice |-> IF known THEN Splice(Bytes(from), Bytes(after))
                                    ELSE EmptySplice])

-----------------------------------------------------------------------------
(* What makes a history sound: every change starts from the content of its
   parent, and one that can be undone has the splice that takes one side to
   the other, byte for byte. *)
ChangesFit(t) ==
    \A i \in DOMAIN t.changes :
        LET c == t.changes[i]
        IN /\ c.parent < i
           /\ c.before = StateAt(t, c.parent)
           /\ c.restorable => /\ Redone(c.before, c) = c.after
                              /\ Undone(c.after, c) = c.before
=============================================================================
