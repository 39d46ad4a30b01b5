SPECIFICATION Spec
CONSTANTS
    a = a
    f1 = f1
    f2 = f2
    Byte = {a}
    Absent = Absent
    Files = {f1, f2}
    Scopes = {s1}
    Contents <- MCContents
    Patches <- MCPatches
    MaxChanges = 3
    MaxOutside = 2
    NoJob = NoJob
    NoBytes = NoBytes
    NotRead = NotRead
    NoPatch = NoPatch
INVARIANTS
    TypeOK
    HistoryIsConsistent
    ReplacesOnlyWhatIsKept
PROPERTIES
    JumpsLandOnTheirRevision
    
    ImplementsUndoStacks
CONSTRAINT OneFileAlone
