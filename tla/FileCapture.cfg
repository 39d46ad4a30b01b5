SPECIFICATION Spec
CONSTANTS
    a = a
    f1 = f1
    f2 = f2
    work = work
    src = src
    docs = docs
    edit = edit
    tool = tool
    step = step
    build = build
    Byte = {a}
    Absent = Absent
    Files = {f1, f2}
    Folders = {work, src, docs}
    Inside <- MCInside
    Calls = {edit, tool, step, build}
    NoCall = NoCall
    ParentOf <- MCParentOf
    Wants <- MCWants
    Programs <- MCPrograms
    Parallel = FALSE
    Contents <- MCContents
    NoBase = NoBase
    MaxChanges = 1
    MaxEdits = 2
INVARIANTS
    TypeOK
    FoldersTakeTurns
    
    
    HistoryIsConsistent
CHECK_DEADLOCK FALSE
CONSTRAINT Apart
