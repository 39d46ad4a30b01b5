SPECIFICATION Spec
CONSTANTS
    h1 = h1
    h2 = h2
    a1 = a1
    run = run
    notes = notes
    build = build
    grep = grep
    Handlers = {h1, h2}
    Asyncs = {a1}
    NoTask = NoTask
    Runs = {run}
    NoRun = NoRun
    RunOf <- MCRunOf
    Permissions = {"fs", "shell", "tool"}
    Kept = {"fs"}
    Requests = {notes, build, grep}
    NoRequest = NoRequest
    PermOf <- MCPermOf
    Nested = {grep}
    GrantsOf <- MCGrants
    Uses <- MCUses
    MaxUses <- MCMaxUses
    Deniable = {"shell"}
INVARIANT TypeOK
PROPERTIES
    ActsOnlyWhenCovered
    
CHECK_DEADLOCK FALSE
