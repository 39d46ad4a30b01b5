SPECIFICATION UiSpec
CONSTANTS
    Values = {0, 1}
    Gone = Gone
    None = None
    Queue = 1
    Lead = 1
    Draws <- MCDraws
    MaxNodes = 1
    MaxScripts = 2
    MaxSteps = 3
    MaxEvents = 1
    MaxNow = 1
INVARIANTS
    UiTypeOK
    
    BuiltByTheScriptsInForce
CONSTRAINT EventOrReload

    
