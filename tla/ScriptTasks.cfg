SPECIFICATION FairSpec
CONSTANTS
    init = init
    r1 = r1
    r2 = r2
    a1 = a1
    a2 = a2
    InitLua = init
    Roots = {r1, r2}
    Asyncs = {a1, a2}
    NoTask = NoTask
    Chans = {c1}
    Does <- MCDoes
    HandlesOf <- MCHandles
    Slots = 1
    MaxSends = 2
    MaxYields = 1
INVARIANTS
    TypeOK
    OnceInOrder
PROPERTIES
    AwaitReturns
    ReceiversGetOn
CHECK_DEADLOCK FALSE
