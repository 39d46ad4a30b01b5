SPECIFICATION Spec
CONSTANTS
    Questions = {q1, q2, q3}
    Approvers = {a1}
    MaxExecutors = 1
INVARIANTS
    TypeOK
    AnsweredAsShown
    WaiterIsReachable
PROPERTIES
    ImplementsAsk
