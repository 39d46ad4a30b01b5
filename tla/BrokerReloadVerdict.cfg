SPECIFICATION Spec
CONSTANTS
    Questions = {q1, q2}
    Approvers = {a1}
    MaxExecutors = 2
INVARIANTS
    AnsweredAsShown
