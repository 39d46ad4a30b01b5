SPECIFICATION FairSpec
CONSTANTS
    Questions = {q1, q2}
    Approvers = {a1, a2}
    MaxExecutors = 2
PROPERTIES
    EveryQuestionEnds
