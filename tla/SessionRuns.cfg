SPECIFICATION FairSpec
CONSTANTS
    Sessions <- MCSessions
    Owners = {o1}
    Labels = {l1}
    NoLabel = NoLabel
    NoSession = 0
    Runs <- MCRuns
    Executors = {e1}
    Policies <- MCPolicies
    MaxSteps = 1
    Messages <- MCMessages
CONSTRAINT InOrder
INVARIANTS
    TypeOK
    TablesAgree
    HistoryIsValid
    OneRunPerSession
PROPERTIES
    ImplementsChat
    SessionIsFreed
CHECK_DEADLOCK FALSE
