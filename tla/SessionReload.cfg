SPECIFICATION Spec
CONSTANTS
    Sessions <- MCSessions
    Owners = {o1}
    Labels = {}
    NoLabel = NoLabel
    NoSession = 0
    Runs <- MCRuns
    Executors = {e1, e2}
    Policies <- MCPolicies
    MaxSteps = 1
    Messages <- MCMessages
CONSTRAINT InOrder
INVARIANTS
    OneRunPerSession
