CONSTANTS
    Node = {n1, n2}
    LastStep = 3
    MaxResets = 1
    MaxCrashes = 1
SPECIFICATION Spec
CHECK_DEADLOCK FALSE
INVARIANTS
    StepsAreInSync
    OnlyFailuresFail
PROPERTIES
    AllNodesEnd
