CONSTANTS
    Node = {n1, n2, n3}
    FaultyNode = {f}
    Root = {"a", "b"}
    None = None
    MaxMishaps = 1
    Heads <- MCHeads
SPECIFICATION Spec
SYMMETRY Symmetry
CHECK_DEADLOCK FALSE
INVARIANTS
    OneSignature
    SignedWasDecided
    DutiesComplete
