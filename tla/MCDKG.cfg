CONSTANTS
    Node = {n1, n2, n3}
    NumAmounts = 2
    MaxRestarts = 1
    FailStep = 2
SPECIFICATION Spec
SYMMETRY Symmetry
CONSTRAINT Bound
INVARIANTS
    CastsAgree
    SharesFitCasts
    ExchangesFit
    AllCanWrite
