CONSTANTS
    Nodes = 3
    a = a
    b = b
    Values = {a, b}
    Inputs <- Inputs3
    Zero = zero
    DutySeed = 0
    MaxRound = 2
    MaxRestarts = 0
SPECIFICATION Spec
INVARIANTS
    TypeOK
    Agreement
    Validity
    SentAreJustified
    NoSanityPanic
    CommittedValueIsLocked
CHECK_DEADLOCK FALSE
VIEW CertView
