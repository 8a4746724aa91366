CONSTANTS
    a = a
    b = b
    Nodes = 4
    Values = {a, b}
    Inputs <- Inputs4
    Zero = zero
    DutySeed = 0
    MaxRound = 2
    MaxRestarts = 1
SPECIFICATION CrashSpec
INVARIANT OnePreparePerRound
CHECK_DEADLOCK FALSE
VIEW CertView
