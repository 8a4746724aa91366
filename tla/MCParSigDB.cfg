\* Two validators, a cluster of three with threshold two, two calls at a time and
\* a duty that expires: signatures arrive before and after it is trimmed.
SPECIFICATION Spec
CONSTANTS
    c1 = c1  c2 = c2  k1 = k1  k2 = k2  x = x  y = y  z = z
    Duty = {att}
    NeverExpire = {}
    OutputBuffer = 1
    PubKey = {k1, k2}
    Share = {1, 2, 3}
    OwnShare = 1
    Data = {x, y, z}
    MessageRoot <- Roots
    SigDuty = {}
    Threshold = 2
    SignedSets <- TwoValidators
    Caller = {c1, c2}
CONSTRAINT Bound
SYMMETRY Symmetry
INVARIANTS OneSigPerShare ReportedCanBeAggregated ThresholdIsReported ReportedOnceIfSame OwnSigIsExchanged
