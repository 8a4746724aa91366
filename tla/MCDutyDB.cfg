SPECIFICATION Spec
CONSTANTS
    p1 = p1  p2 = p2  A = A  B = B  r1 = r1  r2 = r2
    Duty <- Duties
    NeverExpire = {}
    OutputBuffer = 1
    Slot = {1}
    CommIdx = {0, 1, 2}
    ValIdx = {1, 2}
    Root = {A}
    PubKey = {p1, p2}
    Data = {A, B}
    NoValue = NoValue
    Inputs <- MCInputs
    Asked <- MCAsked
    Reader = {r1, r2}
CONSTRAINT Bound
SYMMETRY ReaderSymmetry
CHECK_DEADLOCK FALSE
INVARIANTS TypeOK AnswersAgree StoredWillBeDeleted AnsweredUnlessFailed
