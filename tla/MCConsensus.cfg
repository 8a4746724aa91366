CONSTANTS
    TheDuty = d
    Duty = {d}
    NeverExpire = {}
    OutputBuffer = 1
    Proposer = {p1, p2}
    Retry = {p2}
    Participant = {q}
    Own = "o"
    Messages <- MCMessages
    RecvBufferSize = 1
SPECIFICATION Spec
CHECK_DEADLOCK FALSE
INVARIANTS
    ValuesAreKnown
    DecidedOnce
PROPERTIES
    CallsReturn
