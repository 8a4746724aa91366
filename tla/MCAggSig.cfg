SPECIFICATION Spec
CONSTANTS
    d1 = d1  a = a  b = b  x = x  y = y  r1 = r1  w1 = w1  w2 = w2
    Duty = {d1}
    NeverExpire = {}
    OutputBuffer = 1
    PubKey = {a, b}
    Value = {x, y}
    NoValue = NoValue
    NoDuty = NoDuty
    StoreSets <- MCStoreSets
    Writer = {w1, w2}
    Reader = {r1}
CHECK_DEADLOCK FALSE
PROPERTIES
    ImplementsStore
    AwaitIsAnswered
    StopReleases
