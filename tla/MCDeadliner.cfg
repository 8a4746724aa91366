\* Two goroutines add duties, two of them with the same deadline, and the
\* channel holds two of them.
SPECIFICATION FairSpec
CONSTANTS
    SlotDuration = 12
    Duty <- FewDuties
    NeverExpire <- LongLived
    DeadlineFunc <- Deadlines
    OutputBuffer = 2
    Caller = {c1, c2}
    Consumer = c1
    NoDuty = NoDuty
    MaxTime = 11
INVARIANTS CurrIsEarliest OutputInOrder
PROPERTIES AddReturns PendingIsOutput ImplementsExpiry
