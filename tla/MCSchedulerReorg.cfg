SPECIFICATION Spec
CONSTANTS
    Validator <- MCValidator
    SlotsPerEpoch = 2
    trimEpochOffset = 2
    FirstSlot = 0
    LastSlot = 3
    MaxLag = 2
    MaxFailures = 1
    LastChain = 1
    Activation <- MCActivation
    AttesterDuties <- MCAttesterDuties
    ProposerDuties <- MCProposerDuties
    SyncCommittee <- MCSyncCommittee
    Asked <- MCAsked
    LastAsked = 0
INVARIANT ReorgIsResolvedAgain
CHECK_DEADLOCK FALSE
