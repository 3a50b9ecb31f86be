SPECIFICATION Spec
CONSTANTS
    Agents = {a1, a2}
    Texts = {flaky, broken}
    Retryable = {flaky}
    NoText = none
    SessionMaxes = {0, 2}
    TransientMax = 1
    PermanentMax = 1
    MaxConsecutive = 2
    AdviseAt = 2
    PoisonRepeat = 2
    Base = 1
    HardStop = FALSE
    AdvisoryChannel = TRUE
    AutoCompact = TRUE
    AutoContinue = TRUE
    NudgeGap = 1
    MaxQueue = 1
INVARIANTS
    TypeOK
    SessionCapHolds
    BreakerHolds
    PendingIsQueued
PROPERTIES
    LoopEnds
