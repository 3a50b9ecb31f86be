SPECIFICATION Spec
CONSTANTS
    Sessions = {s1, s2}
    Signatures = {e1}
    AutoCompact = TRUE
    AutoContinue = TRUE
    Strict = TRUE
    Mitigate = FALSE
    Cooldown = 3
    Debounce = 2
    Defer = 1
    NudgeGap = 2
    MaxAgents = 2
    MaxQueue = 1
    MaxTimers = 1
    MaxInFlight = 2
SYMMETRY Symmetry
INVARIANTS
    TypeOK
    NudgesAreSpaced
    NoPhantomAgents
    OneCompactPerSignature
PROPERTIES
    RecordedCompactionClosesRace
