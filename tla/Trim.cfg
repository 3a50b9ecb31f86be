SPECIFICATION Spec
CONSTANTS
    MaxLen = 5
    Toks = {1, 3}
    MaxAnchor = 2
    Windows = {8, 12}
    OutputMax = {0, 5, 20}
    ReservePct = 30
    MarginPct = 5
INVARIANTS
    LiveTrimCutPairSafe
    LiveTrimKeepsAnchor
    CriticalOverOnlyRelaxes
    LiveTrimAgreesWithDropRange
    CappedViewFitsWindow
    GateAgreesWithCap
    CapDropsOnlyWhatItMust
CHECK_DEADLOCK FALSE
