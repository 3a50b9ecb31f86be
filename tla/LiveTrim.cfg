SPECIFICATION Spec
CONSTANTS
    Messages = {m1, m2, m3, m4}
    MaxLen = 3
    MaxCheckpoints = 2
    MaxTokens = 3
    FireAt = 2
    HeadroomAt = 3
    GrowthDelta = 1
    Reduction = 1
    Rearm = 2
    Preserves = {1, 2}
SYMMETRY Symmetry
INVARIANTS
    TypeOK
    ReplayStandsForBranch
    HeadroomIsActedOn
PROPERTIES
    BuiltViewsReplay
