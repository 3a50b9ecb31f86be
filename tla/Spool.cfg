SPECIFICATION Spec
CONSTANTS
    plain = plain
    binary = binary
    Payloads = {plain, binary}
    HasNul = {binary}
    Input <- MCInput
    MaxDisk = 5
INVARIANTS
    TypeOK
    AcksAreBacked
    NothingIsLost
PROPERTIES
    FrontierSpec
CHECK_DEADLOCK FALSE
