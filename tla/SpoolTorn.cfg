SPECIFICATION Spec
CONSTANTS
    plain = plain
    binary = binary
    Payloads = {plain, binary}
    HasNul = {binary}
    Input <- MCPlain
    MaxDisk = 5
INVARIANTS
    SpooledFramesReplay
CHECK_DEADLOCK FALSE
