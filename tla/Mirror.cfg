SPECIFICATION Spec
CONSTANTS
    Contents = {a, b}
    Shared = {a}
    Empty = Empty
    MaxLen = 3
    MaxSeq = 3
INVARIANTS
    TypeOK
    SameAsFullPass
    CompactedIsDeduped
    RefsResolve
