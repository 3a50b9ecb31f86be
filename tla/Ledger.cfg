SPECIFICATION Spec
CONSTANTS
    call = call
    answer = answer
    user = user
    summary = summary
    Messages = {call, answer, user, summary}
    CallOf <- MCCallOf
    Summary = summary
    MaxLen = 3
INVARIANTS
    TypeOK
    Contiguous
    ResultsFollowCalls
    CaughtUp
PROPERTIES
    SwitchIsEarned
    ReaderSpec
