SPECIFICATION Spec
CONSTANTS
    call = call
    answer = answer
    user = user
    summary = summary
    Messages = {call, answer, user, summary}
    CallOf <- MCNoCalls
    Summary = summary
    MaxLen = 3
INVARIANT EveryMessageRecorded
