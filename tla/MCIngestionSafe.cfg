CONSTANTS
    lower = lower
    upper = upper
    Requests = {r1, r2, r3}
    EventIds = {lower, upper}
    Keys = {lower, upper}
    Fold <- Binary
    MaxFaults = 2
    None = None
SPECIFICATION FairSpec
CHECK_DEADLOCK FALSE
INVARIANTS
    TypeOK
    EventHasItsJob
    OriginalIsFound
    AnswersAreTrue
PROPERTIES
    ImplementsStore
    CallsEnd
