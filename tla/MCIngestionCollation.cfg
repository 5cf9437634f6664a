CONSTANTS
    lower = lower
    upper = upper
    Requests = {r1, r2}
    EventIds = {lower, upper}
    Keys = {lower, upper}
    Fold <- CaseInsensitive
    MaxFaults = 0
    None = None
SPECIFICATION Spec
CHECK_DEADLOCK FALSE
INVARIANTS
    DuplicateIsSameEvent
