CONSTANTS
    Figures = {events, attempts}
    MaxChanges = 2
    MaxRequests = 1
    MaxFaults = 1
SPECIFICATION FairSpec
CHECK_DEADLOCK FALSE
INVARIANTS
    TypeOK
    StatsCatchUp
PROPERTIES
    EveryMessageIsShown
