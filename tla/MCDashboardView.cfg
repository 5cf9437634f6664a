CONSTANTS
    Events = {e1, e2}
    MaxActivity = 2
    MaxFaults = 2
    None = None
SPECIFICATION FairSpec
INVARIANTS
    TypeOK
    NeverBehind
    PatchIsProvisional
CHECK_DEADLOCK FALSE
PROPERTIES
    PatchIsReconciled
