CONSTANTS
    Events = {e1}
    MaxActivity = 2
    MaxFaults = 0
    None = None
SPECIFICATION Spec
INVARIANTS
    QuietIsCurrent
CHECK_DEADLOCK FALSE
