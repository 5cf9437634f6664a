CONSTANTS
    Settings = {mode, latencyMs}
    Values = {default, v, w}
    Default = default
    Ids = {a, b}
    MaxResults = 2
    MaxInputs = 3
    MaxReads = 2
    MaxFaults = 1
    None = None
    Waiting = Waiting
SPECIFICATION Spec
SYMMETRY Symmetry
CHECK_DEADLOCK FALSE
INVARIANTS
    TypeOK
    PanelShowsWhatHolds
    UnansweredCanBeRepeated
PROPERTIES
    UntouchedStays
