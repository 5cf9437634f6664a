CONSTANTS
    Jobs = {e1}
    Workers = {w1, w2}
    MaxAttempts = 2
    BatchSize = 1
    MaxFaults = 2
    None = None
SPECIFICATION FairSpec
INVARIANTS
    AttemptBound
    NoSharedAttempt
    NoJobStranded
    OutcomeHasAReason
PROPERTIES
    EventuallySettled
