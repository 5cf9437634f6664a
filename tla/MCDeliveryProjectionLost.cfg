CONSTANTS
    Jobs = {e1}
    Workers = {w1}
    MaxAttempts = 2
    BatchSize = 1
    MaxFaults = 1
    None = None
SPECIFICATION Spec
INVARIANTS
    ProjectionInStep
