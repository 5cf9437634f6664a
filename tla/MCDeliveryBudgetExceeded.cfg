CONSTANTS
    Jobs = {e1}
    Workers = {w1, w2}
    MaxAttempts = 2
    BatchSize = 1
    MaxFaults = 0
    None = None
SPECIFICATION Spec
INVARIANTS
    AttemptsWithinBudget
