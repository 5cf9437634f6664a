CONSTANTS
    Jobs = {e1}
    Workers = {w1, w2}
    MaxAttempts = 2
    BatchSize = 1
    MaxFaults = 1
    None = None
SPECIFICATION NoticesSpec
INVARIANTS
    NoticesTypeOK
    ToldIsReadable
    EveryChangeIsTold
