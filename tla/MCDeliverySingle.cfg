CONSTANTS
    Jobs = {e1, e2}
    Workers = {w1}
    MaxAttempts = 3
    BatchSize = 2
    MaxFaults = 2
    None = None
SPECIFICATION Spec
INVARIANTS
    TypeOK
    ExecutorOwnsJob
    OpenAttemptIsCurrent
    ProjectionInStepUnlessFault
    SuccessIsDelivered
    NextAttemptIsShownUnlessFault
    ReasonIsTrue
PROPERTIES
    FollowsLifecycle
    AttemptHistoryImmutable
