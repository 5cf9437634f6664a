CONSTANTS
    MaxAttempts = 3
    Delays <- DelayChoices
    MaxListed = 3
    StatusCodes <- Codes
    NoAnswer = NoAnswer
    Event = e1
    Others = {e2}
    FailureStatuses <- Failures
    DefaultStatus = 503
    MaxDeliveries = 4
    MaxUpdates = 1
SPECIFICATION DemoSpec
CHECK_DEADLOCK FALSE
INVARIANTS
    DemoTypeOK
    BackoffAsConfigured
    EndsForAReason
    FailOnceRefusesOnce
    AsTheReadmeShows
    SeenWithinAttempts
