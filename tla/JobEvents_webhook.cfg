CONSTANTS
    Steps <- JobSteps
    Items = 1
    RetryLimit = 1
    Registered <- JobListeners
    RawOptions <- WebhookOptions
SPECIFICATION MCSpec
INVARIANT OutcomeReported
INVARIANT FailureHasCause
INVARIANT CheckpointMatchesWrites
INVARIANT DeliveryVerdictTrue
