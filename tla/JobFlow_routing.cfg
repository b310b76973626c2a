CONSTANTS
    NSteps = 3
    ExitStatuses <- Exits
    Patterns <- SomePatterns
    MatchedBy <- Matches
    Specificity <- Weights
    FlowTransitions <- SomeTransitions
    MaxFlow = 3
    Verdicts <- AnyVerdict
    DeciderStatuses = {"FAILED", "NO_DATA"}
    Declared = {"COMPLETED", "FAILED", "NO_DATA"}
    MaxVisits = 4
    MaxCalls = 5
SPECIFICATION BuilderSpec
INVARIANT FailureIsRouted
INVARIANT ValidatedWalk
INVARIANT BuiltAsSaid
CHECK_DEADLOCK FALSE
