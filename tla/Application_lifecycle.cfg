CONSTANTS
    Deployments <- SomeDeployments
    JobIds = {"a", "b"}
    Launches = {1, 2}
    MaxBoots = 3
    MaxDeployed = 2
    Attempts = 2
    MaxStalled = 1
SPECIFICATION Spec
INVARIANT UpIsComplete
INVARIANT AcceptedIsKept
INVARIANT ClosedIsQuiet
PROPERTY AcceptedSettles
CHECK_DEADLOCK FALSE
