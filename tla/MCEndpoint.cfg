\* The owner calls initialize() twice; any call of create_resources may fail.
CONSTANTS
    Program <- CreateResourcesCalls
    Outer <- OwnersDevice
    RetryOps = {}
    Retries = 0
    ConvertFails = FALSE
    MaxInits = 2
SPECIFICATION EpSpec
INVARIANTS
    AllReleased
    FailedEndpointIsEmpty
CHECK_DEADLOCK FALSE
