\* The owner's first initialize().
CONSTANTS
    Program <- CreateResourcesCalls
    Outer <- OwnersDevice
    RetryOps = {}
    Retries = 0
    ConvertFails = FALSE
    MaxInits = 1
SPECIFICATION EpSpec
INVARIANTS
    HeldAreAlive
CHECK_DEADLOCK FALSE
