\* main() of test.cpp, any call failing; the methods that can be called again are,
\* twice.
CONSTANTS
    Program <- TestMain
    Outer <- NoOuter
    RetryOps <- SafeToRetry
    Retries = 2
    ConvertFails = FALSE
SPECIFICATION ResSpec
INVARIANTS
    ResTypeOK
    NothingMisused
    AllReleased
    PostsOnlyConnected
CHECK_DEADLOCK FALSE
