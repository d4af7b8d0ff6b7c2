\* The queue pairs of test.cpp: do their WQEs stay in the memory made for them?
CONSTANTS
    U32 = 8192
    U16 = 64
    Requests <- NoRequests
    Setups <- TestSetups
SPECIFICATION LayoutSpec
INVARIANTS
    NoWriteOutside
CHECK_DEADLOCK FALSE
