\* A fresh ring: does polling ahead of the device leave the queue alone?
CONSTANTS
    CqeCnt = 4
    PollCnt = 4
    CiWrap = 9
    MaxCqes = 11
    SnWrap = 4
    InitialArmSn = {0}
    Callers = {"polling"}
    Solicited = FALSE
SPECIFICATION NotifySpec
INVARIANTS
    NeverAheadOfDevice
