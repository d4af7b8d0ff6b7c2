\* A ring of 4 entries passed over three times; the consumer index of the
\* doorbell record wraps at 9.  One caller polls all the time, another waits for
\* events; the low bits of _arm_sn are whatever the memory held.
CONSTANTS
    CqeCnt = 4
    PollCnt = 4
    CiWrap = 9
    MaxCqes = 11
    SnWrap = 4
    InitialArmSn = {0, 1, 2, 3}
    Callers = {"polling", "waiting"}
    Solicited = FALSE
SPECIFICATION NotifyFairSpec
INVARIANTS
    OkIsGenuine
    ErrorIsGenuine
    AheadOnlyInFirstPass
    UnreadIntact
    NotifyTypeOK
    NoLostWakeup
PROPERTIES
    LaterPassConsumed
CHECK_DEADLOCK FALSE
