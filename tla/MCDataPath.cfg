\* Rings of 2 on both sides, filled to the last entry and passed over four times; every
\* index wraps.
CONSTANTS
    CqeCnt = 2
    PollCnt = 2
    CiWrap = 5
    MaxCqes = 9
    SqSize = 2
    PiWrap = 4
    Window = 2
    MaxPosts = 9
SPECIFICATION DpFairSpec
INVARIANTS
    DpTypeOK
    RecordCoversWrittenWqes
    ExecutedInOrder
    CreditIsEarned
    NoCqOverrun
PROPERTIES
    OnlyLastPostCanStrand
    ImplementsRequests
