\* Two request ids used three times: one of them is used again.
CONSTANTS
    Qps = {1}
    Ids = {1, 2}
    MaxRequests = 3
SPECIFICATION ProfSpec
INVARIANTS
    ProfTypeOK
    FinishedSamplesOrdered
    StatsAtRest
    SingletonOrdered
