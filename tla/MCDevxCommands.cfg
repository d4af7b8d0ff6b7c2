\* Two queue pairs connected to each other on one device, each with two sets of
\* parameters for every call, on either link layer; and every size of their queues, on
\* three devices, up to where the connection begins.
CONSTANTS
    NumberBits = 30
    Qps <- MCQps
    Ids <- MCIds
    PageLog = 12
    CapPages <- MCAllCapPages
    CqParams <- MCCqParams
    CreateParams <- MCCreateParams
    ConnParams <- MCConnParams
    PortOf <- MCPortOf
    Lengths = {65536}
    MaxPosts = 1
SPECIFICATION CmdSpec
CONSTRAINT SizesBeforeConnections
INVARIANTS
    CmdTypeOK
    CapsAsReported
    NeverAsksTooMuch
    DeviceKeepsWhatWasAsked
    PathLeadsToPeer
    RingsAgree
    KeysOpenTheRegion
    WqeAsAsked
    QueriesTellTheTruth
CHECK_DEADLOCK FALSE
