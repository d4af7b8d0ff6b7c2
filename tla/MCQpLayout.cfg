\* Rings of up to 32 WQEs, up to 7 SGEs per WQE.  The 32-bit masks are scaled to
\* 13 bits, which no size here exceeds, the 16 bits of _sq_size to 6.
CONSTANTS
    U32 = 8192
    U16 = 64
    Requests <- AnyRequests
    Setups <- AnySetups
SPECIFICATION LayoutSpec
INVARIANTS
    LayoutTypeOK
    WqeInsideUmem
    DeviceFindsWqe
    SgesFit
CHECK_DEADLOCK FALSE
