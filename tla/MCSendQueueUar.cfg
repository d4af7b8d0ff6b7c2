\* Which register does each post ring?
CONSTANTS
    SqSize = 4
    PiWrap = 8
    Window = 4
    MaxPosts = 13
SPECIFICATION SqSpec
INVARIANTS
    DoorbellsAreMapped
CHECK_DEADLOCK FALSE
