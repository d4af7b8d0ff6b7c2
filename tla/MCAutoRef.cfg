\* Three references, four addresses to allocate from, one local object.
CONSTANTS
    Refs = {r1, r2, r3}
    Heap = {h1, h2, h3, h4}
    Locals = {x}
    Null = Null
    Dangling = Dangling
SYMMETRY Symmetry
SPECIFICATION RefSpec
INVARIANTS
    RefTypeOK
    SoleOwner
    NothingLost
