SPECIFICATION Spec
CONSTANTS
    PageDataSize = 4082
    CategoryStep = 16
    Slots = 2
    Depth = 3
    Lengths <- Large
    AddressSpace = 65536
    MaxPages = 6
INVARIANTS
    TypeOK
    LeafUpToDate
    FsmPagesAreATree
    RootNeverLies
    FoundPageHasBytes
PROPERTIES
    SpaceIsOffered
