SPECIFICATION Spec
CONSTANTS
    a = a
    b = b
    Blank = Blank
    PageDataSize = 50
    AddressSpace = 65536
    MaxRecords = 4
    Lengths <- MCNarrowLengths
    Values <- MCValues
SYMMETRY Symmetry
INVARIANTS
    TypeOK
    SlotsDisjoint
    DirectoryFits
PROPERTIES
    FreeAreaInsertFits
    ImplementsSlotStore
