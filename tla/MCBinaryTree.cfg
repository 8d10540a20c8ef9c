SPECIFICATION Spec
CONSTANTS
    Nodes = 12
    NonLeafNodes = 7
    MaxSpace = 3
INVARIANTS
    TypeOK
    HeapOrdered
    NeverCorrupted
PROPERTIES
    FoundHasSpace
    ImplementsSpaceMap
    OperationsEnd
