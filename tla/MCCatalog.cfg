SPECIFICATION Spec
CONSTANTS
    table1 = table1
    table2 = table2
    colA = colA
    colB = colB
    PageDataSize = 4082
    AddressSpace = 65536
    NoMetadata = NoMetadata
    Error = Error
    TableNames = {table1, table2}
    NameLength <- SameLength
    Commands <- MCCommands
    None = None
    Missing = Missing
    Panic = Panic
    MaxTables = 2
    MaxUses = 2
SYMMETRY Symmetry
INVARIANTS
    TypeOK
    NewIdsMeetNothing
    RowsFitTheirTable
PROPERTIES
    ImplementsPageMap
    ImplementsSchemas
VIEW View
