SPECIFICATION Spec
CONSTANTS
    a = a
    b = b
    Blank = Blank
    PageDataSize = 50
    AddressSpace = 65536
    MaxRecords = 4
    Lengths <- MCWideLengths
    Values <- MCValues
PROPERTIES
    SavedRowsAreRows
