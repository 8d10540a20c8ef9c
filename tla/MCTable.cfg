SPECIFICATION SafeSpec
CONSTANTS
    one = one
    two = two
    three = three
    x = x
    y = y
    letter = letter
    PageDataSize = 42
    AddressSpace = 65536
    Schema <- MCSchema
    Candidates <- MCCandidates
    Indexed = {1}
    Queries <- MCQueries
    Changes <- MCChanges
    NoRow = NoRow
    MaxPages = 3
VIEW View
SYMMETRY Symmetry
INVARIANTS
    TypeOK
    IndexMatchesRows
    RowsReadBack
    JoinsAreComplete
PROPERTIES
    ImplementsRelation
    OtherRowsStayPut
