SPECIFICATION Spec
CONSTANTS
    one = one
    two = two
    three = three
    x = x
    y = y
    letter = letter
    PageDataSize = 42
    AddressSpace = 65536
    Schema <- MCSchema
    Candidates <- MCCandidates
    Indexed = {1}
    Queries <- MCQueries
    Changes <- MCChanges
    NoRow = NoRow
    MaxPages = 2
PROPERTIES
    DeletesWhatWasFound
