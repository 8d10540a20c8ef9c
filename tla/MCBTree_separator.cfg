SPECIFICATION SpecFresh
VIEW View
CONSTANTS
    MaxDegree = 6
    Keys <- Upper
    Preloads <- Twenty
    PointerOf <- MCPointerOf
    NoPage = NoPage
    None = None
    Panic = Panic
    even = even
    odd = odd
PROPERTY InsertedKeysAreFound
