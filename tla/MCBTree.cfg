SPECIFICATION SpecNewKeys
VIEW View
CONSTANTS
    MaxDegree = 6
    Keys <- Spread
    Preloads <- NineteenOrTwenty
    PointerOf <- MCPointerOf
    NoPage = NoPage
    None = None
    Panic = Panic
    even = even
    odd = odd
INVARIANT TypeOK
INVARIANT KeysInRange
INVARIANT TreeIsBalanced
INVARIANT NodesWellFormed
INVARIANT NodesReadBack
INVARIANT RangeQueriesCorrect
PROPERTY ImplementsIndex
