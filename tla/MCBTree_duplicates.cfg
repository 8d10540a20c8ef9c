SPECIFICATION Spec
VIEW View
CONSTANTS
    MaxDegree = 6
    Keys <- More
    Preloads <- Empty
    PointerOf <- MCPointerOf
    NoPage = NoPage
    None = None
    Panic = Panic
    even = even
    odd = odd
PROPERTY DuplicatesRefused
