SPECIFICATION Spec
CONSTANTS
    Arrays <- MCArrays
    Stretch = 2
INVARIANTS
    TypeOK
    AnswerCorrect
    NeverPastTheEnd
PROPERTIES
    SearchEnds
