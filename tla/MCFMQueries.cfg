SPECIFICATION Spec
CONSTANTS
    ByteMax = 2
    UpperLo = 1
    UpperHi = 1
    CaseShift = 1
    MaxText = 4
    MaxQuery = 3
    MaxPattern = 2
    MaxErrors = 2
    Folding = {TRUE, FALSE}
    Rates = {3}
    Tile = 2
    Corpora <- MCCorpora
    Requests <- MCRequests
INVARIANTS
    TypeOK
    FuzzySound
    LaneExact
PROPERTIES
    WalksKeepPosition
    ImplementsDocIndex
