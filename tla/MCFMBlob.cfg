SPECIFICATION Spec
CONSTANTS
    ByteMax = 2
    UpperLo = 1
    UpperHi = 1
    CaseShift = 1
    MaxText = 4
    Folding = {TRUE}
    Rates = {1, 3}
    BlockBytes = {0, 24}
    UnitBits = 4
    MaxWpb = 2
    Garbage = {0, 1, 2, 3, 4, 5, 6, 9, 15}
    Corpora <- MCCorpora
INVARIANTS
    TypeOK
    RoundTrip
    TruncatedIsRefused
    AcceptedIsStructured
    SizesAreKept
