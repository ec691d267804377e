SPECIFICATION Spec
CONSTANTS
    ByteMax = 2
    UpperLo = 1
    UpperHi = 1
    CaseShift = 1
    MaxText = 2
    MaxPattern = 0
    AskedDocs = {0, 15}
    Folding = {TRUE, FALSE}
    Rates = {1}
    RebuildFrom <- MCRebuildFrom
    RebuildAnytime = FALSE
    ThrowsOn <- MCCorpora
    MayThrow = {}
    MayThrowAgain = {}
    DocIdMod = 16
    Corpora <- MCCorpora
    Requests <- MCExtracts
INVARIANTS
    OutOfRangeIsEmpty
