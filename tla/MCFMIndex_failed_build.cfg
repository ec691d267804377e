SPECIFICATION Spec
CONSTANTS
    ByteMax = 2
    UpperLo = 1
    UpperHi = 1
    CaseShift = 1
    MaxText = 2
    MaxPattern = 1
    AskedDocs = {}
    Folding = {TRUE, FALSE}
    Rates = {1}
    RebuildFrom <- MCCorpora
    RebuildAnytime = TRUE
    ThrowsOn <- MCCorpora
    MayThrow = {"wavelet", "groups", "derived"}
    MayThrowAgain = {"alphabet", "wavelet"}
    DocIdMod = 16
    Corpora <- MCCorpora
    Requests <- MCSearches
INVARIANTS
    ValidIsComplete
