SPECIFICATION Spec
CONSTANTS
    ByteMax = 2
    UpperLo = 1
    UpperHi = 1
    CaseShift = 1
    MaxText = 4
    MaxPattern = 2
    AskedDocs = {0, 1, 4, 14}
    Folding = {TRUE, FALSE}
    Rates = {0, 2, 3}
    RebuildFrom <- MCRebuildFrom
    RebuildAnytime = FALSE
    ThrowsOn <- MCThrowsOn
    MayThrow = {"layout", "alphabet", "sort", "sample", "values", "bitmap", "ctable"}
    MayThrowAgain = {}
    DocIdMod = 16
    Corpora <- MCCorpora
    Requests <- MCRequests
INVARIANTS
    TypeOK
    IntervalExact
    WalkExact
    LFExact
    ExtractExact
    BuiltExact
PROPERTY
    ImplementsDocIndex
