SPECIFICATION Spec
CONSTANTS
    Sections = 3
    MaxSaves = 3
INVARIANTS
    TypeOK
    SuccessIsComplete
    FailureLeavesNoFile
    FailureHasErrno
    OpenIsComplete
    NothingLeaks
