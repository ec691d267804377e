SPECIFICATION Spec
CONSTANTS
    Alphabets <- MCAlphabets
    MaxLength = 4
INVARIANTS
    TypeOK
    PartitionIsStable
    DescentExact
    ResultExact
    BinaryAgrees
