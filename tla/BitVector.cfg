\* Two bits per word and three words per block: nine bits cross word and block
\* boundaries, and a relative count has no value to spare.
SPECIFICATION Spec
CONSTANTS
    WordBits = 2
    BlockWords = 3
    RelMod = 5
    MaxLength = 9
INVARIANTS
    TypeOK
    Rank1Exact
    OnesExact
