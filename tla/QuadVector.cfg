\* Two lanes per word, two blocks per superblock, blocks of one or two words:
\* nine digits cross word, block and superblock boundaries, and a rel_ counter
\* has no value to spare.
SPECIFICATION Spec
CONSTANTS
    Digits = {0, 1}
    Lanes = 2
    BlocksPerSb = 2
    MaxShift = 1
    RelMod = 9
    MaxLength = 9
INVARIANTS
    TypeOK
    DirectoryExact
    RankExact
    ReadsInBounds
