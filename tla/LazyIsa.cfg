SPECIFICATION Spec
CONSTANTS
    Threads = {t1, t2, t3}
    TextLen = 2
    Rate = 2
    MaxFailures = 2
INVARIANTS
    TypeOK
    NoDataRace
    AnchorExact
PROPERTIES
    BuiltOnce
    EveryCallEnds
