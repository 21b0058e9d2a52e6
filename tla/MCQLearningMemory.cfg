\* Room for two of three regions; neighbouring values are within the tolerance.
CONSTANTS
    RegionIds = {r1, r2, r3}
    Nobody = Nobody
    MaxMemory = 2
    One = 100000
    Values = {1, 2, 3}
    Tolerance = 2
    Sigmoid <- MCSigmoid
    NoSolution = NoSolution
    MaxUpdates = 4
SPECIFICATION Spec
SYMMETRY Alike
INVARIANTS
    TypeOK
    MemoryIsBounded
    OnlyLateAnswersAreStale
    QIsBounded
    BestIsNearLeastSeen
PROPERTIES
    DropsTheWorst
