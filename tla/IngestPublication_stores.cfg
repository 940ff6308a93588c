SPECIFICATION Spec
CONSTANTS
    NumObjects = 2
    Workers = {w1, w2}
    Bases = {b1, b2}
    NoBase = NoBase
    MaxFaults = 2
    MaxRemovals = 1
INVARIANTS
    JournalTruthful
    NoBytesLost
    SuccessVerified
