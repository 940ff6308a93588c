SPECIFICATION Spec
CONSTANTS
    NumObjects = 2
    Workers = {w1, w2}
    Bases = {b1, b2}
    NoBase = NoBase
    MaxFaults = 1
    MaxRemovals = 0
INVARIANTS
    UnstagedIsJournaled
