SPECIFICATION RetrySpec
CONSTANTS
    NumObjects = 3
    Workers = {w1, w2}
    Bases = {b1}
    NoBase = NoBase
    MaxFaults = 2
    MaxRemovals = 0
INVARIANTS
    UnstagedIsJournaled
PROPERTIES
    ImplementsContract
    EventuallyPublished
\* A published directory that is not collected again is at rest; the stores run
\* checks deadlock itself.
CHECK_DEADLOCK FALSE
