SPECIFICATION MCSpec
CONSTANTS
    MaxKey = 5
    Long = {2}
    Seeds = {{}, {1, 3}}
    MaxRows = 5
    GroupSize = 2
    TargetSize = 2
    BatchRows = 2
    Workers = 2
    MaxFaults = 1
INVARIANTS
    AssemblyIsExact
    OutcomeIsTrue
    VerdictIsRight
PROPERTIES
    EveryCallReturns
\* The calls and their goroutines end.
CHECK_DEADLOCK FALSE
