SPECIFICATION MCSpec
CONSTANTS
    NumStages = 2
    Procs = {p1, p2}
    NoProc = NoProc
    HasBase = TRUE
    AuditChoices = {TRUE, FALSE}
    MetadataCrashes = TRUE
    MaxFaults = 2
    MaxRuns = 3
INVARIANTS
    OneTrainer
    LineageIntact
    StagesOnceInOrder
PROPERTIES
    HistoryAppendOnly
    RepetitionFinishes
\* A compose that finished, or used up its faults and runs, is at rest.
CHECK_DEADLOCK FALSE
