SPECIFICATION MCSpec
CONSTANTS
    root = root
    group = group
    inGroup1 = inGroup1
    inGroup2 = inGroup2
    alone = alone
    Dirs <- MCDirs
    Root <- root
    ParentOf <- MCParentOf
    Destinations <- MCDestinations
    NoDir = NoDir
    AtOnce = 1
    MaxFaults = 2
INVARIANTS
    SuccessIsWalkable
    FilesRestored
    IngestedIsPinned
    RefusalHasCause
    BomIsExact
    HoldoutIsDetermined
    PlanIsExact
PROPERTIES
    AppliedStaysListed
\* Every station ends.
CHECK_DEADLOCK FALSE
