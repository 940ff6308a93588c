SPECIFICATION MCSpec
CONSTANTS
    Steps = 5
    EvaluateEvery = 2
    CheckpointEvery = 5
    Losses = {1, 2}
    EveryEvaluation = FALSE
    TornWrites = TRUE
    OrphanBundles = TRUE
    PipeBound = 2
    MaxFaults = 2
    Hosts = {h1, h2}
    Stages = 2
    World = 2
INVARIANTS
    RecordIsTrue
    BestIsPublished
    HostsTrainOneRun
    CollectivesAgree
    RanksConsumeWhole
PROPERTIES
    HistoryOnlyGrows
    ResumedRunCompletes
    EveryLaunchEnds
\* Runs complete, commands end, and nobody has to resume.
CHECK_DEADLOCK FALSE
