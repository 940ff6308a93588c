SPECIFICATION RetrySpec
CONSTANTS
    Steps = 5
    EvaluateEvery = 2
    CheckpointEvery = 0
    Losses = {1, 2}
    EveryEvaluation = FALSE
    TornWrites = FALSE
    OrphanBundles = FALSE
    PipeBound = 2
    MaxFaults = 1
PROPERTIES
    CheckpointedRunCompletes
CHECK_DEADLOCK FALSE
