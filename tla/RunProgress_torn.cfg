SPECIFICATION Spec
CONSTANTS
    Steps = 4
    EvaluateEvery = 2
    CheckpointEvery = 3
    Losses = {1, 2}
    EveryEvaluation = TRUE
    TornWrites = TRUE
    OrphanBundles = FALSE
    PipeBound = 2
    MaxFaults = 1
INVARIANTS
    CheckpointSurvivesKill
CHECK_DEADLOCK FALSE
