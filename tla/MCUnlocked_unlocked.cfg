SPECIFICATION MCSpec
CONSTANTS
    Commands = {p, q}
    Digests = {d, e}
    Large = {e}
    MaxBytes = 2
    Candidates = 2
    Retaining = {p}
    Offers = {{2}, {}}
    Cached = {{}, {d, e}}
    Corpora = {{d, e}, {e}}
    MaxFaults = 1
    Refreshers = {x, y}
    Sessions = {r, s, t}
SYMMETRY Symmetry
INVARIANTS
    CacheIsSound
    CheckoutIsSound
    ModelsAreWhole
    ConfigurationLoads
PROPERTIES
    PruneBounds
    WorkSurvives
\* Every command ends, done, failed or killed.
CHECK_DEADLOCK FALSE
