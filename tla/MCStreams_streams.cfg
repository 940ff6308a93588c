SPECIFICATION MCSpec
CONSTANTS
    Corpora = {1, 2}
    MaxRows = 3
    Long = {2}
    Bulky = {3}
    Targets = {3, 99}
    Seeds = {1}
    MaxEpochs = 2
    BufferRecords = 2
    BufferBytes = 3
    Depth = 1
    MaxFaults = 1
INVARIANTS
    StreamIsDetermined
    InputIsExact
PROPERTIES
    StreamsEnd
\* Streams return and attempts end.
CHECK_DEADLOCK FALSE
