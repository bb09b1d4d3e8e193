SPECIFICATION Spec
CONSTANTS
    Sizes = {2, 5}
    ChunkSize = 2
    MinChunked = 2
    MaxRetry = 1
    MaxUserRetries = 0
    MaxEdits = 0
INVARIANTS RetriedUploadIsWhole
CHECK_DEADLOCK FALSE
