SPECIFICATION FairSpec
CONSTANTS
    Sizes = {2, 4, 5}
    ChunkSize = 2
    MinChunked = 2
    MaxRetry = 2
    MaxUserRetries = 1
    MaxEdits = 1
INVARIANTS TypeOK SuccessIsCommitted NoGap AskedAtRest CancelStopsSoon
 
CHECK_DEADLOCK FALSE
