SPECIFICATION FairSpec
CONSTANTS
    Uploads = {u1, u2}
    MaxWrites = 3
INVARIANTS
    TypeOK
    SyncedIsTrue
PROPERTIES
    
    EditIsAnswered
CHECK_DEADLOCK FALSE
