SPECIFICATION FairSpec
CONSTANTS
    MaxOps = 2
    MaxItems = 2
    MaxQueries = 2
INVARIANTS
    TypeOK
    
    MovesExclude

    
CHECK_DEADLOCK FALSE
