SPECIFICATION Spec
CONSTANTS
    Ids = {A, B}
    NoId = NoId
    MaxRetries = 1
    MaxDialogs = 2
    EditToExisting = FALSE
SYMMETRY Symmetry
INVARIANTS
    TypeOK
    MemoryMatchesDb
    
    
CHECK_DEADLOCK FALSE
