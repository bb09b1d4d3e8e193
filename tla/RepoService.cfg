SPECIFICATION FairSpec
CONSTANTS
    A = A
    B = B
    LibB = LibB
    FolderA = FolderA
    Accounts = {A, B}
    NoAccount = NoAccount
    Libraries = {LibB, FolderA}
    Subfolders = {FolderA}
    Owner <- MCOwner
    OtherWindows = FALSE
    RpcFails = FALSE
    MaxCloning = 1
    Deniable = {LibB}
    Markable = {B}
INVARIANTS
    TypeOK
PROPERTIES
    
    ListIsShown
CHECK_DEADLOCK FALSE
