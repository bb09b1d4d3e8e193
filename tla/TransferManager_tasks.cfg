CONSTANTS
    Tasks = {t1, t2}
    NoTask = NoTask
    Files = {f1, f2}
    NoFile = NoFile
    MaxChunks = 1
    MaxRedirects = 0
SPECIFICATION FairSpec
CHECK_DEADLOCK FALSE
INVARIANTS
    TypeOK
    FirstSignalTruthful
PROPERTIES
    
    CanceledWritesFirst
    EveryDownloadEnds
