CONSTANTS
    Tasks = {t1, t2, t3}
    NoTask = NoTask
    Files = {f1, f2}
    NoFile = NoFile
    MaxChunks = 0
    MaxRedirects = 0
SPECIFICATION Spec
SYMMETRY Symmetry
CHECK_DEADLOCK FALSE
INVARIANTS
    OneRunning
    OneDownloadPerFile
PROPERTY
    ImplementsQueue
