SPECIFICATION FairSpec
CONSTANTS
    MaxFiles = 3
    MaxFolders = 1
    MaxAnswers = 2
INVARIANTS
    TypeOK
    ReadableMeansAll
    NamesAreUploaded
    OneThingAtATime
    NothingGoneIsUsed
PROPERTIES
    EveryUploadEnds
CHECK_DEADLOCK FALSE
