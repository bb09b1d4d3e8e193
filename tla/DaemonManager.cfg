SPECIFICATION FairSpec
CONSTANTS
    MaxReadyChecks = 3
    MaxRestarts = 4
INVARIANTS
    TypeOK
    OneDaemon
    StartsOnce
    RestartIsHeard
PROPERTIES
    ConnectsOrGivesUp
CHECK_DEADLOCK FALSE
