CONSTANTS
    MaxCrashes = 3
SPECIFICATION FairSpec
INVARIANTS
    TypeOK
    NothingLost
    RecordedMeansReady
PROPERTIES
    UninterruptedCompletes
CHECK_DEADLOCK FALSE
