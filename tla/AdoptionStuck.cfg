CONSTANTS
    MaxCrashes = 1
SPECIFICATION FairSpec
PROPERTIES
    KeysAndGrantsCarryOver
CHECK_DEADLOCK FALSE
