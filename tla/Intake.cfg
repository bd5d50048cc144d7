CONSTANTS
    ext = ext
    forged = forged
    Null = Null
    Absent = Absent
    Name <- MCName
    ValidName <- MCValidName
    MaxKind = 2
    MaxSeconds = 2
    KeyBytes = 3
    Halves <- MCHalves
    KeyText <- MCKeyText
    OldRow <- MCOldRow
SPECIFICATION Spec
INVARIANTS
    TypeOK
    SignedAsGranted
PROPERTIES
    LimitsNeverVanish
