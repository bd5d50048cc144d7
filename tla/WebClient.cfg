CONSTANTS
    w1 = w1
    w2 = w2
    u1 = u1
    Unlimited = Unlimited
    Invalid = Invalid
    AnyKey = AnyKey
    Wallet <- Wallets
    Use <- Uses
    Count <- Counts
    MaxId = 5
    FirstWallet = w1
    Required = u1
    InitialKeys <- MCKeys
    InitialPermissions <- MCPermissions
    FirstId = 4
    InitialLog <- MCLog
    RowsPerPage = 1
    MaxAt = 3
    Budget <- MCBudget
    MaxPending = 5
SPECIFICATION Spec
INVARIANTS
    TypeOK
    PageIsRight
    WalkSkipsNothing
PROPERTIES
    ChangesStayInWallet
CHECK_DEADLOCK FALSE
