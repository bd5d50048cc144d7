CONSTANTS
    c1 = c1
    j1 = j1
    j2 = j2
    q1 = q1
    q2 = q2
    w1 = w1
    w2 = w2
    u1 = u1
    u2 = u2
    e1 = e1
    e2 = e2
    e3 = e3
    Unlimited = Unlimited
    Invalid = Invalid
    AnyKey = AnyKey
    Malformed = Malformed
    Count <- OneCount
    Call <- None
    Job <- OneJob
    Setup <- TwoSetups
    Wallet <- TwoWallets
    Use <- TwoUses
    Extension <- Extensions
    Config <- MCConfig
    Operation <- Removals
    InitialKeys <- MCKeys
    InitialPermissions <- MCPermissions
    FirstId = 7
    MaxId = 10
SYMMETRY SetupSymmetry
SPECIFICATION Spec
INVARIANTS
    TypeOK
    WalletsIsolated
    QuickSetupGrantsAll
    QuickSetupsDoNotRepeat
CHECK_DEADLOCK FALSE
