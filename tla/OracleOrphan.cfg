CONSTANTS
    c1 = c1
    j1 = j1
    j2 = j2
    q1 = q1
    q2 = q2
    w1 = w1
    w2 = w2
    u1 = u1
    u2 = u2
    e1 = e1
    e2 = e2
    e3 = e3
    Unlimited = Unlimited
    Invalid = Invalid
    AnyKey = AnyKey
    Malformed = Malformed
    Count <- OneCount
    Call <- OneCall
    Job <- TwoJobs
    Setup <- None
    Wallet <- OneWallet
    Use <- OneUse
    Extension <- None
    Config <- NoConfig
    Operation <- KeyDeletion
    InitialKeys <- SmallKeys
    InitialPermissions <- SmallPermissions
    FirstId = 5
    MaxId = 5
SPECIFICATION Spec
INVARIANT DeleteKeyRemovesPermissions
CHECK_DEADLOCK FALSE
