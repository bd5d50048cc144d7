CONSTANTS
    c1 = c1
    j1 = j1
    j2 = j2
    q1 = q1
    q2 = q2
    w1 = w1
    w2 = w2
    u1 = u1
    u2 = u2
    e1 = e1
    e2 = e2
    e3 = e3
    Unlimited = Unlimited
    Invalid = Invalid
    AnyKey = AnyKey
    Malformed = Malformed
    Count <- OneCount
    Call <- OneCall
    Job <- TwoJobs
    Setup <- None
    Wallet <- TwoWallets
    Use <- OneUse
    Extension <- None
    Config <- NoConfig
    Operation <- AllOperations
    InitialKeys <- ThreeKeys
    InitialPermissions <- ThreePermissions
    FirstId = 8
    MaxId = 9
SYMMETRY JobSymmetry
SPECIFICATION Spec
INVARIANTS
    TypeOK
    WalletsIsolated
    SignaturesAreAuthorized
    NamedKeyResolvedAtOneMoment
    DefaultKeyIsNewest
    NoOrphans
    AssertionsFailOnlyUnderDelete
PROPERTIES
    OnlyOwnersWrite
    LimitedSigningNeedsKey
CHECK_DEADLOCK FALSE
