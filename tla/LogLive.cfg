CONSTANTS
    c1 = c1
    c2 = c2
    p1 = p1
    p2 = p2
    s1 = s1
    database = database
    Unlimited = Unlimited
    NoCall = NoCall
    Call <- TwoCalls
    Permission <- MCPermission
    Subject <- MCSubject
    SubjectOf <- OneSubject
    Limit <- StrictLimit
    Lock <- OneLock
    LockOf <- DatabaseLock
    Second = 1
    Retention = 3
    MaxLatency = 1
    MaxClock = 4
SPECIFICATION FairSpec
PROPERTIES
    EveryCallAnswered
    ExpiredRowsPruned
