CONSTANTS
    c1 = c1
    c2 = c2
    p1 = p1
    p2 = p2
    s1 = s1
    database = database
    Unlimited = Unlimited
    NoCall = NoCall
    Call <- TwoCalls
    Permission <- MCPermission
    Subject <- MCSubject
    SubjectOf <- OneSubject
    Limit <- StrictLimit
    Lock <- RowLocks
    LockOf <- RowLock
    Second = 1
    Retention = 5
    MaxLatency = 1
    MaxClock = 1
SPECIFICATION Spec
INVARIANT SlidingWindow
