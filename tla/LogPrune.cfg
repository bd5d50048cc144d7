CONSTANTS
    c1 = c1
    c2 = c2
    p1 = p1
    p2 = p2
    s1 = s1
    database = database
    Unlimited = Unlimited
    NoCall = NoCall
    Call <- TwoCalls
    Permission <- MCPermission
    Subject <- MCSubject
    SubjectOf <- OneSubject
    Limit <- MCLimit
    Lock <- OneLock
    LockOf <- DatabaseLock
    Second = 2
    Retention = 6
    MaxLatency = 2
    MaxClock = 9
SYMMETRY Symmetry
SPECIFICATION Spec
INVARIANTS
    IInv
    SlidingWindow
    CountStaysValid
    LocksHeldInside
PROPERTIES
    AtomicReservation
    PruneSparesWindows
