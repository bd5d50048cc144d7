CONSTANTS
    c1 = c1
    c2 = c2
    c3 = c3
    p1 = p1
    p2 = p2
    s1 = s1
    Unlimited = Unlimited
    Second = 1
    Call <- MCCall
    Permission <- MCPermission
    Subject <- MCSubject
    SubjectOf <- MCSubjectOf
    Limit <- MCLimit
    Instant <- MCInstant
SYMMETRY CallSymmetry
SPECIFICATION Spec
INVARIANTS
    TypeOK
    SlidingWindow
CHECK_DEADLOCK FALSE
