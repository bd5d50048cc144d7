------------------------- MODULE MCRateLimitedLog -------------------------
(* Instances of RateLimitedLog: two calls on two permission rows of one    *)
(* subject, under row locks and under a database lock.                     *)
EXTENDS RateLimitedLog, TLC

CONSTANTS c1, c2, p1, p2, s1, database

TwoCalls == {c1, c2}
MCPermission == {p1, p2}
MCSubject == {s1}

\* Both rows name the same triple.
OneSubject == p1 :> s1 @@ p2 :> s1

RowLock == [p \in MCPermission |-> p]
DatabaseLock == [p \in MCPermission |-> database]
RowLocks == MCPermission
OneLock == {database}

OneInTwoTicks == [count |-> 1, seconds |-> 2]
TwoInFourTicks == [count |-> 2, seconds |-> 4]
MCLimit == {OneInTwoTicks, TwoInFourTicks}
StrictLimit == {OneInTwoTicks}

\* Calls are alike; so are two rows of one subject under one lock.
Symmetry == Permutations(TwoCalls) \cup Permutations(MCPermission)

=============================================================================
