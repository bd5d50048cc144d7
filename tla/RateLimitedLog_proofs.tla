------------------------ MODULE RateLimitedLog_proofs ------------------------
(***************************************************************************)
(* The transaction of create_rate_limited_signing_log implements the       *)
(* atomic reservation of SlotReservation, for any calls, permissions,      *)
(* limits, retention and clock, under the two hypotheses of                *)
(* RateLimitedLog: locks cover subjects, and windows leave room for the    *)
(* latency of a call before the retention.                                 *)
(***************************************************************************)
EXTENDS RateLimitedLog, FiniteSetTheorems, TLAPS

USE SubjectAssumption, LimitAssumption, LockAssumption, TimeAssumption

\* Cutting to whole seconds loses less than a second, and only downwards.
LEMMA FloorBounds == \A t \in Int : Floor(t) \in Int /\ Floor(t) <= t /\ t - Second < Floor(t)
  BY DEF Floor

\* The stamp and the row of a call that has begun are well formed.
LEMMA RowType ==
    ASSUME TypeOK, NEW c \in Call, pc[c] # "idle"
    PROVE  /\ request[c] \in Request /\ RowOf(c) \in Row
           /\ request[c].at \in Int /\ SubjectOfCall(c) \in Subject
           /\ LockOfCall(c) \in Lock
           /\ Limited(c) => /\ request[c].limit \in Limit
                            /\ request[c].limit.count \in Nat
                            /\ request[c].limit.seconds \in Nat
  BY DEF TypeOK, Request, Row, RowOf, SubjectOfCall, LockOfCall, Limited, Instant

-----------------------------------------------------------------------------
LEMMA InitIInv == Init => IInv
<1> SUFFICES ASSUME Init PROVE IInv
  OBVIOUS
<1> USE DEF Init
<1>1. TypeOK
  BY DEF TypeOK, Instant
<1>2. IsFiniteSet(signed)
  BY FS_EmptySet
<1>3. LocksHeldInside /\ LockedRowsExist /\ CallsArePrompt /\ OnlyOldRowsPruned
  BY DEF LocksHeldInside, LockedRowsExist, CallsArePrompt, OnlyOldRowsPruned, Locked, Pending
<1>4. CountStaysValid
  BY DEF CountStaysValid
<1> QED
  BY <1>1, <1>2, <1>3, <1>4 DEF IInv

\* Every step keeps the tables, the calls and the locks well formed.
LEMMA StepTypeOK == TypeOK /\ [Next]_vars => TypeOK'
<1> SUFFICES ASSUME TypeOK, [Next]_vars PROVE TypeOK'
  OBVIOUS
<1> USE DEF TypeOK, Pending, Locked, Done
<1>1. ASSUME NEW c \in Call, Begin(c) PROVE TypeOK'
  BY <1>1 DEF Begin, Request
<1>2. ASSUME NEW c \in Call, AcquireLock(c) PROVE TypeOK'
  BY <1>2 DEF AcquireLock
<1>3. ASSUME NEW c \in Call, RowGone(c) PROVE TypeOK'
  BY <1>3 DEF RowGone
<1>4. ASSUME NEW c \in Call, CountBelowLimit(c) PROVE TypeOK'
  BY <1>4 DEF CountBelowLimit
<1>5. ASSUME NEW c \in Call, LimitReached(c) PROVE TypeOK'
  BY <1>5 DEF LimitReached, Release
<1>6. ASSUME NEW c \in Call, Commit(c) PROVE TypeOK'
  BY <1>6, RowType DEF Commit, InsertRow, Release
<1>7. ASSUME NEW c \in Call, Rollback(c) PROVE TypeOK'
  BY <1>7 DEF Rollback, Release
<1>8. ASSUME NEW c \in Call, GiveUp(c) PROVE TypeOK'
  BY <1>8 DEF GiveUp
<1>9. ASSUME NEW c \in Call, InsertUnlimited(c) PROVE TypeOK'
  BY <1>9, RowType DEF InsertUnlimited, InsertRow
<1>10. ASSUME NEW p \in Permission, Revoke(p) PROVE TypeOK'
  BY <1>10 DEF Revoke
<1>11. CASE SweepWake
  <2>1. Floor(clock - Retention) \in Int
    BY FloorBounds DEF Instant
  <2> QED
    BY <1>11, <2>1 DEF SweepWake, PruneCutoff
<1>12. CASE SweepDelete
  BY <1>12 DEF SweepDelete
<1>13. CASE SweepFail
  BY <1>13 DEF SweepFail
<1>14. CASE CleanupStart \/ CleanupStop
  BY <1>14 DEF CleanupStart, CleanupStop
<1>15. CASE Tick
  BY <1>15 DEF Tick, Instant
<1>16. CASE UNCHANGED vars
  BY <1>16 DEF vars
<1> QED
  BY <1>1, <1>2, <1>3, <1>4, <1>5, <1>6, <1>7, <1>8, <1>9, <1>10, <1>11, <1>12,
     <1>13, <1>14, <1>15, <1>16 DEF Next, Reserve, Progress, Sweep

\* In every state the tables, the calls and the locks are well formed.
THEOREM TypeCorrect == Spec => []TypeOK
<1>1. Init => TypeOK
  BY InitIInv DEF IInv
<1> QED
  BY <1>1, StepTypeOK, PTL DEF Spec

-----------------------------------------------------------------------------
LEMMA StepFinite ==
    ASSUME IsFiniteSet(signed), [Next]_vars
    PROVE  IsFiniteSet(signed')
<1>1. ASSUME NEW c \in Call, InsertRow(c) PROVE IsFiniteSet(signed')
  BY <1>1, FS_AddElement DEF InsertRow
<1>2. ASSUME signed' = signed PROVE IsFiniteSet(signed')
  BY <1>2
<1> QED
  BY <1>1, <1>2 DEF Next, Reserve, Progress, Sweep, Begin, AcquireLock, RowGone, CountBelowLimit,
     LimitReached, Commit, Rollback, GiveUp, InsertUnlimited, Revoke, SweepWake,
     SweepDelete, SweepFail, CleanupStart, CleanupStop, Tick, vars

(***************************************************************************)
(* A lock passes from nobody to the call that enters and back when that    *)
(* call leaves; a locked row is out of reach of a DELETE.                  *)
(***************************************************************************)
LEMMA StepLocks ==
    ASSUME TypeOK, LocksHeldInside, LockedRowsExist, [Next]_vars
    PROVE  LocksHeldInside' /\ LockedRowsExist'
<1> DEFINE Goal == LocksHeldInside' /\ LockedRowsExist'
<1> USE DEF TypeOK, LocksHeldInside, LockedRowsExist, LockOfCall, Locked, Limited, LockFree, RowMatches
<1>1. ASSUME NEW c \in Call, Begin(c) PROVE Goal
  BY <1>1 DEF Begin
<1>2. ASSUME NEW c \in Call, AcquireLock(c) PROVE Goal
  <2>1. LockOfCall(c) \in Lock
    BY <1>2, RowType DEF AcquireLock
  <2>2. LocksHeldInside'
    BY <1>2, <2>1 DEF AcquireLock
  <2>3. LockedRowsExist'
    BY <1>2 DEF AcquireLock
  <2> QED
    BY <2>2, <2>3
<1>3. ASSUME NEW c \in Call, RowGone(c) PROVE Goal
  BY <1>3 DEF RowGone
<1>4. ASSUME NEW c \in Call, CountBelowLimit(c) PROVE Goal
  BY <1>4 DEF CountBelowLimit
<1>5. ASSUME NEW c \in Call, pc[c] \in Locked, Release(c),
             \E a \in Done : pc' = [pc EXCEPT ![c] = a],
             UNCHANGED <<request, permissions>>
      PROVE  Goal
  <2>1. LockOfCall(c) \in Lock
    BY <1>5, RowType
  <2>2. LocksHeldInside'
    BY <1>5, <2>1 DEF Release, Done
  <2>3. LockedRowsExist'
    BY <1>5 DEF Done
  <2> QED
    BY <2>2, <2>3
<1>6. ASSUME NEW c \in Call, pc[c] = "stamped",
             \E a \in Done : pc' = [pc EXCEPT ![c] = a],
             UNCHANGED <<request, permissions, holder>>
      PROVE  Goal
  BY <1>6 DEF Done
<1>7. ASSUME NEW p \in Permission, Revoke(p) PROVE Goal
  <2>1. LocksHeldInside'
    BY <1>7 DEF Revoke
  <2>2. ASSUME NEW c \in Call, pc[c] \in Locked PROVE request[c].permission # p
    <3>1. holder[LockOfCall(c)] = c /\ c # NoCall
      BY <2>2
    <3> QED
      BY <3>1, <1>7 DEF Revoke
  <2>3. LockedRowsExist'
    BY <1>7, <2>2 DEF Revoke
  <2> QED
    BY <2>1, <2>3
<1>8. ASSUME UNCHANGED <<request, permissions, holder, pc>> PROVE Goal
  BY <1>8
<1> QED
  <2>1. ASSUME NEW c \in Call, LimitReached(c) PROVE Goal
    BY <2>1, <1>5 DEF LimitReached, Done
  <2>2. ASSUME NEW c \in Call, Commit(c) PROVE Goal
    BY <2>2, <1>5 DEF Commit, Done
  <2>3. ASSUME NEW c \in Call, Rollback(c) PROVE Goal
    BY <2>3, <1>5 DEF Rollback, Done
  <2>4. ASSUME NEW c \in Call, GiveUp(c) PROVE Goal
    BY <2>4, <1>6 DEF GiveUp, Done
  <2>5. ASSUME NEW c \in Call, InsertUnlimited(c) PROVE Goal
    BY <2>5, <1>6 DEF InsertUnlimited, Done
  <2>6. ASSUME Sweep \/ Tick \/ UNCHANGED vars PROVE Goal
    BY <2>6, <1>8 DEF Sweep, SweepWake, SweepDelete, SweepFail, CleanupStart, CleanupStop, Tick, vars
  <2> QED
    BY <1>1, <1>2, <1>3, <1>4, <1>7, <2>1, <2>2, <2>3, <2>4, <2>5, <2>6 DEF Next, Reserve, Progress

(***************************************************************************)
(* Stamps stay within MaxLatency of the clock, and a cutoff stays behind   *)
(* the retention, so what is pruned was older still.                       *)
(***************************************************************************)
LEMMA StepTime ==
    ASSUME TypeOK, CallsArePrompt, OnlyOldRowsPruned, [Next]_vars
    PROVE  CallsArePrompt' /\ OnlyOldRowsPruned'
<1> DEFINE Goal == CallsArePrompt' /\ OnlyOldRowsPruned'
<1> USE DEF CallsArePrompt, OnlyOldRowsPruned, Pending, Locked
<1>1. clock \in Int /\ \A e \in signed : e.at \in Int
  BY DEF TypeOK, Instant, Row
<1>2. ASSUME NEW c \in Call, Begin(c) PROVE Goal
  BY <1>1, <1>2 DEF Begin, TypeOK
<1>3. ASSUME NEW c \in Call, UNCHANGED <<request, clock, signed, signing_log, sweep>>,
             pc[c] \in Pending, \E a \in Pending \cup Done : pc' = [pc EXCEPT ![c] = a]
      PROVE  Goal
  BY <1>3 DEF TypeOK, Done
<1>4. ASSUME NEW c \in Call, UNCHANGED <<request, clock, sweep>>, InsertRow(c),
             pc[c] \in Pending, \E a \in Done : pc' = [pc EXCEPT ![c] = a]
      PROVE  Goal
  <2>1. CallsArePrompt'
    BY <1>4 DEF TypeOK, Done
  <2>2. OnlyOldRowsPruned'
    BY <1>4 DEF InsertRow
  <2> QED
    BY <2>1, <2>2
<1>5. CASE SweepWake
  <2>1. Floor(clock - Retention) <= clock - Retention
    BY <1>1, FloorBounds
  <2> QED
    BY <1>5, <2>1 DEF SweepWake, PruneCutoff
<1>6. CASE SweepDelete
  <2>1. ASSUME NEW e \in signed \ signing_log', e \in signing_log
        PROVE  e.at < clock - Retention
    <3>1. PICK t \in sweep : e.at < t
      BY <1>6, <2>1 DEF SweepDelete
    <3>2. t <= clock - Retention /\ t \in Int
      BY <3>1 DEF TypeOK
    <3> QED
      BY <1>1, <3>1, <3>2
  <2> QED
    BY <1>6, <2>1 DEF SweepDelete
<1>7. CASE Tick
  <2>1. CallsArePrompt'
    <3>1. clock' = clock + 1 /\ pc' = pc /\ request' = request
      BY <1>7 DEF Tick
    <3> SUFFICES ASSUME NEW c \in Call, pc'[c] \in Pending
                 PROVE  request'[c].at <= clock' /\ clock' - request'[c].at <= MaxLatency
      OBVIOUS
    <3>2. request[c].at \in Int
      BY <3>1, RowType
    <3>3. request[c].at <= clock /\ clock - request[c].at < MaxLatency
      BY <3>1, <1>7 DEF Tick
    <3> QED
      BY <1>1, <3>1, <3>2, <3>3
  <2>2. OnlyOldRowsPruned'
    BY <1>1, <1>7 DEF Tick, TypeOK
  <2> QED
    BY <2>1, <2>2
<1>8. ASSUME UNCHANGED <<request, pc, clock, signed, signing_log, sweep>> PROVE Goal
  BY <1>8
<1>9. CASE SweepFail
  BY <1>9 DEF SweepFail
<1> QED
  <2>1. ASSUME NEW c \in Call, Reserve(c) PROVE Goal
    <3>1. ASSUME AcquireLock(c) \/ RowGone(c) \/ CountBelowLimit(c) \/ LimitReached(c)
                 \/ Rollback(c) \/ GiveUp(c)
          PROVE  Goal
      BY <3>1, <1>3 DEF AcquireLock, RowGone, CountBelowLimit, LimitReached, Rollback, GiveUp, Done
    <3>2. ASSUME Commit(c) \/ InsertUnlimited(c) PROVE Goal
      BY <3>2, <1>4 DEF Commit, InsertUnlimited, Done
    <3> QED
      BY <2>1, <3>1, <3>2 DEF Reserve, Progress
  <2>2. ASSUME NEW p \in Permission, Revoke(p) PROVE Goal
    BY <2>2, <1>8 DEF Revoke
  <2>3. ASSUME CleanupStart \/ CleanupStop \/ UNCHANGED vars PROVE Goal
    BY <2>3, <1>8 DEF CleanupStart, CleanupStop, vars
  <2> QED
    BY <1>2, <1>5, <1>6, <1>7, <1>9, <2>1, <2>2, <2>3 DEF Next, Sweep

-----------------------------------------------------------------------------
(***************************************************************************)
(* What a call must count, it finds: a reservation young enough to be in   *)
(* its window cannot have been pruned while the call is under way. So a    *)
(* count below the limit is a count of the history below the limit.        *)
(***************************************************************************)
LEMMA CountSeesWindow ==
    ASSUME IInv, WindowsWithinRetention, NEW c \in Call, pc[c] \in Locked
    PROVE  SR!SignedAfter(SR!Reservations, SubjectOfCall(c), SR!WindowStart(c)) \subseteq Recent(c)
<1> SUFFICES ASSUME NEW e \in signed, e.subject = SubjectOfCall(c),
                    e.at > request[c].at - request[c].limit.seconds
             PROVE  e \in signing_log /\ e.at > Cutoff(c)
  BY DEF SR!SignedAfter, SR!Reservations, SR!WindowStart, Recent
<1>1. /\ request[c].at \in Int /\ request[c].limit \in Limit
      /\ request[c].limit.seconds \in Nat
  BY RowType DEF IInv, Locked, LockedRowsExist
<1>2. e.at \in Int /\ clock \in Int
  BY DEF IInv, TypeOK, Row, Instant
<1>3. e.at > Cutoff(c)
  <2>1. /\ Cutoff(c) <= request[c].at - request[c].limit.seconds
        /\ Cutoff(c) \in Int
    BY <1>1, FloorBounds DEF Cutoff
  <2> QED
    BY <1>1, <1>2, <2>1
<1>4. e \in signing_log
  <2> SUFFICES ASSUME e \notin signing_log PROVE FALSE
    OBVIOUS
  <2>1. e.at < clock - Retention
    BY DEF IInv, OnlyOldRowsPruned
  <2>2. clock - request[c].at <= MaxLatency
    BY DEF IInv, CallsArePrompt, Pending
  <2>3. request[c].limit.seconds + MaxLatency <= Retention
    BY <1>1 DEF WindowsWithinRetention
  <2> QED
    BY <1>1, <1>2, <2>1, <2>2, <2>3
<1> QED
  BY <1>3, <1>4

LEMMA RecentFinite ==
    ASSUME IInv, NEW c \in Call
    PROVE  IsFiniteSet(Recent(c)) /\ Cardinality(Recent(c)) \in Nat
<1>1. Recent(c) \subseteq signed
  BY DEF Recent, IInv, TypeOK
<1> QED
  BY <1>1, FS_Subset, FS_CardinalityType DEF IInv

\* Cardinality is the same operator in the instance.
LEMMA SameCardinality == \A S : SR!Cardinality(S) = Cardinality(S)
  BY DEF SR!Cardinality, Cardinality

LEMMA CountIsReservation ==
    ASSUME IInv, WindowsWithinRetention, NEW c \in Call, CountBelowLimit(c)
    PROVE  SR!MayReserve(c)
<1> DEFINE S == SR!SignedAfter(SR!Reservations, SubjectOfCall(c), SR!WindowStart(c))
<1>1. pc[c] \in Locked
  BY DEF CountBelowLimit, Locked
<1>2. S \subseteq Recent(c)
  BY <1>1, CountSeesWindow
<1>3. Cardinality(S) <= Cardinality(Recent(c)) /\ IsFiniteSet(S)
  BY <1>2, RecentFinite, FS_Subset
<1>4. Cardinality(S) \in Nat
  BY <1>3, FS_CardinalityType
<1>5. request[c].limit.count \in Nat
  BY <1>1, RowType DEF IInv, LockedRowsExist, Locked
<1>6. Cardinality(S) < request[c].limit.count
  <2> HIDE DEF S
  <2> QED
    BY <1>3, <1>4, <1>5, RecentFinite DEF CountBelowLimit, BelowLimit
<1>7. request[c].permission \in permissions
  BY <1>1 DEF IInv, LockedRowsExist
<1> QED
  BY <1>6, <1>7, SameCardinality DEF SR!MayReserve, SR!SubjectOfCall, SubjectOfCall

(***************************************************************************)
(* A count stays valid until its call leaves: another reservation of the   *)
(* same subject would need the same lock, a prune and an unlimited signing *)
(* add no reservation, and the row cannot be revoked.                      *)
(***************************************************************************)
LEMMA StepCount ==
    ASSUME IInv, LocksCoverSubjects, WindowsWithinRetention, [Next]_vars, LockedRowsExist'
    PROVE  CountStaysValid'
<1> SUFFICES ASSUME NEW c \in Call, pc'[c] = "counted" PROVE SR!MayReserve(c)'
  BY DEF CountStaysValid
<1>1. request'[c].permission \in permissions'
  BY DEF LockedRowsExist, Locked
<1> DEFINE Window == SR!SignedAfter(SR!Reservations, SubjectOfCall(c), SR!WindowStart(c))
<1>2. ASSUME request'[c] = request[c], Window' = Window, SR!MayReserve(c) PROVE SR!MayReserve(c)'
  BY <1>1, <1>2 DEF SR!MayReserve, SR!SubjectOfCall, SubjectOfCall
<1>3. ASSUME request' = request, signed' = signed, pc[c] = "counted" PROVE SR!MayReserve(c)'
  <2>1. SR!MayReserve(c)
    BY <1>3 DEF IInv, CountStaysValid
  <2>2. Window' = Window
    BY <1>3 DEF SR!SignedAfter, SR!Reservations, SR!WindowStart, SubjectOfCall
  <2> QED
    BY <1>2, <1>3, <2>1, <2>2
<1>4. ASSUME NEW d \in Call, d # c, pc[c] = "counted", Commit(d) PROVE SR!MayReserve(c)'
  <2>1. SubjectOfCall(d) # SubjectOfCall(c)
    <3> SUFFICES ASSUME SubjectOfCall(d) = SubjectOfCall(c) PROVE FALSE
      OBVIOUS
    <3>1. request[c].permission \in Permission /\ request[d].permission \in Permission
      BY <1>4, RowType DEF IInv, Commit, Request
    <3>2. LockOfCall(d) = LockOfCall(c)
      BY <3>1 DEF LocksCoverSubjects, SubjectOfCall, LockOfCall
    <3>3. holder[LockOfCall(c)] = c /\ holder[LockOfCall(d)] = d
      BY <1>4 DEF IInv, LocksHeldInside, Locked, Commit
    <3> QED
      BY <1>4, <3>2, <3>3
  <2>2. Window' = Window
    BY <1>4, <2>1 DEF Commit, InsertRow, RowOf, SR!SignedAfter, SR!Reservations,
       SR!WindowStart, SubjectOfCall
  <2>3. SR!MayReserve(c) /\ request' = request
    BY <1>4 DEF IInv, CountStaysValid, Commit
  <2> QED
    BY <1>2, <2>2, <2>3
<1>5. ASSUME NEW d \in Call, InsertUnlimited(d) PROVE SR!MayReserve(c)'
  <2>1. pc[c] = "counted" /\ request' = request
    BY <1>5 DEF InsertUnlimited, IInv, TypeOK
  <2>2. Window' = Window
    BY <1>5 DEF InsertUnlimited, InsertRow, RowOf, Limited, SR!SignedAfter, SR!Reservations,
       SR!WindowStart, SubjectOfCall
  <2>3. SR!MayReserve(c)
    BY <2>1 DEF IInv, CountStaysValid
  <2> QED
    BY <1>2, <2>1, <2>2, <2>3
<1>6. ASSUME NEW d \in Call, Begin(d) PROVE SR!MayReserve(c)'
  <2>1. pc[c] = "counted" /\ d # c /\ request'[c] = request[c] /\ signed' = signed
    BY <1>6 DEF Begin, IInv, TypeOK
  <2>2. Window' = Window
    BY <2>1 DEF SR!SignedAfter, SR!Reservations, SR!WindowStart, SubjectOfCall
  <2>3. SR!MayReserve(c)
    BY <2>1 DEF IInv, CountStaysValid
  <2> QED
    BY <1>2, <2>1, <2>2, <2>3
<1>7. ASSUME NEW d \in Call, CountBelowLimit(d), d = c PROVE SR!MayReserve(c)'
  <2>1. SR!MayReserve(c)
    BY <1>7, CountIsReservation
  <2>2. request' = request /\ signed' = signed
    BY <1>7 DEF CountBelowLimit
  <2>3. Window' = Window
    BY <2>2 DEF SR!SignedAfter, SR!Reservations, SR!WindowStart, SubjectOfCall
  <2> QED
    BY <1>2, <2>1, <2>2, <2>3
<1> QED
  <2> USE DEF IInv, TypeOK
  <2>1. ASSUME NEW d \in Call, Reserve(d) PROVE SR!MayReserve(c)'
    <3>1. CASE AcquireLock(d) \/ RowGone(d) \/ GiveUp(d)
      BY <1>3, <3>1 DEF AcquireLock, RowGone, GiveUp
    <3>2. CASE LimitReached(d) \/ Rollback(d)
      BY <1>3, <3>2 DEF LimitReached, Rollback
    <3>3. CASE CountBelowLimit(d)
      BY <1>3, <1>7, <3>3 DEF CountBelowLimit
    <3>4. CASE Commit(d)
      BY <1>4, <3>4 DEF Commit
    <3> QED
      BY <1>5, <2>1, <3>1, <3>2, <3>3, <3>4 DEF Reserve, Progress
  <2>2. ASSUME NEW p \in Permission, Revoke(p) PROVE SR!MayReserve(c)'
    BY <1>3, <2>2 DEF Revoke
  <2>3. CASE Sweep \/ Tick \/ UNCHANGED vars
    BY <1>3, <2>3 DEF Sweep, SweepWake, SweepDelete, SweepFail, CleanupStart, CleanupStop, Tick, vars
  <2> QED
    BY <1>6, <2>1, <2>2, <2>3 DEF Next

LEMMA StepIInv ==
    ASSUME LocksCoverSubjects, WindowsWithinRetention
    PROVE  IInv /\ [Next]_vars => IInv'
<1> SUFFICES ASSUME IInv, [Next]_vars PROVE IInv'
  OBVIOUS
<1>1. TypeOK' /\ IsFiniteSet(signed)'
  BY StepTypeOK, StepFinite DEF IInv
<1>2. LocksHeldInside' /\ LockedRowsExist'
  BY StepLocks DEF IInv
<1>3. CallsArePrompt' /\ OnlyOldRowsPruned'
  BY StepTime DEF IInv
<1>4. CountStaysValid'
  BY <1>2, StepCount
<1> QED
  BY <1>1, <1>2, <1>3, <1>4 DEF IInv

\* The invariant holds in every state, under the two hypotheses.
THEOREM Invariance ==
    ASSUME LocksCoverSubjects, WindowsWithinRetention
    PROVE  Spec => []IInv
  BY InitIInv, StepIInv, PTL DEF Spec

\* A count stays valid until its transaction ends: what the no-op UPDATE of the
\* permission row is there for.
THEOREM CountsStayValid ==
    ASSUME LocksCoverSubjects, WindowsWithinRetention
    PROVE  Spec => []CountStaysValid
<1>1. IInv => CountStaysValid
  BY DEF IInv
<1> QED
  BY <1>1, Invariance, PTL

\* No call that is over leaves a row locked; this needs neither hypothesis.
THEOREM LocksAreReleased == Spec => []LocksHeldInside
<1> DEFINE Inv == TypeOK /\ LocksHeldInside /\ LockedRowsExist
<1>1. Init => Inv
  BY InitIInv DEF IInv
<1>2. Inv /\ [Next]_vars => Inv'
  BY StepTypeOK, StepLocks
<1> QED
  BY <1>1, <1>2, PTL DEF Spec

\* A step that removes a row removes none that a call under way would count.
LEMMA StepSparesWindows ==
    ASSUME IInv, WindowsWithinRetention, [Next]_vars,
           NEW e \in signing_log \ signing_log', NEW c \in Call, pc[c] \in Pending, Limited(c)
    PROVE  e.at <= request[c].at - request[c].limit.seconds
<1>1. SweepDelete
  BY DEF Next, Reserve, Progress, Sweep, Begin, AcquireLock, RowGone, CountBelowLimit, LimitReached,
     Commit, InsertRow, Rollback, GiveUp, InsertUnlimited, Revoke, SweepWake, SweepFail,
     CleanupStart, CleanupStop, Tick, vars
<1>2. PICK t \in sweep : e.at < t
  BY <1>1 DEF SweepDelete
<1>3. t <= clock - Retention /\ t \in Int /\ clock \in Int /\ e.at \in Int
  BY <1>2 DEF IInv, OnlyOldRowsPruned, TypeOK, Instant, Row
<1>4. /\ request[c].at \in Int /\ request[c].limit \in Limit
      /\ request[c].limit.seconds \in Nat
  BY RowType DEF IInv, Pending, Locked
<1>5. clock - request[c].at <= MaxLatency
  BY DEF IInv, CallsArePrompt
<1>6. request[c].limit.seconds + MaxLatency <= Retention
  BY <1>4 DEF WindowsWithinRetention
<1> QED
  BY <1>2, <1>3, <1>4, <1>5, <1>6

\* The hourly prune never takes a row out of a window somebody is about to count.
THEOREM PrunesSpareWindows ==
    ASSUME LocksCoverSubjects, WindowsWithinRetention
    PROVE  Spec => PruneSparesWindows
<1>1. IInv /\ [Next]_vars =>
        [\A e \in signing_log \ signing_log', c \in Call :
            pc[c] \in Pending /\ Limited(c)
                => e.at <= request[c].at - request[c].limit.seconds]_vars
  BY StepSparesWindows
<1> QED
  BY <1>1, Invariance, PTL DEF Spec, PruneSparesWindows

-----------------------------------------------------------------------------
(***************************************************************************)
(* Refinement: each step of the transaction is a step of SlotReservation   *)
(* or a stutter.                                                           *)
(***************************************************************************)
OutcomeBar == [c \in Call |-> OutcomeOf(c)]

LEMMA InitRefines == Init => SR!Init
  BY DEF Init, SR!Init, OutcomeOf, Pending, Locked

\* What the callers see of one call's step.
LEMMA OutcomeStep ==
    ASSUME TypeOK, NEW c \in Call, NEW a, pc' = [pc EXCEPT ![c] = a]
    PROVE  /\ a \in Pending => OutcomeBar' = [OutcomeBar EXCEPT ![c] = "asked"]
           /\ a \in Done => OutcomeBar' = [OutcomeBar EXCEPT ![c] = a]
           /\ a \in Pending /\ pc[c] \in Pending => OutcomeBar' = OutcomeBar
<1> USE DEF TypeOK, OutcomeBar, OutcomeOf, Pending, Locked, Done
<1>1. a \in Pending => OutcomeBar' = [OutcomeBar EXCEPT ![c] = "asked"]
  OBVIOUS
<1>2. a \in Done => OutcomeBar' = [OutcomeBar EXCEPT ![c] = a]
  OBVIOUS
<1>3. a \in Pending /\ pc[c] \in Pending => OutcomeBar' = OutcomeBar
  OBVIOUS
<1> QED
  BY <1>1, <1>2, <1>3

\* A call under way has asked.
LEMMA PendingAsked ==
    ASSUME NEW c \in Call, pc[c] \in Pending
    PROVE  OutcomeBar[c] = "asked"
  BY DEF OutcomeBar, OutcomeOf

\* A full count is a full window of the history, widened by the cut second.
LEMMA RefusalIsJustified ==
    ASSUME IInv, NEW c \in Call, LimitReached(c)
    PROVE  SR!MayRefuse(c)
<1> DEFINE S == SR!SignedAfter(signed, SubjectOfCall(c), SR!WindowStart(c) - Second)
<1>1. /\ request[c].at \in Int /\ request[c].limit.seconds \in Nat
      /\ request[c].limit.count \in Nat
  BY RowType DEF LimitReached, IInv, LockedRowsExist, Locked
<1>2. SR!WindowStart(c) - Second < Cutoff(c) /\ Cutoff(c) \in Int
  BY <1>1, FloorBounds DEF Cutoff, SR!WindowStart
<1>3. Recent(c) \subseteq S
  <2> SUFFICES ASSUME NEW e \in signing_log, e.subject = SubjectOfCall(c), e.at > Cutoff(c)
               PROVE  e \in S
    BY DEF Recent
  <2>1. e \in signed /\ e.at \in Int
    BY DEF IInv, TypeOK, Row, Instant
  <2>2. e.at > SR!WindowStart(c) - Second
    BY <1>1, <1>2, <2>1 DEF SR!WindowStart
  <2> QED
    BY <2>1, <2>2 DEF SR!SignedAfter
<1>4. IsFiniteSet(S)
  <2>1. S \subseteq signed
    BY DEF SR!SignedAfter
  <2> QED
    BY <2>1, FS_Subset DEF IInv
<1>5. Cardinality(Recent(c)) <= Cardinality(S) /\ Cardinality(S) \in Nat
  BY <1>3, <1>4, FS_Subset, FS_CardinalityType
<1>6. Cardinality(S) >= request[c].limit.count
  <2> HIDE DEF S
  <2> QED
    BY <1>1, <1>5, RecentFinite DEF LimitReached, BelowLimit
<1> QED
  BY <1>6, SameCardinality DEF SR!MayRefuse, SR!SubjectOfCall, SubjectOfCall

LEMMA StepRefines ==
    ASSUME IInv, [Next]_vars
    PROVE  [SR!Next]_(SR!vars)
<1> USE DEF OutcomeBar
<1> DEFINE Goal == [SR!Next]_(SR!vars)
<1>0. TypeOK
  BY DEF IInv
<1>1. ASSUME UNCHANGED <<permissions, request, signed, OutcomeBar>> PROVE Goal
  BY <1>1 DEF SR!vars
<1>2. ASSUME NEW c \in Call, Begin(c) PROVE Goal
  <2>1. OutcomeBar' = [OutcomeBar EXCEPT ![c] = "asked"]
    BY <1>0, <1>2, OutcomeStep DEF Begin, Pending
  <2>2. OutcomeBar[c] = "idle"
    BY <1>2 DEF Begin, OutcomeOf, Pending, Locked
  <2>3. \E r \in SR!Request : request' = [request EXCEPT ![c] = r]
    BY <1>0, <1>2 DEF Begin, SR!Request, TypeOK
  <2>4. SR!Ask(c)
    BY <1>2, <2>1, <2>2, <2>3 DEF Begin, SR!Ask
  <2> QED
    BY <2>4 DEF SR!Next
<1>3. ASSUME NEW c \in Call, AcquireLock(c) \/ CountBelowLimit(c) PROVE Goal
  <2>1. OutcomeBar' = OutcomeBar
    BY <1>0, <1>3, OutcomeStep DEF AcquireLock, CountBelowLimit, Pending, Locked
  <2> QED
    BY <1>1, <1>3, <2>1 DEF AcquireLock, CountBelowLimit
<1>4. ASSUME NEW c \in Call, RowGone(c) \/ LimitReached(c) PROVE Goal
  <2>1. OutcomeBar' = [OutcomeBar EXCEPT ![c] = "refused"]
    BY <1>0, <1>4, OutcomeStep DEF RowGone, LimitReached, Done
  <2>2. OutcomeBar[c] = "asked"
    BY <1>4, PendingAsked DEF RowGone, LimitReached, Pending, Locked
  <2>3. SR!MayRefuse(c)
    BY <1>4, RefusalIsJustified DEF RowGone, RowMatches, SR!MayRefuse
  <2>4. request[c].limit # Unlimited
    BY <1>4 DEF RowGone, LimitReached, Limited, IInv, LockedRowsExist, Locked
  <2>5. SR!Refuse(c)
    BY <1>4, <2>1, <2>2, <2>3, <2>4 DEF RowGone, LimitReached, SR!Refuse
  <2> QED
    BY <2>5 DEF SR!Next
<1>5. ASSUME NEW c \in Call, Commit(c) \/ InsertUnlimited(c) PROVE Goal
  <2>1. \E answer \in {"signed", "failed"} : OutcomeBar' = [OutcomeBar EXCEPT ![c] = answer]
    <3>1. PICK answer \in {"signed", "failed"} : pc' = [pc EXCEPT ![c] = answer]
      BY <1>5 DEF Commit, InsertUnlimited
    <3>2. OutcomeBar' = [OutcomeBar EXCEPT ![c] = answer]
      BY <1>0, <3>1, OutcomeStep DEF Done
    <3> QED
      BY <3>2
  <2>2. OutcomeBar[c] = "asked"
    BY <1>5, PendingAsked DEF Commit, InsertUnlimited, Pending, Locked
  <2>3. request[c].limit # Unlimited => SR!MayReserve(c)
    BY <1>5 DEF Commit, InsertUnlimited, Limited, IInv, CountStaysValid
  <2>4. signed' = signed \cup {SR!SigningOf(c)}
    BY <1>5 DEF Commit, InsertUnlimited, InsertRow, RowOf, SubjectOfCall, SR!SigningOf
  <2>5. SR!Record(c)
    BY <1>5, <2>1, <2>2, <2>3, <2>4 DEF Commit, InsertUnlimited, SR!Record
  <2> QED
    BY <2>5 DEF SR!Next
<1>6. ASSUME NEW c \in Call, Rollback(c) \/ GiveUp(c) PROVE Goal
  <2>1. OutcomeBar' = [OutcomeBar EXCEPT ![c] = "failed"]
    BY <1>0, <1>6, OutcomeStep DEF Rollback, GiveUp, Done
  <2>2. OutcomeBar[c] = "asked"
    BY <1>6, PendingAsked DEF Rollback, GiveUp, Pending, Locked
  <2>3. SR!Fail(c)
    BY <1>6, <2>1, <2>2 DEF Rollback, GiveUp, SR!Fail
  <2> QED
    BY <2>3 DEF SR!Next
<1>7. ASSUME NEW p \in Permission, Revoke(p) PROVE Goal
  <2>1. OutcomeBar' = OutcomeBar
    BY <1>7 DEF Revoke, OutcomeOf
  <2>2. SR!Revoke(p)
    BY <1>7, <2>1 DEF Revoke, SR!Revoke
  <2> QED
    BY <1>7, <2>2 DEF SR!Next
<1>8. CASE Sweep \/ Tick \/ UNCHANGED vars
  <2>1. UNCHANGED <<permissions, request, signed, pc>>
    BY <1>8 DEF Sweep, SweepWake, SweepDelete, SweepFail, CleanupStart, CleanupStop, Tick, vars
  <2>2. OutcomeBar' = OutcomeBar
    BY <2>1 DEF OutcomeOf
  <2> QED
    BY <1>1, <2>1, <2>2
<1> QED
  BY <1>2, <1>3, <1>4, <1>5, <1>6, <1>7, <1>8 DEF Next, Reserve, Progress

\* create_rate_limited_signing_log does what its docstring says: it reserves a slot
\* and records the signing as if in one step.
THEOREM Atomicity ==
    ASSUME LocksCoverSubjects, WindowsWithinRetention
    PROVE  Spec => AtomicReservation
<1>1. Init => SR!Init
  BY InitRefines
<1>2. IInv /\ [Next]_vars => [SR!Next]_(SR!vars)
  BY StepRefines
<1> QED
  BY <1>1, <1>2, Invariance, PTL DEF Spec, AtomicReservation, SR!Spec

-----------------------------------------------------------------------------
(***************************************************************************)
(* So what SlotReservation_proofs shows of the promise holds of the log.   *)
(***************************************************************************)
SRP == INSTANCE SlotReservation_proofs WITH outcome <- [c \in Call |-> OutcomeOf(c)]

LEMMA SameCardinalityP == \A S : SRP!Cardinality(S) = Cardinality(S)
  BY DEF SRP!Cardinality, Cardinality

LEMMA SameWindow == SRP!SlidingWindow <=> SlidingWindow
  BY SameCardinality, SameCardinalityP DEF SRP!SlidingWindow, SRP!InWindow, SRP!Reservations,
     SRP!AtLeastAsStrict, SlidingWindow, SR!SlidingWindow, SR!InWindow, SR!Reservations,
     SR!AtLeastAsStrict

LEMMA SameInit == SR!Init => SRP!Init
  BY DEF SR!Init, SRP!Init

LEMMA SameNext == [SR!Next]_(SR!vars) => [SRP!Next]_(SRP!vars)
<1> SUFFICES ASSUME [SR!Next]_(SR!vars) PROVE [SRP!Next]_(SRP!vars)
  OBVIOUS
<1>1. ASSUME UNCHANGED SR!vars PROVE UNCHANGED SRP!vars
  BY <1>1 DEF SR!vars, SRP!vars
<1>2. ASSUME NEW c \in Call, SR!Ask(c) PROVE SRP!Ask(c)
  BY <1>2 DEF SR!Ask, SRP!Ask, SR!Request, SRP!Request
<1>3. ASSUME NEW c \in Call, SR!Record(c) PROVE SRP!Record(c)
  BY <1>3, SameCardinality, SameCardinalityP DEF SR!Record, SRP!Record, SR!MayReserve,
     SRP!MayReserve, SR!SigningOf, SRP!SigningOf, SR!SignedAfter, SRP!SignedAfter,
     SR!Reservations, SRP!Reservations, SR!SubjectOfCall, SRP!SubjectOfCall,
     SR!WindowStart, SRP!WindowStart
<1>4. ASSUME NEW c \in Call, SR!Refuse(c) PROVE SRP!Refuse(c)
  BY <1>4, SameCardinality, SameCardinalityP DEF SR!Refuse, SRP!Refuse, SR!MayRefuse,
     SRP!MayRefuse, SR!SignedAfter, SRP!SignedAfter, SR!SubjectOfCall, SRP!SubjectOfCall,
     SR!WindowStart, SRP!WindowStart
<1>5. ASSUME NEW c \in Call, SR!Fail(c) PROVE SRP!Fail(c)
  BY <1>5 DEF SR!Fail, SRP!Fail
<1>6. ASSUME NEW p \in Permission, SR!Revoke(p) PROVE SRP!Revoke(p)
  BY <1>6 DEF SR!Revoke, SRP!Revoke
<1> QED
  BY <1>1, <1>2, <1>3, <1>4, <1>5, <1>6 DEF SR!Next, SRP!Next

\* At most count signings fall into any interval of seconds, for every limit an
\* operator may set and every interleaving of calls, revocations and prunes.
THEOREM WindowsHold ==
    ASSUME LocksCoverSubjects, WindowsWithinRetention
    PROVE  Spec => []SlidingWindow
<1>1. SR!Spec => SRP!Spec
  BY SameInit, SameNext, PTL DEF SR!Spec, SRP!Spec
<1>2. SRP!Spec => []SRP!SlidingWindow
  <2>1. Instant \subseteq Int /\ Second \in Nat \ {0}
    BY DEF Instant
  <2>2. SRP!SubjectAssumption /\ SRP!LimitAssumption /\ SRP!ClockAssumption
    BY <2>1 DEF SRP!SubjectAssumption, SRP!LimitAssumption, SRP!ClockAssumption
  <2> QED
    BY <2>2, SRP!WindowsHold
<1>3. SRP!SlidingWindow => SlidingWindow
  BY SameWindow
<1> QED
  BY <1>1, <1>2, <1>3, Atomicity, PTL DEF AtomicReservation

=============================================================================
