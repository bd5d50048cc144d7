-------------------------- MODULE RateLimitedLog --------------------------
(***************************************************************************)
(* The signing log of crud.py as the code keeps it: the rate-limited       *)
(* reservation is a transaction of three statements behind a row lock, the *)
(* unlimited signing is a bare INSERT, permissions are revoked meanwhile   *)
(* and the hourly task of tasks.py prunes old rows.                        *)
(*                                                                         *)
(* Every await on the database ends a step; a statement is atomic, and a   *)
(* COUNT sees what is committed (READ COMMITTED). Each call takes its      *)
(* stamp and its cutoff before it waits for the lock.                      *)
(*                                                                         *)
(* LockOf says what the no-op UPDATE of the permission row excludes: its   *)
(* row under PostgreSQL, the whole database under SQLite.                  *)
(***************************************************************************)
EXTENDS Integers, FiniteSets

CONSTANTS
    Call, Permission, Subject, SubjectOf, Limit, Unlimited, Second,
    Lock,         \* the locks the database hands out
    LockOf,       \* the lock an UPDATE of a permission row takes
    NoCall,       \* the holder of a free lock
    Retention,    \* LOG_RETENTION_DAYS, in ticks
    MaxLatency,   \* ticks a call may be under way: waiting for connection and lock included
    MaxClock      \* bound on the clock

Instant == 0..MaxClock

ASSUME SubjectAssumption == SubjectOf \in [Permission -> Subject]
ASSUME LimitAssumption ==
    /\ \A l \in Limit : l.count \in Nat \ {0} /\ l.seconds \in Nat \ {0}
    /\ Unlimited \notin Limit
ASSUME LockAssumption == LockOf \in [Permission -> Lock] /\ NoCall \notin Call
ASSUME TimeAssumption ==
    /\ Second \in Nat \ {0} /\ Retention \in Nat /\ MaxLatency \in Nat
    /\ MaxClock \in Nat

Request == [permission : Permission, limit : Limit \cup {Unlimited}, at : Instant]

Row == [call : Call, subject : Subject, limit : Limit \cup {Unlimited}, at : Instant]

VARIABLES
    clock,        \* time.time() and datetime.now(), in ticks
    permissions,  \* the rows of the permissions table
    signing_log,  \* the rows of the signing_log table
    request,      \* what each call was given, and its stamp
    pc,           \* where each call is
    holder,       \* which call holds each lock
    cleanup,      \* whether the cleanup task is running
    sweep,        \* the cutoff of the prune under way; empty while the task sleeps
    signed        \* history: every row ever committed, pruned or not

vars == <<clock, permissions, signing_log, request, pc, holder, cleanup, sweep, signed>>

Locked == {"locked", "counted"}
Pending == {"stamped"} \cup Locked
Done == {"signed", "refused", "failed"}

SubjectOfCall(c) == SubjectOf[request[c].permission]
LockOfCall(c) == LockOf[request[c].permission]
Limited(c) == request[c].limit # Unlimited

\* int(t): a cutoff is cut to whole seconds, a row's stamp is not.
Floor(t) == (t \div Second) * Second

Cutoff(c) == Floor(request[c].at - request[c].limit.seconds)

\* The COUNT of create_rate_limited_signing_log.
Recent(c) == {e \in signing_log : e.subject = SubjectOfCall(c) /\ e.at > Cutoff(c)}

\* Seeded fault: ">" where the code has ">=".
BelowLimit_OffByOne(c) == Cardinality(Recent(c)) <= request[c].limit.count

BelowLimit(c) == Cardinality(Recent(c)) < request[c].limit.count

\* The SigningLog row a call inserts.
RowOf(c) == [call |-> c, subject |-> SubjectOfCall(c), limit |-> request[c].limit,
             at |-> request[c].at]

TypeOK ==
    /\ clock \in Instant
    /\ permissions \subseteq Permission
    /\ signing_log \subseteq signed
    /\ signed \subseteq Row
    /\ pc \in [Call -> {"idle"} \cup Pending \cup Done]
    /\ request \in [Call -> Request \cup {<<>>}]
    /\ \A c \in Call : pc[c] # "idle" => request[c] \in Request
    /\ holder \in [Lock -> Call \cup {NoCall}]
    /\ cleanup \in {"running", "stopped"}
    /\ sweep \subseteq Int

Init ==
    /\ clock = 0
    /\ permissions = Permission
    /\ signing_log = {}
    /\ request = [c \in Call |-> <<>>]
    /\ pc = [c \in Call |-> "idle"]
    /\ holder = [k \in Lock |-> NoCall]
    /\ cleanup = "stopped"
    /\ sweep = {}
    /\ signed = {}

-----------------------------------------------------------------------------
(***************************************************************************)
(* create_rate_limited_signing_log, and create_signing_log for a row with  *)
(* no limit: the row is stamped first, then the call turns to the database.*)
(***************************************************************************)
Begin(c) ==
    /\ pc[c] = "idle"
    /\ \E p \in Permission, l \in Limit \cup {Unlimited} :
          request' = [request EXCEPT ![c] = [permission |-> p, limit |-> l, at |-> clock]]
    /\ pc' = [pc EXCEPT ![c] = "stamped"]
    /\ UNCHANGED <<clock, permissions, signing_log, holder, sweep, signed, cleanup>>

\* Seeded fault: a statement that takes no lock.
LockFree_NoLock(c) == TRUE

LockFree(c) == holder[LockOfCall(c)] = NoCall

\* Seeded fault: the row count of the UPDATE goes unchecked.
RowMatches_Unchecked(c) == TRUE

RowMatches(c) == request[c].permission \in permissions

\* The UPDATE finds its row and locks it, once nobody else has it.
AcquireLock(c) ==
    /\ pc[c] = "stamped" /\ Limited(c)
    /\ LockFree(c) /\ RowMatches(c)
    /\ holder' = [holder EXCEPT ![LockOfCall(c)] = c]
    /\ pc' = [pc EXCEPT ![c] = "locked"]
    /\ UNCHANGED <<clock, permissions, signing_log, request, sweep, signed, cleanup>>

\* The UPDATE matches no row: return None, with nothing locked.
RowGone(c) ==
    /\ pc[c] = "stamped" /\ Limited(c)
    /\ LockFree(c) /\ ~RowMatches(c)
    /\ pc' = [pc EXCEPT ![c] = "refused"]
    /\ UNCHANGED <<clock, permissions, signing_log, request, holder, sweep, signed, cleanup>>

CountBelowLimit(c) ==
    /\ pc[c] = "locked"
    /\ BelowLimit(c)
    /\ pc' = [pc EXCEPT ![c] = "counted"]
    /\ UNCHANGED <<clock, permissions, signing_log, request, holder, sweep, signed, cleanup>>

\* Seeded fault: the way out leaves the transaction open.
Release_Forgotten(c) == holder' = holder

Release(c) == holder' = [holder EXCEPT ![LockOfCall(c)] = NoCall]

\* The limit is reached: return None, and the transaction ends.
LimitReached(c) ==
    /\ pc[c] = "locked"
    /\ ~BelowLimit(c)
    /\ pc' = [pc EXCEPT ![c] = "refused"]
    /\ Release(c)
    /\ UNCHANGED <<clock, permissions, signing_log, request, sweep, signed, cleanup>>

InsertRow(c) ==
    /\ signing_log' = signing_log \cup {RowOf(c)}
    /\ signed' = signed \cup {RowOf(c)}

(***************************************************************************)
(* INSERT and COMMIT, visible to others as one step. The answer may be     *)
(* lost on the way back: the row is there and the caller sees an exception.*)
(***************************************************************************)
Commit(c) ==
    /\ pc[c] = "counted"
    /\ InsertRow(c)
    /\ \E answer \in {"signed", "failed"} : pc' = [pc EXCEPT ![c] = answer]
    /\ Release(c)
    /\ UNCHANGED <<clock, permissions, request, sweep, cleanup>>

\* A statement of the transaction raises: it is rolled back.
Rollback(c) ==
    /\ pc[c] \in Locked
    /\ pc' = [pc EXCEPT ![c] = "failed"]
    /\ Release(c)
    /\ UNCHANGED <<clock, permissions, signing_log, request, sweep, signed, cleanup>>

\* No connection, or the first statement raises: nothing was locked.
GiveUp(c) ==
    /\ pc[c] = "stamped"
    /\ pc' = [pc EXCEPT ![c] = "failed"]
    /\ UNCHANGED <<clock, permissions, signing_log, request, holder, sweep, signed, cleanup>>

\* create_signing_log: one INSERT that looks at no permission and no lock.
InsertUnlimited(c) ==
    /\ pc[c] = "stamped" /\ ~Limited(c)
    /\ InsertRow(c)
    /\ \E answer \in {"signed", "failed"} : pc' = [pc EXCEPT ![c] = answer]
    /\ UNCHANGED <<clock, permissions, request, holder, sweep, cleanup>>

-----------------------------------------------------------------------------
\* delete_permission waits for a transaction that locks the row.
Revoke(p) ==
    /\ p \in permissions
    /\ holder[LockOf[p]] = NoCall
    /\ permissions' = permissions \ {p}
    /\ UNCHANGED <<clock, signing_log, request, pc, holder, sweep, signed, cleanup>>

\* Seeded faults: the retention a second short, and a second long.
PruneCutoff_Early == Floor(clock - Retention + Second)
PruneCutoff_Late == Floor(clock - Retention - Second)

PruneCutoff == Floor(clock - Retention)

\* cleanup_old_signing_logs wakes and delete_old_signing_logs reads the clock.
SweepWake ==
    /\ cleanup = "running" /\ sweep = {}
    /\ sweep' = {PruneCutoff}
    /\ UNCHANGED <<clock, permissions, signing_log, request, pc, holder, signed, cleanup>>

SweepDelete ==
    /\ sweep # {}
    /\ signing_log' = {e \in signing_log : \A t \in sweep : ~(e.at < t)}
    /\ sweep' = {}
    /\ UNCHANGED <<clock, permissions, request, pc, holder, signed, cleanup>>

\* The DELETE raises: the task logs a warning and sleeps again.
SweepFail ==
    /\ sweep # {}
    /\ sweep' = {}
    /\ UNCHANGED <<clock, permissions, signing_log, request, pc, holder, signed, cleanup>>

\* nsec_oracle_start: the task begins with an hour's sleep.
CleanupStart ==
    /\ cleanup = "stopped"
    /\ cleanup' = "running"
    /\ UNCHANGED <<clock, permissions, signing_log, request, pc, holder, sweep, signed>>

\* nsec_oracle_stop cancels the task and it breaks out of its loop, or the process
\* ends. A DELETE that was sent may still take effect, or not.
CleanupStop ==
    /\ cleanup = "running"
    /\ cleanup' = "stopped"
    /\ UNCHANGED <<clock, permissions, signing_log, request, pc, holder, sweep, signed>>

(***************************************************************************)
(* Time passes. No call is under way for longer than MaxLatency.           *)
(***************************************************************************)
Tick ==
    /\ clock < MaxClock
    /\ \A c \in Call : pc[c] \in Pending => clock - request[c].at < MaxLatency
    /\ clock' = clock + 1
    /\ UNCHANGED <<permissions, signing_log, request, pc, holder, sweep, signed, cleanup>>

\* The steps by which a call gets on, and those by which it fails.
Progress(c) ==
    \/ AcquireLock(c) \/ RowGone(c) \/ CountBelowLimit(c) \/ LimitReached(c)
    \/ Commit(c) \/ InsertUnlimited(c)

Reserve(c) == Progress(c) \/ Rollback(c) \/ GiveUp(c)

Sweep == SweepWake \/ SweepDelete \/ SweepFail \/ CleanupStart \/ CleanupStop

Next ==
    \/ \E c \in Call : Begin(c) \/ Reserve(c)
    \/ \E p \in Permission : Revoke(p)
    \/ Sweep
    \/ Tick

Spec == Init /\ [][Next]_vars

-----------------------------------------------------------------------------
(***************************************************************************)
(* A free lock is granted and a statement is answered in the end; nothing  *)
(* is assumed of timeouts. asyncio wakes the cleanup task, and its DELETE  *)
(* does not fail for ever.                                                 *)
(***************************************************************************)
Fairness ==
    /\ \A c \in Call : WF_vars(Progress(c))
    /\ WF_vars(SweepWake)
    /\ WF_vars(SweepDelete \/ SweepFail)
    /\ SF_vars(SweepDelete)

FairSpec == Spec /\ Fairness

-----------------------------------------------------------------------------
(***************************************************************************)
(* Hypotheses of the results below, each a fact about the deployment.      *)
(***************************************************************************)

\* Two rows that name one subject are never locked apart: there is one row for
\* each triple, or one lock for the database.
LocksCoverSubjects ==
    \A p, q \in Permission : SubjectOf[p] = SubjectOf[q] => LockOf[p] = LockOf[q]

\* The validators cap a window at the retention; a call that takes time needs
\* that much less.
WindowsWithinRetention == \A l \in Limit : l.seconds + MaxLatency <= Retention

-----------------------------------------------------------------------------
\* The promise this log implements: a call under way has asked.
OutcomeOf(c) == IF pc[c] \in Pending THEN "asked" ELSE pc[c]

SR == INSTANCE SlotReservation WITH outcome <- [c \in Call |-> OutcomeOf(c)]

(***************************************************************************)
(* The transaction of create_rate_limited_signing_log is what its docstring*)
(* says: the slot is taken as if in one step, a refusal is given only on a *)
(* full window or a revoked row, and no stamp taken before a wait, no cut  *)
(* second and no prune shows through.                                      *)
(***************************************************************************)
AtomicReservation == SR!Spec

(***************************************************************************)
(* Under any limit an operator sets, at most count signings fall into any  *)
(* interval of seconds (the COUNT and INSERT of                            *)
(* create_rate_limited_signing_log against every interleaving).            *)
(***************************************************************************)
SlidingWindow == SR!SlidingWindow

(***************************************************************************)
(* A call that has counted may insert whatever happened since: the window  *)
(* is as free as when it counted (row lock of the no-op UPDATE).           *)
(***************************************************************************)
CountStaysValid == \A c \in Call : pc[c] = "counted" => SR!MayReserve(c)

(***************************************************************************)
(* No early return, error or lost answer leaves a row locked behind a call *)
(* that is over, and a lock has the one holder that believes it has it.    *)
(***************************************************************************)
LocksHeldInside ==
    /\ \A k \in Lock : holder[k] # NoCall => pc[holder[k]] \in Locked /\ LockOfCall(holder[k]) = k
    /\ \A c \in Call : pc[c] \in Locked => holder[LockOfCall(c)] = c

\* Only a limited call locks, and the row it has locked cannot be deleted under it.
LockedRowsExist ==
    \A c \in Call : pc[c] \in Locked => Limited(c) /\ request[c].permission \in permissions

\* Stamps are readings of the clock, and no call is under way for long.
CallsArePrompt ==
    \A c \in Call : pc[c] \in Pending =>
        request[c].at <= clock /\ clock - request[c].at <= MaxLatency

\* A cutoff computed before its DELETE is late, never early, and so is the prune.
OnlyOldRowsPruned ==
    /\ \A t \in sweep : t <= clock - Retention
    /\ \A e \in signed \ signing_log : e.at < clock - Retention

(***************************************************************************)
(* The invariant that carries the proofs: the transaction's count stays    *)
(* valid because its row is locked, and counts every row it should because *)
(* a pruned row is older than any window of a call still under way.        *)
(***************************************************************************)
IInv ==
    /\ TypeOK /\ IsFiniteSet(signed)
    /\ LocksHeldInside /\ LockedRowsExist
    /\ CallsArePrompt /\ OnlyOldRowsPruned
    /\ CountStaysValid

(***************************************************************************)
(* What delete_old_signing_logs removes is never in a window that a call   *)
(* under way has yet to count.                                             *)
(***************************************************************************)
PruneSparesWindows ==
    [][\A e \in signing_log \ signing_log', c \in Call :
          pc[c] \in Pending /\ Limited(c) => e.at <= request[c].at - request[c].limit.seconds]_vars

(***************************************************************************)
(* Every call that reaches the database is answered: nobody waits for ever *)
(* behind a lock.                                                          *)
(***************************************************************************)
EveryCallAnswered == \A c \in Call : pc[c] \in Pending ~> pc[c] \in Done

(***************************************************************************)
(* A row older than the retention goes in the end, whatever errors the     *)
(* cleanup task meets on the way (tasks.py catches them and loops), if the *)
(* task is not stopped for ever, nor again and again within its hour.      *)
(***************************************************************************)
Expired(c) == \E e \in signing_log : e.call = c /\ e.at < Floor(clock - Retention)

ExpiredRowsPruned ==
    <>[](cleanup = "running") =>
        \A c \in Call : Expired(c) ~> ~(\E e \in signing_log : e.call = c)

=============================================================================
