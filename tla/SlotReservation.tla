-------------------------- MODULE SlotReservation --------------------------
(***************************************************************************)
(* What the signing log promises to sign_event, and nothing of how: the    *)
(* docstring of create_rate_limited_signing_log, "Atomically reserve a     *)
(* rate-limit slot and record the signing", read as one atomic step.       *)
(*                                                                         *)
(* There is no table lock here, no pruning of old rows and no wait between *)
(* the count and the insertion. RateLimitedLog is the algorithm the code   *)
(* runs; RateLimitedLog_proofs shows that it implements this module.       *)
(***************************************************************************)
EXTENDS Integers, FiniteSets

CONSTANTS
    Call,         \* the calls that record a signing, each made at most once
    Permission,   \* ids of the rows of the permissions table
    Subject,      \* what a limit is about: a (key, extension, kind) triple
    SubjectOf,    \* the triple a permission row names
    Limit,        \* the limits a row may carry: [count, seconds]
    Unlimited,    \* stands for a row that carries no limit
    Instant,      \* the readings of the clock, in ticks
    Second        \* ticks per second: the clock is finer than the cutoffs

ASSUME SubjectAssumption == SubjectOf \in [Permission -> Subject]
ASSUME LimitAssumption ==
    /\ \A l \in Limit : l.count \in Nat \ {0} /\ l.seconds \in Nat \ {0}
    /\ Unlimited \notin Limit
ASSUME ClockAssumption == Instant \subseteq Int /\ Second \in Nat \ {0}

(***************************************************************************)
(* A request is one call's arguments, with the instant it stamps its row.  *)
(***************************************************************************)
Request == [permission : Permission, limit : Limit \cup {Unlimited}, at : Instant]

(***************************************************************************)
(* A signing is a row recorded on behalf of a call.                        *)
(***************************************************************************)
Signing == [call : Call, subject : Subject, limit : Limit \cup {Unlimited},
            at : Instant]

Outcome == {"idle", "asked", "signed", "refused", "failed"}

VARIABLES
    permissions,  \* the permission rows that exist
    request,      \* what each call asked for, once it has asked
    outcome,      \* what each call was told
    signed        \* every signing ever recorded

vars == <<permissions, request, outcome, signed>>

TypeOK ==
    /\ permissions \subseteq Permission
    /\ outcome \in [Call -> Outcome]
    /\ request \in [Call -> Request \cup {<<>>}]
    /\ \A c \in Call : outcome[c] # "idle" => request[c] \in Request
    /\ signed \subseteq Signing

-----------------------------------------------------------------------------
\* Seeded fault: the row names the permission, not the triple.
SigningOf_ByPermission(c) ==
    [call |-> c, subject |-> request[c].permission, limit |-> request[c].limit,
     at |-> request[c].at]

SigningOf(c) ==
    [call |-> c, subject |-> SubjectOf[request[c].permission],
     limit |-> request[c].limit, at |-> request[c].at]

SignedAfter(rows, s, t) == {e \in rows : e.subject = s /\ e.at > t}

Reservations == {e \in signed : e.limit # Unlimited}

SubjectOfCall(c) == SubjectOf[request[c].permission]

\* Seeded fault: the window of a call is a tick short.
WindowStart_Late(c) == request[c].at - request[c].limit.seconds + 1

WindowStart(c) == request[c].at - request[c].limit.seconds

(***************************************************************************)
(* A reservation may be granted while the permission row exists and fewer  *)
(* than count reservations of its subject are younger than its window.     *)
(***************************************************************************)
MayReserve(c) ==
    /\ request[c].permission \in permissions
    /\ Cardinality(SignedAfter(Reservations, SubjectOfCall(c), WindowStart(c)))
         < request[c].limit.count

(***************************************************************************)
(* It may be refused only when the row is gone or the window, widened by   *)
(* less than a second (the cutoff is truncated to whole seconds), is full. *)
(***************************************************************************)
MayRefuse(c) ==
    \/ request[c].permission \notin permissions
    \/ Cardinality(SignedAfter(signed, SubjectOfCall(c), WindowStart(c) - Second))
         >= request[c].limit.count

-----------------------------------------------------------------------------
Init ==
    /\ permissions = Permission
    /\ request = [c \in Call |-> <<>>]
    /\ outcome = [c \in Call |-> "idle"]
    /\ signed = {}

Ask(c) ==
    /\ outcome[c] = "idle"
    /\ \E r \in Request : request' = [request EXCEPT ![c] = r]
    /\ outcome' = [outcome EXCEPT ![c] = "asked"]
    /\ UNCHANGED <<permissions, signed>>

(***************************************************************************)
(* The signing is recorded. The caller is told so, unless the answer to    *)
(* its commit is lost: then the slot is used and the caller sees an error. *)
(***************************************************************************)
Record(c) ==
    /\ outcome[c] = "asked"
    /\ request[c].limit # Unlimited => MayReserve(c)
    /\ signed' = signed \cup {SigningOf(c)}
    /\ \E answer \in {"signed", "failed"} :
          outcome' = [outcome EXCEPT ![c] = answer]
    /\ UNCHANGED <<permissions, request>>

Refuse(c) ==
    /\ outcome[c] = "asked"
    /\ request[c].limit # Unlimited
    /\ MayRefuse(c)
    /\ outcome' = [outcome EXCEPT ![c] = "refused"]
    /\ UNCHANGED <<permissions, request, signed>>

Fail(c) ==
    /\ outcome[c] = "asked"
    /\ outcome' = [outcome EXCEPT ![c] = "failed"]
    /\ UNCHANGED <<permissions, request, signed>>

Revoke(p) ==
    /\ p \in permissions
    /\ permissions' = permissions \ {p}
    /\ UNCHANGED <<request, outcome, signed>>

Next ==
    \/ \E c \in Call : Ask(c) \/ Record(c) \/ Refuse(c) \/ Fail(c)
    \/ \E p \in Permission : Revoke(p)

Spec == Init /\ [][Next]_vars

-----------------------------------------------------------------------------
(***************************************************************************)
(* What an operator who sets "count signings per seconds" relies on, in    *)
(* crud.py's create_rate_limited_signing_log: take any limit and any       *)
(* interval that long, wherever it starts. If every reservation of the     *)
(* subject inside it was made under a limit at least as strict, there are  *)
(* at most count of them. Edits of the limit and rows of other permissions *)
(* of the subject are covered: the strictness is that of each reservation. *)
(***************************************************************************)
InWindow(s, l, t) == {e \in Reservations : e.subject = s /\ t - l.seconds < e.at /\ e.at <= t}

AtLeastAsStrict(e, l) == e.limit.count <= l.count /\ e.limit.seconds >= l.seconds

SlidingWindow ==
    \A s \in Subject, l \in Limit, t \in Instant :
        (\A e \in InWindow(s, l, t) : AtLeastAsStrict(e, l))
            => Cardinality(InWindow(s, l, t)) <= l.count

=============================================================================
