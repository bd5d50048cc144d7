----------------------------- MODULE NsecOracle -----------------------------
(***************************************************************************)
(* The extension as a whole: requests that use keys and requests that      *)
(* administer them, interleaved at every await on the tables they share.   *)
(***************************************************************************)
EXTENDS SigningService, AdminApi, QuickSetup

CONSTANTS
    InitialKeys,         \* rows there are at the start ...
    InitialPermissions,  \* ... rows of earlier versions with an Invalid limit included
    FirstId              \* ... and the first id not used by them

ASSUME InitialAssumption ==
    /\ InitialKeys \subseteq KeyRow /\ InitialPermissions \subseteq PermissionRow
    /\ FirstId \in 1..(MaxId + 1)
    /\ \A r \in InitialKeys \cup InitialPermissions : r.id < FirstId
    /\ \A r, k \in InitialKeys : r.id = k.id => r = k                \* PRIMARY KEY
    /\ \A p, q \in InitialPermissions : p.id = q.id => p = q
    /\ \A p \in InitialPermissions : OwnedKey(InitialKeys, p.wallet, p.key)

VARIABLES
    current,      \* history: for each call, the resolutions that have been right since it began
    held,         \* history: for each quick setup, the uses its key has had since it began
    stray         \* history: the ids of the permissions that came too late for the deletion
                  \* of their key to delete them

vars == <<store, service, admin, quick, current, held, stray>>

TypeOK == StoreTypeOK /\ ServiceTypeOK /\ AdminTypeOK /\ QuickTypeOK

Init ==
    /\ keys = InitialKeys /\ permissions = InitialPermissions /\ nextId = FirstId
    /\ ServiceInit
    /\ AdminInit
    /\ QuickInit
    /\ current = [c \in Call |-> {}]
    /\ held = [s \in Setup |-> {}]
    /\ stray = {}

\* What resolving the request against the tables of this very moment would give.
RightNow(c) == Resolution(keys, permissions, asked[c])

\* What the key of a quick setup may be used for at this moment.
Holds(s) == {p.use : p \in {q \in permissions : q.key = wanted[s].key}}

\* A deletion of the key has deleted its permissions, and goes on to the key ...
Sweeping(k) == \E j \in Job : job[j] = "delete" /\ task[j].op = "delete key" /\ task[j].id = k

\* ... or has deleted that too.
Doomed(k) == ~KeyExists(k) \/ Sweeping(k)

Observe ==
    /\ current' = [c \in Call |-> IF call'[c] = "resolving" \/ call[c] = "resolving"
                                  THEN current[c] \cup {RightNow(c)'}
                                  ELSE current[c]]
    /\ held' = [s \in Setup |-> IF setup'[s] \in SetupStage \/ setup[s] \in SetupStage
                                THEN held[s] \cup Holds(s)'
                                ELSE held[s]]
    /\ stray' = stray \cup {p.id : p \in {q \in permissions' : ~PermissionExists(q.id) /\ Doomed(q.key)}}

Next ==
    /\ \/ \E c \in Call : CallNext(c) /\ UNCHANGED <<admin, quick>>
       \/ \E j \in Job : JobNext(j) /\ UNCHANGED <<service, quick>>
       \/ \E s \in Setup : SetupNext(s) /\ UNCHANGED <<service, admin>>
    /\ Observe

Spec == Init /\ [][Next]_vars

-----------------------------------------------------------------------------
Resolved(c) == call[c] \in {"decrypting", "signing", "signed", "refused", "misconfigured"}

(***************************************************************************)
(* Tenants: a permission belongs to the wallet of its key, and a key is    *)
(* used only for its own wallet (README: "each wallet's keys and           *)
(* permissions are fully isolated").                                       *)
(***************************************************************************)
Owner(k) == {r.wallet : r \in {x \in keys : x.id = k}}

WalletsIsolated ==
    /\ \A p \in permissions : Owner(p.key) \subseteq {p.wallet}
    /\ \A c \in Call : Resolved(c) => Owner(Permission(c).key) \subseteq {asked[c].wallet}
    /\ \A c \in Call : call[c] \in {"using", "used"} => Owner(asked[c].key) \subseteq {asked[c].wallet}

(***************************************************************************)
(* A row is changed or removed only by a request of its wallet that names  *)
(* it, or deletes its key, although each ownership check is over when the  *)
(* write comes and the write goes by an id alone.                          *)
(***************************************************************************)
Names(t, r) ==
    \/ t.id = r.id
    \/ t.op = "delete key" /\ r \in permissions /\ r.key = t.id

OnlyOwnersWrite ==
    [][\A r \in (keys \cup permissions) \ (keys' \cup permissions') :
          \E j \in Job : job'[j] # job[j] /\ task[j].wallet = r.wallet /\ Names(task[j], r)]_vars

(***************************************************************************)
(* A signature is returned only under a permission of its wallet, key,     *)
(* extension and kind, with a usable limit, and after its row is in the    *)
(* log; a call leaves one row at most.                                     *)
(***************************************************************************)
SignaturesAreAuthorized ==
    \A c \in Call : call[c] = "signed" =>
        LET p == Permission(c)
        IN  /\ p \in seen[c] /\ p.wallet = asked[c].wallet /\ p.use = asked[c].use
            /\ p.key = asked[c].key \/ asked[c].key = AnyKey
            /\ p.limit # Invalid
            /\ {e \in signing_log : e.call = c} = {RowOf(c)}

(***************************************************************************)
(* A request that names its key is resolved as if it had read permissions  *)
(* and key at one moment, though it reads them one after the other.        *)
(***************************************************************************)
ResolutionWasCurrent(c) ==
    /\ Resolved(c) => [answer |-> "found", permission |-> chosen[c]] \in current[c]
    /\ call[c] = "denied" => [answer |-> "denied", permission |-> {}] \in current[c]

NamedKeyResolvedAtOneMoment ==
    \A c \in Call : call[c] # "idle" /\ asked[c].key # AnyKey => ResolutionWasCurrent(c)

(***************************************************************************)
(* However a deletion of a key ends, failed or interrupted included, no    *)
(* permission is left without its key that was there when the deletion     *)
(* came to the permissions: api_delete_key deletes them first for this. A  *)
(* permission that is inserted later is left (DeleteKeyRemovesPermissions).*)
(***************************************************************************)
NoOrphans == \A p \in permissions : KeyExists(p.key) \/ p.id \in stray

(***************************************************************************)
(* A limited signing is not recorded for a key that is gone, however old   *)
(* the key and the permission the call has read: the reservation looks for *)
(* the permission, and that goes before the key. The one way to such a     *)
(* record is a permission inserted behind the deletion of its key.         *)
(***************************************************************************)
LimitedSigningNeedsKey ==
    [][\A e \in signing_log' \ signing_log :
          e.limit # Unlimited => KeyExists(e.key) \/ Permission(e.call).id \in stray]_vars

(***************************************************************************)
(* README: "Delete key and its permissions". When api_delete_key has       *)
(* answered, no permission of the key is left.                             *)
(***************************************************************************)
DeleteKeyRemovesPermissions ==
    \A j \in Job : job[j] = "done" /\ task[j].op = "delete key" =>
        \A p \in permissions : p.key # task[j].id

(***************************************************************************)
(* "assert updated is not None" of update_key and update_permission fails  *)
(* only where another request of the wallet has deleted that row, or a key *)
(* and its permissions, between the two reads of the update.               *)
(***************************************************************************)
HasDeleted(k, t) ==
    /\ job[k] \in {"delete", "done", "failed"} /\ task[k].wallet = t.wallet
    /\ \/ task[k].op = "delete key" /\ (IsKeyOperation(t) => task[k].id = t.id)
       \/ task[k].op = "delete permission" /\ task[k].id = t.id

AssertionsFailOnlyUnderDelete ==
    \A j \in Job : job[j] = "assertion failed" => \E k \in Job : HasDeleted(k, task[j])

(***************************************************************************)
(* sign_event: key_id "defaults to the newest permitted key". Permissions  *)
(* and keys are read apart, and yet the key a request without key_id gets  *)
(* was the newest permitted one at some moment of its resolution. It takes *)
(* two other requests to mislead it: one that removes rows, and another    *)
(* that removes rows too or grants a permission.                           *)
(***************************************************************************)
WasNewestKey(c) == \E r \in current[c], p \in chosen[c] : \E q \in r.permission : q.key = p.key

Remover(j) == job[j] \in {"delete", "done", "failed"} /\ task[j].op \in {"delete key", "delete permission"}

Granter(j) == job[j] \in {"done", "failed"} /\ task[j].op = "create permission"

Misled ==
    \E j \in Job :
        /\ Remover(j)
        /\ \/ \E k \in Job \ {j} : Remover(k) \/ Granter(k)
           \/ \E s \in Setup : made[s] # {}

DefaultKeyIsNewest ==
    \A c \in Call : Resolved(c) /\ asked[c].key = AnyKey => WasNewestKey(c) \/ Misled

-----------------------------------------------------------------------------
(***************************************************************************)
(* README, POST /api/v1/quick-setup: "Grant all required permissions for   *)
(* an extension in one call". When it has answered, its key has had each   *)
(* of them since the request came, also where it completes what an earlier *)
(* request left behind, and whatever is deleted meanwhile.                 *)
(***************************************************************************)
QuickSetupGrantsAll ==
    \A s \in Setup : setup[s] = "done" =>
        \A i \in DOMAIN Declared(s) : Declared(s)[i].use \in held[s]

(***************************************************************************)
(* A quick setup adds no second row for what an earlier one has granted,   *)
(* however that one ended: only requests that overlap do.                  *)
(***************************************************************************)
QuickSetupsDoNotRepeat ==
    \A s, t \in Setup, p, q \in permissions :
        t \in before[s] /\ p.id \in made[s] /\ q.id \in made[t] => <<p.key, p.use>> # <<q.key, q.use>>

=============================================================================
