---------------------------- MODULE OracleStore ----------------------------
(***************************************************************************)
(* The three tables of crud.py, as the requests of the signing service and *)
(* of the administration API see them: rows are inserted, read and deleted *)
(* one statement at a time, and a statement is atomic.                     *)
(*                                                                         *)
(* An extension and an event kind always go together in the code, so the   *)
(* pair is one value, a Use. A row's id is also its created_at: the order  *)
(* in which rows are stamped. Labels, public keys and ciphertexts are left *)
(* out; the clock stands still, so every row of the log is in the window   *)
(* (RateLimitedLog has the clock, the windows and the prune).              *)
(***************************************************************************)
EXTENDS Naturals, FiniteSets

CONSTANTS
    Wallet,
    Use,          \* (extension, kind) pairs
    Count,        \* the counts a rate limit may have
    Unlimited,    \* both limit columns are NULL
    Invalid,      \* a pair the validators refuse: only one column, or not positive
    AnyKey,       \* a signing request that names no key
    MaxId         \* bound on the rows ever stamped

ASSUME StoreAssumption ==
    /\ Count \subseteq Nat \ {0}
    /\ Unlimited \notin Nat /\ Invalid \notin Nat /\ Unlimited # Invalid
    /\ MaxId \in Nat /\ AnyKey \notin Nat

Id == 1..MaxId

Limit == Count \cup {Unlimited, Invalid}

\* The pairs of integers that _validate_rate_limit_pair lets through.
ValidLimit == Count \cup {Unlimited}

KeyRow == [id : Id, wallet : Wallet]

PermissionRow == [id : Id, wallet : Wallet, key : Id, use : Use, limit : Limit]

VARIABLES
    keys,         \* nsec_oracle.keys
    permissions,  \* nsec_oracle.permissions
    nextId        \* the next id: ids are never used twice

store == <<keys, permissions, nextId>>

StoreTypeOK ==
    /\ keys \subseteq KeyRow
    /\ permissions \subseteq PermissionRow
    /\ nextId \in 1..(MaxId + 1)
    /\ \A r \in keys \cup permissions : r.id < nextId
    /\ \A p, q \in permissions : p.id = q.id => p = q

\* create_key and create_permission stamp a row before they insert it.
Stamp == nextId <= MaxId /\ nextId' = nextId + 1

\* "ORDER BY created_at DESC" and the first row of that.
Newest(rows) == CHOOSE r \in rows : \A s \in rows : s.id <= r.id

\* Seeded fault: "key.wallet != wallet_id" forgotten.
OwnedKey_AnyWallet(rows, w, k) == \E r \in rows : r.id = k

\* get_key, checked as every caller of it does.
OwnedKey(rows, w, k) == \E r \in rows : r.id = k /\ r.wallet = w

KeyExists(k) == \E r \in keys : r.id = k

PermissionExists(p) == \E r \in permissions : r.id = p

\* The key and permission a signing request gets, from the rows it has read: the
\* named key and its newest matching permission, or the newest key that has one.
Matching(keyRows, permissionRows, r) ==
    {p \in permissionRows :
        /\ p.wallet = r.wallet /\ p.use = r.use
        /\ OwnedKey(keyRows, r.wallet, p.key)
        /\ r.key \in {AnyKey, p.key}}

Resolution(keyRows, permissionRows, r) ==
    LET matching == Matching(keyRows, permissionRows, r)
        newestKey == CHOOSE p \in matching : \A q \in matching : q.key <= p.key
        candidates == {p \in matching : p.key = newestKey.key}
        known == \E k \in keyRows : k.wallet = r.wallet /\ r.key \in {AnyKey, k.id}
    IN  CASE ~known -> [answer |-> "no key", permission |-> {}]
          [] known /\ matching = {} -> [answer |-> "denied", permission |-> {}]
          [] known /\ matching # {} -> [answer |-> "found", permission |-> {Newest(candidates)}]

=============================================================================
