------------------------------ MODULE AdminApi ------------------------------
(***************************************************************************)
(* The requests of views_api.py that change keys and permissions, one step *)
(* for each await on the database. A request may stop between any two of   *)
(* its steps: an error, a dropped connection or a restart of the process.  *)
(***************************************************************************)
EXTENDS OracleStore

CONSTANTS
    Job,          \* the requests, each made at most once
    Operation     \* the operations they may ask for, among those of AllOperations

AllOperations == {"create key", "delete key", "update key",
                  "create permission", "delete permission", "update permission"}

ASSUME OperationAssumption == Operation \subseteq AllOperations

\* The limits a request may set. The validator looks at the raw values: a fraction
\* between 0 and 1 is positive there, and 0 in the row.
RequestLimit == ValidLimit \cup {Invalid}

VARIABLES
    job,          \* where each request is, or how it ended
    task          \* its operation, wallet and arguments

admin == <<job, task>>

\* id is the row the operation creates or is given.
KeyTask == [op : {"create key", "delete key", "update key"}, wallet : Wallet, id : Id]

DeletePermissionTask == [op : {"delete permission"}, wallet : Wallet, id : Id]

UpdatePermissionTask == [op : {"update permission"}, wallet : Wallet, id : Id,
                         limit : RequestLimit]

CreatePermissionTask == [op : {"create permission"}, wallet : Wallet, id : Id, key : Id,
                         use : Use, limit : RequestLimit]

Task == KeyTask \cup DeletePermissionTask \cup UpdatePermissionTask \cup CreatePermissionTask

Stage == {"insert", "owned", "update", "reread", "delete permissions", "delete"}

Ended == {"done", "not found", "assertion failed", "failed"}

AdminTypeOK ==
    /\ job \in [Job -> {"idle"} \cup Stage \cup Ended]
    /\ task \in [Job -> Task \cup {<<>>}]
    /\ \A j \in Job : job[j] # "idle" => task[j] \in Task

AdminInit ==
    /\ job = [j \in Job |-> "idle"]
    /\ task = [j \in Job |-> <<>>]

\* A write and the await on it: the row is changed, and the request goes on, or
\* ends where the answer of the database is lost.
Proceed(j, stage) == \E next \in {stage, "failed"} : job' = [job EXCEPT ![j] = next]

Advance(j, stage) == job' = [job EXCEPT ![j] = stage]

-----------------------------------------------------------------------------
\* create_key stamps the row of the new key, then inserts it.
CreateKey(j, t) ==
    /\ t.op = "create key" /\ t.id = nextId
    /\ Stamp
    /\ Advance(j, "insert")
    /\ UNCHANGED <<keys, permissions>>

\* create_permission reads the key, checks its wallet, and stamps the row.
CreatePermission(j, t) ==
    /\ t.op = "create permission" /\ t.id = nextId
    /\ IF OwnedKey(keys, t.wallet, t.key)
       THEN Stamp /\ Advance(j, "insert")
       ELSE nextId' = nextId /\ Advance(j, "not found")
    /\ UNCHANGED <<keys, permissions>>

\* The other operations begin with _require_owned_key or _require_owned_permission.
IsKeyOperation(t) == t.op \in {"delete key", "update key"}

\* Seeded fault: _require_owned_permission forgets the wallet.
OwnedRow_AnyWallet(t) ==
    IF IsKeyOperation(t) THEN OwnedKey(keys, t.wallet, t.id) ELSE \E p \in permissions : p.id = t.id

OwnedRow(t) ==
    IF IsKeyOperation(t) THEN OwnedKey(keys, t.wallet, t.id)
    ELSE \E p \in permissions : p.id = t.id /\ p.wallet = t.wallet

\* Seeded fault: no cascade.
AfterOwnership_KeyOnly(t) ==
    IF t.op \in {"delete key", "delete permission"} THEN "delete" ELSE "owned"

AfterOwnership(t) ==
    CASE t.op = "delete key" -> "delete permissions"
      [] t.op = "delete permission" -> "delete"
      [] t.op \in {"update key", "update permission"} -> "owned"

RequireOwned(j, t) ==
    /\ t.op \notin {"create key", "create permission"}
    /\ Advance(j, IF OwnedRow(t) THEN AfterOwnership(t) ELSE "not found")
    /\ UNCHANGED store

Arrive(j) ==
    /\ job[j] = "idle"
    /\ \E t \in Task :
          /\ t.op \in Operation
          /\ task' = [task EXCEPT ![j] = t]
          /\ CreateKey(j, t) \/ CreatePermission(j, t) \/ RequireOwned(j, t)

-----------------------------------------------------------------------------
\* Seeded fault: the id is taken when the row is inserted.
PermissionOf_LateId(t) == [id |-> nextId, wallet |-> t.wallet, key |-> t.key, use |-> t.use,
                           limit |-> t.limit]

PermissionOf(t) == [id |-> t.id, wallet |-> t.wallet, key |-> t.key, use |-> t.use,
                    limit |-> t.limit]

Insert(j) ==
    /\ job[j] = "insert"
    /\ IF task[j].op = "create key"
       THEN /\ keys' = keys \cup {[id |-> task[j].id, wallet |-> task[j].wallet]}
            /\ permissions' = permissions
       ELSE /\ permissions' = permissions \cup {PermissionOf(task[j])}
            /\ keys' = keys
    /\ Proceed(j, "done")
    /\ UNCHANGED <<nextId, task>>

\* The cascade of api_delete_key: the permissions first, then the key.
DeletePermissionsForKey(j) ==
    /\ job[j] = "delete permissions"
    /\ permissions' = {p \in permissions : p.key # task[j].id}
    /\ Proceed(j, "delete")
    /\ UNCHANGED <<keys, nextId, task>>

\* Seeded fault: "WHERE wallet = :wallet".
Deletes_ByWallet(t, r) == r.wallet = t.wallet

Deletes(t, r) == r.id = t.id

Delete(j) ==
    /\ job[j] = "delete"
    /\ IF IsKeyOperation(task[j])
       THEN /\ keys' = {k \in keys : ~Deletes(task[j], k)}
            /\ permissions' = permissions
       ELSE /\ permissions' = {p \in permissions : ~Deletes(task[j], p)}
            /\ keys' = keys
    /\ Proceed(j, "done")
    /\ UNCHANGED <<nextId, task>>

RowExists(t) == IF IsKeyOperation(t) THEN KeyExists(t.id) ELSE PermissionExists(t.id)

\* update_key and update_permission read the row again; no route catches the LookupError ...
UpdateRead(j) ==
    /\ job[j] = "owned"
    /\ Advance(j, IF RowExists(task[j]) THEN "update" ELSE "failed")
    /\ UNCHANGED <<store, task>>

\* ... write the label, or both columns of the limit, of the row if it is still there ...
Update(j) ==
    /\ job[j] = "update"
    /\ permissions' = IF IsKeyOperation(task[j]) THEN permissions
                      ELSE {IF p.id = task[j].id THEN [p EXCEPT !.limit = task[j].limit] ELSE p :
                              p \in permissions}
    /\ Proceed(j, "reread")
    /\ UNCHANGED <<keys, nextId, task>>

\* ... and assert that it is there when they read it once more.
UpdateReread(j) ==
    /\ job[j] = "reread"
    /\ Advance(j, IF RowExists(task[j]) THEN "done" ELSE "assertion failed")
    /\ UNCHANGED <<store, task>>

JobFail(j) ==
    /\ job[j] \in Stage
    /\ Advance(j, "failed")
    /\ UNCHANGED <<store, task>>

JobStep(j) ==
    \/ Insert(j) \/ DeletePermissionsForKey(j) \/ Delete(j)
    \/ UpdateRead(j) \/ Update(j) \/ UpdateReread(j) \/ JobFail(j)

JobNext(j) == Arrive(j) \/ JobStep(j)

=============================================================================
