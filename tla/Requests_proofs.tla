-------------------------- MODULE Requests_proofs --------------------------
(***************************************************************************)
(* What the requests promise although the tables change under them: what   *)
(* a signature is given for, what a deletion leaves behind, what an update *)
(* may miss, and what a quick setup grants.                                *)
(***************************************************************************)
EXTENDS Tenancy_proofs

(***************************************************************************)
(* The rows that come and go with a step, and the request it is a step of. *)
(***************************************************************************)
SameRow(p, q) == p.id = q.id /\ p.wallet = q.wallet /\ p.key = q.key /\ p.use = q.use

LEMMA KeysStep ==
    ASSUME TypeOK, Ids, [Next]_vars
    PROVE  /\ \A r \in keys' : r \in keys \/ \E j \in Job :
                 /\ Insert(j) /\ task[j].op = "create key"
                 /\ r.id = task[j].id /\ r.wallet = task[j].wallet
           /\ \A r \in keys : r \in keys' \/ \E j \in Job :
                 Delete(j) /\ task[j].op = "delete key" /\ r.id = task[j].id
  <1>1. ASSUME NEW c \in Call, CallNext(c) PROVE keys' = keys
    BY <1>1, CallTypes DEF Ids, store
  <1>2. ASSUME NEW s \in Setup, SetupNext(s) PROVE keys' = keys
    BY <1>2, SetupStepIs DEF SetupStamps, SetupInserts, SetupGoesOn
  <1>3. ASSUME NEW j \in Job, JobNext(j)
        PROVE  \/ keys' = keys
               \/ /\ Insert(j) /\ task[j].op = "create key"
                  /\ keys' = keys \cup {[id |-> task[j].id, wallet |-> task[j].wallet]}
               \/ /\ Delete(j) /\ task[j].op = "delete key"
                  /\ keys' = {k \in keys : k.id # task[j].id}
    BY <1>3, ArriveStep, UpdateTypes DEF JobNext, Arrives, JobStep, Insert, DeletePermissionsForKey,
       Delete, UpdateRead, UpdateReread, JobFail, store, Deletes, Ids, StagesFit, IsKeyOperation
  <1>4. CASE UNCHANGED keys
    BY <1>4
  <1>5. CASE \E j \in Job : /\ Insert(j) /\ task[j].op = "create key"
                            /\ keys' = keys \cup {[id |-> task[j].id, wallet |-> task[j].wallet]}
    <2>1. PICK j \in Job : /\ Insert(j) /\ task[j].op = "create key"
                           /\ keys' = keys \cup {[id |-> task[j].id, wallet |-> task[j].wallet]}
      BY <1>5
    <2> DEFINE r == [id |-> task[j].id, wallet |-> task[j].wallet]
    <2>2. r.id = task[j].id /\ r.wallet = task[j].wallet /\ keys' = keys \cup {r}
      BY <2>1
    <2> HIDE DEF r
    <2> QED
      BY <2>1, <2>2
  <1>6. CASE \E j \in Job : /\ Delete(j) /\ task[j].op = "delete key"
                            /\ keys' = {k \in keys : k.id # task[j].id}
    BY <1>6
  <1> QED
    BY <1>1, <1>2, <1>3, <1>4, <1>5, <1>6 DEF Next, vars, store

LEMMA PermissionsStep ==
    ASSUME TypeOK, Ids, [Next]_vars
    PROVE  /\ \A p \in permissions' :
                 \/ \E q \in permissions : SameRow(p, q)
                 \/ \E j \in Job : /\ Insert(j) /\ task[j].op = "create permission"
                                   /\ p = PermissionOf(task[j])
                 \/ \E s \in Setup : SetupInsert(s) /\ p = SetupRow(s)
           /\ \A p \in permissions :
                 \/ \E q \in permissions' : SameRow(q, p)
                 \/ \E j \in Job : /\ DeletePermissionsForKey(j) /\ task[j].op = "delete key"
                                   /\ p.key = task[j].id
                 \/ \E j \in Job : /\ Delete(j) /\ task[j].op = "delete permission"
                                   /\ p.id = task[j].id
  <1>1. ASSUME NEW c \in Call, CallNext(c) PROVE permissions' = permissions
    BY <1>1, CallTypes DEF Ids, store
  <1>2. ASSUME NEW s \in Setup, SetupNext(s)
        PROVE  \/ permissions' = permissions
               \/ SetupInsert(s) /\ permissions' = permissions \cup {SetupRow(s)}
    BY <1>2 DEF SetupNext, SetupArrive, SetupRead, SetupStamp, SetupRefuse, SetupInsert, SetupDone,
       SetupFail, store
  <1>3. ASSUME NEW j \in Job, JobNext(j), ~Update(j)
        PROVE  \/ permissions' = permissions
               \/ /\ Insert(j) /\ task[j].op = "create permission"
                  /\ permissions' = permissions \cup {PermissionOf(task[j])}
               \/ /\ DeletePermissionsForKey(j) /\ task[j].op = "delete key"
                  /\ permissions' = {p \in permissions : p.key # task[j].id}
               \/ /\ Delete(j) /\ task[j].op = "delete permission"
                  /\ permissions' = {p \in permissions : p.id # task[j].id}
    BY <1>3, ArriveStep DEF JobNext, Arrives, JobStep, Insert, DeletePermissionsForKey,
       Delete, UpdateRead, UpdateReread, JobFail, store, Deletes, Ids, StagesFit, IsKeyOperation
  <1>4. CASE permissions' = permissions
    BY <1>4 DEF SameRow
  <1>5. ASSUME NEW s \in Setup, SetupInsert(s), permissions' = permissions \cup {SetupRow(s)}
        PROVE  /\ \A p \in permissions' :
                     (\E q \in permissions : SameRow(p, q)) \/ p = SetupRow(s)
               /\ \A p \in permissions : \E q \in permissions' : SameRow(q, p)
    BY <1>5 DEF SameRow
  <1>6. ASSUME NEW j \in Job, permissions' = permissions \cup {PermissionOf(task[j])}
        PROVE  /\ \A p \in permissions' :
                     (\E q \in permissions : SameRow(p, q)) \/ p = PermissionOf(task[j])
               /\ \A p \in permissions : \E q \in permissions' : SameRow(q, p)
    BY <1>6 DEF SameRow
  <1>7. ASSUME NEW j \in Job,
               \/ permissions' = {p \in permissions : p.key # task[j].id}
               \/ permissions' = {p \in permissions : p.id # task[j].id}
        PROVE  /\ \A p \in permissions' : \E q \in permissions : SameRow(p, q)
               /\ \A p \in permissions : \/ \E q \in permissions' : SameRow(q, p)
                                         \/ /\ permissions' = {q \in permissions : q.key # task[j].id}
                                            /\ p.key = task[j].id
                                         \/ /\ permissions' = {q \in permissions : q.id # task[j].id}
                                            /\ p.id = task[j].id
    BY <1>7 DEF SameRow
  <1>8. ASSUME NEW j \in Job, Update(j)
        PROVE  /\ \A p \in permissions' : \E q \in permissions : SameRow(p, q)
               /\ \A p \in permissions : \E q \in permissions' : SameRow(q, p)
    BY <1>8, UpdateTypes DEF SameRow
  <1>9. ASSUME NEW j \in Job, JobNext(j)
        PROVE  /\ \A p \in permissions' :
                     \/ \E q \in permissions : SameRow(p, q)
                     \/ /\ Insert(j) /\ task[j].op = "create permission"
                        /\ p = PermissionOf(task[j])
               /\ \A p \in permissions :
                     \/ \E q \in permissions' : SameRow(q, p)
                     \/ /\ DeletePermissionsForKey(j) /\ task[j].op = "delete key"
                        /\ p.key = task[j].id
                     \/ /\ Delete(j) /\ task[j].op = "delete permission"
                        /\ p.id = task[j].id
    <2>1. CASE Update(j)
      BY <1>8, <2>1
    <2>2. CASE permissions' = permissions
      BY <2>2 DEF SameRow
    <2>3. CASE /\ Insert(j) /\ task[j].op = "create permission"
               /\ permissions' = permissions \cup {PermissionOf(task[j])}
      BY <1>6, <2>3
    <2>4. CASE /\ DeletePermissionsForKey(j) /\ task[j].op = "delete key"
               /\ permissions' = {p \in permissions : p.key # task[j].id}
      BY <2>4 DEF SameRow
    <2>5. CASE /\ Delete(j) /\ task[j].op = "delete permission"
               /\ permissions' = {p \in permissions : p.id # task[j].id}
      BY <2>5 DEF SameRow
    <2> QED
      BY <1>3, <1>9, <2>1, <2>2, <2>3, <2>4, <2>5
  <1> QED
    BY <1>1, <1>2, <1>4, <1>5, <1>9 DEF Next, vars, store

\* A request of the administration keeps its task once it has come, and its end.
LEMMA JobKeeps ==
    ASSUME TypeOK, Ids, [Next]_vars, NEW j \in Job, job[j] # "idle"
    PROVE  /\ task'[j] = task[j] /\ job'[j] # "idle"
           /\ job[j] \in Ended => job'[j] = job[j]
           /\ job[j] = "delete" => job'[j] \in {"delete", "done", "failed"}
           /\ job'[j] \in {"owned", "update", "reread"} => job[j] \in {"owned", "update", "reread"}
           /\ job'[j] = "insert" => job[j] = "insert"
  <1>1. CASE job' = job /\ task' = task
    BY <1>1
  <1>2. ASSUME NEW k \in Job, JobNext(k), k # j
        PROVE  job'[j] = job[j] /\ task'[j] = task[j]
    <2>1. CASE Arrive(k)
      <3>1. PICK t \in Task, a \in Stage \cup Ended : Arrives(k, t, a)
        BY <2>1, ArriveStep
      <3> QED
        BY <1>2, <3>1 DEF Arrives, TypeOK, AdminTypeOK
    <2> QED
      BY <1>2, <2>1, JobFrame DEF JobNext
  <1>3. ASSUME JobNext(j)
        PROVE  /\ task'[j] = task[j] /\ job'[j] # "idle" /\ job[j] \notin Ended
               /\ job[j] = "delete" => job'[j] \in {"done", "failed"}
               /\ job'[j] \in {"owned", "update", "reread"} => job[j] \in {"owned", "update", "reread"}
               /\ job'[j] # "insert"
    <2>1. JobStep(j)
      BY <1>3 DEF JobNext, Arrive
    <2>2. DOMAIN job = Job
      BY DEF TypeOK, AdminTypeOK
    <2>3. task' = task /\ job[j] \in Stage
      BY <2>1, JobFrame
    <2>4. job[j] = "delete" => Delete(j) \/ JobFail(j)
      BY <2>1 DEF JobStep, Insert, DeletePermissionsForKey, UpdateRead, Update, UpdateReread
    <2>5. job[j] = "delete" => job'[j] \in {"done", "failed"}
      BY <2>2, <2>4 DEF Delete, Proceed, JobFail, Advance
    <2>6. PICK a \in (Stage \cup Ended) \ {"insert"} :
             /\ job' = [job EXCEPT ![j] = a]
             /\ a \in {"owned", "update", "reread", "assertion failed"} =>
                   job[j] \in {"owned", "update", "reread"}
      BY <2>1, JobStepIs
    <2> QED
      BY <2>2, <2>3, <2>5, <2>6 DEF Stage, Ended
  <1> QED
    BY <1>1, <1>2, <1>3 DEF Next, vars, admin, Ended

-----------------------------------------------------------------------------
(***************************************************************************)
(* A call has left no row before it returns, and one when it has returned  *)
(* a signature.                                                            *)
(***************************************************************************)
Logged(c) == {e \in signing_log : e.call = c}

LogsFit ==
    \A c \in Call :
        /\ call[c] \in {"idle", "resolving", "decrypting", "signing"} => Logged(c) = {}
        /\ call[c] = "signed" => Logged(c) = {RowOf(c)}

LEMMA LogsStep == TypeOK /\ Ids /\ LogsFit /\ [Next]_vars => LogsFit'
  <1> SUFFICES ASSUME TypeOK, Ids, LogsFit, [Next]_vars PROVE LogsFit'
    OBVIOUS
  <1>1. CASE UNCHANGED service
    BY <1>1 DEF service, LogsFit, Logged, RowOf, Permission
  <1>2. ASSUME NEW c \in Call, CallNext(c)
        PROVE  LogsFit'
    <2>0. DOMAIN call = Call
      BY DEF TypeOK, ServiceTypeOK
    <2>1. \/ signing_log' = signing_log /\ call'[c] # "signed"
          \/ LogAndReturn(c) /\ call[c] = "signing"
      BY <1>2, <2>0, ResolvesTo DEF CallNext, CallStep, SignRead, SignResolve, SignDecrypt, SignReserve,
         SignRefuse, SignUnlimited, UseKeyRead, UseKeyDecrypt, CallFail
    <2>2. ASSUME NEW d \in Call, d # c
          PROVE  /\ Logged(d)' = Logged(d) /\ call'[d] = call[d] /\ RowOf(d)' = RowOf(d)
      <3>1. /\ call'[d] = call[d] /\ asked'[d] = asked[d] /\ chosen'[d] = chosen[d]
        BY <1>2, <2>2, CallFrame
      <3>2. Logged(d)' = Logged(d)
        <4>1. CASE LogAndReturn(c)
          <5>1. signing_log' = signing_log \cup {RowOf(c)} /\ RowOf(c).call = c
            BY <4>1 DEF LogAndReturn, RowOf
          <5> HIDE DEF RowOf
          <5> QED
            BY <2>2, <5>1 DEF Logged
        <4> QED
          BY <2>1, <4>1 DEF Logged
      <3> QED
        BY <3>1, <3>2 DEF RowOf, Permission
    <2>3. CASE signing_log' = signing_log /\ call'[c] # "signed"
      <3>1. Logged(c)' = Logged(c)
        BY <2>3 DEF Logged
      <3>2. call'[c] \in {"idle", "resolving", "decrypting", "signing"} =>
               call[c] \in {"idle", "resolving", "decrypting", "signing"}
        BY <1>2, CallGoesOn
      <3> QED
        BY <2>2, <2>3, <3>1, <3>2 DEF LogsFit
    <2>4. CASE LogAndReturn(c) /\ call[c] = "signing"
      <3>1. call'[c] \in {"signed", "failed"}
        BY <2>0, <2>4 DEF LogAndReturn
      <3>2. Logged(c)' = {RowOf(c)} /\ RowOf(c)' = RowOf(c)
        <4>1. signing_log' = signing_log \cup {RowOf(c)} /\ RowOf(c).call = c /\ RowOf(c)' = RowOf(c)
          BY <2>4 DEF LogAndReturn, RowOf, Permission
        <4> HIDE DEF RowOf
        <4> QED
          BY <2>4, <4>1 DEF LogsFit, Logged
      <3> QED
        BY <2>2, <3>1, <3>2 DEF LogsFit
    <2> QED
      BY <2>1, <2>3, <2>4
  <1> QED
    BY <1>1, <1>2 DEF Next, vars

(***************************************************************************)
(* A signature is returned only under a permission of its wallet, key,     *)
(* extension and kind with a usable limit, and its one row is in the log   *)
(* by then (sign_event of services.py), whatever changes under it.         *)
(***************************************************************************)
THEOREM Authorized == Spec => []SignaturesAreAuthorized
  <1>1. Init => LogsFit
    BY DEF Init, ServiceInit, LogsFit, Logged
  <1>2. TypeOK /\ Ids /\ LogsFit => SignaturesAreAuthorized
    <2> SUFFICES ASSUME TypeOK, Ids, LogsFit, NEW c \in Call, call[c] = "signed"
                 PROVE  /\ Permission(c) \in seen[c] /\ Permission(c).wallet = asked[c].wallet
                        /\ Permission(c).use = asked[c].use
                        /\ Permission(c).key = asked[c].key \/ asked[c].key = AnyKey
                        /\ Permission(c).limit # Invalid
                        /\ {e \in signing_log : e.call = c} = {RowOf(c)}
      BY DEF SignaturesAreAuthorized
    <2>1. {e \in signing_log : e.call = c} = {RowOf(c)}
      BY DEF LogsFit, Logged
    <2> QED
      BY <2>1, ChosenIs DEF Resolved
  <1>3. Spec => [](TypeOK /\ Ids /\ LogsFit)
    BY <1>1, TypesStart, StepTypes, LogsStep, PTL DEF Spec
  <1> QED
    BY <1>2, <1>3, PTL

-----------------------------------------------------------------------------
(***************************************************************************)
(* A permission has its key, and no deletion of the key that is past the   *)
(* permissions, unless it came when one was: a deletion that is about to   *)
(* delete its key has left no permission that was there before.            *)
(***************************************************************************)
Cascade == \A p \in permissions : p.id \in stray \/ ~Doomed(p.key)

\* A deletion of a key comes to the key over its permissions.
LEMMA DeletionReached ==
    ASSUME TypeOK, Ids, [Next]_vars, NEW j \in Job, job'[j] = "delete", task'[j].op = "delete key",
           job[j] # "delete"
    PROVE  DeletePermissionsForKey(j) /\ Next
  <1>0. DOMAIN job = Job /\ DOMAIN task = Job
    BY DEF TypeOK, AdminTypeOK
  <1>1. PICK k \in Job : JobNext(k) /\ Next
    BY DEF Next, vars, admin
  <1>2. CASE Arrive(k)
    <2>1. PICK t \in Task, a \in Stage \cup Ended : Arrives(k, t, a)
      BY <1>2, ArriveStep
    <2> QED
      BY <1>0, <2>1 DEF Arrives
  <1>3. CASE JobStep(k)
    <2>1. k = j
      BY <1>3, JobFrame
    <2>2. job[j] = "delete permissions"
      BY <1>0, <1>3, <2>1, JobStepIs
    <2>3. DeletePermissionsForKey(j) \/ JobFail(j)
      BY <1>3, <2>1, <2>2 DEF JobStep, Insert, Delete, UpdateRead, Update, UpdateReread
    <2> QED
      BY <1>0, <1>1, <2>1, <2>3 DEF JobFail, Advance
  <1> QED
    BY <1>1, <1>2, <1>3 DEF JobNext

LEMMA CascadeStep == TypeOK /\ Ids /\ TypeOK' /\ Cascade /\ [Next]_vars => Cascade'
  <1> SUFFICES ASSUME TypeOK, Ids, TypeOK', Cascade, [Next]_vars,
                      NEW p \in permissions', p.id \notin stray'
               PROVE  ~Doomed(p.key)'
    BY DEF Cascade
  <1>1. stray \subseteq stray' /\ (Next => (PermissionExists(p.id) \/ ~Doomed(p.key)))
    BY DEF Next, Observe, vars
  <1>2. ASSUME NEW q \in permissions, SameRow(p, q)
        PROVE  ~Doomed(p.key)
    BY <1>1, <1>2 DEF Cascade, SameRow
  <1>3. ASSUME ~\E q \in permissions : SameRow(p, q)
        PROVE  ~PermissionExists(p.id) /\ Next
    <2>1. Next
      BY <1>3 DEF vars, store, SameRow
    <2>2. permissions \subseteq permissions'
      BY <1>3, PermissionsStep DEF Insert, SetupInsert
    <2>3. \A q \in permissions : q.id = p.id => q = p
      BY <2>2 DEF TypeOK, StoreTypeOK
    <2> QED
      BY <1>3, <2>1, <2>3 DEF PermissionExists, SameRow
  <1>4. ~Doomed(p.key)
    BY <1>1, <1>2, <1>3
  <1>5. KeyExists(p.key)'
    <2>1. PICK r \in keys : r.id = p.key
      BY <1>4 DEF Doomed, KeyExists
    <2>2. r \in keys'
      BY <1>4, <2>1, KeysStep DEF Delete, Doomed, Sweeping
    <2> QED
      BY <2>1, <2>2 DEF KeyExists
  <1>6. ASSUME NEW j \in Job, job'[j] = "delete", task'[j].op = "delete key", task'[j].id = p.key
        PROVE  FALSE
    <2>1. CASE job[j] = "delete"
      BY <1>4, <1>6, <2>1, JobKeeps DEF Doomed, Sweeping
    <2>2. CASE job[j] # "delete"
      BY <1>6, <2>2, DeletionReached DEF DeletePermissionsForKey
    <2> QED
      BY <2>1, <2>2
  <1> QED
    BY <1>5, <1>6 DEF Doomed, Sweeping

LEMMA CascadeHolds == Spec => [](Tenancy /\ Cascade)
  <1>1. Init => Cascade
    BY InitialAssumption DEF Init, AdminInit, Cascade, Doomed, Sweeping, KeyExists, OwnedKey
  <1>2. Tenancy /\ Cascade /\ [Next]_vars => (Tenancy /\ Cascade)'
    BY TenancyStep, CascadeStep DEF Tenancy
  <1> QED
    BY <1>1, <1>2, TenancyStart, PTL DEF Spec

(***************************************************************************)
(* A deletion of a key leaves no permission that it has come upon without  *)
(* its key, however it ends: api_delete_key deletes the permissions first, *)
(* and a failure between the two leaves a key without permissions.         *)
(***************************************************************************)
THEOREM NoneOrphaned == Spec => []NoOrphans
  <1>1. Cascade => NoOrphans
    BY DEF Cascade, NoOrphans, Doomed
  <1> QED
    BY <1>1, CascadeHolds, PTL

(***************************************************************************)
(* What create_rate_limited_signing_log records is of a key that is there: *)
(* its no-op UPDATE finds the permission, the permission is of the key the *)
(* call has read long before, and it goes before its key does; unless it   *)
(* was inserted behind the deletion of its key.                            *)
(***************************************************************************)
THEOREM LimitedNeedsKey == Spec => LimitedSigningNeedsKey
  <1> DEFINE Recorded == \A e \in signing_log' \ signing_log :
                e.limit # Unlimited => KeyExists(e.key) \/ Permission(e.call).id \in stray
  <1>1. ASSUME Tenancy, Cascade, [Next]_vars PROVE [Recorded]_vars
    <2>0. TypeOK /\ Ids /\ RowTenants
      BY <1>1 DEF Tenancy
    <2>1. CASE signing_log' = signing_log
      BY <2>1
    <2>2. ASSUME NEW c \in Call, CallNext(c), NEW e \in signing_log', e \notin signing_log,
                 e.limit # Unlimited
          PROVE  KeyExists(e.key) \/ Permission(e.call).id \in stray
      <3>1. SignReserve(c) \/ SignUnlimited(c)
        BY <2>2 DEF CallNext, CallStep, SignRead, SignResolve, SignDecrypt, SignRefuse, UseKeyRead,
           UseKeyDecrypt, CallFail
      <3>2. /\ e = RowOf(c) /\ e.call = c /\ e.key = Permission(c).key /\ e.limit = Permission(c).limit
            /\ call[c] = "signing"
        BY <2>2, <3>1 DEF SignReserve, SignUnlimited, LogAndReturn, RowOf
      <3>3. StillPermitted(c)
        BY <2>2, <3>1, <3>2 DEF SignUnlimited, Limited, SignReserve
      <3>4. PICK r \in permissions : r.id = Permission(c).id
        BY <3>3 DEF StillPermitted, PermissionExists
      <3>5. Permission(c) \in seen[c] /\ Permission(c) \in PermissionRow
        BY <2>0, <3>2, ChosenIs DEF Resolved
      <3>6. RowKey(r.id, r.key) /\ RowKey(r.id, Permission(c).key)
        BY <3>4, <3>5 DEF RowKey
      <3>7. r.id \in Id /\ r.key \in Id /\ Permission(c).key \in Id
        BY <2>0, <3>5 DEF TypeOK, StoreTypeOK, PermissionRow
      <3>8. r.key = Permission(c).key
        BY <2>0, <3>6, <3>7 DEF RowTenants
      <3> QED
        BY <1>1, <3>2, <3>4, <3>8 DEF Cascade, Doomed
    <2> QED
      BY <1>1, <2>1, <2>2 DEF Next, vars, service
  <1> QED
    BY <1>1, CascadeHolds, PTL DEF Spec, LimitedSigningNeedsKey

-----------------------------------------------------------------------------
(***************************************************************************)
(* An update goes on only over a row that is there, or that another        *)
(* request of its wallet is deleting or has deleted.                       *)
(***************************************************************************)
Undercut(t) == \E k \in Job : HasDeleted(k, t)

UpdatesFit ==
    \A j \in Job :
        /\ job[j] \in {"owned", "update", "reread"} => RowExists(task[j]) \/ Undercut(task[j])
        /\ job[j] = "assertion failed" => Undercut(task[j])

LEMMA UndercutStays ==
    ASSUME TypeOK, Ids, [Next]_vars, NEW t, Undercut(t)
    PROVE  Undercut(t)'
  <1>1. PICK k \in Job : HasDeleted(k, t)
    BY DEF Undercut
  <1>2. task'[k] = task[k] /\ job'[k] \in {"delete", "done", "failed"}
    BY <1>1, JobKeeps DEF HasDeleted, Ended
  <1>3. HasDeleted(k, t)'
    BY <1>1, <1>2 DEF HasDeleted
  <1> QED
    BY <1>3 DEF Undercut

\* Only a deletion by the wallet takes the row of its update away.
LEMMA RowTaken ==
    ASSUME Tenancy, [Next]_vars, NEW j \in Job, job[j] \in {"owned", "update", "reread"},
           RowExists(task[j])
    PROVE  RowExists(task[j])' \/ Undercut(task[j])'
  <1>0. TypeOK /\ Ids /\ Tenants /\ RowTenants
    BY DEF Tenancy
  <1>1. task'[j] = task[j]
    BY <1>0, JobKeeps
  <1>2. /\ task[j] \in Task /\ task[j].id \in Id /\ task[j].wallet \in Wallet
        /\ task[j].op \in {"update key", "update permission"}
    BY <1>0, TaskIs DEF TypeOK, AdminTypeOK, Ids, StagesFit
  <1>3. \A k \in Job : job[k] # "idle" => task[k].wallet \in Wallet /\ task[k].id \in Id
    BY <1>0, TaskIs DEF TypeOK, AdminTypeOK
  <1>4. ASSUME NEW k \in Job, Delete(k) \/ DeletePermissionsForKey(k)
        PROVE  /\ job[k] \in {"delete", "delete permissions"} /\ task'[k] = task[k]
               /\ job'[k] \in {"delete", "done", "failed"}
    <2>1. DOMAIN job = Job
      BY <1>0 DEF TypeOK, AdminTypeOK
    <2> QED
      BY <1>4, <2>1 DEF Delete, DeletePermissionsForKey, Proceed
  <1>5. CASE IsKeyOperation(task[j])
    <2>1. PICK r \in keys : r.id = task[j].id
      BY <1>5 DEF RowExists, KeyExists
    <2>2. CASE r \in keys'
      <3>1. KeyExists(task[j].id)'
        BY <1>1, <2>1, <2>2 DEF KeyExists
      <3> QED
        BY <1>1, <1>5, <3>1 DEF RowExists, IsKeyOperation
    <2>3. CASE r \notin keys'
      <3>1. PICK k \in Job : Delete(k) /\ task[k].op = "delete key" /\ r.id = task[k].id
        BY <1>0, <2>3, KeysStep
      <3>2. Claimed(r.id, task[k].wallet) /\ Claimed(r.id, task[j].wallet)
        BY <1>2, <1>4, <1>5, <2>1, <3>1 DEF Claimed, Referenced, ActsOnKey, Arrived, IsKeyOperation
      <3>3. task[k].wallet = task[j].wallet
        BY <1>0, <1>2, <1>3, <1>4, <2>1, <3>1, <3>2 DEF Tenants
      <3>4. HasDeleted(k, task[j])'
        BY <1>1, <1>4, <2>1, <3>1, <3>3 DEF HasDeleted
      <3> QED
        BY <3>4 DEF Undercut
    <2> QED
      BY <2>2, <2>3
  <1>6. CASE ~IsKeyOperation(task[j])
    <2>1. PICK p \in permissions : p.id = task[j].id
      BY <1>6 DEF RowExists, PermissionExists
    <2>2. p.wallet \in Wallet /\ p.key \in Id
      BY <1>0 DEF TypeOK, StoreTypeOK, PermissionRow
    <2>3. p.wallet = task[j].wallet
      <3>1. RowClaimed(p.id, p.wallet) /\ RowClaimed(p.id, task[j].wallet)
        BY <1>2, <1>6, <2>1 DEF RowClaimed, Arrived, IsKeyOperation
      <3> QED
        BY <1>0, <1>2, <2>1, <2>2, <3>1 DEF RowTenants
    <2>4. CASE \E q \in permissions' : SameRow(q, p)
      <3>1. PermissionExists(task[j].id)'
        BY <1>1, <2>1, <2>4 DEF PermissionExists, SameRow
      <3> QED
        BY <1>1, <1>6, <3>1 DEF RowExists, IsKeyOperation
    <2>5. ASSUME NEW k \in Job, DeletePermissionsForKey(k), task[k].op = "delete key",
                 p.key = task[k].id
          PROVE  HasDeleted(k, task[j])'
      <3>1. Claimed(p.key, p.wallet) /\ Claimed(p.key, task[k].wallet)
        BY <1>4, <2>5 DEF Claimed, Referenced, ActsOnKey, Arrived, IsKeyOperation
      <3>2. p.wallet = task[k].wallet
        BY <1>0, <1>3, <1>4, <2>2, <2>5, <3>1 DEF Tenants
      <3> QED
        BY <1>1, <1>4, <1>6, <2>3, <2>5, <3>2 DEF HasDeleted, IsKeyOperation
    <2>6. ASSUME NEW k \in Job, Delete(k), task[k].op = "delete permission", p.id = task[k].id
          PROVE  HasDeleted(k, task[j])'
      <3>1. RowClaimed(p.id, p.wallet) /\ RowClaimed(p.id, task[k].wallet)
        BY <1>4, <2>6 DEF RowClaimed, Arrived
      <3>2. p.wallet = task[k].wallet
        BY <1>0, <1>2, <1>3, <1>4, <2>1, <2>2, <2>6, <3>1 DEF RowTenants
      <3> QED
        BY <1>1, <1>4, <2>1, <2>3, <2>6, <3>2 DEF HasDeleted
    <2> QED
      BY <1>0, <2>4, <2>5, <2>6, PermissionsStep DEF Undercut
  <1> QED
    BY <1>5, <1>6

LEMMA UpdatesStep == Tenancy /\ UpdatesFit /\ [Next]_vars => UpdatesFit'
  <1> SUFFICES ASSUME Tenancy, UpdatesFit, [Next]_vars PROVE UpdatesFit'
    OBVIOUS
  <1>0. TypeOK /\ Ids
    BY DEF Tenancy
  <1>1. ASSUME NEW j \in Job, job'[j] \in {"owned", "update", "reread"}
        PROVE  RowExists(task[j])' \/ Undercut(task[j])'
    <2>1. CASE job[j] # "idle"
      <3>1. job[j] \in {"owned", "update", "reread"} /\ task'[j] = task[j]
        BY <1>0, <1>1, <2>1, JobKeeps
      <3>2. Undercut(task[j]) => Undercut(task[j])'
        <4>1. \A t : Undercut(t) => Undercut(t)'
          BY <1>0, UndercutStays
        <4> QED
          BY <3>1, <4>1 DEF Undercut, HasDeleted
      <3> QED
        BY <3>1, <3>2, RowTaken DEF UpdatesFit
    <2>2. CASE job[j] = "idle"
      <3>1. PICK k \in Job : JobNext(k)
        BY <1>1, <2>2 DEF Next, vars, admin
      <3>2. Arrive(k)
        BY <1>0, <1>1, <2>2, <3>1, JobFrame DEF JobNext, Stage
      <3>3. PICK t \in Task, a \in Stage \cup Ended : Arrives(k, t, a)
        BY <1>0, <3>2, ArriveStep
      <3>4. DOMAIN job = Job /\ DOMAIN task = Job
        BY <1>0 DEF TypeOK, AdminTypeOK
      <3>5. task'[j] = t /\ OwnedRow(t) /\ UNCHANGED <<keys, permissions>>
        BY <1>1, <2>2, <3>3, <3>4 DEF Arrives
      <3>6. RowExists(t)'
        BY <3>5 DEF OwnedRow, OwnedKey, RowExists, KeyExists, PermissionExists, IsKeyOperation
      <3> QED
        BY <3>5, <3>6 DEF RowExists, KeyExists, PermissionExists, IsKeyOperation
    <2> QED
      BY <2>1, <2>2
  <1>2. ASSUME NEW j \in Job, job'[j] = "assertion failed"
        PROVE  Undercut(task[j])'
    <2>1. job[j] # "idle" /\ (job[j] = "assertion failed" \/ UpdateReread(j))
      <3>0. DOMAIN job = Job /\ DOMAIN task = Job
        BY <1>0 DEF TypeOK, AdminTypeOK
      <3>1. ASSUME NEW k \in Job, JobNext(k), job[j] # "assertion failed"
            PROVE  UpdateReread(j) /\ job[j] = "reread"
        <4>1. CASE Arrive(k)
          <5>1. PICK t \in Task, a \in Stage \cup Ended : Arrives(k, t, a)
            BY <1>0, <4>1, ArriveStep
          <5> QED
            BY <1>2, <3>0, <3>1, <5>1 DEF Arrives
        <4>2. CASE JobStep(k)
          <5>1. k = j
            BY <1>0, <1>2, <3>1, <4>2, JobFrame
          <5> QED
            BY <1>2, <3>0, <4>2, <5>1 DEF JobStep, Insert, DeletePermissionsForKey, Delete, UpdateRead,
               Update, UpdateReread, JobFail, Advance, Proceed
        <4> QED
          BY <3>1, <4>1, <4>2 DEF JobNext
      <3> QED
        BY <1>2, <3>1 DEF Next, vars, admin
    <2>2. task'[j] = task[j]
      BY <1>0, <2>1, JobKeeps
    <2>3. Undercut(task[j])
      <3>1. UpdateReread(j) => job[j] = "reread" /\ ~RowExists(task[j])
        <4>1. DOMAIN job = Job
          BY <1>0 DEF TypeOK, AdminTypeOK
        <4> QED
          BY <1>2, <4>1 DEF UpdateReread, Advance
      <3> QED
        BY <2>1, <3>1 DEF UpdatesFit
    <2>4. \A t : Undercut(t) => Undercut(t)'
      BY <1>0, UndercutStays
    <2> QED
      BY <2>2, <2>3, <2>4 DEF Undercut, HasDeleted
  <1> QED
    BY <1>1, <1>2 DEF UpdatesFit

(***************************************************************************)
(* The assertion of update_key and update_permission ("assert updated is   *)
(* not None") fails only where a request of the same wallet is deleting or *)
(* has deleted that row, or a key and its permissions.                     *)
(***************************************************************************)
THEOREM AssertionsFail == Spec => []AssertionsFailOnlyUnderDelete
  <1>1. Init => UpdatesFit
    BY DEF Init, AdminInit, UpdatesFit
  <1>2. UpdatesFit => AssertionsFailOnlyUnderDelete
    BY DEF UpdatesFit, AssertionsFailOnlyUnderDelete, Undercut
  <1>3. Spec => [](Tenancy /\ UpdatesFit)
    BY <1>1, TenancyStart, TenancyStep, UpdatesStep, PTL DEF Spec
  <1> QED
    BY <1>2, <1>3, PTL

-----------------------------------------------------------------------------
(***************************************************************************)
(* What a step leaves of a quick setup, and which rows it may add to those *)
(* that the setup has made.                                                *)
(***************************************************************************)
LEMMA SetupKeeps ==
    ASSUME TypeOK, Ids, [Next]_vars, NEW t \in Setup
    PROVE  /\ setup[t] \in SetupEnded => /\ setup'[t] = setup[t] /\ made'[t] = made[t]
                                         /\ todo'[t] = todo[t]
           /\ \/ wanted'[t] = wanted[t] /\ before'[t] = before[t]
              \/ SetupArrive(t) /\ made'[t] = {} /\ todo'[t] = {}
           /\ made'[t] = made[t] \/ (made'[t] = made[t] \cup {nextId} /\ UNCHANGED permissions)
           /\ \/ todo'[t] = todo[t]
              \/ SetupRead(t) /\ Declared(t) # <<>>
              \/ SetupInsert(t) /\ todo'[t] = todo[t] \ {Place(t)}
  <1>1. CASE UNCHANGED quick
    BY <1>1 DEF quick
  <1>2. ASSUME NEW s \in Setup, SetupNext(s), s # t
        PROVE  /\ setup'[t] = setup[t] /\ wanted'[t] = wanted[t] /\ todo'[t] = todo[t]
               /\ made'[t] = made[t] /\ before'[t] = before[t]
    <2>1. before'[t] = before[t]
      BY <1>2 DEF SetupNext, SetupArrive, SetupRead, SetupStamp, SetupRefuse, SetupInsert, SetupDone,
         SetupFail, TypeOK, QuickTypeOK
    <2> QED
      BY <1>2, <2>1, SetupLoop
  <1>3. CASE SetupNext(t)
    <2>0. /\ DOMAIN setup = Setup /\ DOMAIN made = Setup /\ DOMAIN todo = Setup
      BY DEF TypeOK, QuickTypeOK
    <2>1. setup[t] \notin SetupEnded
      BY <1>3 DEF SetupNext, SetupArrive, SetupRead, SetupStamp, SetupRefuse, SetupInsert, SetupDone,
         SetupFail, SetupEnded, SetupStage
    <2>2. SetupArrive(t) => made'[t] = {} /\ todo'[t] = {}
      BY DEF SetupArrive, Ids, NothingGranted
    <2>3. ~SetupArrive(t) => wanted' = wanted /\ before' = before
      BY <1>3 DEF SetupNext, SetupRead, SetupStamp, SetupRefuse, SetupInsert, SetupDone, SetupFail
    <2>4. made'[t] = made[t] \/ (made'[t] = made[t] \cup {nextId} /\ UNCHANGED permissions)
      BY <1>3, <2>0, SetupStepIs DEF SetupStamps, SetupInserts, SetupGoesOn
    <2>5. \/ todo'[t] = todo[t]
          \/ SetupRead(t) /\ Declared(t) # <<>>
          \/ SetupInsert(t) /\ todo'[t] = todo[t] \ {Place(t)}
      BY <1>3, <2>0 DEF SetupNext, SetupArrive, SetupRead, SetupStamp, SetupRefuse, SetupInsert,
         SetupDone, SetupFail
    <2> QED
      BY <2>1, <2>2, <2>3, <2>4, <2>5
  <1> QED
    BY <1>1, <1>2, <1>3 DEF Next, vars

LEMMA MadeRows ==
    ASSUME TypeOK, Ids, [Next]_vars, NEW t \in Setup, NEW p \in permissions', p.id \in made[t]
    PROVE  \/ \E q \in permissions : SameRow(p, q)
           \/ SetupInsert(t) /\ p = SetupRow(t)
  <1>1. ASSUME NEW j \in Job, Insert(j), p = PermissionOf(task[j])
        PROVE  FALSE
    <2>1. job[j] = "insert" /\ p.id = task[j].id
      BY <1>1 DEF Insert, PermissionOf
    <2> QED
      BY <2>1 DEF Ids, StampsDiffer
  <1>2. ASSUME NEW s \in Setup, SetupInsert(s), p = SetupRow(s)
        PROVE  s = t
    <2>1. p.id \in made[s]
      BY <1>2, SetupRowIs DEF SetupInsert, Ids, StampsAreFresh
    <2> QED
      BY <2>1 DEF Ids, StampsDiffer
  <1> QED
    BY <1>1, <1>2, PermissionsStep

(***************************************************************************)
(* What a quick setup has still to grant is nothing that an earlier one    *)
(* has granted to the same key.                                            *)
(***************************************************************************)
Repeats ==
    /\ \A s \in Setup : \A t \in before[s] : t # s /\ setup[t] \in SetupEnded
    /\ \A s \in Setup : \A t \in before[s] : \A q \in permissions :
          q.id \in made[t] /\ q.key = wanted[s].key =>
              \A i \in todo[s] : Declared(s)[i].use # q.use
    /\ QuickSetupsDoNotRepeat

LEMMA RepeatsStep == Tenancy /\ Repeats /\ [Next]_vars => Repeats'
  <1> SUFFICES ASSUME Tenancy, Repeats, [Next]_vars PROVE Repeats'
    OBVIOUS
  <1>0. TypeOK /\ Ids /\ Tenants /\ RowTenants
    BY DEF Tenancy
  <1>1. before \in [Setup -> SUBSET Setup]
    BY <1>0 DEF TypeOK, QuickTypeOK
  <1>2. ASSUME NEW s \in Setup, NEW t \in before'[s]
        PROVE  t \in Setup /\ t # s /\ setup[t] \in SetupEnded
    <2>1. CASE before'[s] = before[s]
      BY <1>1, <1>2, <2>1 DEF Repeats
    <2>2. CASE SetupArrive(s)
      <3>1. t \in Setup /\ setup[t] \in SetupEnded /\ setup[s] = "idle"
        BY <1>1, <1>2, <2>2 DEF SetupArrive
      <3> QED
        BY <3>1 DEF SetupEnded
    <2> QED
      BY <1>0, <2>1, <2>2, SetupKeeps
  \* An earlier setup adds no row any more.
  <1>3. ASSUME NEW s \in Setup, NEW t \in before'[s], NEW q \in permissions', q.id \in made'[t]
        PROVE  \E r \in permissions : SameRow(q, r) /\ r.id \in made[t]
    <2>1. t \in Setup /\ setup[t] \in SetupEnded /\ made'[t] = made[t]
      BY <1>0, <1>2, SetupKeeps
    <2>2. ~SetupInsert(t)
      BY <2>1 DEF SetupInsert, SetupEnded
    <2>3. q.id \in made[t]
      BY <1>3, <2>1
    <2> QED
      BY <1>0, <2>1, <2>2, <2>3, MadeRows DEF SameRow
  <1>4. ASSUME NEW s \in Setup, NEW t \in before'[s], NEW q \in permissions',
               q.id \in made'[t], q.key = wanted'[s].key, NEW i \in todo'[s]
        PROVE  (Declared(s)[i].use # q.use)'
    <2>1. PICK r \in permissions : SameRow(q, r) /\ r.id \in made[t]
      BY <1>3, <1>4
    <2>2. wanted'[s] = wanted[s] /\ before'[s] = before[s]
      BY <1>0, <1>4, SetupKeeps
    <2>3. r.key = wanted[s].key /\ r.use = q.use /\ Declared(s)' = Declared(s)
      BY <1>4, <2>1, <2>2 DEF SameRow, Declared
    <2>4. CASE i \in todo[s]
      BY <2>1, <2>2, <2>3, <2>4 DEF Repeats
    <2>5. CASE SetupRead(s) /\ Declared(s) # <<>>
      <3>1. Declared(s)[i].use \notin GrantedSet(s)
        BY <1>0, <1>4, <2>5 DEF SetupRead, TypeOK, QuickTypeOK
      <3>2. wanted[s] \in SetupRequest /\ r \in PermissionRow
        BY <1>0, <2>5 DEF SetupRead, TypeOK, QuickTypeOK, StoreTypeOK
      <3>3. Claimed(r.key, r.wallet) /\ Claimed(r.key, wanted[s].wallet)
        BY <2>3, <2>5 DEF Claimed, Referenced, SetUp, SetupRead
      <3>4. r.wallet = wanted[s].wallet
        BY <1>0, <3>2, <3>3 DEF Tenants, SetupRequest, PermissionRow
      <3> QED
        BY <2>3, <3>1, <3>4 DEF GrantedSet
    <2> QED
      BY <1>0, <1>4, <2>4, <2>5, SetupKeeps
  <1>5. ASSUME NEW s \in Setup, NEW t \in before'[s], NEW p \in permissions', NEW q \in permissions',
               p.id \in made'[s], q.id \in made'[t], p.key = q.key, p.use = q.use
        PROVE  FALSE
    <2>1. PICK r \in permissions : SameRow(q, r) /\ r.id \in made[t]
      BY <1>3, <1>5
    <2>2. t \in Setup /\ t # s /\ wanted'[s] = wanted[s] /\ before'[s] = before[s]
      BY <1>0, <1>2, <1>5, SetupKeeps
    <2>3. p.id \in made[s]
      <3>1. ASSUME made'[s] = made[s] \cup {nextId}, UNCHANGED permissions, p.id = nextId
            PROVE  FALSE
        BY <1>0, <3>1, StoreAssumption DEF TypeOK, StoreTypeOK
      <3> QED
        BY <1>0, <1>5, <3>1, SetupKeeps
    <2>4. CASE \E o \in permissions : SameRow(p, o)
      <3>1. PICK o \in permissions : SameRow(p, o)
        BY <2>4
      <3> QED
        BY <1>5, <2>1, <2>2, <2>3, <3>1 DEF SameRow, Repeats, QuickSetupsDoNotRepeat
    <2>5. CASE SetupInsert(s) /\ p = SetupRow(s)
      <3>1. p.key = wanted[s].key /\ p.use = Upcoming(s).use
        BY <1>0, <2>5, SetupRowIs DEF SetupInsert
      <3>2. Place(s) \in todo[s]
        BY <1>0, <2>5, PlaceIs DEF SetupInsert, Ids, RowsAreAccepted
      <3>3. Declared(s)[Place(s)].use # r.use
        BY <1>5, <2>1, <2>2, <3>1, <3>2 DEF Repeats, SameRow
      <3> QED
        BY <1>5, <2>1, <3>1, <3>3 DEF Upcoming, SameRow
    <2> QED
      BY <1>0, <2>3, <2>4, <2>5, MadeRows
  <1>6. QuickSetupsDoNotRepeat'
    BY <1>5 DEF QuickSetupsDoNotRepeat
  <1>7. \A s \in Setup : \A t \in before'[s] : t # s /\ setup'[t] \in SetupEnded
    BY <1>0, <1>2, SetupKeeps
  <1> QED
    BY <1>4, <1>6, <1>7 DEF Repeats

(***************************************************************************)
(* "already granted" in api_quick_setup of views_api.py: a quick setup     *)
(* grants a key nothing that one before it has granted and that is still   *)
(* granted, however that one ended.                                        *)
(***************************************************************************)
THEOREM NothingTwice == Spec => []QuickSetupsDoNotRepeat
  <1>1. Init => Repeats
    BY DEF Init, QuickInit, Repeats, QuickSetupsDoNotRepeat
  <1>2. Repeats => QuickSetupsDoNotRepeat
    BY DEF Repeats
  <1>3. Spec => [](Tenancy /\ Repeats)
    BY <1>1, TenancyStart, TenancyStep, RepeatsStep, PTL DEF Spec
  <1> QED
    BY <1>2, <1>3, PTL

(***************************************************************************)
(* Past its reading of the grants, all that a quick setup has been asked   *)
(* for is still to be granted or has been held by its key meanwhile.       *)
(***************************************************************************)
Grants ==
    \A s \in Setup :
        /\ setup[s] \in {"granting", "inserting", "done"} =>
              \A i \in DOMAIN Declared(s) : Declared(s)[i].use \in held[s] \/ i \in todo[s]
        /\ setup[s] = "done" => todo[s] = {}

LEMMA GrantsStep == TypeOK /\ Ids /\ Grants /\ [Next]_vars => Grants'
  <1> SUFFICES ASSUME TypeOK, Ids, Grants, [Next]_vars, NEW s \in Setup
               PROVE  /\ setup'[s] \in {"granting", "inserting", "done"} =>
                            \A i \in (DOMAIN Declared(s))' :
                                (Declared(s)[i].use \in held[s])' \/ i \in todo'[s]
                      /\ setup'[s] = "done" => todo'[s] = {}
    BY DEF Grants
  <1>1. CASE UNCHANGED vars
    BY <1>1 DEF vars, quick, Grants, Declared
  <1>2. CASE Next
    <2>1. /\ held'[s] = IF setup'[s] \in SetupStage \/ setup[s] \in SetupStage
                        THEN held[s] \cup Holds(s)' ELSE held[s]
      BY <1>2 DEF Next, Observe
    <2>2. held[s] \subseteq held'[s]
      BY <2>1
    <2>3. CASE wanted'[s] = wanted[s] /\ todo'[s] = todo[s] /\ setup'[s] = setup[s]
      BY <2>2, <2>3 DEF Grants, Declared
    <2>4. CASE SetupNext(s)
      <3>0. DOMAIN setup = Setup /\ DOMAIN todo = Setup
        BY DEF TypeOK, QuickTypeOK
      <3>1. CASE SetupArrive(s)
        BY <3>0, <3>1 DEF SetupArrive, SetupAdvance
      <3>2. CASE SetupRead(s)
        <4>1. wanted' = wanted /\ permissions' = permissions
          BY <3>2 DEF SetupRead, store
        <4>2. held'[s] = held[s] \cup Holds(s)'
          BY <2>1, <3>2 DEF SetupRead, SetupStage
        <4>3. GrantedSet(s) \subseteq held'[s]
          BY <4>1, <4>2 DEF GrantedSet, Holds
        <4>4. setup'[s] \in {"not found", "granting"}
          BY <3>0, <3>2 DEF SetupRead, SetupAdvance
        <4>5. setup'[s] = "granting" =>
                 todo'[s] = {i \in DOMAIN Declared(s) : Declared(s)[i].use \notin GrantedSet(s)}
          BY <3>0, <3>2 DEF SetupRead, SetupAdvance
        <4>6. Declared(s)' = Declared(s)
          BY <4>1 DEF Declared
        <4> QED
          BY <4>3, <4>4, <4>5, <4>6
      <3>3. CASE SetupInsert(s)
        <4>1. /\ wanted' = wanted /\ permissions' = permissions \cup {SetupRow(s)}
              /\ setup'[s] \in {"granting", "failed"} /\ setup[s] = "inserting"
          BY <3>0, <3>3 DEF SetupInsert, SetupAdvance
        <4>2. SetupRow(s).key = wanted[s].key /\ SetupRow(s).use = Upcoming(s).use
          BY <4>1, SetupRowIs
        <4>3. Upcoming(s).use \in Holds(s)'
          BY <4>1, <4>2 DEF Holds
        <4>4. Declared(s)[Place(s)].use \in held'[s]
          BY <2>1, <4>1, <4>3 DEF SetupStage, Upcoming
        <4>5. Declared(s)' = Declared(s) /\ todo'[s] = todo[s] \ {Place(s)}
          BY <3>0, <3>3, <4>1 DEF Declared, SetupInsert
        <4> QED
          BY <2>2, <4>1, <4>4, <4>5 DEF Grants
      <3>4. CASE SetupStamp(s) \/ SetupRefuse(s) \/ SetupDone(s) \/ SetupFail(s)
        <4>1. wanted' = wanted /\ todo' = todo
          BY <3>4 DEF SetupStamp, SetupRefuse, SetupDone, SetupFail
        <4>2. /\ setup'[s] \in {"granting", "inserting", "done"} => setup[s] = "granting"
              /\ setup'[s] = "done" => todo[s] = {}
          BY <3>0, <3>4 DEF SetupStamp, SetupRefuse, SetupDone, SetupFail, SetupAdvance
        <4> QED
          BY <2>2, <4>1, <4>2 DEF Grants, Declared
      <3> QED
        BY <2>4, <3>1, <3>2, <3>3, <3>4 DEF SetupNext
    <2> QED
      BY <1>2, <2>3, <2>4, SetupLoop DEF Next, quick
  <1> QED
    BY <1>1, <1>2

(***************************************************************************)
(* POST /api/v1/quick-setup, "Grant all required permissions for an        *)
(* extension in one call": when it has answered, each use that the         *)
(* extension declares has been granted to the key since the request came.  *)
(***************************************************************************)
THEOREM GrantsAll == Spec => []QuickSetupGrantsAll
  <1>1. Init => Grants
    BY DEF Init, QuickInit, Grants
  <1>2. Grants => QuickSetupGrantsAll
    BY DEF Grants, QuickSetupGrantsAll
  <1>3. Spec => [](TypeOK /\ Ids /\ Grants)
    BY <1>1, TypesStart, StepTypes, GrantsStep, PTL DEF Spec
  <1> QED
    BY <1>2, <1>3, PTL

-----------------------------------------------------------------------------
(***************************************************************************)
(* Resolution goes by what matches and by whether a key is known.          *)
(***************************************************************************)
LEMMA SameMatching ==
    ASSUME NEW K, NEW L, NEW P, NEW Q, NEW r,
           Matching(K, P, r) = Matching(L, Q, r), Known(K, r) <=> Known(L, r)
    PROVE  Resolution(K, P, r) = Resolution(L, Q, r)
  <1> DEFINE Top(m) == CHOOSE p \in m : \A q \in m : q.key <= p.key
             Res(m, known) ==
                CASE ~known -> [answer |-> "no key", permission |-> {}]
                  [] known /\ m = {} -> [answer |-> "denied", permission |-> {}]
                  [] known /\ m # {} ->
                        [answer |-> "found", permission |-> {Newest({p \in m : p.key = Top(m).key})}]
  <1>1. /\ Resolution(K, P, r) = Res(Matching(K, P, r), Known(K, r))
        /\ Resolution(L, Q, r) = Res(Matching(L, Q, r), Known(L, r))
    BY DEF Resolution, Known
  <1>2. Known(K, r) = Known(L, r)
    BY DEF Known
  <1> HIDE DEF Res
  <1> QED
    BY <1>1, <1>2

LEMMA MatchingNamed ==
    ASSUME NEW K, NEW P, NEW r, r.key # AnyKey
    PROVE  /\ Known(K, r) <=> OwnedKey(K, r.wallet, r.key)
           /\ Matching(K, P, r) = IF OwnedKey(K, r.wallet, r.key)
                                  THEN {p \in P : p.wallet = r.wallet /\ p.use = r.use /\ p.key = r.key}
                                  ELSE {}
  BY DEF Known, Matching, OwnedKey

\* While a call resolves, each step adds the answer of the moment to its history.
LEMMA Observed ==
    ASSUME [Next]_vars, NEW c \in Call
    PROVE  /\ current[c] \subseteq current'[c]
           /\ Next /\ (call[c] = "resolving" \/ call'[c] = "resolving") =>
                 Resolution(keys', permissions', asked'[c]) \in current'[c]
  <1>1. CASE UNCHANGED vars /\ ~Next
    BY <1>1 DEF vars
  <1>2. CASE Next
    <2>1. current'[c] = IF call'[c] = "resolving" \/ call[c] = "resolving"
                        THEN current[c] \cup {RightNow(c)'}
                        ELSE current[c]
      BY <1>2 DEF Next, Observe
    <2>2. RightNow(c)' = Resolution(keys', permissions', asked'[c])
      BY DEF RightNow, Resolution, Matching, OwnedKey, Newest
    <2> HIDE DEF RightNow
    <2> QED
      BY <2>1, <2>2
  <1> QED
    BY <1>1, <1>2

(***************************************************************************)
(* The steps that bear on the resolution of a call: its beginning, its     *)
(* end, and what others do to the tables in between.                       *)
(***************************************************************************)
LEMMA ResolvingStep ==
    ASSUME TypeOK, Ids, [Next]_vars, NEW c \in Call
    PROVE  \/ /\ SignRead(c) /\ UNCHANGED store /\ call[c] = "idle" /\ call'[c] = "resolving"
              /\ seen'[c] = {p \in permissions : p.wallet = asked'[c].wallet}
              /\ asked'[c] \in CallRequest
           \/ /\ SignResolve(c) /\ UNCHANGED store /\ asked'[c] = asked[c]
              /\ call[c] = "resolving" /\ call'[c] # "resolving"
           \/ /\ call[c] = "resolving" /\ call'[c] = "resolving"
              /\ asked'[c] = asked[c] /\ seen'[c] = seen[c]
           \/ /\ call'[c] # "resolving" /\ asked'[c] = asked[c] /\ chosen'[c] = chosen[c]
              /\ Resolved(c)' => Resolved(c)
              /\ call'[c] = "denied" => call[c] = "denied"
           \/ call'[c] \in {"using", "no key"} /\ call[c] = "idle"
  <1>0. /\ call \in [Call -> {"idle"} \cup UnderWay \cup Answered] /\ DOMAIN asked = Call
        /\ DOMAIN seen = Call
    BY DEF TypeOK, ServiceTypeOK
  <1>1. CASE UNCHANGED service
    BY <1>1 DEF service, Resolved
  <1>2. ASSUME NEW d \in Call, CallNext(d), d # c
        PROVE  call'[c] = call[c] /\ asked'[c] = asked[c] /\ seen'[c] = seen[c] /\ chosen'[c] = chosen[c]
    BY <1>2, CallFrame
  <1>3. CASE SignRead(c)
    BY <1>0, <1>3 DEF SignRead, store
  <1>4. CASE SignResolve(c)
    BY <1>4, ResolveStep, ResolvesTo DEF SignResolve
  <1>5. CASE UseKeyRead(c)
    BY <1>0, <1>5 DEF UseKeyRead
  <1>6. CASE CallNext(c) /\ call[c] \notin {"idle", "resolving"}
    BY <1>6, CallGoesOn DEF Resolved
  <1>7. CASE CallFail(c) /\ call[c] = "resolving"
    BY <1>0, <1>7 DEF CallFail, Resolved
  <1>8. CASE CallNext(c) /\ call[c] \in {"idle", "resolving"}
    BY <1>0, <1>3, <1>4, <1>5, <1>7, <1>8 DEF CallNext, CallStep, SignDecrypt, SignReserve, SignRefuse,
       SignUnlimited, UseKeyDecrypt, CallFail, UnderWay
  <1> QED
    BY <1>1, <1>2, <1>6, <1>8 DEF Next, vars, Resolved

(***************************************************************************)
(* A key that a call has named and that is still there gives it an answer  *)
(* that has been right since the call has read its permissions.            *)
(***************************************************************************)
NamedFit ==
    \A c \in Call : asked[c].key # AnyKey =>
        /\ call[c] = "resolving" /\ OwnedKey(keys, asked[c].wallet, asked[c].key) =>
              Resolution(keys, seen[c], asked[c]) \in current[c]
        /\ ResolutionWasCurrent(c)

LEMMA NamedStep == Tenancy /\ NamedFit /\ [Next]_vars => NamedFit'
  <1> SUFFICES ASSUME Tenancy, NamedFit, [Next]_vars, NEW c \in Call, asked'[c].key # AnyKey
               PROVE  /\ call'[c] = "resolving" /\ OwnedKey(keys', asked'[c].wallet, asked'[c].key) =>
                            Resolution(keys', seen'[c], asked'[c]) \in current'[c]
                      /\ Resolved(c)' => [answer |-> "found", permission |-> chosen'[c]] \in current'[c]
                      /\ call'[c] = "denied" => [answer |-> "denied", permission |-> {}] \in current'[c]
    BY DEF NamedFit, ResolutionWasCurrent, Resolution, Matching, OwnedKey, Newest
  <1>0. TypeOK /\ Ids /\ Tenants
    BY DEF Tenancy
  <1>1. /\ current[c] \subseteq current'[c]
        /\ Next /\ (call[c] = "resolving" \/ call'[c] = "resolving") =>
                 Resolution(keys', permissions', asked'[c]) \in current'[c]
    BY Observed
  <1>2. CASE /\ SignRead(c) /\ UNCHANGED store /\ call[c] = "idle" /\ call'[c] = "resolving"
             /\ seen'[c] = {p \in permissions : p.wallet = asked'[c].wallet}
    <2>1. Next
      BY <1>2 DEF vars, service
    <2>2. Matching(keys', seen'[c], asked'[c]) = Matching(keys', permissions', asked'[c])
      BY <1>2 DEF Matching, store
    <2>3. Resolution(keys', seen'[c], asked'[c]) = Resolution(keys', permissions', asked'[c])
      BY <2>2, SameMatching
    <2> QED
      BY <1>1, <1>2, <2>1, <2>3 DEF Resolved
  <1>3. CASE /\ SignResolve(c) /\ UNCHANGED store /\ asked'[c] = asked[c]
             /\ call[c] = "resolving" /\ call'[c] # "resolving"
    <2>1. CASE Resolved(c)' \/ call'[c] = "denied"
      <3>1. Known(keys, asked[c])
        BY <1>0, <1>3, <2>1, ResolvesTo DEF Resolved, Matching, Known, OwnedKey
      <3>2. Resolution(keys, seen[c], asked[c]) \in current[c]
        BY <1>3, <3>1, MatchingNamed DEF NamedFit
      <3>3. Resolved(c)' => Resolution(keys, seen[c], asked[c]) = [answer |-> "found", permission |-> chosen'[c]]
        BY <1>0, <1>3, ResolvesTo DEF Resolved
      <3>4. call'[c] = "denied" =>
               Resolution(keys, seen[c], asked[c]) = [answer |-> "denied", permission |-> {}]
        <4>1. call'[c] = "denied" => Matching(keys, seen[c], asked[c]) = {}
          BY <1>0, <1>3, ResolvesTo
        <4>2. seen[c] \subseteq PermissionRow
          BY <1>0 DEF TypeOK, ServiceTypeOK
        <4> QED
          BY <3>1, <4>1, <4>2, ResolutionIs
      <3> QED
        BY <1>1, <1>3, <3>2, <3>3, <3>4 DEF Resolved
    <2> QED
      BY <1>3, <2>1
  <1>4. CASE /\ call[c] = "resolving" /\ call'[c] = "resolving"
             /\ asked'[c] = asked[c] /\ seen'[c] = seen[c]
    <2> DEFINE w == asked[c].wallet
               k == asked[c].key
    <2>0. w \in Wallet /\ k \in Id
      BY <1>0, <1>4 DEF TypeOK, ServiceTypeOK, CallRequest
    <2>1. CASE OwnedKey(keys', w, k) /\ OwnedKey(keys, w, k)
      <3>1. /\ Matching(keys', seen[c], asked[c]) = Matching(keys, seen[c], asked[c])
            /\ Known(keys', asked[c]) <=> Known(keys, asked[c])
        <4> DEFINE m == {p \in seen[c] : p.wallet = w /\ p.use = asked[c].use /\ p.key = k}
        <4>0. k # AnyKey
          BY <1>4
        <4>1. ASSUME NEW K, OwnedKey(K, w, k)
              PROVE  Matching(K, seen[c], asked[c]) = m /\ Known(K, asked[c])
          <5>1. Known(K, asked[c])
            BY <4>1 DEF Known, OwnedKey
          <5>2. Matching(K, seen[c], asked[c]) = m
            BY <4>0, <4>1 DEF Matching
          <5> QED
            BY <5>1, <5>2
        <4> HIDE DEF m
        <4> QED
          BY <2>1, <4>1
      <3>2. Resolution(keys', seen[c], asked[c]) = Resolution(keys, seen[c], asked[c])
        BY <3>1, SameMatching
      <3>3. Resolution(keys, seen[c], asked[c]) \in current[c]
        BY <1>4, <2>1 DEF NamedFit
      <3> QED
        BY <1>1, <1>4, <3>2, <3>3 DEF Resolved
    <2>2. CASE OwnedKey(keys', w, k) /\ ~OwnedKey(keys, w, k)
      <3>1. PICK r \in keys' : r.id = k /\ r.wallet = w /\ r \notin keys
        BY <2>2 DEF OwnedKey
      <3>2. PICK j \in Job : Insert(j) /\ task[j].op = "create key" /\ task[j].id = k
        BY <1>0, <3>1, KeysStep
      <3>3. ~Referenced(k, w)
        BY <1>0, <2>0, <3>2 DEF Tenants, Insert
      <3>4. permissions' = permissions /\ Next
        BY <3>1, <3>2 DEF Insert, vars, store
      <3>5. /\ \A p \in seen[c] : ~(p.key = k /\ p.wallet = w)
            /\ \A p \in permissions : ~(p.key = k /\ p.wallet = w)
        BY <3>3 DEF Referenced
      <3>6. Matching(keys', seen[c], asked[c]) = {} /\ Matching(keys', permissions', asked[c]) = {}
        BY <1>4, <2>2, <3>4, <3>5, MatchingNamed
      <3>7. Resolution(keys', seen[c], asked[c]) = Resolution(keys', permissions', asked[c])
        BY <3>6, SameMatching
      <3> QED
        BY <1>1, <1>4, <3>4, <3>7 DEF Resolved
    <2> QED
      BY <1>4, <2>1, <2>2 DEF Resolved
  <1>5. CASE /\ call'[c] # "resolving" /\ asked'[c] = asked[c] /\ chosen'[c] = chosen[c]
             /\ Resolved(c)' => Resolved(c)
             /\ call'[c] = "denied" => call[c] = "denied"
    BY <1>1, <1>5 DEF NamedFit, ResolutionWasCurrent
  <1>6. CASE call'[c] \in {"using", "no key"} /\ call[c] = "idle"
    BY <1>6 DEF Resolved
  <1> QED
    BY <1>0, <1>2, <1>3, <1>4, <1>5, <1>6, ResolvingStep

(***************************************************************************)
(* sign_event reads permissions and key apart (services.py), and a request *)
(* that names its key is still resolved as at one moment: a permission is  *)
(* of one key for ever, and no key comes back once it is gone.             *)
(***************************************************************************)
THEOREM NamedAtOneMoment == Spec => []NamedKeyResolvedAtOneMoment
  <1>1. Init => NamedFit
    BY DEF Init, ServiceInit, NamedFit, ResolutionWasCurrent, Resolved
  <1>2. NamedFit => NamedKeyResolvedAtOneMoment
    BY DEF NamedFit, NamedKeyResolvedAtOneMoment
  <1>3. Spec => [](Tenancy /\ NamedFit)
    BY <1>1, TenancyStart, TenancyStep, NamedStep, PTL DEF Spec
  <1> QED
    BY <1>2, <1>3, PTL

-----------------------------------------------------------------------------
(***************************************************************************)
(* A request that names no key gets the newest of the keys that what it    *)
(* has read offers: WouldGet(K, P, r, k) for the rows K and P.             *)
(***************************************************************************)
Offered(P, r, k) == \E p \in P : p.wallet = r.wallet /\ p.use = r.use /\ p.key = k

WouldGet(K, P, r, k) ==
    /\ Offered(P, r, k) /\ OwnedKey(K, r.wallet, k)
    /\ \A l \in Id : Offered(P, r, l) /\ OwnedKey(K, r.wallet, l) => l <= k

\* The key was the newest one at some moment of the resolution.
Given(c, k) == \E r \in current[c] : \E q \in r.permission : q.key = k

Without(k) == {r \in keys : r.id # k}

LEMMA GetsIt ==
    ASSUME NEW K, NEW P, P \subseteq PermissionRow, NEW r, r.key = AnyKey, NEW k, WouldGet(K, P, r, k)
    PROVE  \E q \in Resolution(K, P, r).permission : q.key = k
  <1>1. PICK p \in P : p.wallet = r.wallet /\ p.use = r.use /\ p.key = k
    BY DEF WouldGet, Offered
  <1>2. p \in Matching(K, P, r) /\ k \in Id
    BY <1>1 DEF Matching, WouldGet, PermissionRow
  <1>3. Known(K, r)
    BY DEF WouldGet, OwnedKey, Known
  <1>4. PICK q \in Matching(K, P, r) :
           /\ Resolution(K, P, r) = [answer |-> "found", permission |-> {q}]
           /\ \A o \in Matching(K, P, r) : o.key <= q.key
    BY <1>2, <1>3, ResolutionIs
  <1>5. q.key \in Id /\ k <= q.key
    BY <1>1, <1>2, <1>4 DEF Matching, PermissionRow
  <1>6. q.key <= k
    BY <1>5 DEF Matching, WouldGet, Offered
  <1>7. q.key = k
    BY <1>2, <1>5, <1>6 DEF Id
  <1> QED
    BY <1>4, <1>7

(***************************************************************************)
(* What a call without a key goes by, while nothing misleads it.           *)
(***************************************************************************)
Granting == (\E k \in Job : Granter(k)) \/ (\E s \in Setup : made[s] # {})

DeletesKey(j) == job[j] = "delete" /\ task[j].op = "delete key"

Emptied ==
    \A j \in Job : DeletesKey(j) => Granting \/ \A p \in permissions : p.key # task[j].id

DefaultFit ==
    \A c \in Call : asked[c].key = AnyKey =>
        /\ call[c] = "resolving" =>
              \/ Granting \/ \E j \in Job : Remover(j)
              \/ \A k : Offered(seen[c], asked[c], k) <=> Offered(permissions, asked[c], k)
        /\ call[c] = "resolving" /\ ~Misled =>
              /\ \A k : WouldGet(keys, seen[c], asked[c], k) => Given(c, k)
              /\ \A j \in Job : DeletesKey(j) =>
                    \A k : WouldGet(Without(task[j].id), seen[c], asked[c], k) => Given(c, k)
        /\ Resolved(c) => WasNewestKey(c) \/ Misled

LEMMA MisledStays ==
    ASSUME TypeOK, Ids, [Next]_vars
    PROVE  /\ Granting => Granting'
           /\ \A j \in Job : Remover(j) => Remover(j)'
           /\ Misled => Misled'
  <1>1. \A j \in Job : Remover(j) => Remover(j)'
    BY JobKeeps DEF Remover, Ended
  <1>2. \A j \in Job : Granter(j) => Granter(j)'
    BY JobKeeps DEF Granter, Ended
  <1>3. \A s \in Setup : made[s] # {} => made'[s] # {}
    <2> SUFFICES ASSUME NEW s \in Setup, made[s] # {} PROVE made'[s] # {}
      OBVIOUS
    <2>1. made'[s] = made[s] \/ made'[s] = made[s] \cup {nextId} \/ (SetupArrive(s) /\ made'[s] = {})
      BY SetupKeeps
    <2>2. ~SetupArrive(s)
      BY DEF SetupArrive, Ids, NothingGranted
    <2> QED
      BY <2>1, <2>2
  <1>4. Granting => Granting'
    BY <1>2, <1>3 DEF Granting
  <1>5. Misled => Misled'
    BY <1>1, <1>2, <1>3 DEF Misled
  <1> QED
    BY <1>1, <1>4, <1>5

\* What removes or adds a permission makes its request a remover or a granter.
LEMMA OffersMove ==
    ASSUME TypeOK, Ids, [Next]_vars, ~Granting'
    PROVE  /\ \A p \in permissions' : \E q \in permissions : SameRow(p, q)
           /\ \A j \in Job : Delete(j) \/ DeletePermissionsForKey(j) => Remover(j)'
  <1>0. DOMAIN job = Job
    BY DEF TypeOK, AdminTypeOK
  <1>1. ASSUME NEW j \in Job, Insert(j), task[j].op = "create permission"
        PROVE  FALSE
    <2>1. Granter(j)'
      BY <1>0, <1>1 DEF Insert, Proceed, Granter
    <2> QED
      BY <2>1 DEF Granting
  <1>2. ASSUME NEW s \in Setup, SetupInsert(s)
        PROVE  FALSE
    <2>1. made' = made /\ made[s] # {}
      BY <1>2 DEF SetupInsert, Ids, StampsAreFresh
    <2> QED
      BY <2>1 DEF Granting
  <1>3. \A p \in permissions' : \E q \in permissions : SameRow(p, q)
    BY <1>1, <1>2, PermissionsStep
  <1>4. ASSUME NEW j \in Job, Delete(j) \/ DeletePermissionsForKey(j)
        PROVE  Remover(j)'
    <2>1. task'[j] = task[j] /\ task[j].op \in {"delete key", "delete permission"}
      BY <1>4 DEF Delete, DeletePermissionsForKey, Ids, StagesFit
    <2>2. job'[j] \in {"delete", "done", "failed"}
      BY <1>0, <1>4 DEF Delete, DeletePermissionsForKey, Proceed
    <2> QED
      BY <2>1, <2>2 DEF Remover
  <1> QED
    BY <1>3, <1>4

LEMMA EmptiedStep == TypeOK /\ Ids /\ Emptied /\ [Next]_vars => Emptied'
  <1> SUFFICES ASSUME TypeOK, Ids, Emptied, [Next]_vars, NEW j \in Job, DeletesKey(j)',
                      ~Granting', NEW p \in permissions'
               PROVE  p.key # task'[j].id
    BY DEF Emptied
  <1>1. PICK q \in permissions : SameRow(p, q)
    BY OffersMove
  <1>2. ~Granting
    BY MisledStays
  <1>3. CASE job[j] = "delete"
    <2>1. task'[j] = task[j]
      BY <1>3, JobKeeps
    <2> QED
      BY <1>1, <1>2, <1>3, <2>1 DEF Emptied, DeletesKey, SameRow
  <1>4. CASE job[j] # "delete"
    BY <1>4, DeletionReached DEF DeletesKey, DeletePermissionsForKey
  <1> QED
    BY <1>3, <1>4

\* A key that comes while a call resolves is not on offer to it.
LEMMA KeysOffered ==
    ASSUME Tenancy, [Next]_vars, NEW c \in Call, call[c] = "resolving", NEW k,
           Offered(seen[c], asked[c], k), NEW r \in keys', r.id = k, r.wallet = asked[c].wallet
    PROVE  r \in keys
  <1>0. TypeOK /\ Ids /\ Tenants
    BY DEF Tenancy
  <1>1. ASSUME NEW j \in Job, Insert(j), task[j].op = "create key", task[j].id = k
        PROVE  FALSE
    <2>1. asked[c].wallet \in Wallet
      BY <1>0 DEF TypeOK, ServiceTypeOK, CallRequest
    <2>2. Referenced(k, asked[c].wallet)
      BY DEF Offered, Referenced
    <2> QED
      BY <1>0, <1>1, <2>1, <2>2 DEF Tenants, Insert
  <1> QED
    BY <1>0, <1>1, KeysStep

\* What a call would get is the same under keys and permissions that offer it the same.
LEMMA WouldGetSame ==
    ASSUME NEW K, NEW L, NEW P, NEW Q, NEW r, NEW k, WouldGet(K, P, r, k),
           \A l : Offered(P, r, l) /\ OwnedKey(K, r.wallet, l) => Offered(Q, r, l) /\ OwnedKey(L, r.wallet, l),
           \A l : Offered(Q, r, l) /\ OwnedKey(L, r.wallet, l) => Offered(P, r, l) /\ OwnedKey(K, r.wallet, l)
    PROVE  WouldGet(L, Q, r, k)
  BY DEF WouldGet

LEMMA DefaultStep == Tenancy /\ Emptied /\ DefaultFit /\ [Next]_vars => DefaultFit'
  <1> SUFFICES ASSUME Tenancy, Emptied, DefaultFit, [Next]_vars, NEW c \in Call, asked'[c].key = AnyKey
               PROVE  /\ call'[c] = "resolving" =>
                            \/ Granting' \/ \E j \in Job : Remover(j)'
                            \/ \A k : Offered(seen'[c], asked'[c], k) <=> Offered(permissions', asked'[c], k)
                      /\ call'[c] = "resolving" /\ ~Misled' =>
                            /\ \A k : WouldGet(keys', seen'[c], asked'[c], k) => Given(c, k)'
                            /\ \A j \in Job : DeletesKey(j)' =>
                                  \A k : WouldGet(Without(task[j].id)', seen'[c], asked'[c], k) => Given(c, k)'
                      /\ Resolved(c)' => WasNewestKey(c)' \/ Misled'
    BY DEF DefaultFit, Offered, WouldGet, OwnedKey
  <1>0. TypeOK /\ Ids /\ Tenants /\ TypeOK' /\ Ids' /\ Emptied'
    BY StepTypes, EmptiedStep DEF Tenancy
  <1>1. /\ current[c] \subseteq current'[c] /\ \A k : Given(c, k) => Given(c, k)'
        /\ Next /\ (call[c] = "resolving" \/ call'[c] = "resolving") =>
                 Resolution(keys', permissions', asked'[c]) \in current'[c]
    BY Observed DEF Given
  <1>2. /\ Granting => Granting'
        /\ \A j \in Job : Remover(j) => Remover(j)'
        /\ Misled => Misled'
    BY <1>0, MisledStays
  <1>3. ASSUME NEW k, Next, call[c] = "resolving" \/ call'[c] = "resolving",
               WouldGet(keys', permissions', asked'[c], k)
        PROVE  Given(c, k)'
    <2>1. permissions' \subseteq PermissionRow
      BY <1>0 DEF TypeOK, StoreTypeOK
    <2>2. \E q \in Resolution(keys', permissions', asked'[c]).permission : q.key = k
      BY <1>3, <2>1, GetsIt
    <2> QED
      BY <1>1, <1>3, <2>2 DEF Given
  <1>4. ASSUME NEW j \in Job, DeletesKey(j)', ~Misled'
        PROVE  /\ ~Granting' /\ ~Granting /\ Remover(j)'
               /\ \A i \in Job : Remover(i)' => i = j
               /\ \A p \in permissions' : p.key # task'[j].id
    <2>1. Remover(j)'
      BY <1>4 DEF DeletesKey, Remover
    <2>2. ~Granting' /\ \A i \in Job : Remover(i)' => i = j
      <3>1. \A i \in Job : Granter(i)' => i # j
        BY <2>1 DEF Granter, Remover
      <3> QED
        BY <1>4, <2>1, <3>1 DEF Misled, Granting
    <2> QED
      BY <1>0, <1>2, <1>4, <2>1, <2>2 DEF Emptied
  \* The call reads its permissions.
  <1>5. CASE /\ SignRead(c) /\ UNCHANGED store /\ call[c] = "idle" /\ call'[c] = "resolving"
             /\ seen'[c] = {p \in permissions : p.wallet = asked'[c].wallet}
    <2>1. Next
      BY <1>5 DEF vars, service
    <2>2. \A k : Offered(seen'[c], asked'[c], k) <=> Offered(permissions', asked'[c], k)
      BY <1>5 DEF Offered, store
    <2>3. ASSUME NEW k, WouldGet(keys', seen'[c], asked'[c], k)
          PROVE  Given(c, k)'
      <3>1. WouldGet(keys', permissions', asked'[c], k)
        BY <2>2, <2>3, WouldGetSame
      <3> QED
        BY <1>3, <1>5, <2>1, <3>1
    <2>4. ASSUME NEW j \in Job, DeletesKey(j)', ~Misled', NEW k,
                 WouldGet(Without(task[j].id)', seen'[c], asked'[c], k)
          PROVE  Given(c, k)'
      <3>1. \A l : Offered(permissions', asked'[c], l) => l # task'[j].id
        BY <1>4, <2>4 DEF Offered
      <3>2. \A l : l # task'[j].id =>
               (OwnedKey(keys', asked'[c].wallet, l) <=> OwnedKey(Without(task[j].id)', asked'[c].wallet, l))
        BY DEF OwnedKey, Without
      <3>3. WouldGet(keys', permissions', asked'[c], k)
        BY <2>2, <2>4, <3>1, <3>2, WouldGetSame
      <3> QED
        BY <1>3, <1>5, <2>1, <3>3
    <2> QED
      BY <1>5, <2>2, <2>3, <2>4 DEF Resolved
  \* It resolves.
  <1>6. CASE /\ SignResolve(c) /\ UNCHANGED store /\ asked'[c] = asked[c]
             /\ call[c] = "resolving" /\ call'[c] # "resolving"
    <2> SUFFICES ASSUME Resolved(c)', ~Misled' PROVE WasNewestKey(c)'
      BY <1>6
    <2>1. PICK p \in Matching(keys, seen[c], asked[c]) :
             /\ chosen'[c] = {p} /\ \A q \in Matching(keys, seen[c], asked[c]) : q.key <= p.key
      BY <1>0, <1>6, ResolvesTo DEF Resolved
    <2>2. WouldGet(keys, seen[c], asked[c], p.key)
      BY <1>6, <2>1 DEF WouldGet, Offered, Matching
    <2>3. Given(c, p.key)
      BY <1>2, <1>6, <2>2 DEF DefaultFit
    <2>4. Given(c, p.key)'
      BY <1>1, <2>3 DEF Given
    <2> QED
      BY <2>1, <2>4 DEF Given, WasNewestKey
  \* Others step while it resolves.
  <1>7. CASE /\ call[c] = "resolving" /\ call'[c] = "resolving"
             /\ asked'[c] = asked[c] /\ seen'[c] = seen[c]
    <2> DEFINE w == asked[c].wallet
    <2>1. ASSUME ~Granting', \A j \in Job : ~Remover(j)', NEW k
          PROVE  Offered(seen[c], asked[c], k) <=> Offered(permissions', asked[c], k)
      <3>1. \A p \in permissions' : \E q \in permissions : SameRow(p, q)
        BY <1>0, <2>1, OffersMove
      <3>2. \A p \in permissions : \E q \in permissions' : SameRow(q, p)
        BY <1>0, <2>1, OffersMove, PermissionsStep
      <3>3. Offered(permissions, asked[c], k) <=> Offered(permissions', asked[c], k)
        BY <3>1, <3>2 DEF Offered, SameRow
      <3>4. Offered(seen[c], asked[c], k) <=> Offered(permissions, asked[c], k)
        BY <1>2, <1>7, <2>1 DEF DefaultFit
      <3> QED
        BY <3>3, <3>4
    <2>2. ASSUME keys \subseteq keys', NEW l, Offered(seen[c], asked[c], l)
          PROVE  /\ OwnedKey(keys, w, l) <=> OwnedKey(keys', w, l)
                 /\ \A j \in Job : task'[j] = task[j] =>
                       (OwnedKey(Without(task[j].id), w, l) <=> OwnedKey(Without(task[j].id)', w, l))
      <3>1. \A r \in keys' : r.id = l /\ r.wallet = w => r \in keys
        BY <1>7, <2>2, KeysOffered
      <3> QED
        BY <2>2, <3>1 DEF OwnedKey, Without
    <2>3. ASSUME ~(keys \subseteq keys')
          PROVE  \E j \in Job : /\ Delete(j) /\ DeletesKey(j) /\ keys' = Without(task[j].id)
                                /\ ~DeletesKey(j)' /\ Remover(j)
      <3>1. PICK j \in Job : Delete(j) /\ task[j].op = "delete key"
        BY <1>0, <2>3, KeysStep
      <3>2. DOMAIN job = Job
        BY <1>0 DEF TypeOK, AdminTypeOK
      <3>3. job[j] = "delete" /\ job'[j] # "delete"
        BY <3>1, <3>2 DEF Delete, Proceed
      <3>4. keys' = Without(task[j].id)
        BY <3>1 DEF Delete, IsKeyOperation, Deletes, Without
      <3> QED
        BY <3>1, <3>3, <3>4 DEF DeletesKey, Remover
    <2>4. ASSUME ~Misled', NEW k, WouldGet(keys', seen[c], asked[c], k)
          PROVE  Given(c, k)'
      <3>1. CASE keys \subseteq keys'
        <4>1. WouldGet(keys, seen[c], asked[c], k)
          BY <2>2, <2>4, <3>1, WouldGetSame
        <4> QED
          BY <1>1, <1>2, <1>7, <2>4, <4>1 DEF DefaultFit
      <3>2. CASE ~(keys \subseteq keys')
        <4>1. PICK j \in Job : DeletesKey(j) /\ keys' = Without(task[j].id)
          BY <2>3, <3>2
        <4>2. WouldGet(Without(task[j].id), seen[c], asked[c], k)
          BY <2>4, <4>1
        <4> QED
          BY <1>1, <1>2, <1>7, <2>4, <4>1, <4>2 DEF DefaultFit
      <3> QED
        BY <3>1, <3>2
    <2>5. ASSUME ~Misled', NEW j \in Job, DeletesKey(j)', NEW k,
                 WouldGet(Without(task[j].id)', seen[c], asked[c], k)
          PROVE  Given(c, k)'
      <3>1. CASE job[j] = "delete"
        <4>1. task'[j] = task[j] /\ DeletesKey(j)
          BY <1>0, <2>5, <3>1, JobKeeps DEF DeletesKey
        <4>2. keys \subseteq keys'
          BY <1>2, <1>4, <2>3, <2>5
        <4>3. WouldGet(Without(task[j].id), seen[c], asked[c], k)
          BY <2>2, <2>5, <4>1, <4>2, WouldGetSame
        <4> QED
          BY <1>1, <1>2, <1>7, <2>5, <4>1, <4>3 DEF DefaultFit
      <3>2. CASE job[j] # "delete"
        <4>1. DeletePermissionsForKey(j) /\ Next
          BY <1>0, <2>5, <3>2, DeletionReached DEF DeletesKey
        <4>2. /\ keys' = keys /\ task'[j] = task[j]
              /\ permissions' = {p \in permissions : p.key # task[j].id}
          BY <4>1 DEF DeletePermissionsForKey
        <4>3. ~Granting /\ \A i \in Job : ~Remover(i)
          BY <1>2, <1>4, <2>5, <4>1 DEF DeletePermissionsForKey, Remover
        <4>4. \A l : Offered(seen[c], asked[c], l) <=> Offered(permissions, asked[c], l)
          BY <1>7, <4>3 DEF DefaultFit
        <4>5. \A l : Offered(permissions', asked[c], l) <=>
                        Offered(permissions, asked[c], l) /\ l # task[j].id
          BY <4>2 DEF Offered
        <4>6. \A l : OwnedKey(Without(task[j].id)', w, l) <=> OwnedKey(keys', w, l) /\ l # task[j].id
          BY <4>2 DEF OwnedKey, Without
        <4>7. WouldGet(keys', permissions', asked[c], k)
          BY <2>5, <4>4, <4>5, <4>6, WouldGetSame
        <4> QED
          BY <1>3, <1>7, <4>1, <4>7
      <3> QED
        BY <3>1, <3>2
    <2> QED
      BY <1>7, <2>1, <2>4, <2>5 DEF Resolved
  <1>8. CASE /\ call'[c] # "resolving" /\ asked'[c] = asked[c] /\ chosen'[c] = chosen[c]
             /\ Resolved(c)' => Resolved(c)
    BY <1>1, <1>2, <1>8 DEF DefaultFit, WasNewestKey
  <1>9. CASE call'[c] \in {"using", "no key"}
    BY <1>9 DEF Resolved
  <1> QED
    BY <1>0, <1>5, <1>6, <1>7, <1>8, <1>9, ResolvingStep

(***************************************************************************)
(* sign_event: key_id "defaults to the newest permitted key". A request    *)
(* without it gets the key that was the newest permitted one at a moment   *)
(* of its resolution, unless two others change the tables meanwhile, one   *)
(* of which removes rows.                                                  *)
(***************************************************************************)
THEOREM NewestKey == Spec => []DefaultKeyIsNewest
  <1>1. Init => Emptied /\ DefaultFit
    BY DEF Init, ServiceInit, AdminInit, Emptied, DeletesKey, DefaultFit, Resolved
  <1>2. DefaultFit => DefaultKeyIsNewest
    BY DEF DefaultFit, DefaultKeyIsNewest
  <1>3. Tenancy /\ Emptied /\ DefaultFit /\ [Next]_vars => (Tenancy /\ Emptied /\ DefaultFit)'
    BY TenancyStep, EmptiedStep, DefaultStep DEF Tenancy
  <1>4. Spec => [](Tenancy /\ Emptied /\ DefaultFit)
    BY <1>1, <1>3, TenancyStart, PTL DEF Spec
  <1> QED
    BY <1>2, <1>4, PTL

=============================================================================
