--------------------------- MODULE Tenancy_proofs ---------------------------
(***************************************************************************)
(* Whose the rows are: tenants, ownership of what is written, and what a   *)
(* deletion of a key leaves behind.                                        *)
(***************************************************************************)
EXTENDS NsecOracle_proofs

(***************************************************************************)
(* Everything that goes by the id of a key on behalf of a wallet: its row, *)
(* the request that creates it, and whatever has found it to be of that    *)
(* wallet before. An id is claimed by one wallet, also when its key is     *)
(* gone, because ids are never stamped twice.                              *)
(***************************************************************************)
Arrived(j) == job[j] \notin {"idle", "not found"}

ActsOnKey(j, k, w) ==
    /\ Arrived(j) /\ task[j].wallet = w
    /\ \/ IsKeyOperation(task[j]) /\ task[j].id = k
       \/ task[j].op = "create permission" /\ task[j].key = k

SetUp(s) == setup[s] \notin {"idle", "not found"}

Referenced(k, w) ==
    \/ \E p \in permissions : p.key = k /\ p.wallet = w
    \/ \E c \in Call : \E p \in seen[c] : p.key = k /\ p.wallet = w
    \/ \E c \in Call : call[c] \in {"using", "used"} /\ asked[c].key = k /\ asked[c].wallet = w
    \/ \E j \in Job : ActsOnKey(j, k, w)
    \/ \E s \in Setup : SetUp(s) /\ wanted[s].key = k /\ wanted[s].wallet = w

Creates(k, w) ==
    \E j \in Job : Arrived(j) /\ task[j].op = "create key" /\ task[j].id = k /\ task[j].wallet = w

Claimed(k, w) == OwnedKey(keys, w, k) \/ Creates(k, w) \/ Referenced(k, w)

Tenants ==
    /\ \A k \in Id : \A v, w \in Wallet : Claimed(k, v) /\ Claimed(k, w) => v = w
    /\ \A k \in Id : \A w \in Wallet : Claimed(k, w) => k < nextId
    /\ \A j \in Job : job[j] = "insert" /\ task[j].op = "create key" =>
          \A w \in Wallet : ~Referenced(task[j].id, w)

\* The same for the id of a permission, and for the key it is of.
RowClaimed(i, w) ==
    \/ \E p \in permissions : p.id = i /\ p.wallet = w
    \/ \E j \in Job : /\ Arrived(j) /\ task[j].id = i /\ task[j].wallet = w
                      /\ task[j].op \in {"create permission", "delete permission", "update permission"}
    \/ \E s \in Setup : i \in made[s] /\ wanted[s].wallet = w

RowKey(i, k) ==
    \/ \E p \in permissions : p.id = i /\ p.key = k
    \/ \E c \in Call : \E p \in seen[c] : p.id = i /\ p.key = k
    \/ \E j \in Job : Arrived(j) /\ task[j].op = "create permission" /\ task[j].id = i /\ task[j].key = k
    \/ \E s \in Setup : i \in made[s] /\ wanted[s].key = k

RowTenants ==
    /\ \A i \in Id : \A v, w \in Wallet : RowClaimed(i, v) /\ RowClaimed(i, w) => v = w
    /\ \A i \in Id : \A w \in Wallet : RowClaimed(i, w) => i < nextId
    /\ \A i \in Id : \A k, l \in Id : RowKey(i, k) /\ RowKey(i, l) => k = l
    /\ \A i \in Id : \A k \in Id : RowKey(i, k) => i < nextId

-----------------------------------------------------------------------------
(***************************************************************************)
(* What a step may add to the claims: a request comes to act on a key only *)
(* where it finds the key to be of its wallet.                             *)
(***************************************************************************)
LEMMA CallReads ==
    ASSUME NEW c \in Call, TypeOK, CallNext(c), NEW d \in Call, NEW p \in seen'[d]
    PROVE  p \in seen[d] \/ p \in permissions
  <1>1. CASE p \notin seen[d]
    <2>1. d = c
      BY <1>1, CallFrame
    <2>2. SignRead(c)
      BY <1>1, <2>1, ResolveStep DEF CallNext, CallStep, SignDecrypt, SignReserve, SignRefuse,
         SignUnlimited, LogAndReturn, UseKeyRead, UseKeyDecrypt, CallFail
    <2> QED
      BY <1>1, <2>1, <2>2 DEF SignRead, TypeOK, ServiceTypeOK
  <1> QED
    BY <1>1

LEMMA CallReferences ==
    ASSUME NEW c \in Call, TypeOK, Ids, CallNext(c), UNCHANGED <<admin, quick>>, NEW k, NEW w,
           Referenced(k, w)'
    PROVE  Referenced(k, w) \/ OwnedKey(keys, w, k)
  <1>0. UNCHANGED store
    BY CallTypes DEF Ids
  <1>1. CASE \E p \in permissions' : p.key = k /\ p.wallet = w
    BY <1>0, <1>1 DEF Referenced, store
  <1>2. CASE \E j \in Job : ActsOnKey(j, k, w)'
    BY <1>2 DEF Referenced, ActsOnKey, Arrived, IsKeyOperation, admin
  <1>3. CASE \E s \in Setup : (SetUp(s) /\ wanted[s].key = k /\ wanted[s].wallet = w)'
    BY <1>3 DEF Referenced, SetUp, quick
  <1>4. ASSUME NEW d \in Call, NEW p \in seen'[d], p.key = k, p.wallet = w
        PROVE  Referenced(k, w)
    BY <1>4, CallReads DEF Referenced
  <1>5. ASSUME NEW d \in Call, call'[d] \in {"using", "used"}, asked'[d].key = k, asked'[d].wallet = w
        PROVE  Referenced(k, w) \/ OwnedKey(keys, w, k)
    <2>1. CASE d # c
      <3>1. call'[d] = call[d] /\ asked'[d] = asked[d]
        BY <2>1, CallFrame
      <3> QED
        BY <1>5, <3>1 DEF Referenced
    <2>2. CASE d = c /\ UseKeyRead(c)
      <3>1. PICK r \in CallRequest :
               /\ asked' = [asked EXCEPT ![c] = r]
               /\ call' = [call EXCEPT ![c] = IF OwnedKey(keys, r.wallet, r.key) THEN "using" ELSE "no key"]
        BY <2>2 DEF UseKeyRead
      <3>2. asked'[c] = r /\ OwnedKey(keys, r.wallet, r.key)
        BY <1>5, <2>2, <3>1 DEF TypeOK, ServiceTypeOK
      <3> QED
        BY <1>5, <2>2, <3>2
    <2>3. CASE d = c /\ call[c] \in {"using", "used"}
      <3>1. asked' = asked
        BY <2>3, CallGoesOn
      <3> QED
        BY <1>5, <2>3, <3>1 DEF Referenced
    <2>4. CASE d = c /\ call[c] \notin {"using", "used"} /\ ~UseKeyRead(c)
      <3>1. call'[c] \notin {"using", "used"}
        <4>1. CASE SignResolve(c)
          BY <4>1, ResolvesTo
        <4> QED
          BY <2>4, <4>1 DEF CallNext, CallStep, SignRead, SignDecrypt, SignReserve, SignRefuse,
             SignUnlimited, LogAndReturn, UseKeyDecrypt, CallFail, TypeOK, ServiceTypeOK
      <3> QED
        BY <1>5, <2>4, <3>1
    <2> QED
      BY <2>1, <2>2, <2>3, <2>4
  <1> QED
    BY <1>1, <1>2, <1>3, <1>4, <1>5 DEF Referenced

\* The rows a step of the administration leaves in permissions.
LEMMA JobRows ==
    ASSUME NEW j \in Job, TypeOK, Ids, JobStep(j), NEW p \in permissions'
    PROVE  \/ \E q \in permissions : p.id = q.id /\ p.wallet = q.wallet /\ p.key = q.key /\ p.use = q.use
           \/ /\ job[j] = "insert" /\ task[j].op = "create permission" /\ p = PermissionOf(task[j])
              /\ p.id = task[j].id /\ p.wallet = task[j].wallet /\ p.key = task[j].key
  <1>1. CASE Insert(j) /\ p \notin permissions
    <2>1. job[j] = "insert" /\ task[j].op = "create permission" /\ p = PermissionOf(task[j])
      BY <1>1 DEF Insert, Ids, StagesFit
    <2> QED
      BY <2>1 DEF PermissionOf
  <1>2. CASE Update(j)
    BY <1>2, UpdateTypes
  <1>3. CASE p \in permissions
    BY <1>3
  <1> QED
    BY <1>1, <1>2, <1>3 DEF JobStep, DeletePermissionsForKey, Delete, UpdateRead, UpdateReread,
       JobFail, store

LEMMA JobReferences ==
    ASSUME NEW j \in Job, TypeOK, Ids, JobNext(j), UNCHANGED <<service, quick>>, NEW k, NEW w,
           Referenced(k, w)'
    PROVE  Referenced(k, w) \/ OwnedKey(keys, w, k)
  <1>0. DOMAIN job = Job /\ DOMAIN task = Job
    BY DEF TypeOK, AdminTypeOK
  <1>1. CASE \E c \in Call : \E p \in seen'[c] : p.key = k /\ p.wallet = w
    BY <1>1 DEF Referenced, service
  <1>2. CASE \E c \in Call : (call[c] \in {"using", "used"} /\ asked[c].key = k /\ asked[c].wallet = w)'
    BY <1>2 DEF Referenced, service
  <1>3. CASE \E s \in Setup : (SetUp(s) /\ wanted[s].key = k /\ wanted[s].wallet = w)'
    BY <1>3 DEF Referenced, SetUp, quick
  <1>4. ASSUME NEW p \in permissions', p.key = k, p.wallet = w
        PROVE  Referenced(k, w)
    <2>1. CASE Arrive(j)
      BY <1>4, <2>1, ArriveStep DEF Arrives, Referenced
    <2>2. CASE JobStep(j)
      BY <1>4, <2>2, JobRows DEF Referenced, ActsOnKey, Arrived
    <2> QED
      BY <2>1, <2>2 DEF JobNext
  <1>5. ASSUME NEW i \in Job, ActsOnKey(i, k, w)'
        PROVE  Referenced(k, w) \/ OwnedKey(keys, w, k)
    <2>1. CASE Arrive(j) /\ i = j
      <3>1. PICK t \in Task, a \in Stage \cup Ended : Arrives(j, t, a)
        BY <2>1, ArriveStep
      <3>2. task'[j] = t /\ job'[j] = a /\ a # "not found"
        BY <1>0, <1>5, <2>1, <3>1 DEF Arrives, ActsOnKey, Arrived
      <3>3. t.wallet = w /\ \/ IsKeyOperation(t) /\ t.id = k
                            \/ t.op = "create permission" /\ t.key = k
        BY <1>5, <2>1, <3>2 DEF ActsOnKey, IsKeyOperation
      <3> QED
        BY <3>1, <3>2, <3>3 DEF Arrives, OwnedRow, IsKeyOperation
    <2>2. CASE Arrive(j) /\ i # j
      <3>1. PICK t \in Task, a \in Stage \cup Ended : Arrives(j, t, a)
        BY <2>2, ArriveStep
      <3>2. task'[i] = task[i] /\ job'[i] = job[i]
        BY <1>0, <2>2, <3>1 DEF Arrives
      <3> QED
        BY <1>5, <3>2 DEF ActsOnKey, Arrived, IsKeyOperation, Referenced
    <2>3. CASE JobStep(j)
      <3>1. task' = task /\ (job[i] \in {"idle", "not found"} => job'[i] = job[i])
        BY <1>0, <2>3, JobStepIs DEF JobStep, Insert, DeletePermissionsForKey, Delete, UpdateRead,
           Update, UpdateReread, JobFail, Stage
      <3> QED
        BY <1>5, <3>1 DEF ActsOnKey, Arrived, IsKeyOperation, Referenced
    <2> QED
      BY <2>1, <2>2, <2>3 DEF JobNext
  <1> QED
    BY <1>1, <1>2, <1>3, <1>4, <1>5 DEF Referenced

LEMMA SetupReferences ==
    ASSUME NEW s \in Setup, TypeOK, Ids, SetupNext(s), UNCHANGED <<service, admin>>, NEW k, NEW w,
           Referenced(k, w)'
    PROVE  Referenced(k, w) \/ OwnedKey(keys, w, k)
  <1>0. DOMAIN setup = Setup /\ DOMAIN wanted = Setup
    BY DEF TypeOK, QuickTypeOK
  <1>1. CASE \E c \in Call : \E p \in seen'[c] : p.key = k /\ p.wallet = w
    BY <1>1 DEF Referenced, service
  <1>2. CASE \E c \in Call : (call[c] \in {"using", "used"} /\ asked[c].key = k /\ asked[c].wallet = w)'
    BY <1>2 DEF Referenced, service
  <1>3. CASE \E j \in Job : ActsOnKey(j, k, w)'
    BY <1>3 DEF Referenced, ActsOnKey, Arrived, IsKeyOperation, admin
  <1>4. ASSUME NEW p \in permissions', p.key = k, p.wallet = w
        PROVE  Referenced(k, w)
    <2>1. CASE p \in permissions
      BY <1>4, <2>1 DEF Referenced
    <2>2. CASE p \notin permissions
      <3>1. setup[s] = "inserting" /\ p = SetupRow(s)
        BY <2>2, SetupStepIs DEF SetupStamps, SetupInserts, SetupGoesOn
      <3>2. p.key = wanted[s].key /\ p.wallet = wanted[s].wallet
        BY <3>1, SetupRowIs
      <3> QED
        BY <1>4, <3>1, <3>2 DEF Referenced, SetUp
    <2> QED
      BY <2>1, <2>2
  <1>5. ASSUME NEW t \in Setup, (SetUp(t) /\ wanted[t].key = k /\ wanted[t].wallet = w)'
        PROVE  Referenced(k, w) \/ OwnedKey(keys, w, k)
    <2>1. CASE t # s
      BY <1>5, <2>1, SetupLoop DEF SetUp, Referenced
    <2>2. CASE t = s /\ SetupArrive(s)
      <3>1. PICK r \in SetupRequest :
               /\ wanted' = [wanted EXCEPT ![s] = r]
               /\ SetupAdvance(s, IF OwnedKey(keys, r.wallet, r.key) THEN "reading" ELSE "not found")
        BY <2>2 DEF SetupArrive
      <3>2. wanted'[s] = r /\ OwnedKey(keys, r.wallet, r.key)
        BY <1>0, <1>5, <2>2, <3>1 DEF SetUp, SetupAdvance
      <3> QED
        BY <1>5, <2>2, <3>2
    <2>3. CASE t = s /\ ~SetupArrive(s)
      <3>1. wanted' = wanted /\ SetUp(s)
        BY <2>3 DEF SetupNext, SetupRead, SetupStamp, SetupRefuse, SetupInsert, SetupDone,
           SetupFail, SetupStage, SetUp
      <3> QED
        BY <1>5, <2>3, <3>1 DEF Referenced
    <2> QED
      BY <2>1, <2>2, <2>3
  <1> QED
    BY <1>1, <1>2, <1>3, <1>4, <1>5 DEF Referenced

\* A later step of a request of the administration leaves the tasks and the others alone.
LEMMA JobFrame ==
    ASSUME NEW j \in Job, TypeOK, JobStep(j)
    PROVE  task' = task /\ job[j] \in Stage /\ \A i \in Job : i # j => job'[i] = job[i]
  <1>1. task' = task /\ job[j] \in Stage
    BY DEF JobStep, Insert, DeletePermissionsForKey, Delete, UpdateRead, Update, UpdateReread,
       JobFail, Stage
  <1>2. \E a : job' = [job EXCEPT ![j] = a]
    BY DEF JobStep, Insert, DeletePermissionsForKey, Delete, UpdateRead, Update, UpdateReread,
       JobFail, Advance, Proceed
  <1>3. DOMAIN job = Job
    BY DEF TypeOK, AdminTypeOK
  <1> QED
    BY <1>1, <1>2, <1>3

LEMMA NextIdGrows ==
    ASSUME TypeOK, Ids, [Next]_vars
    PROVE  nextId \in Nat /\ nextId' \in Nat /\ (nextId' = nextId \/ nextId' = nextId + 1)
  <1>1. nextId \in Nat
    BY StoreAssumption DEF TypeOK, StoreTypeOK
  <1>2. ASSUME NEW c \in Call, CallNext(c) PROVE nextId' = nextId
    BY <1>2, CallTypes DEF Ids, store
  <1>3. ASSUME NEW s \in Setup, SetupNext(s) PROVE nextId' = nextId \/ nextId' = nextId + 1
    BY <1>3, SetupStepIs DEF SetupStamps, SetupInserts, SetupGoesOn
  <1>4. ASSUME NEW j \in Job, JobNext(j) PROVE nextId' = nextId \/ nextId' = nextId + 1
    BY <1>4, ArriveStep, JobStepIs DEF JobNext, Arrives
  <1> QED
    BY <1>1, <1>2, <1>3, <1>4 DEF Next, vars, store

LEMMA References ==
    ASSUME TypeOK, Ids, [Next]_vars, NEW k, NEW w, Referenced(k, w)'
    PROVE  Referenced(k, w) \/ OwnedKey(keys, w, k)
  <1>1. CASE UNCHANGED vars
    BY <1>1 DEF vars, store, service, admin, quick, Referenced, ActsOnKey, Arrived, IsKeyOperation, SetUp
  <1> QED
    BY <1>1, CallReferences, JobReferences, SetupReferences DEF Next

(***************************************************************************)
(* The one new claim a step may make is of the id it stamps.               *)
(***************************************************************************)
LEMMA NewClaim ==
    ASSUME TypeOK, Ids, [Next]_vars
    PROVE  \E u : \A k, w : Claimed(k, w)' =>
              Claimed(k, w) \/ (k = nextId /\ w = u /\ nextId' = nextId + 1)
  <1>1. \A k, w : Referenced(k, w)' => Claimed(k, w)
    BY References DEF Claimed
  <1>2. ASSUME UNCHANGED <<keys, admin>>
        PROVE  \A k, w : Claimed(k, w)' => Claimed(k, w)
    BY <1>1, <1>2 DEF Claimed, OwnedKey, Creates, Arrived, admin
  <1>3. ASSUME NEW c \in Call, CallNext(c), UNCHANGED <<admin, quick>>
        PROVE  UNCHANGED <<keys, admin>>
    BY <1>3, CallTypes DEF Ids, store
  <1>4. ASSUME NEW s \in Setup, SetupNext(s), UNCHANGED <<service, admin>>
        PROVE  UNCHANGED <<keys, admin>>
    BY <1>4, SetupStepIs DEF SetupStamps, SetupInserts, SetupGoesOn
  <1>5. ASSUME NEW j \in Job, JobNext(j)
        PROVE  \E u : \A k, w : Claimed(k, w)' =>
                  Claimed(k, w) \/ (k = nextId /\ w = u /\ nextId' = nextId + 1)
    <2>0. DOMAIN job = Job /\ DOMAIN task = Job
      BY DEF TypeOK, AdminTypeOK
    <2>1. CASE Arrive(j)
      <3>1. PICK t \in Task, a \in Stage \cup Ended : Arrives(j, t, a)
        BY <2>1, ArriveStep
      <3>2. ASSUME NEW k, NEW w, Creates(k, w)'
            PROVE  Creates(k, w) \/ (k = nextId /\ w = t.wallet /\ nextId' = nextId + 1)
        <4>1. PICK i \in Job : /\ Arrived(i)' /\ task'[i].op = "create key"
                               /\ task'[i].id = k /\ task'[i].wallet = w
          BY <3>2 DEF Creates
        <4>2. CASE i # j
          <5>1. task'[i] = task[i] /\ job'[i] = job[i]
            BY <2>0, <3>1, <4>2 DEF Arrives
          <5> QED
            BY <4>1, <5>1 DEF Creates, Arrived
        <4>3. CASE i = j
          <5>1. task'[j] = t /\ job'[j] = a /\ t.op = "create key" /\ a # "not found"
            BY <2>0, <3>1, <4>1, <4>3 DEF Arrives, Arrived
          <5>2. t.id = nextId /\ nextId' = nextId + 1
            BY <3>1, <5>1 DEF Arrives, OwnedRow
          <5> QED
            BY <4>1, <4>3, <5>1, <5>2
        <4> QED
          BY <4>2, <4>3
      <3>3. keys' = keys
        BY <3>1 DEF Arrives
      <3>4. \A k, w : Claimed(k, w)' =>
              Claimed(k, w) \/ (k = nextId /\ w = t.wallet /\ nextId' = nextId + 1)
        BY <1>1, <3>2, <3>3 DEF Claimed, OwnedKey
      <3> QED
        BY <3>4
    <2>2. CASE JobStep(j)
      <3>1. task' = task /\ \A i \in Job : job[i] \in {"idle", "not found"} => job'[i] = job[i]
        BY <2>2, JobFrame DEF Stage
      <3>2. ASSUME NEW k, NEW w, OwnedKey(keys, w, k)'
            PROVE  OwnedKey(keys, w, k) \/ Creates(k, w)
        <4>1. PICK r \in keys' : r.id = k /\ r.wallet = w
          BY <3>2 DEF OwnedKey
        <4>2. CASE r \in keys
          BY <4>1, <4>2 DEF OwnedKey
        <4>3. CASE r \notin keys
          <5>1. Insert(j) /\ job[j] = "insert" /\ task[j].op = "create key"
            BY <2>2, <4>3, UpdateTypes DEF JobStep, Insert, DeletePermissionsForKey, Delete, UpdateRead,
               UpdateReread, JobFail, store
          <5>2. r = [id |-> task[j].id, wallet |-> task[j].wallet]
            BY <4>3, <5>1 DEF Insert
          <5> QED
            BY <4>1, <5>1, <5>2 DEF Creates, Arrived
        <4> QED
          BY <4>2, <4>3
      <3>3. ASSUME NEW k, NEW w, Creates(k, w)'
            PROVE  Creates(k, w)
        BY <3>1, <3>3 DEF Creates, Arrived
      <3> QED
        BY <1>1, <3>2, <3>3 DEF Claimed
    <2> QED
      BY <1>5, <2>1, <2>2 DEF JobNext
  <1>6. CASE UNCHANGED vars
    BY <1>2, <1>6 DEF vars, store
  <1> QED
    BY <1>2, <1>3, <1>4, <1>5, <1>6 DEF Next

LEMMA TenantsStep == TypeOK /\ Ids /\ Tenants /\ [Next]_vars => Tenants'
  <1> SUFFICES ASSUME TypeOK, Ids, Tenants, [Next]_vars PROVE Tenants'
    OBVIOUS
  <1>1. PICK u : \A k, w : Claimed(k, w)' =>
              Claimed(k, w) \/ (k = nextId /\ w = u /\ nextId' = nextId + 1)
    BY NewClaim
  <1>2. TypeOK' /\ Ids'
    BY StepTypes
  <1>3. nextId \in Nat /\ nextId' \in Nat /\ (nextId' = nextId \/ nextId' = nextId + 1)
    BY NextIdGrows
  <1>0. \A k \in Id : \A w \in Wallet : Claimed(k, w) => k < nextId /\ k # nextId
    <2>1. \A k \in Id : k < nextId => k # nextId
      BY <1>3 DEF Id
    <2> QED
      BY <2>1 DEF Tenants
  <1>4. ASSUME NEW k \in Id, NEW v \in Wallet, NEW w \in Wallet, Claimed(k, v)', Claimed(k, w)'
        PROVE  v = w
    <2>1. /\ Claimed(k, v) \/ (k = nextId /\ v = u /\ nextId' = nextId + 1)
          /\ Claimed(k, w) \/ (k = nextId /\ w = u /\ nextId' = nextId + 1)
      BY <1>1, <1>4
    <2> QED
      BY <1>0, <2>1 DEF Tenants
  <1>5. ASSUME NEW k \in Id, NEW w \in Wallet, Claimed(k, w)'
        PROVE  k < nextId'
    <2>1. Claimed(k, w) \/ (k = nextId /\ nextId' = nextId + 1)
      BY <1>1, <1>5
    <2>2. k \in Nat
      BY DEF Id
    <2> QED
      BY <1>0, <1>3, <2>1, <2>2
  <1>6. ASSUME NEW j \in Job, job'[j] = "insert", task'[j].op = "create key",
               NEW k \in Id, k = task'[j].id, NEW w \in Wallet, Referenced(k, w)'
        PROVE  FALSE
    <2>1. \/ job[j] = "insert" /\ task'[j] = task[j]
          \/ k = nextId
      <3>0. DOMAIN job = Job /\ DOMAIN task = Job
        BY DEF TypeOK, AdminTypeOK
      <3>1. ASSUME NEW i \in Job, JobNext(i)
            PROVE  \/ job[j] = "insert" /\ task'[j] = task[j]
                   \/ k = nextId
        <4>1. CASE Arrive(i)
          <5>1. PICK t \in Task, a \in Stage \cup Ended : Arrives(i, t, a)
            BY <4>1, ArriveStep
          <5> QED
            BY <1>6, <3>0, <5>1 DEF Arrives
        <4>2. CASE JobStep(i)
          BY <1>6, <3>0, <4>2, JobStepIs
        <4> QED
          BY <3>1, <4>1, <4>2 DEF JobNext
      <3>2. ASSUME job' = job, task' = task
            PROVE  job[j] = "insert" /\ task'[j] = task[j]
        BY <1>6, <3>2
      <3> QED
        BY <3>1, <3>2 DEF Next, vars, admin
    <2>2. Referenced(k, w) \/ OwnedKey(keys, w, k)
      BY <1>6, References
    <2>3. k # nextId
      BY <1>0, <2>2 DEF Claimed
    <2>4. job[j] = "insert" /\ k = task[j].id /\ task[j].op = "create key"
      BY <1>6, <2>1, <2>3
    <2>5. ~Taken(k)
      BY <2>4 DEF Ids, StampsAreFresh
    <2> QED
      BY <2>2, <2>4, <2>5 DEF Tenants, Taken, OwnedKey
  <1>7. \A j \in Job : job'[j] = "insert" => task'[j].id \in Id
    BY <1>2, TaskIs DEF TypeOK, AdminTypeOK
  <1>8. \A j \in Job : job'[j] = "insert" /\ task'[j].op = "create key" =>
           \A w \in Wallet : ~Referenced(task[j].id, w)'
    BY <1>6, <1>7
  <1> QED
    BY <1>4, <1>5, <1>8 DEF Tenants

(***************************************************************************)
(* The same for permissions: an id comes to be of a wallet and of a key    *)
(* only when it is stamped.                                                *)
(***************************************************************************)
LEMMA CallRows ==
    ASSUME NEW c \in Call, TypeOK, Ids, CallNext(c), UNCHANGED <<admin, quick>>
    PROVE  /\ \A i, w : RowClaimed(i, w)' => RowClaimed(i, w)
           /\ \A i, k : RowKey(i, k)' => RowKey(i, k)
  <1>1. permissions' = permissions
    BY CallTypes DEF Ids, store
  <1>2. \A i, w : RowClaimed(i, w)' => RowClaimed(i, w)
    BY <1>1 DEF RowClaimed, Arrived, admin, quick
  <1>3. ASSUME NEW i, NEW k, RowKey(i, k)'
        PROVE  RowKey(i, k)
    <2>1. CASE \E d \in Call : \E p \in seen'[d] : p.id = i /\ p.key = k
      BY <2>1, CallReads DEF RowKey
    <2> QED
      BY <1>1, <1>3, <2>1 DEF RowKey, Arrived, admin, quick
  <1> QED
    BY <1>2, <1>3

LEMMA ArriveRows ==
    ASSUME NEW j \in Job, TypeOK, Ids, Arrive(j), UNCHANGED <<service, quick>>
    PROVE  \E u, l :
              /\ \A i, w : RowClaimed(i, w)' =>
                    RowClaimed(i, w) \/ (i = nextId /\ w = u /\ nextId' = nextId + 1)
              /\ \A i, k : RowKey(i, k)' =>
                    RowKey(i, k) \/ (i = nextId /\ k = l /\ nextId' = nextId + 1)
  <1>0. DOMAIN job = Job /\ DOMAIN task = Job
    BY DEF TypeOK, AdminTypeOK
  <1>1. PICK t \in Task, a \in Stage \cup Ended : Arrives(j, t, a)
    BY ArriveStep
  <1>2. permissions' = permissions /\ task'[j] = t /\ job'[j] = a
        /\ \A i \in Job : i # j => task'[i] = task[i] /\ job'[i] = job[i]
    BY <1>0, <1>1 DEF Arrives
  <1>3. a # "not found" /\ t.op = "create permission" => t.id = nextId /\ nextId' = nextId + 1
    BY <1>1 DEF Arrives
  <1>4. ASSUME NEW i, NEW w, RowClaimed(i, w)'
        PROVE  RowClaimed(i, w) \/ (i = nextId /\ w = t.wallet /\ nextId' = nextId + 1)
    <2>1. CASE \E p \in permissions' : p.id = i /\ p.wallet = w
      BY <1>2, <2>1 DEF RowClaimed
    <2>2. CASE \E s \in Setup : i \in made'[s] /\ wanted'[s].wallet = w
      BY <2>2 DEF RowClaimed, quick
    <2>3. ASSUME NEW k \in Job, Arrived(k)', task'[k].id = i, task'[k].wallet = w,
                 task'[k].op \in {"create permission", "delete permission", "update permission"}
          PROVE  RowClaimed(i, w) \/ (i = nextId /\ w = t.wallet /\ nextId' = nextId + 1)
      <3>1. CASE k # j
        <4>1. task'[k] = task[k] /\ job'[k] = job[k]
          BY <1>2, <3>1
        <4> QED
          BY <2>3, <4>1 DEF RowClaimed, Arrived
      <3>2. CASE k = j /\ t.op = "create permission"
        BY <1>2, <1>3, <2>3, <3>2 DEF Arrived
      <3>3. CASE k = j /\ t.op \in {"delete permission", "update permission"}
        <4>1. OwnedRow(t)
          BY <1>1, <1>2, <2>3, <3>3 DEF Arrived, Arrives
        <4> QED
          BY <1>2, <2>3, <3>3, <4>1 DEF OwnedRow, IsKeyOperation, RowClaimed
      <3> QED
        BY <1>2, <2>3, <3>1, <3>2, <3>3
    <2> QED
      BY <1>4, <2>1, <2>2, <2>3 DEF RowClaimed
  <1>5. ASSUME NEW i, NEW k, RowKey(i, k)'
        PROVE  RowKey(i, k) \/ (i = nextId /\ k = t.key /\ nextId' = nextId + 1)
    <2>1. CASE \/ \E p \in permissions' : p.id = i /\ p.key = k
               \/ \E c \in Call : \E p \in seen'[c] : p.id = i /\ p.key = k
               \/ \E s \in Setup : i \in made'[s] /\ wanted'[s].key = k
      BY <1>2, <2>1 DEF RowKey, service, quick
    <2>2. ASSUME NEW h \in Job, Arrived(h)', task'[h].id = i, task'[h].key = k,
                 task'[h].op = "create permission"
          PROVE  RowKey(i, k) \/ (i = nextId /\ k = t.key /\ nextId' = nextId + 1)
      <3>1. CASE h # j
        <4>1. task'[h] = task[h] /\ job'[h] = job[h]
          BY <1>2, <3>1
        <4> QED
          BY <2>2, <4>1 DEF RowKey, Arrived
      <3>2. CASE h = j
        BY <1>2, <1>3, <2>2, <3>2 DEF Arrived
      <3> QED
        BY <3>1, <3>2
    <2> QED
      BY <1>5, <2>1, <2>2 DEF RowKey
  <1> QED
    BY <1>4, <1>5

LEMMA StepRows ==
    ASSUME NEW j \in Job, TypeOK, Ids, JobStep(j), UNCHANGED <<service, quick>>
    PROVE  /\ \A i, w : RowClaimed(i, w)' => RowClaimed(i, w)
           /\ \A i, k : RowKey(i, k)' => RowKey(i, k)
  <1>1. task' = task /\ \A i \in Job : Arrived(i)' => Arrived(i)
    BY JobFrame DEF Arrived, Stage
  <1>2. ASSUME NEW i, NEW w, RowClaimed(i, w)'
        PROVE  RowClaimed(i, w)
    <2>1. CASE \E p \in permissions' : p.id = i /\ p.wallet = w
      <3>1. PICK p \in permissions' : p.id = i /\ p.wallet = w
        BY <2>1
      <3>2. CASE \E q \in permissions : p.id = q.id /\ p.wallet = q.wallet
        BY <3>1, <3>2 DEF RowClaimed
      <3>3. CASE /\ job[j] = "insert" /\ task[j].op = "create permission"
                 /\ p.id = task[j].id /\ p.wallet = task[j].wallet
        BY <3>1, <3>3 DEF RowClaimed, Arrived
      <3> QED
        BY <3>2, <3>3, JobRows
    <2> QED
      BY <1>1, <1>2, <2>1 DEF RowClaimed, quick
  <1>3. ASSUME NEW i, NEW k, RowKey(i, k)'
        PROVE  RowKey(i, k)
    <2>1. CASE \E p \in permissions' : p.id = i /\ p.key = k
      <3>1. PICK p \in permissions' : p.id = i /\ p.key = k
        BY <2>1
      <3>2. CASE \E q \in permissions : p.id = q.id /\ p.key = q.key
        BY <3>1, <3>2 DEF RowKey
      <3>3. CASE /\ job[j] = "insert" /\ task[j].op = "create permission"
                 /\ p.id = task[j].id /\ p.key = task[j].key
        BY <3>1, <3>3 DEF RowKey, Arrived
      <3> QED
        BY <3>2, <3>3, JobRows
    <2> QED
      BY <1>1, <1>3, <2>1 DEF RowKey, service, quick
  <1> QED
    BY <1>2, <1>3

LEMMA SetupRows ==
    ASSUME NEW s \in Setup, TypeOK, Ids, SetupNext(s), UNCHANGED <<service, admin>>
    PROVE  \E u, l :
              /\ \A i, w : RowClaimed(i, w)' =>
                    RowClaimed(i, w) \/ (i = nextId /\ w = u /\ nextId' = nextId + 1)
              /\ \A i, k : RowKey(i, k)' =>
                    RowKey(i, k) \/ (i = nextId /\ k = l /\ nextId' = nextId + 1)
  <1>0. DOMAIN made = Setup
    BY DEF TypeOK, QuickTypeOK
  <1>1. ASSUME NEW p \in permissions', p \notin permissions
        PROVE  p.id \in made[s] /\ p.wallet = wanted[s].wallet /\ p.key = wanted[s].key
    <2>1. setup[s] = "inserting" /\ p = SetupRow(s)
      BY <1>1, SetupStepIs DEF SetupStamps, SetupInserts, SetupGoesOn
    <2> QED
      BY <2>1, SetupRowIs DEF Ids, StampsAreFresh
  <1>2. ASSUME NEW t \in Setup, NEW i \in made'[t]
        PROVE  \/ i \in made[t] /\ wanted'[t] = wanted[t]
               \/ i = nextId /\ t = s /\ wanted'[s] = wanted[s] /\ nextId' = nextId + 1
    <2>1. CASE t # s
      BY <1>2, <2>1, SetupLoop
    <2>2. CASE t = s /\ SetupArrive(s)
      <3>1. made' = made /\ made[s] = {}
        BY <2>2 DEF SetupArrive, Ids, NothingGranted
      <3> QED
        BY <1>2, <2>2, <3>1
    <2>3. CASE t = s /\ ~SetupArrive(s)
      <3>1. wanted' = wanted
        BY <2>3 DEF SetupNext, SetupRead, SetupStamp, SetupRefuse, SetupInsert, SetupDone, SetupFail
      <3> QED
        BY <1>0, <1>2, <2>3, <3>1, SetupStepIs DEF SetupStamps, SetupInserts, SetupGoesOn
    <2> QED
      BY <2>1, <2>2, <2>3
  <1>3. ASSUME NEW i, NEW w, RowClaimed(i, w)'
        PROVE  RowClaimed(i, w) \/ (i = nextId /\ w = wanted[s].wallet /\ nextId' = nextId + 1)
    <2>1. CASE \E p \in permissions' : p.id = i /\ p.wallet = w
      BY <1>1, <2>1 DEF RowClaimed
    <2>2. CASE \E t \in Setup : i \in made'[t] /\ wanted'[t].wallet = w
      BY <1>2, <2>2 DEF RowClaimed
    <2> QED
      BY <1>3, <2>1, <2>2 DEF RowClaimed, Arrived, admin
  <1>4. ASSUME NEW i, NEW k, RowKey(i, k)'
        PROVE  RowKey(i, k) \/ (i = nextId /\ k = wanted[s].key /\ nextId' = nextId + 1)
    <2>1. CASE \E p \in permissions' : p.id = i /\ p.key = k
      BY <1>1, <2>1 DEF RowKey
    <2>2. CASE \E t \in Setup : i \in made'[t] /\ wanted'[t].key = k
      BY <1>2, <2>2 DEF RowKey
    <2> QED
      BY <1>4, <2>1, <2>2 DEF RowKey, Arrived, admin, service
  <1> QED
    BY <1>3, <1>4

LEMMA NewRow ==
    ASSUME TypeOK, Ids, [Next]_vars
    PROVE  \E u, l :
              /\ \A i, w : RowClaimed(i, w)' =>
                    RowClaimed(i, w) \/ (i = nextId /\ w = u /\ nextId' = nextId + 1)
              /\ \A i, k : RowKey(i, k)' =>
                    RowKey(i, k) \/ (i = nextId /\ k = l /\ nextId' = nextId + 1)
  <1>1. CASE UNCHANGED vars
    <2>1. /\ \A i, w : RowClaimed(i, w)' => RowClaimed(i, w)
          /\ \A i, k : RowKey(i, k)' => RowKey(i, k)
      BY <1>1 DEF vars, store, service, admin, quick, RowClaimed, RowKey, Arrived
    <2> QED
      BY <2>1
  <1>2. ASSUME NEW c \in Call, CallNext(c), UNCHANGED <<admin, quick>>
        PROVE  /\ \A i, w : RowClaimed(i, w)' => RowClaimed(i, w)
               /\ \A i, k : RowKey(i, k)' => RowKey(i, k)
    BY <1>2, CallRows
  <1>3. ASSUME NEW j \in Job, JobStep(j), UNCHANGED <<service, quick>>
        PROVE  /\ \A i, w : RowClaimed(i, w)' => RowClaimed(i, w)
               /\ \A i, k : RowKey(i, k)' => RowKey(i, k)
    BY <1>3, StepRows
  <1> QED
    BY <1>1, <1>2, <1>3, ArriveRows, SetupRows DEF Next, JobNext

LEMMA RowTenantsStep == TypeOK /\ Ids /\ RowTenants /\ [Next]_vars => RowTenants'
  <1> SUFFICES ASSUME TypeOK, Ids, RowTenants, [Next]_vars PROVE RowTenants'
    OBVIOUS
  <1>1. PICK u, l :
              /\ \A i, w : RowClaimed(i, w)' =>
                    RowClaimed(i, w) \/ (i = nextId /\ w = u /\ nextId' = nextId + 1)
              /\ \A i, k : RowKey(i, k)' =>
                    RowKey(i, k) \/ (i = nextId /\ k = l /\ nextId' = nextId + 1)
    BY NewRow
  <1>2. nextId \in Nat /\ nextId' \in Nat /\ (nextId' = nextId \/ nextId' = nextId + 1)
    BY NextIdGrows
  <1>3. \A i \in Id : i < nextId => i # nextId /\ i < nextId'
    BY <1>2 DEF Id
  <1>4. /\ \A i \in Id : \A w \in Wallet : RowClaimed(i, w) => i < nextId
        /\ \A i, k \in Id : RowKey(i, k) => i < nextId
    BY DEF RowTenants
  <1>5. ASSUME NEW i \in Id, NEW v \in Wallet, NEW w \in Wallet, RowClaimed(i, v)', RowClaimed(i, w)'
        PROVE  v = w /\ i < nextId'
    <2>1. /\ RowClaimed(i, v) \/ (i = nextId /\ v = u /\ nextId' = nextId + 1)
          /\ RowClaimed(i, w) \/ (i = nextId /\ w = u /\ nextId' = nextId + 1)
      BY <1>1, <1>5
    <2>2. v = w
      BY <1>3, <1>4, <2>1 DEF RowTenants
    <2>3. i = nextId /\ nextId' = nextId + 1 => i < nextId'
      BY <1>2
    <2> QED
      BY <1>3, <1>4, <2>1, <2>2, <2>3
  <1>6. ASSUME NEW i \in Id, NEW k \in Id, NEW l2 \in Id, RowKey(i, k)', RowKey(i, l2)'
        PROVE  k = l2 /\ i < nextId'
    <2>1. /\ RowKey(i, k) \/ (i = nextId /\ k = l /\ nextId' = nextId + 1)
          /\ RowKey(i, l2) \/ (i = nextId /\ l2 = l /\ nextId' = nextId + 1)
      BY <1>1, <1>6
    <2>2. k = l2
      BY <1>3, <1>4, <2>1 DEF RowTenants
    <2>3. i = nextId /\ nextId' = nextId + 1 => i < nextId'
      BY <1>2
    <2> QED
      BY <1>3, <1>4, <2>1, <2>2, <2>3
  <1> QED
    BY <1>5, <1>6 DEF RowTenants

-----------------------------------------------------------------------------
(***************************************************************************)
(* The inductive invariant of the tenancy.                                 *)
(***************************************************************************)
Tenancy == TypeOK /\ Ids /\ Tenants /\ RowTenants

LEMMA TenancyStart == Init => Tenancy
  <1> SUFFICES ASSUME Init PROVE Tenancy
    OBVIOUS
  <1>1. TypeOK /\ Ids
    BY TypesStart
  <1>2. /\ keys = InitialKeys /\ permissions = InitialPermissions /\ nextId = FirstId
        /\ \A c \in Call : call[c] = "idle" /\ seen[c] = {}
        /\ \A j \in Job : job[j] = "idle"
        /\ \A s \in Setup : setup[s] = "idle" /\ made[s] = {}
    BY DEF Init, ServiceInit, AdminInit, QuickInit
  <1>3. \A k, w : Claimed(k, w) => OwnedKey(keys, w, k)
    <2>1. \A k, w : Referenced(k, w) => OwnedKey(keys, w, k)
      BY <1>2, InitialAssumption DEF Referenced, ActsOnKey, Arrived, SetUp
    <2> QED
      BY <1>2, <2>1 DEF Claimed, Creates, Arrived
  <1>4. Tenants
    <2>1. \A k \in Id : \A v, w \in Wallet : OwnedKey(keys, v, k) /\ OwnedKey(keys, w, k) => v = w
      BY <1>1 DEF Ids, KeyIdsUnique, OwnedKey
    <2>2. \A k \in Id : \A w \in Wallet : OwnedKey(keys, w, k) => k < nextId
      BY <1>1 DEF TypeOK, StoreTypeOK, OwnedKey
    <2> QED
      BY <1>2, <1>3, <2>1, <2>2 DEF Tenants
  <1>5. /\ \A i, w : RowClaimed(i, w) <=> \E p \in permissions : p.id = i /\ p.wallet = w
        /\ \A i, k : RowKey(i, k) <=> \E p \in permissions : p.id = i /\ p.key = k
    BY <1>2 DEF RowClaimed, RowKey, Arrived
  <1>6. RowTenants
    BY <1>1, <1>5 DEF RowTenants, TypeOK, StoreTypeOK
  <1> QED
    BY <1>1, <1>4, <1>6 DEF Tenancy

LEMMA TenancyStep == Tenancy /\ [Next]_vars => Tenancy'
  BY StepTypes, TenantsStep, RowTenantsStep DEF Tenancy

LEMMA TenancyHolds == Spec => []Tenancy
  BY TenancyStart, TenancyStep, PTL DEF Spec

\* A call that has found a permission goes by that one.
LEMMA ChosenIs ==
    ASSUME NEW c \in Call, TypeOK, Ids, Resolved(c)
    PROVE  /\ chosen[c] = {Permission(c)} /\ Permission(c) \in seen[c]
           /\ Permission(c) \in PermissionRow
           /\ Permission(c).wallet = asked[c].wallet /\ Permission(c).use = asked[c].use
           /\ asked[c].key \in {AnyKey, Permission(c).key}
           /\ call[c] \notin {"misconfigured", "refused"} => Permission(c).limit # Invalid
  <1>1. PICK p \in seen[c] :
            /\ chosen[c] = {p}
            /\ p.wallet = asked[c].wallet /\ p.use = asked[c].use
            /\ asked[c].key \in {AnyKey, p.key}
            /\ call[c] # "misconfigured" /\ call[c] # "refused" => p.limit # Invalid
    BY DEF Ids, ChoicesFit
  <1>2. Permission(c) = p
    BY <1>1 DEF Permission
  <1>3. p \in PermissionRow
    BY DEF TypeOK, ServiceTypeOK
  <1> QED
    BY <1>1, <1>2, <1>3

(***************************************************************************)
(* Permissions, signings and uses of a key stay within the wallet of the   *)
(* key (README: "each wallet's keys and permissions are fully isolated"),  *)
(* for any number of wallets, requests and rows.                           *)
(***************************************************************************)
THEOREM Isolation == Spec => []WalletsIsolated
  <1>1. ASSUME Tenancy PROVE WalletsIsolated
    <2>0. TypeOK /\ Ids /\ Tenants
      BY <1>1 DEF Tenancy
    <2>1. ASSUME NEW k, NEW w \in Wallet, Referenced(k, w)
          PROVE  Owner(k) \subseteq {w}
      <3> SUFFICES ASSUME NEW r \in keys, r.id = k PROVE r.wallet = w
        BY DEF Owner
      <3>1. r.wallet \in Wallet /\ k \in Id
        BY <2>0 DEF TypeOK, StoreTypeOK, KeyRow
      <3>2. Claimed(k, r.wallet) /\ Claimed(k, w)
        BY <2>1 DEF Claimed, OwnedKey
      <3> QED
        BY <2>0, <3>1, <3>2 DEF Tenants
    <2>2. ASSUME NEW p \in permissions PROVE Owner(p.key) \subseteq {p.wallet}
      BY <2>0, <2>1 DEF Referenced, TypeOK, StoreTypeOK, PermissionRow
    <2>3. ASSUME NEW c \in Call, Resolved(c) PROVE Owner(Permission(c).key) \subseteq {asked[c].wallet}
      <3>1. /\ Permission(c) \in seen[c] /\ Permission(c).wallet = asked[c].wallet
            /\ Permission(c) \in PermissionRow
        BY <2>0, <2>3, ChosenIs
      <3> QED
        BY <2>1, <3>1 DEF Referenced, PermissionRow
    <2>4. ASSUME NEW c \in Call, call[c] \in {"using", "used"}
          PROVE  Owner(asked[c].key) \subseteq {asked[c].wallet}
      <3>1. asked[c].wallet \in Wallet
        BY <2>0, <2>4 DEF TypeOK, ServiceTypeOK, CallRequest
      <3> QED
        BY <2>1, <2>4, <3>1 DEF Referenced
    <2> QED
      BY <2>2, <2>3, <2>4 DEF WalletsIsolated
  <1> QED
    BY <1>1, TenancyHolds, PTL

(***************************************************************************)
(* A write goes by the id of its row alone (crud.py), and yet it removes   *)
(* or changes no row of another wallet than that of the request, however   *)
(* long ago the ownership was checked (views_api.py): an id never comes to *)
(* be of another wallet.                                                   *)
(***************************************************************************)
THEOREM OwnersWrite == Spec => OnlyOwnersWrite
  <1> DEFINE Written == \A r \in (keys \cup permissions) \ (keys' \cup permissions') :
                 \E j \in Job : job'[j] # job[j] /\ task[j].wallet = r.wallet /\ Names(task[j], r)
  <1>1. ASSUME Tenancy, [Next]_vars PROVE [Written]_vars
    <2>0. TypeOK /\ Ids /\ Tenants /\ RowTenants
      BY <1>1 DEF Tenancy
    <2>1. ASSUME NEW c \in Call, CallNext(c) PROVE Written
      BY <2>0, <2>1, CallTypes DEF Ids, store
    <2>2. ASSUME NEW s \in Setup, SetupNext(s) PROVE Written
      BY <2>0, <2>2, SetupStepIs DEF SetupStamps, SetupInserts, SetupGoesOn
    <2>3. ASSUME NEW j \in Job, Arrive(j) PROVE Written
      BY <2>0, <2>3, ArriveStep DEF Arrives
    <2>4. ASSUME NEW j \in Job, JobStep(j) PROVE Written
      <3> SUFFICES ASSUME NEW r \in keys \cup permissions, r \notin keys', r \notin permissions'
                   PROVE  job'[j] # job[j] /\ task[j].wallet = r.wallet /\ Names(task[j], r)
        OBVIOUS
      <3>1. task[j] \in Task /\ task[j].id \in Id /\ task[j].wallet \in Wallet
        BY <2>0, <2>4, JobStepIs, TaskIs
      <3>2. job[j] \in Stage /\ DOMAIN job = Job
        BY <2>0, <2>4, JobFrame DEF TypeOK, AdminTypeOK
      <3>3. CASE r \in keys
        <4>1. Delete(j) /\ IsKeyOperation(task[j]) /\ r.id = task[j].id
          BY <2>0, <2>4, <3>3, UpdateTypes DEF JobStep, Insert, DeletePermissionsForKey, Delete, Deletes,
             UpdateRead, UpdateReread, JobFail, store
        <4>2. r.wallet \in Wallet /\ job'[j] # job[j]
          BY <2>0, <3>2, <3>3, <4>1 DEF TypeOK, StoreTypeOK, KeyRow, Delete, Proceed
        <4>3. Claimed(r.id, r.wallet)
          BY <3>3 DEF Claimed, OwnedKey
        <4>4. Claimed(r.id, task[j].wallet)
          BY <3>2, <4>1 DEF Claimed, Referenced, ActsOnKey, Arrived, Stage
        <4> QED
          BY <2>0, <3>1, <4>1, <4>2, <4>3, <4>4 DEF Tenants, Names
      <3>4. CASE r \in permissions
        <4>0. /\ r.wallet \in Wallet /\ r.key \in Id
              /\ RowClaimed(r.id, r.wallet) /\ Claimed(r.key, r.wallet)
          BY <2>0, <3>4 DEF TypeOK, StoreTypeOK, PermissionRow, RowClaimed, Claimed, Referenced
        <4>1. CASE DeletePermissionsForKey(j)
          <5>1. task[j].op = "delete key" /\ r.key = task[j].id /\ job'[j] # job[j]
            BY <2>0, <3>2, <3>4, <4>1 DEF DeletePermissionsForKey, Proceed, Ids, StagesFit
          <5>2. Claimed(r.key, task[j].wallet)
            BY <3>2, <5>1 DEF Claimed, Referenced, ActsOnKey, Arrived, Stage, IsKeyOperation
          <5> QED
            BY <2>0, <3>1, <3>4, <4>0, <5>1, <5>2 DEF Tenants, Names
        <4>2. CASE Delete(j)
          <5>1. task[j].op = "delete permission" /\ r.id = task[j].id /\ job'[j] # job[j]
            BY <2>0, <3>2, <3>4, <4>2 DEF Delete, Deletes, Proceed, Ids, StagesFit, IsKeyOperation
          <5>2. RowClaimed(r.id, task[j].wallet)
            BY <3>2, <5>1 DEF RowClaimed, Arrived, Stage
          <5> QED
            BY <2>0, <3>1, <4>0, <5>1, <5>2 DEF RowTenants, Names
        <4>3. CASE Update(j)
          <5>1. task[j].op = "update permission" /\ r.id = task[j].id /\ job'[j] # job[j]
            BY <2>0, <3>2, <3>4, <4>3 DEF Update, Proceed, Ids, StagesFit, IsKeyOperation
          <5>2. RowClaimed(r.id, task[j].wallet)
            BY <3>2, <5>1 DEF RowClaimed, Arrived, Stage
          <5> QED
            BY <2>0, <3>1, <4>0, <5>1, <5>2 DEF RowTenants, Names
        <4> QED
          BY <2>4, <3>4, <4>1, <4>2, <4>3 DEF JobStep, Insert, UpdateRead, UpdateReread, JobFail, store
      <3> QED
        BY <3>3, <3>4
    <2>5. CASE UNCHANGED vars
      BY <2>5
    <2> QED
      BY <1>1, <2>1, <2>2, <2>3, <2>4, <2>5 DEF Next, JobNext
  <1> QED
    BY <1>1, TenancyHolds, PTL DEF Spec, OnlyOwnersWrite

=============================================================================
