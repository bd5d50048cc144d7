------------------------- MODULE NsecOracle_proofs -------------------------
(***************************************************************************)
(* The tables under requests that use, administer and set up keys: types,  *)
(* ids and tenants, for any number of wallets, requests and rows.          *)
(***************************************************************************)
EXTENDS NsecOracle, WellFoundedInduction, TLAPS

(***************************************************************************)
(* A set of ids has a greatest one, and a set of places a least one: what  *)
(* the CHOOSEs of the model stand on.                                      *)
(***************************************************************************)
LEMMA LeastOf ==
    ASSUME NEW T, T \subseteq Nat, T # {}
    PROVE  \E m \in T : \A i \in T : m <= i
  <1> DEFINE R == {ss \in Nat \X Nat : ss[1] < ss[2]}
  <1>1. IsWellFoundedOn(R, Nat)
    <2>1. OpToRel(<, Nat) = R
      BY DEF OpToRel
    <2> QED
      BY <2>1, NatLessThanWellFounded, Zenon
  <1> HIDE DEF R
  <1>2. PICK m \in T : \A i \in T : ~ (<<i, m>> \in R)
    BY <1>1, WFMin
  <1>3. \A i \in T : m <= i
    <2> SUFFICES ASSUME NEW i \in T PROVE ~ (i < m)
      OBVIOUS
    <2> QED
      BY <1>2 DEF R
  <1> QED
    BY <1>3

LEMMA GreatestOf ==
    ASSUME NEW T, T \subseteq Id, T # {}
    PROVE  \E m \in T : \A i \in T : i <= m
  <1> DEFINE U == {n \in Nat : \E i \in T : n = MaxId - i}
  <1>1. PICK x \in T : TRUE
    OBVIOUS
  <1>2. \A i \in T : MaxId - i \in U
    BY StoreAssumption DEF Id
  <1>3. PICK u \in U : \A v \in U : u <= v
    BY <1>1, <1>2, LeastOf
  <1>4. PICK m \in T : u = MaxId - m
    OBVIOUS
  <1>5. \A i \in T : i <= m
    BY <1>2, <1>3, <1>4, StoreAssumption DEF Id
  <1> QED
    BY <1>5

LEMMA NewestIs ==
    ASSUME NEW rows, rows \subseteq PermissionRow, rows # {}
    PROVE  Newest(rows) \in rows /\ \A r \in rows : r.id <= Newest(rows).id
  <1> DEFINE Is == {r.id : r \in rows}
  <1>1. Is \subseteq Id /\ Is # {}
    BY DEF PermissionRow
  <1>2. PICK m \in Is : \A i \in Is : i <= m
    BY <1>1, GreatestOf
  <1>3. \E r \in rows : \A s \in rows : s.id <= r.id
    BY <1>2
  <1> QED
    BY <1>3 DEF Newest

(***************************************************************************)
(* Resolution finds one permission, of the newest key among the matching   *)
(* ones, or none; and it finds one where the wallet has a key and one      *)
(* matches.                                                                *)
(***************************************************************************)
Known(keyRows, r) == \E k \in keyRows : k.wallet = r.wallet /\ r.key \in {AnyKey, k.id}

LEMMA ResolutionIs ==
    ASSUME NEW keyRows, NEW permissionRows, permissionRows \subseteq PermissionRow, NEW r
    PROVE  \/ /\ Resolution(keyRows, permissionRows, r) = [answer |-> "no key", permission |-> {}]
              /\ ~Known(keyRows, r)
           \/ /\ Resolution(keyRows, permissionRows, r) = [answer |-> "denied", permission |-> {}]
              /\ Known(keyRows, r) /\ Matching(keyRows, permissionRows, r) = {}
           \/ /\ Known(keyRows, r)
              /\ \E p \in Matching(keyRows, permissionRows, r) :
                    /\ Resolution(keyRows, permissionRows, r) = [answer |-> "found", permission |-> {p}]
                    /\ \A q \in Matching(keyRows, permissionRows, r) : q.key <= p.key
  <1> DEFINE matching == Matching(keyRows, permissionRows, r)
             newestKey == CHOOSE p \in matching : \A q \in matching : q.key <= p.key
             candidates == {p \in matching : p.key = newestKey.key}
             res == Resolution(keyRows, permissionRows, r)
  <1>1. CASE ~Known(keyRows, r)
    <2>1. res = [answer |-> "no key", permission |-> {}]
      BY <1>1 DEF Resolution, Known
    <2> QED
      BY <1>1, <2>1
  <1>2. CASE Known(keyRows, r) /\ matching = {}
    <2>1. res = [answer |-> "denied", permission |-> {}]
      BY <1>2 DEF Resolution, Known
    <2> QED
      BY <1>2, <2>1
  <1>3. CASE Known(keyRows, r) /\ matching # {}
    <2>1. res = [answer |-> "found", permission |-> {Newest(candidates)}]
      BY <1>3 DEF Resolution, Known
    <2>2. matching \subseteq PermissionRow
      BY DEF Matching
    <2>3. newestKey \in matching /\ \A q \in matching : q.key <= newestKey.key
      <3> DEFINE Ks == {p.key : p \in matching}
      <3>1. Ks \subseteq Id /\ Ks # {}
        BY <1>3, <2>2 DEF PermissionRow
      <3>2. PICK m \in Ks : \A i \in Ks : i <= m
        BY <3>1, GreatestOf
      <3>3. \E p \in matching : \A q \in matching : q.key <= p.key
        BY <3>2
      <3> QED
        BY <3>3
    <2> HIDE DEF newestKey
    <2>4. candidates \subseteq PermissionRow /\ candidates # {}
      BY <2>2, <2>3
    <2>5. Newest(candidates) \in candidates
      BY <2>4, NewestIs
    <2>6. \A q \in matching : q.key <= Newest(candidates).key
      BY <2>3, <2>5
    <2> QED
      BY <1>3, <2>1, <2>5, <2>6
  <1> QED
    BY <1>1, <1>2, <1>3

LEMMA PlaceIs ==
    ASSUME NEW s \in Setup, TypeOK, todo[s] # {}
    PROVE  Place(s) \in todo[s] /\ Place(s) \in DOMAIN Declared(s)
  <1>1. todo[s] \subseteq Nat /\ todo[s] \subseteq DOMAIN Declared(s)
    BY DEF TypeOK, QuickTypeOK
  <1>2. \E i \in todo[s] : \A k \in todo[s] : i <= k
    BY <1>1, LeastOf
  <1> QED
    BY <1>1, <1>2 DEF Place

LEMMA DeclaredIs ==
    ASSUME NEW e \in Extension
    PROVE  Discovered(e) \in Seq(Requirement)
  <1>1. Config[e] \in Seq(Requirement \cup {Malformed})
    BY ConfigAssumption
  <1>2. CASE \E i \in DOMAIN Config[e] : Config[e][i] = Malformed
    BY <1>2 DEF Discovered
  <1>3. CASE \A i \in DOMAIN Config[e] : Config[e][i] # Malformed
    <2>1. Discovered(e) = Config[e]
      BY <1>3 DEF Discovered
    <2>2. Config[e] \in [1..Len(Config[e]) -> Requirement]
      BY <1>1, <1>3
    <2>3. Len(Config[e]) \in Nat
      BY <1>1
    <2> QED
      BY <2>1, <2>2, <2>3
  <1> QED
    BY <1>2, <1>3

-----------------------------------------------------------------------------
(***************************************************************************)
(* Ids are stamped before their row is inserted, and each is used once.    *)
(***************************************************************************)
KeyIdsUnique == \A r, k \in keys : r.id = k.id => r = k

Taken(i) == \E r \in keys \cup permissions : r.id = i

StampsAreFresh ==
    /\ \A j \in Job : job[j] = "insert" => task[j].id < nextId /\ ~Taken(task[j].id)
    /\ \A s \in Setup : \A i \in made[s] : i < nextId
    /\ \A s \in Setup : setup[s] = "inserting" => LastMade(s) \in made[s] /\ ~Taken(LastMade(s))

StampsDiffer ==
    /\ \A j, k \in Job : job[j] = "insert" /\ job[k] = "insert" /\ j # k => task[j].id # task[k].id
    /\ \A j \in Job, s \in Setup : job[j] = "insert" => task[j].id \notin made[s]
    /\ \A s, t \in Setup : s # t => made[s] \cap made[t] = {}

\* Where a request is says what it is.
StagesFit ==
    \A j \in Job :
        /\ job[j] = "insert" => task[j].op \in {"create key", "create permission"}
        /\ job[j] = "delete permissions" => task[j].op = "delete key"
        /\ job[j] = "delete" => task[j].op \in {"delete key", "delete permission"}
        /\ job[j] \in {"owned", "update", "reread", "assertion failed"} =>
              task[j].op \in {"update key", "update permission"}

RowsAreAccepted ==
    \A s \in Setup : setup[s] = "inserting" => todo[s] # {} /\ Accepted(s, Upcoming(s))

NothingGranted ==
    \A s \in Setup : setup[s] \in {"idle", "reading", "not found"} => todo[s] = {} /\ made[s] = {}

\* A call goes by one of the permissions it has read, which fits its request.
ChoicesFit ==
    \A c \in Call : Resolved(c) =>
        \E p \in seen[c] :
            /\ chosen[c] = {p}
            /\ p.wallet = asked[c].wallet /\ p.use = asked[c].use
            /\ asked[c].key \in {AnyKey, p.key}
            /\ call[c] # "misconfigured" /\ call[c] # "refused" => p.limit # Invalid

Ids == /\ KeyIdsUnique /\ StampsAreFresh /\ StampsDiffer
       /\ StagesFit /\ RowsAreAccepted /\ NothingGranted /\ ChoicesFit

LEMMA TypesStart == Init => TypeOK /\ Ids
  <1> SUFFICES ASSUME Init PROVE TypeOK /\ Ids
    OBVIOUS
  <1>1. StoreTypeOK
    BY InitialAssumption, StoreAssumption DEF Init, StoreTypeOK
  <1>2. ServiceTypeOK
    BY DEF Init, ServiceInit, ServiceTypeOK
  <1>3. AdminTypeOK
    BY DEF Init, AdminInit, AdminTypeOK
  <1>4. QuickTypeOK
    BY DEF Init, QuickInit, QuickTypeOK
  <1>5. Ids
    BY InitialAssumption DEF Init, AdminInit, QuickInit, Ids, KeyIdsUnique, StampsAreFresh,
       StampsDiffer, StagesFit, RowsAreAccepted, ServiceInit, ChoicesFit, Resolved,
       NothingGranted
  <1> QED
    BY <1>1, <1>2, <1>3, <1>4, <1>5 DEF TypeOK

LEMMA TaskIs ==
    ASSUME NEW t \in Task
    PROVE  /\ t.op \in AllOperations /\ t.wallet \in Wallet /\ t.id \in Id
           /\ t.op = "create permission" => t.key \in Id /\ t.use \in Use /\ t.limit \in Limit
           /\ t.op = "update permission" => t.limit \in Limit
  BY DEF Task, KeyTask, DeletePermissionTask, UpdatePermissionTask, CreatePermissionTask,
     AllOperations, RequestLimit, ValidLimit, Limit

-----------------------------------------------------------------------------
\* SignResolve takes its answer and its permission from what the call has read.
LEMMA ResolveStep ==
    ASSUME NEW c \in Call, TypeOK, SignResolve(c)
    PROVE  /\ UNCHANGED <<signing_log, asked, seen, store>>
           /\ \E a \in Answered \cup UnderWay, P \in SUBSET seen[c] :
                 call' = [call EXCEPT ![c] = a] /\ chosen' = [chosen EXCEPT ![c] = P]
           /\ ServiceTypeOK'
  <1> DEFINE r == Resolution(keys, seen[c], asked[c])
  <1>1. seen[c] \subseteq PermissionRow
    BY DEF TypeOK, ServiceTypeOK
  <1>2. Matching(keys, seen[c], asked[c]) \subseteq seen[c]
    BY DEF Matching
  <1>3. \/ r = [answer |-> "no key", permission |-> {}]
        \/ r = [answer |-> "denied", permission |-> {}]
        \/ \E p \in seen[c] : r = [answer |-> "found", permission |-> {p}]
    BY <1>1, <1>2, ResolutionIs
  <1>4. ResolvedTo(c) = r
    BY DEF ResolvedTo
  <1> HIDE DEF r
  <1>5. r.permission \subseteq seen[c] /\ r.answer \in {"no key", "denied", "found"}
    <2>1. CASE \E p \in seen[c] : r = [answer |-> "found", permission |-> {p}]
      <3>1. PICK p \in seen[c] : r = [answer |-> "found", permission |-> {p}]
        BY <2>1
      <3> QED
        BY <3>1
    <2>2. CASE r = [answer |-> "no key", permission |-> {}]
      BY <2>2
    <2>3. CASE r = [answer |-> "denied", permission |-> {}]
      BY <2>3
    <2> QED
      BY <1>3, <2>1, <2>2, <2>3
  <1>6. /\ chosen' = [chosen EXCEPT ![c] = r.permission]
        /\ UNCHANGED <<signing_log, asked, seen, store>>
        /\ \E a \in Answered \cup UnderWay : call' = [call EXCEPT ![c] = a]
    BY <1>4, <1>5 DEF SignResolve, Answered, UnderWay
  <1>7. call[c] = "resolving"
    BY DEF SignResolve
  <1>8. ServiceTypeOK'
    BY <1>1, <1>5, <1>6, <1>7 DEF TypeOK, ServiceTypeOK, UnderWay
  <1> QED
    BY <1>5, <1>6, <1>8

\* The calls change none of the tables that administration and setup work on.
LEMMA CallTypes ==
    ASSUME NEW c \in Call, TypeOK, ChoicesFit, CallNext(c)
    PROVE  ServiceTypeOK' /\ UNCHANGED store
  <1> USE DEF TypeOK, ServiceTypeOK, UnderWay, Answered
  <1>1. CASE SignRead(c)
    BY <1>1 DEF SignRead, StoreTypeOK
  <1>2. CASE SignResolve(c)
    BY <1>2, ResolveStep
  <1>3. CASE SignDecrypt(c)
    BY <1>3 DEF SignDecrypt
  <1>4. CASE SignReserve(c) \/ SignUnlimited(c)
    <2>1. Permission(c) \in PermissionRow /\ asked[c] \in CallRequest
      BY <1>4 DEF SignReserve, SignUnlimited, ChoicesFit, Resolved, Permission
    <2>2. RowOf(c) \in LogRow
      BY <2>1 DEF RowOf, LogRow, PermissionRow, CallRequest
    <2> QED
      BY <1>4, <2>2 DEF SignReserve, SignUnlimited, LogAndReturn
  <1>5. CASE SignRefuse(c)
    BY <1>5 DEF SignRefuse
  <1>6. CASE UseKeyRead(c)
    BY <1>6 DEF UseKeyRead
  <1>7. CASE UseKeyDecrypt(c)
    BY <1>7 DEF UseKeyDecrypt
  <1>8. CASE CallFail(c)
    BY <1>8 DEF CallFail
  <1> QED
    BY <1>1, <1>2, <1>3, <1>4, <1>5, <1>6, <1>7, <1>8 DEF CallNext, CallStep

-----------------------------------------------------------------------------
\* What a request finds when it comes, by what it asks for.
LEMMA ArriveTypes ==
    ASSUME NEW j \in Job, TypeOK, Ids, Arrive(j)
    PROVE  StoreTypeOK' /\ AdminTypeOK'
  <1>1. PICK t \in Task : /\ task' = [task EXCEPT ![j] = t]
                          /\ CreateKey(j, t) \/ CreatePermission(j, t) \/ RequireOwned(j, t)
    BY DEF Arrive
  <1>2. UNCHANGED <<keys, permissions>> /\ (nextId' = nextId \/ Stamp)
    BY <1>1 DEF CreateKey, CreatePermission, RequireOwned, store
  <1>3. StoreTypeOK'
    <2>1. nextId' \in 1..(MaxId + 1) /\ nextId <= nextId'
      BY <1>2, StoreAssumption DEF TypeOK, StoreTypeOK, Stamp
    <2>2. \A r \in keys \cup permissions : r.id \in Nat
      BY DEF TypeOK, StoreTypeOK, KeyRow, PermissionRow, Id
    <2> QED
      BY <1>2, <2>1, <2>2 DEF TypeOK, StoreTypeOK
  <1>4. \E a \in Stage \cup Ended : job' = [job EXCEPT ![j] = a]
    <2>1. CASE CreateKey(j, t) \/ CreatePermission(j, t)
      BY <2>1 DEF CreateKey, CreatePermission, Advance, Stage, Ended
    <2>2. CASE RequireOwned(j, t)
      <3>1. t.op \in AllOperations \ {"create key", "create permission"}
        BY <2>2, TaskIs DEF RequireOwned
      <3>2. AfterOwnership(t) \in Stage
        BY <3>1 DEF AfterOwnership, AllOperations, Stage
      <3> QED
        BY <2>2, <3>2 DEF RequireOwned, Advance, Ended
    <2> QED
      BY <1>1, <2>1, <2>2
  <1>5. AdminTypeOK'
    BY <1>1, <1>4 DEF TypeOK, AdminTypeOK
  <1> QED
    BY <1>3, <1>5

LEMMA InsertTypes ==
    ASSUME NEW j \in Job, TypeOK, Ids, Insert(j)
    PROVE  StoreTypeOK'
  <1> USE DEF TypeOK, StoreTypeOK, Insert
  <1>1. task[j] \in Task
    BY DEF AdminTypeOK
  <1>2. task[j].id \in Id /\ task[j].id < nextId /\ ~Taken(task[j].id)
    BY <1>1, TaskIs DEF Ids, StampsAreFresh
  <1>3. CASE task[j].op = "create key"
    <2> DEFINE k == [id |-> task[j].id, wallet |-> task[j].wallet]
    <2>1. k \in KeyRow /\ k.id < nextId
      BY <1>1, <1>2, TaskIs DEF KeyRow
    <2>2. keys' = keys \cup {k} /\ permissions' = permissions /\ nextId' = nextId
      BY <1>3
    <2> HIDE DEF k
    <2> QED
      BY <2>1, <2>2
  <1>4. CASE task[j].op = "create permission"
    <2> DEFINE p == PermissionOf(task[j])
    <2>1. p \in PermissionRow /\ p.id = task[j].id
      BY <1>1, <1>4, TaskIs DEF PermissionOf, PermissionRow
    <2>2. permissions' = permissions \cup {p} /\ keys' = keys /\ nextId' = nextId
      BY <1>4
    <2> HIDE DEF p
    <2> QED
      BY <1>2, <2>1, <2>2 DEF Taken
  <1> QED
    BY <1>3, <1>4 DEF Ids, StagesFit

LEMMA UpdateTypes ==
    ASSUME NEW j \in Job, TypeOK, Ids, Update(j)
    PROVE  /\ StoreTypeOK' /\ UNCHANGED <<keys, nextId>>
           /\ \A p \in permissions' : \E q \in permissions :
                 p.id = q.id /\ p.wallet = q.wallet /\ p.key = q.key /\ p.use = q.use
           /\ \A q \in permissions : \E p \in permissions' :
                 p.id = q.id /\ p.wallet = q.wallet /\ p.key = q.key /\ p.use = q.use
  <1> USE DEF TypeOK, StoreTypeOK, Update
  <1>1. CASE IsKeyOperation(task[j])
    BY <1>1
  <1>2. CASE ~IsKeyOperation(task[j])
    <2> DEFINE New(q) == IF q.id = task[j].id THEN [q EXCEPT !.limit = task[j].limit] ELSE q
    <2>1. permissions' = {New(q) : q \in permissions}
      BY <1>2
    <2>2. task[j] \in Task /\ task[j].op = "update permission"
      BY <1>2 DEF AdminTypeOK, Ids, StagesFit, IsKeyOperation
    <2>3. ASSUME NEW q \in permissions
          PROVE  /\ New(q) \in PermissionRow /\ New(q).id = q.id /\ New(q).wallet = q.wallet
                 /\ New(q).key = q.key /\ New(q).use = q.use
      BY <2>2, TaskIs DEF PermissionRow
    <2> HIDE DEF New
    <2> QED
      BY <2>1, <2>3
  <1> QED
    BY <1>1, <1>2

LEMMA JobTypes ==
    ASSUME NEW j \in Job, TypeOK, Ids, JobNext(j)
    PROVE  StoreTypeOK' /\ AdminTypeOK'
  <1> USE DEF TypeOK
  <1>1. CASE Arrive(j)
    BY <1>1, ArriveTypes
  <1>2. CASE JobStep(j)
    <2>1. /\ task' = task /\ job[j] # "idle"
          /\ \E a \in Stage \cup Ended : job' = [job EXCEPT ![j] = a]
      BY <1>2 DEF JobStep, Insert, DeletePermissionsForKey, Delete, UpdateRead, Update,
         UpdateReread, JobFail, Advance, Proceed, Stage, Ended
    <2>2. AdminTypeOK'
      BY <2>1 DEF AdminTypeOK
    <2>3. StoreTypeOK'
      <3>1. CASE DeletePermissionsForKey(j) \/ Delete(j)
        BY <3>1 DEF DeletePermissionsForKey, Delete, StoreTypeOK
      <3>2. CASE UpdateRead(j) \/ UpdateReread(j) \/ JobFail(j)
        BY <3>2 DEF UpdateRead, UpdateReread, JobFail, StoreTypeOK, store
      <3> QED
        BY <1>2, <3>1, <3>2, InsertTypes, UpdateTypes DEF JobStep
    <2> QED
      BY <2>2, <2>3
  <1> QED
    BY <1>1, <1>2 DEF JobNext

-----------------------------------------------------------------------------
\* The row a quick setup is about to insert.
LEMMA SetupRowIs ==
    ASSUME NEW s \in Setup, TypeOK, Ids, setup[s] = "inserting"
    PROVE  /\ SetupRow(s) \in PermissionRow
           /\ SetupRow(s).id = LastMade(s) /\ SetupRow(s).wallet = wanted[s].wallet
           /\ SetupRow(s).key = wanted[s].key /\ SetupRow(s).use = Upcoming(s).use
           /\ LastMade(s) \in Id /\ LastMade(s) < nextId /\ ~Taken(LastMade(s))
           /\ wanted[s] \in SetupRequest
  <1>1. LastMade(s) \in Id /\ LastMade(s) < nextId /\ ~Taken(LastMade(s))
    BY DEF TypeOK, QuickTypeOK, Ids, StampsAreFresh
  <1>2. wanted[s] \in SetupRequest
    BY DEF TypeOK, QuickTypeOK
  <1>3. Upcoming(s).use \in Use /\ LimitFor(s, Upcoming(s)) \in Limit
    BY DEF Ids, RowsAreAccepted, Accepted, ValidLimit, Limit
  <1>4. wanted[s].wallet \in Wallet /\ wanted[s].key \in Id
    BY <1>2 DEF SetupRequest
  <1> QED
    BY <1>1, <1>2, <1>3, <1>4 DEF SetupRow, PermissionRow

LEMMA SetupTypes ==
    ASSUME NEW s \in Setup, TypeOK, Ids, SetupNext(s)
    PROVE  StoreTypeOK' /\ QuickTypeOK'
  <1>0. /\ setup \in [Setup -> {"idle"} \cup SetupStage \cup SetupEnded]
        /\ wanted \in [Setup -> SetupRequest \cup {<<>>}]
        /\ \A t \in Setup : setup[t] # "idle" => wanted[t] \in SetupRequest
        /\ todo \in [Setup -> SUBSET (Nat \ {0})]
        /\ \A t \in Setup : todo[t] # {} => todo[t] \subseteq DOMAIN Declared(t)
        /\ made \in [Setup -> SUBSET Id]
        /\ before \in [Setup -> SUBSET Setup]
    BY DEF TypeOK, QuickTypeOK
  <1>1. UNCHANGED <<keys, permissions>> \/ SetupInsert(s)
    BY DEF SetupNext, SetupArrive, SetupRead, SetupStamp, SetupRefuse, SetupDone, SetupFail, store
  <1>2. StoreTypeOK'
    <2>1. CASE SetupInsert(s)
      <3>1. permissions' = permissions \cup {SetupRow(s)} /\ UNCHANGED <<keys, nextId>>
        BY <2>1 DEF SetupInsert
      <3>2. SetupRow(s) \in PermissionRow /\ SetupRow(s).id < nextId
            /\ \A r \in permissions : r.id # SetupRow(s).id
        BY <2>1, SetupRowIs DEF SetupInsert, Taken
      <3> QED
        BY <3>1, <3>2 DEF TypeOK, StoreTypeOK
    <2>2. CASE UNCHANGED <<keys, permissions>>
      <3>1. nextId' \in 1..(MaxId + 1) /\ nextId <= nextId'
        <4>1. nextId' = nextId \/ Stamp
          BY DEF SetupNext, SetupArrive, SetupRead, SetupStamp, SetupRefuse, SetupInsert,
             SetupDone, SetupFail, store
        <4> QED
          BY <4>1, StoreAssumption DEF TypeOK, StoreTypeOK, Stamp
      <3>2. \A r \in keys \cup permissions : r.id \in Nat
        BY DEF TypeOK, StoreTypeOK, KeyRow, PermissionRow, Id
      <3> QED
        BY <2>2, <3>1, <3>2 DEF TypeOK, StoreTypeOK
    <2> QED
      BY <1>1, <2>1, <2>2
  <1>3. CASE SetupArrive(s)
    <2>1. PICK r \in SetupRequest, a \in SetupStage \cup SetupEnded :
             wanted' = [wanted EXCEPT ![s] = r] /\ setup' = [setup EXCEPT ![s] = a]
      BY <1>3 DEF SetupArrive, SetupAdvance, SetupStage, SetupEnded
    <2>2. /\ before' = [before EXCEPT ![s] = {t \in Setup : setup[t] \in SetupEnded}]
          /\ UNCHANGED <<todo, made>>
      BY <1>3 DEF SetupArrive
    <2>3. todo[s] = {}
      BY <1>3 DEF SetupArrive, Ids, NothingGranted
    <2>4. \A t \in Setup : todo'[t] # {} => t # s /\ Declared(t)' = Declared(t)
      BY <1>0, <2>1, <2>2, <2>3 DEF Declared
    <2> QED
      BY <1>0, <1>2, <2>1, <2>2, <2>4 DEF QuickTypeOK
  <1>4. CASE ~ SetupArrive(s)
    <2>1. /\ wanted' = wanted /\ before' = before
          /\ \E a \in SetupStage \cup SetupEnded : setup' = [setup EXCEPT ![s] = a]
          /\ setup[s] # "idle"
      BY <1>4 DEF SetupNext, SetupRead, SetupStamp, SetupRefuse, SetupInsert, SetupDone,
         SetupFail, SetupAdvance, SetupStage, SetupEnded
    <2>2. \A t \in Setup : Declared(t)' = Declared(t)
      BY <2>1 DEF Declared
    <2>3. DOMAIN Declared(s) \subseteq Nat \ {0}
      <3>1. wanted[s].extension \in Extension
        BY <1>0, <2>1 DEF SetupRequest
      <3>2. Declared(s) \in Seq(Requirement)
        BY <3>1, DeclaredIs DEF Declared
      <3> QED
        BY <3>2
    <2>4. todo' = todo \/ \E P \in SUBSET DOMAIN Declared(s) : todo' = [todo EXCEPT ![s] = P]
      <3>1. CASE SetupRead(s)
        BY <3>1 DEF SetupRead
      <3>2. CASE SetupInsert(s)
        <4>1. todo' = [todo EXCEPT ![s] = todo[s] \ {Place(s)}]
          BY <1>0, <3>2 DEF SetupInsert
        <4>2. todo[s] \ {Place(s)} \subseteq DOMAIN Declared(s)
          BY <1>0
        <4> QED
          BY <4>1, <4>2
      <3> QED
        BY <1>4, <3>1, <3>2 DEF SetupNext, SetupStamp, SetupRefuse, SetupDone, SetupFail
    <2>5. made' \in [Setup -> SUBSET Id]
      <3>1. CASE SetupStamp(s)
        BY <1>0, <3>1 DEF SetupStamp, Stamp, Id, TypeOK, StoreTypeOK
      <3> QED
        BY <1>0, <1>4, <3>1 DEF SetupNext, SetupRead, SetupRefuse, SetupInsert, SetupDone, SetupFail
    <2>6. todo' \in [Setup -> SUBSET (Nat \ {0})]
      BY <1>0, <2>3, <2>4
    <2>7. \A t \in Setup : todo'[t] # {} => todo'[t] \subseteq DOMAIN Declared(t)'
      BY <1>0, <2>2, <2>4
    <2>8. /\ setup' \in [Setup -> {"idle"} \cup SetupStage \cup SetupEnded]
          /\ \A t \in Setup : setup'[t] # "idle" => wanted'[t] \in SetupRequest
      BY <1>0, <2>1
    <2> QED
      BY <1>0, <1>2, <2>1, <2>5, <2>6, <2>7, <2>8 DEF QuickTypeOK
  <1> QED
    BY <1>2, <1>3, <1>4 DEF SetupNext

-----------------------------------------------------------------------------
\* A step of a call leaves the other calls alone.
LEMMA CallFrame ==
    ASSUME NEW c \in Call, TypeOK, CallNext(c), NEW d \in Call, d # c
    PROVE  /\ call'[d] = call[d] /\ asked'[d] = asked[d]
           /\ seen'[d] = seen[d] /\ chosen'[d] = chosen[d]
  <1>1. /\ call \in [Call -> {"idle"} \cup UnderWay \cup Answered] /\ DOMAIN asked = Call
        /\ DOMAIN seen = Call /\ DOMAIN chosen = Call
    BY DEF TypeOK, ServiceTypeOK
  <1>2. CASE SignRead(c)
    BY <1>1, <1>2 DEF SignRead
  <1>3. CASE SignResolve(c)
    BY <1>1, <1>3, ResolveStep
  <1>4. CASE UseKeyRead(c)
    BY <1>1, <1>4 DEF UseKeyRead
  <1>5. CASE SignDecrypt(c) \/ SignReserve(c) \/ SignRefuse(c) \/ SignUnlimited(c)
             \/ UseKeyDecrypt(c) \/ CallFail(c)
    BY <1>1, <1>5 DEF SignDecrypt, SignReserve, SignRefuse, SignUnlimited, LogAndReturn,
       UseKeyDecrypt, CallFail
  <1> QED
    BY <1>2, <1>3, <1>4, <1>5 DEF CallNext, CallStep

\* Past its resolution a call keeps what it has read and chosen.
LEMMA CallGoesOn ==
    ASSUME NEW c \in Call, TypeOK, CallNext(c), call[c] \notin {"idle", "resolving"}
    PROVE  /\ UNCHANGED <<asked, seen, chosen, store>> /\ call[c] \in {"decrypting", "signing", "using"}
           /\ \/ call'[c] \in {"no key", "failed", "used"}
              \/ call[c] = "decrypting" /\ call'[c] = "signing"
              \/ call[c] = "signing" /\ call'[c] \in {"signed", "refused"}
  <1>1. call \in [Call -> {"idle"} \cup UnderWay \cup Answered]
    BY DEF TypeOK, ServiceTypeOK
  <1> QED
    BY <1>1 DEF CallNext, CallStep, SignRead, SignResolve, UseKeyRead, SignDecrypt, SignReserve,
       SignRefuse, SignUnlimited, LogAndReturn, UseKeyDecrypt, CallFail, UnderWay

\* What SignResolve settles on.
LEMMA ResolvesTo ==
    ASSUME NEW c \in Call, TypeOK, SignResolve(c)
    PROVE  /\ call[c] = "resolving" /\ seen[c] \subseteq PermissionRow
           /\ \/ /\ call'[c] = "no key" /\ ~Known(keys, asked[c]) /\ chosen'[c] = {}
              \/ /\ call'[c] = "denied" /\ Matching(keys, seen[c], asked[c]) = {}
                 /\ Known(keys, asked[c]) /\ chosen'[c] = {}
              \/ \E p \in Matching(keys, seen[c], asked[c]) :
                    /\ Resolution(keys, seen[c], asked[c]) = [answer |-> "found", permission |-> {p}]
                    /\ chosen'[c] = {p} /\ \A q \in Matching(keys, seen[c], asked[c]) : q.key <= p.key
                    /\ \/ call'[c] = "decrypting" /\ p.limit # Invalid
                       \/ call'[c] = "misconfigured"
  <1> DEFINE r == Resolution(keys, seen[c], asked[c])
  <1>1. /\ seen[c] \subseteq PermissionRow /\ DOMAIN call = Call /\ DOMAIN chosen = Call
    BY DEF TypeOK, ServiceTypeOK
  <1>2. /\ call[c] = "resolving" /\ chosen'[c] = r.permission
        /\ call'[c] = CASE r.answer # "found" -> r.answer
                        [] r.answer = "found" /\ (\E p \in r.permission : p.limit = Invalid) -> "misconfigured"
                        [] r.answer = "found" /\ ~(\E p \in r.permission : p.limit = Invalid) -> "decrypting"
    BY <1>1 DEF SignResolve, ResolvedTo
  <1>3. \/ r = [answer |-> "no key", permission |-> {}] /\ ~Known(keys, asked[c])
        \/ /\ r = [answer |-> "denied", permission |-> {}]
           /\ Known(keys, asked[c]) /\ Matching(keys, seen[c], asked[c]) = {}
        \/ \E p \in Matching(keys, seen[c], asked[c]) :
              /\ r = [answer |-> "found", permission |-> {p}]
              /\ \A q \in Matching(keys, seen[c], asked[c]) : q.key <= p.key
    BY <1>1, ResolutionIs
  <1>4. CASE r = [answer |-> "no key", permission |-> {}] /\ ~Known(keys, asked[c])
    <2> HIDE DEF r
    <2>0. r = [answer |-> "no key", permission |-> {}]
      BY <1>4
    <2>1. r.answer = "no key" /\ r.permission = {}
      BY <2>0
    <2> QED
      BY <1>1, <1>2, <1>4, <2>1
  <1>5. CASE /\ r = [answer |-> "denied", permission |-> {}]
             /\ Known(keys, asked[c]) /\ Matching(keys, seen[c], asked[c]) = {}
    <2>1. r.answer = "denied" /\ r.permission = {}
      BY <1>5
    <2> HIDE DEF r
    <2> QED
      BY <1>1, <1>2, <1>5, <2>1
  <1>6. ASSUME NEW p \in Matching(keys, seen[c], asked[c]),
               r = [answer |-> "found", permission |-> {p}],
               \A q \in Matching(keys, seen[c], asked[c]) : q.key <= p.key
        PROVE  \/ call'[c] = "decrypting" /\ p.limit # Invalid /\ chosen'[c] = {p}
               \/ call'[c] = "misconfigured" /\ chosen'[c] = {p}
    <2>1. r.answer = "found" /\ r.permission = {p}
      BY <1>6
    <2> HIDE DEF r
    <2> QED
      BY <1>2, <2>1
  <1> QED
    BY <1>1, <1>2, <1>3, <1>4, <1>5, <1>6

LEMMA StepChoices ==
    ASSUME NEW c \in Call, TypeOK, ChoicesFit, CallNext(c)
    PROVE  ChoicesFit'
  <1> SUFFICES ASSUME NEW d \in Call, Resolved(d)'
               PROVE  \E p \in seen'[d] :
                         /\ chosen'[d] = {p}
                         /\ p.wallet = asked'[d].wallet /\ p.use = asked'[d].use
                         /\ asked'[d].key \in {AnyKey, p.key}
                         /\ call'[d] # "misconfigured" /\ call'[d] # "refused" => p.limit # Invalid
    BY DEF ChoicesFit
  <1>1. CASE d # c
    BY <1>1, CallFrame DEF ChoicesFit, Resolved
  <1>2. CASE d = c /\ call[c] \notin {"idle", "resolving"}
    BY <1>2, CallGoesOn DEF ChoicesFit, Resolved
  <1>3. CASE d = c /\ SignResolve(c)
    <2>1. seen'[c] = seen[c] /\ asked'[c] = asked[c]
      BY <1>3 DEF SignResolve
    <2>2. PICK p \in Matching(keys, seen[c], asked[c]) :
             chosen'[c] = {p} /\ (call'[c] # "misconfigured" => p.limit # Invalid)
      BY <1>3, ResolvesTo DEF Resolved
    <2> QED
      BY <1>3, <2>1, <2>2 DEF Matching
  <1>4. CASE d = c /\ call[c] \in {"idle", "resolving"} /\ ~SignResolve(c)
    <2>1. call'[c] \in {"resolving", "using", "no key", "failed"}
      BY <1>4 DEF CallNext, CallStep, SignRead, UseKeyRead, SignDecrypt, SignReserve, SignRefuse,
         SignUnlimited, UseKeyDecrypt, CallFail, TypeOK, ServiceTypeOK
    <2> QED
      BY <1>4, <2>1 DEF Resolved
  <1> QED
    BY <1>1, <1>2, <1>3, <1>4

-----------------------------------------------------------------------------
\* A request of the administration that comes: where it may go, and that only the
\* creation of a row stamps one.
Arrives(j, t, a) ==
    /\ job[j] = "idle" /\ task' = [task EXCEPT ![j] = t] /\ job' = [job EXCEPT ![j] = a]
    /\ UNCHANGED <<keys, permissions>>
    /\ \/ /\ a = "insert" /\ t.id = nextId /\ nextId' = nextId + 1 /\ nextId \in Id
          /\ \/ t.op = "create key"
             \/ t.op = "create permission" /\ OwnedKey(keys, t.wallet, t.key)
       \/ a = "not found" /\ nextId' = nextId
       \/ /\ nextId' = nextId /\ OwnedRow(t)
          /\ \/ a = "delete permissions" /\ t.op = "delete key"
             \/ a = "delete" /\ t.op = "delete permission"
             \/ a = "owned" /\ t.op \in {"update key", "update permission"}

LEMMA ArriveStep ==
    ASSUME NEW j \in Job, TypeOK, Arrive(j)
    PROVE  \E t \in Task, a \in Stage \cup Ended : Arrives(j, t, a)
  <1>1. PICK t \in Task : /\ job[j] = "idle" /\ task' = [task EXCEPT ![j] = t]
                          /\ CreateKey(j, t) \/ CreatePermission(j, t) \/ RequireOwned(j, t)
    BY DEF Arrive
  <1>2. CASE CreateKey(j, t) \/ CreatePermission(j, t)
    <2>1. nextId \in Nat
      BY StoreAssumption DEF TypeOK, StoreTypeOK
    <2>2. Stamp => nextId \in Id /\ nextId' = nextId + 1
      BY StoreAssumption DEF TypeOK, StoreTypeOK, Stamp, Id
    <2> QED
      BY <1>1, <1>2, <2>2 DEF CreateKey, CreatePermission, Advance, Stage, Ended, Arrives
  <1>3. CASE RequireOwned(j, t)
    <2>1. t.op \in {"delete key", "update key", "delete permission", "update permission"}
      BY <1>3, TaskIs DEF RequireOwned, AllOperations
    <2>2. /\ AfterOwnership(t) \in Stage
          /\ t.op = "delete key" => AfterOwnership(t) = "delete permissions"
          /\ t.op = "delete permission" => AfterOwnership(t) = "delete"
          /\ t.op \in {"update key", "update permission"} => AfterOwnership(t) = "owned"
      BY <2>1 DEF AfterOwnership, Stage
    <2> QED
      BY <1>1, <1>3, <2>1, <2>2 DEF RequireOwned, Advance, store, Ended, Arrives
  <1> QED
    BY <1>1, <1>2, <1>3

\* A later step stamps nothing, and inserts a row only under the id stamped for it.
LEMMA JobStepIs ==
    ASSUME NEW j \in Job, TypeOK, Ids, JobStep(j)
    PROVE  /\ task' = task /\ nextId' = nextId /\ task[j] \in Task
           /\ \E a \in (Stage \cup Ended) \ {"insert"} :
                 /\ job' = [job EXCEPT ![j] = a]
                 /\ a = "delete" => job[j] = "delete permissions"
                 /\ a # "delete permissions"
                 /\ a \in {"owned", "update", "reread", "assertion failed"} =>
                       job[j] \in {"owned", "update", "reread"}
           /\ \A i : Taken(i)' => Taken(i) \/ (job[j] = "insert" /\ i = task[j].id)
           /\ KeyIdsUnique'
  <1>1. task' = task /\ nextId' = nextId /\ job[j] \in Stage /\ task[j] \in Task
    BY DEF JobStep, Insert, DeletePermissionsForKey, Delete, UpdateRead, Update,
       UpdateReread, JobFail, store, Stage, TypeOK, AdminTypeOK
  <1>2. \E a \in (Stage \cup Ended) \ {"insert"} :
           /\ job' = [job EXCEPT ![j] = a]
           /\ a = "delete" => job[j] = "delete permissions"
           /\ a # "delete permissions"
           /\ a \in {"owned", "update", "reread", "assertion failed"} =>
                 job[j] \in {"owned", "update", "reread"}
    BY DEF JobStep, Insert, DeletePermissionsForKey, Delete, UpdateRead, Update,
       UpdateReread, JobFail, Stage, Ended, Advance, Proceed
  <1>3. CASE Insert(j)
    <2>1. CASE task[j].op = "create key"
      <3> DEFINE k == [id |-> task[j].id, wallet |-> task[j].wallet]
      <3>1. keys' = keys \cup {k} /\ permissions' = permissions /\ job[j] = "insert"
        BY <1>3, <2>1 DEF Insert
      <3>2. k.id = task[j].id /\ ~Taken(task[j].id)
        BY <3>1 DEF Ids, StampsAreFresh
      <3> HIDE DEF k
      <3> QED
        BY <1>1, <1>2, <3>1, <3>2 DEF Ids, KeyIdsUnique, Taken
    <2>2. CASE task[j].op # "create key"
      <3> DEFINE p == PermissionOf(task[j])
      <3>1. permissions' = permissions \cup {p} /\ keys' = keys /\ job[j] = "insert"
        BY <1>3, <2>2 DEF Insert
      <3>2. p.id = task[j].id
        BY DEF PermissionOf
      <3> HIDE DEF p
      <3> QED
        BY <1>1, <1>2, <3>1, <3>2 DEF Ids, KeyIdsUnique, Taken
    <2> QED
      BY <2>1, <2>2
  <1>4. CASE Update(j)
    <2>1. keys' = keys /\ \A p \in permissions' : \E q \in permissions : p.id = q.id
      BY <1>4, UpdateTypes
    <2>2. \A i : Taken(i)' => Taken(i)
      BY <2>1 DEF Taken
    <2>3. KeyIdsUnique'
      BY <2>1 DEF Ids, KeyIdsUnique
    <2> QED
      BY <1>1, <1>2, <2>2, <2>3
  <1>5. CASE ~Insert(j) /\ ~Update(j)
    <2>1. keys' \subseteq keys /\ permissions' \subseteq permissions
      BY <1>5 DEF JobStep, DeletePermissionsForKey, Delete, UpdateRead, UpdateReread, JobFail, store
    <2> QED
      BY <1>1, <1>2, <2>1 DEF Ids, KeyIdsUnique, Taken
  <1> QED
    BY <1>3, <1>4, <1>5

LEMMA JobIds ==
    ASSUME NEW j \in Job, TypeOK, Ids, JobNext(j), UNCHANGED <<service, quick>>
    PROVE  Ids'
  <1>1. ChoicesFit' /\ RowsAreAccepted' /\ NothingGranted'
    BY DEF service, quick, Ids, ChoicesFit, Resolved, RowsAreAccepted, NothingGranted, Accepted,
       Upcoming, Place, Declared, LimitFor
  <1>2. \A s \in Setup : LastMade(s)' = LastMade(s) /\ setup'[s] = setup[s] /\ made'[s] = made[s]
    BY DEF quick, LastMade
  <1>3. job \in [Job -> {"idle"} \cup Stage \cup Ended] /\ DOMAIN task = Job
        /\ nextId \in Nat /\ \A r \in keys \cup permissions : r.id < nextId
    BY StoreAssumption DEF TypeOK, AdminTypeOK, StoreTypeOK
  <1>6. \A s \in Setup : made[s] \subseteq Nat
    BY DEF TypeOK, QuickTypeOK, Id
  <1>7. \A k \in Job : job[k] # "idle" => task[k] \in Task /\ task[k].id \in Nat
    <2>1. \A k \in Job : job[k] # "idle" => task[k] \in Task
      BY DEF TypeOK, AdminTypeOK
    <2>2. Id \subseteq Nat
      BY DEF Id
    <2> QED
      BY <2>1, <2>2, TaskIs
  <1>4. CASE Arrive(j)
    <2>1. PICK t \in Task, a \in Stage \cup Ended : Arrives(j, t, a)
      BY <1>4, ArriveStep
    <2>2. /\ KeyIdsUnique' /\ \A i : Taken(i)' <=> Taken(i)
          /\ nextId' = nextId \/ nextId' = nextId + 1
      BY <2>1 DEF Ids, KeyIdsUnique, Taken, Arrives
    <2>3. ~Taken(nextId) /\ \A s \in Setup : nextId \notin made[s]
      BY <1>3 DEF Taken, Ids, StampsAreFresh
    <2>4. \A k \in Job : job'[k] = "insert" =>
             \/ k # j /\ task'[k] = task[k] /\ job[k] = "insert"
             \/ k = j /\ task'[k].id = nextId /\ nextId' = nextId + 1
                /\ task'[k].op \in {"create key", "create permission"}
      BY <1>3, <2>1 DEF Arrives
    <2>5. StampsAreFresh'
      <3>1. \A k \in Job : job'[k] = "insert" => task'[k].id < nextId' /\ ~Taken(task[k].id)'
        <4> SUFFICES ASSUME NEW k \in Job, job'[k] = "insert"
                     PROVE  task'[k].id < nextId' /\ ~Taken(task[k].id)'
          OBVIOUS
        <4>1. CASE k = j
          <5>1. task'[k].id = nextId /\ nextId' = nextId + 1
            BY <2>4, <4>1
          <5>2. UNCHANGED <<keys, permissions>>
            BY <2>1 DEF Arrives
          <5>3. ~Taken(task[k].id)'
            BY <2>3, <5>1, <5>2 DEF Taken
          <5> QED
            BY <1>3, <5>1, <5>3
        <4>2. CASE k # j
          <5>1. task[k].id < nextId /\ ~Taken(task[k].id) /\ task'[k] = task[k]
            BY <2>4, <4>2 DEF Ids, StampsAreFresh
          <5>2. task[k].id \in Nat
            BY <1>7, <2>4, <4>2
          <5>3. UNCHANGED <<keys, permissions>>
            BY <2>1 DEF Arrives
          <5>4. ~Taken(task[k].id)'
            BY <5>1, <5>3 DEF Taken
          <5> QED
            BY <1>3, <2>2, <5>1, <5>2, <5>4
        <4> QED
          BY <4>1, <4>2
      <3>2. \A s \in Setup : \A i \in made'[s] : i < nextId'
        BY <1>2, <1>3, <2>2, <1>6 DEF Ids, StampsAreFresh
      <3>3. \A s \in Setup : setup'[s] = "inserting" => LastMade(s)' \in made'[s] /\ ~Taken(LastMade(s))'
        BY <1>2, <2>2 DEF Ids, StampsAreFresh
      <3> QED
        BY <3>1, <3>2, <3>3 DEF StampsAreFresh
    <2>6. StampsDiffer'
      <3>1. \A k, l \in Job : job'[k] = "insert" /\ job'[l] = "insert" /\ k # l => task'[k].id # task'[l].id
        <4>1. \A k \in Job : job[k] = "insert" => task[k].id # nextId
          BY <1>3 DEF Ids, StampsAreFresh
        <4> QED
          BY <2>4, <4>1 DEF Ids, StampsDiffer
      <3>2. \A k \in Job, s \in Setup : job'[k] = "insert" => task'[k].id \notin made'[s]
        BY <1>2, <2>3, <2>4 DEF Ids, StampsDiffer
      <3> QED
        BY <1>2, <3>1, <3>2 DEF Ids, StampsDiffer
    <2>7. StagesFit'
      BY <1>3, <2>1 DEF Ids, StagesFit, Arrives
    <2> QED
      BY <1>1, <2>2, <2>5, <2>6, <2>7 DEF Ids
  <1>5. CASE JobStep(j)
    <2>1. PICK a \in (Stage \cup Ended) \ {"insert"} :
              /\ job' = [job EXCEPT ![j] = a]
              /\ a = "delete" => job[j] = "delete permissions"
              /\ a # "delete permissions"
              /\ a \in {"owned", "update", "reread", "assertion failed"} =>
                    job[j] \in {"owned", "update", "reread"}
      BY <1>5, JobStepIs
    <2>2. /\ task' = task /\ nextId' = nextId /\ KeyIdsUnique'
          /\ \A i : Taken(i)' => Taken(i) \/ (job[j] = "insert" /\ i = task[j].id)
      BY <1>5, JobStepIs
    <2>3. \A k \in Job : job'[k] = "insert" => k # j /\ job[k] = "insert"
      BY <1>3, <2>1
    <2>4. job[j] = "insert" => \A s \in Setup : task[j].id \notin made[s]
      BY DEF Ids, StampsDiffer
    <2>5. StampsAreFresh'
      <3>1. \A k \in Job : job'[k] = "insert" => task'[k].id < nextId' /\ ~Taken(task[k].id)'
        BY <2>2, <2>3 DEF Ids, StampsAreFresh, StampsDiffer, Taken
      <3>2. \A s \in Setup : \A i \in made'[s] : i < nextId'
        BY <1>2, <2>2 DEF Ids, StampsAreFresh
      <3>3. \A s \in Setup : setup'[s] = "inserting" => LastMade(s)' \in made'[s] /\ ~Taken(LastMade(s))'
        BY <1>2, <2>2, <2>4 DEF Ids, StampsAreFresh
      <3> QED
        BY <3>1, <3>2, <3>3 DEF StampsAreFresh
    <2>6. StampsDiffer'
      BY <1>2, <1>3, <2>1, <2>2 DEF Ids, StampsDiffer
    <2>7. StagesFit'
      BY <1>3, <2>1, <2>2 DEF Ids, StagesFit
    <2> QED
      BY <1>1, <2>2, <2>5, <2>6, <2>7 DEF Ids
  <1> QED
    BY <1>4, <1>5 DEF JobNext

\* A step of a quick setup: it stamps a row, inserts the one it has stamped, or neither.
SetupStamps(s) ==
    /\ made' = [made EXCEPT ![s] = made[s] \cup {nextId}] /\ nextId' = nextId + 1 /\ nextId \in Id
    /\ setup' = [setup EXCEPT ![s] = "inserting"] /\ UNCHANGED <<keys, permissions, wanted, todo>>
    /\ setup[s] = "granting" /\ todo[s] # {} /\ Accepted(s, Upcoming(s))
    /\ OwnedKey(keys, wanted[s].wallet, wanted[s].key)

SetupInserts(s) ==
    /\ UNCHANGED <<keys, made, nextId, wanted>> /\ permissions' = permissions \cup {SetupRow(s)}
    /\ setup[s] = "inserting"
    /\ setup' = [setup EXCEPT ![s] = "granting"] \/ setup' = [setup EXCEPT ![s] = "failed"]

SetupGoesOn(s) ==
    /\ UNCHANGED <<keys, permissions, made, nextId>>
    /\ \E a \in (SetupStage \cup SetupEnded) \ {"inserting"} : setup' = [setup EXCEPT ![s] = a]

LEMMA SetupStepIs ==
    ASSUME NEW s \in Setup, TypeOK, SetupNext(s)
    PROVE  SetupStamps(s) \/ SetupInserts(s) \/ SetupGoesOn(s)
  <1>0. setup \in [Setup -> {"idle"} \cup SetupStage \cup SetupEnded] /\ DOMAIN made = Setup
        /\ nextId \in 1..(MaxId + 1)
    BY DEF TypeOK, QuickTypeOK, StoreTypeOK
  <1>1. CASE SetupStamp(s) /\ OwnedKey(keys, wanted[s].wallet, wanted[s].key)
    BY <1>0, <1>1, StoreAssumption DEF SetupStamp, SetupStamps, SetupAdvance, Stamp, Id
  <1>2. CASE SetupStamp(s) /\ ~OwnedKey(keys, wanted[s].wallet, wanted[s].key)
    BY <1>0, <1>2 DEF SetupStamp, SetupGoesOn, SetupAdvance, SetupStage, SetupEnded
  <1>3. CASE SetupInsert(s)
    BY <1>0, <1>3 DEF SetupInsert, SetupInserts, SetupAdvance
  <1>4. CASE ~SetupStamp(s) /\ ~SetupInsert(s)
    BY <1>0, <1>4 DEF SetupNext, SetupArrive, SetupRead, SetupRefuse, SetupDone, SetupFail,
       SetupGoesOn, SetupAdvance, SetupStage, SetupEnded, store
  <1> QED
    BY <1>1, <1>2, <1>3, <1>4

\* A quick setup keeps the others as they are, and the promises of its own loop.
LEMMA SetupLoop ==
    ASSUME NEW s \in Setup, TypeOK, Ids, SetupNext(s)
    PROVE  /\ \A t \in Setup : t # s => /\ setup'[t] = setup[t] /\ wanted'[t] = wanted[t]
                                        /\ todo'[t] = todo[t] /\ made'[t] = made[t]
           /\ RowsAreAccepted' /\ NothingGranted'
  <1>0. /\ setup \in [Setup -> {"idle"} \cup SetupStage \cup SetupEnded] /\ DOMAIN made = Setup
        /\ DOMAIN wanted = Setup /\ DOMAIN todo = Setup
    BY DEF TypeOK, QuickTypeOK
  <1>1. \A t \in Setup : t # s => /\ setup'[t] = setup[t] /\ wanted'[t] = wanted[t]
                                  /\ todo'[t] = todo[t] /\ made'[t] = made[t]
    BY <1>0 DEF SetupNext, SetupArrive, SetupRead, SetupStamp, SetupRefuse, SetupInsert, SetupDone,
       SetupFail, SetupAdvance
  <1>2. RowsAreAccepted'
    <2> SUFFICES ASSUME NEW t \in Setup, setup'[t] = "inserting"
                 PROVE  todo'[t] # {} /\ Accepted(t, Upcoming(t))'
      BY DEF RowsAreAccepted
    <2>1. CASE t # s
      BY <1>1, <2>1 DEF Ids, RowsAreAccepted, Accepted, Upcoming, Place, Declared, LimitFor
    <2>2. CASE t = s
      <3>1. SetupStamps(s)
        BY <1>0, <2>2, SetupStepIs DEF SetupInserts, SetupGoesOn
      <3> QED
        BY <2>2, <3>1 DEF SetupStamps, Accepted, Upcoming, Place, Declared, LimitFor
    <2> QED
      BY <2>1, <2>2
  <1>3. NothingGranted'
    <2> SUFFICES ASSUME NEW t \in Setup, setup'[t] \in {"idle", "reading", "not found"}
                 PROVE  todo'[t] = {} /\ made'[t] = {}
      BY DEF NothingGranted
    <2>1. CASE t # s
      BY <1>1, <2>1 DEF Ids, NothingGranted
    <2>2. CASE t = s
      BY <1>0, <2>2 DEF SetupNext, SetupArrive, SetupRead, SetupStamp, SetupRefuse, SetupInsert,
         SetupDone, SetupFail, SetupAdvance, SetupStage, Ids, NothingGranted
    <2> QED
      BY <2>1, <2>2
  <1> QED
    BY <1>1, <1>2, <1>3

LEMMA SetupIds ==
    ASSUME NEW s \in Setup, TypeOK, Ids, SetupNext(s), UNCHANGED <<service, admin>>
    PROVE  Ids'
  <1>1. keys' = keys /\ KeyIdsUnique' /\ StagesFit' /\ ChoicesFit'
    BY SetupStepIs DEF SetupStamps, SetupInserts, SetupGoesOn, service, admin, Ids, KeyIdsUnique,
       StagesFit, ChoicesFit, Resolved
  <1>2. RowsAreAccepted' /\ NothingGranted'
    BY SetupLoop
  <1>3. /\ nextId \in Nat /\ \A r \in keys \cup permissions : r.id < nextId
        /\ \A t \in Setup : made[t] \subseteq Nat
        /\ DOMAIN made = Setup /\ DOMAIN setup = Setup
    BY StoreAssumption DEF TypeOK, StoreTypeOK, QuickTypeOK, Id
  <1>4. UNCHANGED <<job, task>> /\ \A j \in Job : job[j] # "idle" => task[j].id \in Nat
    <2>1. \A j \in Job : job[j] # "idle" => task[j] \in Task
      BY DEF TypeOK, AdminTypeOK
    <2>2. Id \subseteq Nat
      BY DEF Id
    <2> QED
      BY <2>1, <2>2, TaskIs DEF admin
  <1>5. \A t \in Setup : t # s => /\ setup'[t] = setup[t] /\ made'[t] = made[t]
                                  /\ LastMade(t)' = LastMade(t)
    BY SetupLoop DEF LastMade
  <1>6. CASE SetupStamps(s)
    <2>1. ~Taken(nextId) /\ \A t \in Setup : nextId \notin made[t]
      BY <1>3 DEF Taken, Ids, StampsAreFresh
    <2>2. /\ made'[s] = made[s] \cup {nextId} /\ nextId' = nextId + 1
          /\ UNCHANGED <<keys, permissions>>
      BY <1>3, <1>6 DEF SetupStamps
    <2>3. LastMade(s)' = nextId
      <3>1. \A i \in made'[s] : i \in Nat /\ i <= nextId
        BY <1>3, <2>2 DEF Ids, StampsAreFresh
      <3>2. \A i \in made'[s] : (\A k \in made'[s] : k <= i) => i = nextId
        <4> SUFFICES ASSUME NEW i \in made'[s], \A k \in made'[s] : k <= i PROVE i = nextId
          OBVIOUS
        <4>1. nextId <= i
          BY <2>2
        <4> QED
          BY <1>3, <3>1, <4>1
      <3> QED
        BY <2>2, <3>1, <3>2 DEF LastMade
    <2>4. StampsAreFresh'
      <3>1. \A j \in Job : job'[j] = "insert" => task'[j].id < nextId' /\ ~Taken(task[j].id)'
        BY <1>3, <1>4, <2>2 DEF Ids, StampsAreFresh, Taken
      <3>2. \A t \in Setup : \A i \in made'[t] : i < nextId'
        BY <1>3, <1>5, <2>2 DEF Ids, StampsAreFresh
      <3>3. \A t \in Setup : setup'[t] = "inserting" => LastMade(t)' \in made'[t] /\ ~Taken(LastMade(t))'
        BY <1>5, <2>1, <2>2, <2>3 DEF Ids, StampsAreFresh, Taken
      <3> QED
        BY <3>1, <3>2, <3>3 DEF StampsAreFresh
    <2>5. StampsDiffer'
      <3>1. \A j \in Job : job[j] = "insert" => task[j].id # nextId
        BY <1>3 DEF Ids, StampsAreFresh
      <3> QED
        BY <1>4, <1>5, <2>1, <2>2, <3>1 DEF Ids, StampsDiffer
    <2> QED
      BY <1>1, <1>2, <2>4, <2>5 DEF Ids
  <1>7. CASE SetupInserts(s) \/ SetupGoesOn(s)
    <2>1. made' = made /\ nextId' = nextId /\ setup'[s] # "inserting"
      BY <1>3, <1>7 DEF SetupInserts, SetupGoesOn
    <2>2. \A i : Taken(i)' => Taken(i) \/ (setup[s] = "inserting" /\ i = LastMade(s))
      <3>1. CASE SetupGoesOn(s)
        BY <3>1 DEF SetupGoesOn, Taken
      <3>2. CASE SetupInserts(s)
        <4>1. permissions' = permissions \cup {SetupRow(s)} /\ setup[s] = "inserting"
          BY <3>2 DEF SetupInserts
        <4>2. SetupRow(s).id = LastMade(s)
          BY <4>1, SetupRowIs
        <4> QED
          BY <1>1, <4>1, <4>2 DEF Taken
      <3> QED
        BY <1>7, <3>1, <3>2
    <2>3. setup[s] = "inserting" => LastMade(s) \in made[s]
      BY DEF Ids, StampsAreFresh
    <2>4. StampsAreFresh'
      <3>1. \A j \in Job : job'[j] = "insert" => task'[j].id < nextId' /\ ~Taken(task[j].id)'
        BY <1>4, <2>1, <2>2, <2>3 DEF Ids, StampsAreFresh, StampsDiffer, Taken
      <3>2. \A t \in Setup : \A i \in made'[t] : i < nextId'
        BY <2>1 DEF Ids, StampsAreFresh
      <3>3. \A t \in Setup : setup'[t] = "inserting" => LastMade(t)' \in made'[t] /\ ~Taken(LastMade(t))'
        BY <1>5, <2>1, <2>2, <2>3 DEF Ids, StampsAreFresh, StampsDiffer, Taken
      <3> QED
        BY <3>1, <3>2, <3>3 DEF StampsAreFresh
    <2>5. StampsDiffer'
      BY <1>4, <1>5, <2>1 DEF Ids, StampsDiffer
    <2> QED
      BY <1>1, <1>2, <2>4, <2>5 DEF Ids
  <1> QED
    BY <1>6, <1>7, SetupStepIs

-----------------------------------------------------------------------------
LEMMA IdsFrame ==
    ASSUME Ids, UNCHANGED <<store, admin, quick>>, ChoicesFit'
    PROVE  Ids'
  <1>1. KeyIdsUnique' /\ StagesFit' /\ NothingGranted'
    BY DEF Ids, KeyIdsUnique, StagesFit, NothingGranted, store, admin, quick
  <1>2. \A s \in Setup : LastMade(s)' = LastMade(s)
    BY DEF LastMade, quick
  <1>3. StampsAreFresh'
    <2>1. \A j \in Job : Taken(task[j].id)' <=> Taken(task[j].id)
      BY DEF Taken, store, admin
    <2>2. \A s \in Setup : Taken(LastMade(s))' <=> Taken(LastMade(s))
      BY <1>2 DEF Taken, store
    <2> QED
      BY <1>2, <2>1, <2>2 DEF Ids, StampsAreFresh, store, admin, quick
  <1>4. StampsDiffer'
    BY DEF Ids, StampsDiffer, admin, quick
  <1>5. RowsAreAccepted'
    BY DEF Ids, RowsAreAccepted, Accepted, Upcoming, Place, Declared, LimitFor, quick
  <1> QED
    BY <1>1, <1>3, <1>4, <1>5 DEF Ids

LEMMA StepTypes == TypeOK /\ Ids /\ [Next]_vars => TypeOK' /\ Ids'
  <1> SUFFICES ASSUME TypeOK, Ids, [Next]_vars PROVE TypeOK' /\ Ids'
    OBVIOUS
  <1>1. ASSUME NEW c \in Call, CallNext(c), UNCHANGED <<admin, quick>> PROVE TypeOK' /\ Ids'
    <2>1. ServiceTypeOK' /\ UNCHANGED store
      BY <1>1, CallTypes DEF Ids
    <2>2. StoreTypeOK' /\ AdminTypeOK' /\ QuickTypeOK'
      BY <1>1, <2>1 DEF TypeOK, StoreTypeOK, AdminTypeOK, QuickTypeOK, store, admin, quick, Declared
    <2>3. ChoicesFit'
      BY <1>1, StepChoices DEF Ids
    <2>4. Ids'
      BY <1>1, <2>1, <2>3, IdsFrame
    <2> QED
      BY <2>1, <2>2, <2>4 DEF TypeOK
  <1>2. ASSUME NEW j \in Job, JobNext(j), UNCHANGED <<service, quick>> PROVE TypeOK' /\ Ids'
    <2>1. ServiceTypeOK' /\ QuickTypeOK'
      BY <1>2 DEF TypeOK, ServiceTypeOK, QuickTypeOK, service, quick, Declared
    <2> QED
      BY <1>2, <2>1, JobTypes, JobIds DEF TypeOK
  <1>3. ASSUME NEW s \in Setup, SetupNext(s), UNCHANGED <<service, admin>> PROVE TypeOK' /\ Ids'
    <2>1. ServiceTypeOK' /\ AdminTypeOK'
      BY <1>3 DEF TypeOK, ServiceTypeOK, AdminTypeOK, service, admin
    <2> QED
      BY <1>3, <2>1, SetupTypes, SetupIds DEF TypeOK
  <1>4. CASE UNCHANGED vars
    <2>1. UNCHANGED <<store, service, admin, quick>>
      BY <1>4 DEF vars
    <2>2. TypeOK'
      BY <2>1 DEF TypeOK, StoreTypeOK, ServiceTypeOK, AdminTypeOK, QuickTypeOK, store, service,
         admin, quick, Declared
    <2>3. Ids'
      <3>1. ChoicesFit'
        BY <2>1 DEF Ids, ChoicesFit, Resolved, service
      <3> QED
        BY <2>1, <3>1, IdsFrame
    <2> QED
      BY <2>2, <2>3
  <1> QED
    BY <1>1, <1>2, <1>3, <1>4 DEF Next

(***************************************************************************)
(* The tables, the requests on them and what each has read are typed, an   *)
(* id is of one permission, and no id is stamped twice, whoever inserts,   *)
(* removes and stops in which order (crud.py, views_api.py, services.py).  *)
(***************************************************************************)
THEOREM TypeCorrect == Spec => []TypeOK
  <1>1. Spec => [](TypeOK /\ Ids)
    BY TypesStart, StepTypes, PTL DEF Spec
  <1> QED
    BY <1>1, PTL

=============================================================================
