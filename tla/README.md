# Nsec Oracle: specification and proofs

TLA+ modules for the LNbits extension in `src/`: what it does with keys,
permissions and the signing log when requests, failures and the cleanup task
interleave. TLC checks the modules on small instances; TLAPS proves the safety
properties of most of them for every instance. `PROJECT.json` ties every definition to the lines it
models, and lists the runs, the seeded faults, the hazards and the findings.

## 1. The system

Nsec Oracle keeps Nostr private keys for LNbits wallets. Other extensions and API
clients ask it to sign events, or to encrypt and decrypt messages. It is an
asyncio program: a request runs until it awaits the database, and other requests
run meanwhile. There is no transaction around a request. The one exception is
`create_rate_limited_signing_log`, and the one background process is the hourly
prune of the log.

| Component | State | Operations | What is hard | What makes it correct |
|---|---|---|---|---|
| Rate-limited signing log (`crud.py`) | `signing_log`; the row locks and stamps of transactions under way | reserve a slot; log an unlimited signing; prune | two calls for the last slot; the stamp is taken before the lock is awaited; cutoffs in whole seconds; a lost commit answer; a prune in the middle | the reservation is atomic; no window holds more than its count; every call is answered |
| Cleanup task (`tasks.py`, `__init__.py`) | whether it runs, the cutoff of the prune under way | start, stop, wake, delete, survive an error | errors; a stop in the middle; the retention against the longest window | expired rows go, no row still counted goes |
| Table store (`crud.py`, `migrations.py`) | `keys`, `permissions` | one statement at a time | what a request read is stale when it writes | ids name rows for ever, rows keep their wallet |
| Signing service (`services.py`) | the locals of each call | `sign_event`; NIP-04/NIP-44; export | permissions and keys are read in two awaits; key and permission may go before the signing is logged | every signature is permitted and logged; wallets are isolated |
| Administration (`views_api.py`) | the stage of each request | create, update, delete of keys and permissions | check, then write by id; the cascade is two statements | only owners write; no permission without its key |
| Validators (`models.py`, `helpers.py`) | none | coerce kinds, check limit pairs, parse keys | raw values against coerced ones; calls in Python that go through no model | what is signed is what was granted; a limit never turns into none |
| Discovery and quick setup (`discovery.py`, `views_api.py`) | grants read once | create the missing permissions one by one | partial failure, overlap, the key deleted meanwhile | a setup that answers has granted everything; a repeat grants nothing twice |
| Adoption of the legacy schema (`migrations.py`) | two schemas | move three tables, drop the rest | a crash between statements, the probe after it | no table is lost; what is recorded is whole |
| Web client (`static/js/index.js`) | selected wallet, lists, requests in flight | requests and their callbacks | answers out of order, the selection changed under them, errors | a list that shows its last answer is right |
| Log listing, public-key reads | none | join, page, total | the page and its total come from two statements; rows come and go between pages | paging skips nothing |
| HTML routes (`views.py`) | none | render a template | | |

They interact in four ways. The routes call the service and the CRUD functions
directly. Every request shares the three tables. The cleanup task shares
`signing_log` with the reservations. The page calls the routes, and learns of a
change only when it asks again.

## 2. Modules

| Module | What it is |
|---|---|
| `SlotReservation` | the promise of the signing log: a reservation as one atomic step |
| `RateLimitedLog` | the algorithm: locks, three statements, clock, prune, errors, the cleanup task; refines `SlotReservation` |
| `OracleStore` | the tables `keys` and `permissions`, and the resolution of a request against them |
| `SigningService` | `sign_event` and the other uses of a key, one step per await |
| `AdminApi` | the routes that write keys and permissions, one step per await |
| `QuickSetup` | discovery and the route that grants what an extension declares, one step per await |
| `NsecOracle` | service, administration and quick setup interleaved on the shared tables; their joint properties |
| `LegacyAdoption` | the migration, statement by statement, with crashes and restarts |
| `Intake` | a value from the request through the models to the row and to its use |
| `WebClient` | the page, its requests in flight, and the routes that read |
| `SlotReservation_proofs`, `RateLimitedLog_proofs`, `LegacyAdoption_proofs`, `Intake_proofs`, `WebClient_proofs` | theorems about the module of the name |
| `NsecOracle_proofs` | type correctness of the whole: ids are stamped once, stages fit |
| `Tenancy_proofs` | whose the rows are: isolation, ownership of writes |
| `Requests_proofs` | the requests among each other: the log, cascade, asserts, quick setups, resolution |
| `MCSlotReservation`, `MCRateLimitedLog`, `MCNsecOracle`, `MCIntake`, `MCWebClient` | instances for TLC |

`NsecOracle` EXTENDS `SigningService`, `AdminApi` and `QuickSetup`, which EXTEND
`OracleStore`, as `WebClient` does. `RateLimitedLog` INSTANCEs `SlotReservation`
with a refinement mapping. The service takes the reservation as one step: theorem
`Atomicity` is the licence.

### The signing log

`RateLimitedLog` has one action per statement of
`create_rate_limited_signing_log`:

| Code | Action |
|---|---|
| build the `SigningLog` row, take `cutoff_ts` (crud.py:223-231) | `Begin` |
| connect, begin, `UPDATE ... SET id = id` (233-242) | `AcquireLock`; `RowGone` if no row matches (243-244); `GiveUp` if it raises |
| `SELECT COUNT(*)` (246-266) | `CountBelowLimit`, `LimitReached` |
| `INSERT`, commit (268-280) | `Commit`, with or without its answer |
| an exception in the transaction | `Rollback` |
| `create_signing_log` (187-199) | `Begin`, `InsertUnlimited` |
| `delete_permission`, `delete_permissions_for_key` | `Revoke` |
| `cleanup_old_signing_logs` (tasks.py:11-20) | `SweepWake`, `SweepDelete`, `SweepFail` |
| `nsec_oracle_start`, `nsec_oracle_stop` (`__init__.py`) | `CleanupStart`, `CleanupStop` |

Time is a counter of ticks, `Second` ticks to the second: stamps are readings of
it, cutoffs are cut to whole seconds (`Floor`, the `int()` of the code). `Tick`
is held back while a call has been under way for `MaxLatency`: a bound on the
longest call, which the retention has to allow for. `LockOf` is what the no-op
UPDATE excludes. It is a constant because the code leaves it to the database: a
row on PostgreSQL or CockroachDB, the whole database on SQLite or where one
connection at a time is handed out. `signed` is a history variable, the rows ever
committed, so that a property can speak of rows that have been pruned.

### The service and the administration

A call's or a request's variables (`call`, `asked`, `seen`, `chosen`; `job`,
`task`) are the locals of the coroutine. `SignRead` is services.py:66,
`SignResolve` 68-117, `SignDecrypt` 120-134, `SignReserve`, `SignRefuse` and
`SignUnlimited` 137-158. `UseKeyRead` and `UseKeyDecrypt` are 176-244 and the
export of a key. In `AdminApi`, `RequireOwned` is the ownership check, followed by
`DeletePermissionsForKey` and `Delete` (views_api.py:113-120), or by `UpdateRead`,
`Update`, `UpdateReread` (crud.py:71-81, 148-167). Creation stamps its row
(`CreateKey`, `CreatePermission`) before it inserts it (`Insert`).

`CallFail` and `JobFail` end a request between any two of its steps: an exception,
a cancelled connection or the end of the process. `Proceed` and `LogAndReturn`
allow a write to take effect while its answer is lost.

The extension and the kind always go together, so a pair is one value of `Use`.
A row's id is also its `created_at`: the order in which rows are stamped. `current`
is a history variable: for each call, what the resolution would have given at each
moment since the call began to read. `stray` is another: the ids of the permissions that
were inserted when their key was `Doomed`, gone or with a deletion of it past its first
statement.

### Quick setup

| Code | Action |
|---|---|
| ownership check (views_api.py:269) | `SetupArrive` |
| discovery in a thread, `get_permissions`, `granted_set` (271-288) | `SetupRead` |
| `CreatePermissionData` refuses (296-302) | `SetupRefuse` |
| `create_permission`: key, stamp (crud.py:98-114) | `SetupStamp` |
| its INSERT (crud.py:115), with or without an answer | `SetupInsert` |
| the loop ends; an exception or the end of the process | `SetupDone`; `SetupFail` |

`Config` is what the `config.json` of each extension declares, the same throughout;
`Discovered` is what discovery.py:29-74 makes of it (one entry that is no
`SigningRequirement` drops the whole extension). `todo` is the set of places in that
list which the loop has still to grant; it takes them in order (`Place`). `held` is a history variable: the
uses the key of a setup has had since the request came.

### Adoption

`plan` holds the statements of the branch the probe has chosen, `Execute` runs the
first. `ALTER TABLE IF EXISTS` and `DROP ... IF EXISTS` of what is not there do
nothing; `Conflicts` are the statements the server refuses. `Init` ranges over all
sets of legacy tables, with and without schemas in the database. Each statement
commits by itself: crud.py:233-234 relies on the same of its connection.

### Intake

Numbers are counted in halves, so that there are fractions, and carry the type JSON
gave them. `CoerceKind` is `_coerce_kind`, `PairAccepted` is
`_validate_rate_limit_pair` over the raw values, `Field` the conversion of pydantic
that follows it, `ParsedHex` is `parse_nostr_private_key` on a text of digits,
whitespace and other characters. `FromHex` says of `bytes.fromhex` what it accepts (the
digits stand in pairs, whitespace only between two pairs), not how it goes through the
text. `SignOverHttp` goes through `SignEventData`,
`SignInPython` through nothing, and both meet `InvalidLimit`, the check of
services.py:108-117 on the row. `OldRow` is a constant, the rows from before the models
checked anything: a `LegacyRow` keeps the types of its columns (migrations.py:31-44) and
nothing else, so that its window may be longer than the cap, as that of an adopted row may.

### The page

`pending` is a bag of requests, each with the wallet that was selected when it was
sent. A request for a list outdates the earlier ones for it: they stay under way, but
are no longer the `last`. `ServeRead` and `ServeChange` are the server, `Show` and `Changed` the
callbacks (`Changed` asks again, with the wallet selected by then), `Fail` an error,
before the change, after it, or after the first of its two statements. The handlers that
read take a step per table, those that write a step per statement, with its checks
(`NsecOracle` puts the checks apart): `delete key` deletes the permissions, then the key.
The one extension on offer declares one use, so a quick setup writes once; several are
`QuickSetup`'s. Four history variables: `latest` (lists that show the answer to the last
request for them), `missed` (lists a change may have passed by), `deletions`, and
`walk` (the pages of the selected wallet's log shown one after the other from the first
on; `Select` ends a walk, though the page number stays).

## 3. Runs

| Run | Config | Checks | Distinct states |
|---|---|---|---|
| `slot_reservation` | `MCSlotReservation.cfg` | the promise bounds every sliding window | 1.6 M |
| `log_prune` | `LogPrune.cfg` | the inductive invariant, the refinement, the prune | 2.4 M |
| `log_live` | `LogLive.cfg` | every call is answered, every expired row is pruned | 0.6 M |
| `oracle` | `Oracle.cfg` | isolation, authorization, cascade, stale checks, the default key | 5.8 M |
| `quick_setup` | `OracleQuickSetup.cfg` | two setups and a deletion: complete, and not repeated | 4.0 M |
| `adoption` | `LegacyAdoption.cfg` | nothing lost, recorded means whole | 2 264 |
| `intake` | `Intake.cfg` | kinds and limits from request to use | 57 124 |
| `web_client` | `WebClient.cfg` | the lists come right, clicks stay in their wallet, paging skips nothing | 7.8 M |
| `log_duplicate_rows` | `LogDuplicateRows.cfg` | violated: `SlidingWindow` | |
| `oracle_orphan` | `OracleOrphan.cfg` | violated: `DeleteKeyRemovesPermissions` | |
| `adoption_stuck` | `AdoptionStuck.cfg` | violated: `KeysAndGrantsCarryOver` | |
| `key_import` | `KeyImport.cfg` | violated: `StoredKeysAreWhole` | |

**Properties of the log.** `SlidingWindow` takes every limit and every interval
that long, wherever it starts: if each reservation in it was made under a limit at
least as strict, there are at most `count`. It is stated over the rows ever
committed, under edits of the limit and over several permission rows of one
subject. `CountStaysValid` says that a call that has counted may insert whatever
happened since. `LocksHeldInside`: no way out of the transaction leaves a lock
behind. `AtomicReservation` is the refinement. A refusal is justified too: the
row is gone, or a window widened by less than a second is full, for the cut
second can only count rows too many. `PruneSparesWindows`: a pruned row is outside
every window still to be counted. `EveryCallAnswered` and `ExpiredRowsPruned` are
the liveness properties.

**Properties of the whole.** `WalletsIsolated`, `OnlyOwnersWrite` (the check is
over when the write comes; it holds because ids are never reused and rows never
change their wallet), `SignaturesAreAuthorized` (permission, usable limit and
exactly one row in the log), `NamedKeyResolvedAtOneMoment` (a request that names
its key gets a permission as if it had read both tables at one moment),
`NoOrphans` (a deletion of a key interrupted anywhere leaves no permission without
its key, those excepted that were inserted behind it, the finding below),
`LimitedSigningNeedsKey` (a limited signing is not recorded for a key that is gone: the
reservation looks for the permission, and the permission goes before the key). The one
exception is again a permission inserted behind the deletion: a call may resolve to it
and decrypt before the key goes, and reserve its slot after. `AssertionsFailOnlyUnderDelete`: the two `assert updated is not None` fail only
where another request of the wallet has deleted that row or its key.
`DefaultKeyIsNewest`: the key a request without `key_id` gets was the newest permitted
one at some moment of its resolution, unless one other request has removed rows and
another has removed some too or granted a permission.
`QuickSetupGrantsAll`: a setup that has answered has seen its key hold every declared
use, also where it completes what an earlier one left. `QuickSetupsDoNotRepeat`: only
setups that overlap grant a use twice.

**Properties of the other parts.** `NothingLost`: whatever crashes, each legacy table
with data is in exactly one schema, with its rows. `RecordedMeansReady`: no new, empty
permissions beside adopted keys. `UninterruptedCompletes`: without a crash the
migration is recorded. `SignedAsGranted`: the number an event has as its kind is the
one the administrator gave, over HTTP and in Python; of a row from before the models,
the one in its column. `LimitsNeverVanish`: neither a fraction that becomes zero nor half
a limit signs without limit, and a limited signing is under a positive pair. Its window is
within the cap if a request of this version has made or edited the row; sign_event does
not check that, so an old row with a longer window signs under that. `PageIsRight`: once a
list shows the answer to the last request for it and no change waits for its answer,
it is the list of the selected wallet, whatever overtook what before. The list of
discovery is right only if no key has come or gone since: the page does not ask for
it again after `generateKey`, `importKey` and `deleteKey`. A change that was made, or
half made, and whose answer was an error leaves the lists stale until they are asked for
again (`missed`). `ChangesStayInWallet`: an older answer that overtakes a later one puts
another wallet's rows on the page, and a click on one sends its id with the selected
wallet; the server then changes no row of a wallet the request was not sent with.
`WalkSkipsNothing`: who
turns the pages of a wallet's log to the last has seen every row that was there at the
start and still is; it rests on reading the page before the total, and on no key being
deleted meanwhile, whose rows the join hides. A walk is through the log of one wallet:
`logPagination.page` outlives a change of `selectedWallet`, so that page 2 of one log
may follow page 1 of another, and then rows of both go unseen.

**Bounds.** Log: two calls and two permission rows of one subject give every race
over a slot; a third call would meet the same lock. The limits 1 per 2 ticks and 2
per 4 give windows of different length and strictness. `Second = 2` makes `Floor`
differ from the identity, `Retention = 6 = 4 + MaxLatency` is the tightest
retention the hypothesis allows, and `MaxClock = 9` lets a row be stamped, expire
and be pruned while a later call is under way. `MaxClock` is the one artificial
bound, in `Tick`. Reservation: three calls, so that a window of two can be
overrun. Whole: two wallets, one call and two concurrent requests of
any of six operations. One wallet has three keys, of which the middle one has no
permission yet: that is the least in which one removal and one grant mislead a request
without `key_id`. That is what a race between a check, a write and a signing
takes. `MaxId` lets two rows be created.
Quick setup: two setups, a removal and no call; three extensions, one of which
declares a use the model refuses and one an entry that cannot be read; `MaxId` lets
four rows be stamped. Adoption: every subset of the legacy tables and three crashes;
the plan has at most five statements and a restart forgets all but the tables.
Intake: kinds to 2, windows to 2 seconds and keys of three bytes, numbers from -1 to
3 by halves, just past every bound, old rows with a kind, a window and a half limit
that no model would accept, and all texts of six characters. Page: two
wallets, pages of one row, five requests under way when more are sent, and a `Budget`
that lets the user administer and turn a page (two clicks and a turn, enough for a walk
that is interrupted by another wallet), read a busy log, or do some of both. The third initial permission has an invalid limit,
as rows of earlier versions may. Symmetry is used for calls, permission rows under
one lock, and jobs, in runs without liveness only.

`CHECK_DEADLOCK FALSE` appears where every call and request is made at most once:
such an instance stops when all are over.

**Fairness** (`log_live`). For each call, weak fairness of the steps by which it
gets on: a free lock is granted and a statement is answered, by success or by
failure. Nothing is assumed of timeouts, and errors may happen at any time. For
the task: `asyncio.sleep` returns, a DELETE that was sent ends, and it does not
fail every time for ever (strong fairness of `SweepDelete`); the last is an
assumption on the database, and without it the property says nothing about a
database that is down. `ExpiredRowsPruned` asks that the cleanup task
runs from some moment on: the loop sleeps before it prunes, so a server that is
restarted within every hour never prunes. For the adoption (`FairSpec`): LNbits is
started again, and a statement that was sent is answered or refused.

## 4. Findings

1. **Duplicate permission rows** (`log_duplicate_rows`). `create_permission` admits
   several rows of one key, extension and kind. The count is over that triple, the
   lock is on one row. A call that holds the older row and one that holds the newer
   lock apart, both count a free slot and both insert. This takes a database
   whose only exclusion is the row lock, reached over several connections. With
   one lock for the database (`log_prune`) the property holds.
2. **Orphans** (`oracle_orphan`). A permission inserted between the two statements
   of `api_delete_key`, or after both, stays behind although README.md:38 says
   "Delete key and its permissions".
3. **Adoption that stops for good** (`adoption_stuck`). migrations.py:8-12 says that
   keys and grants "carry over untouched". The probe looks for `nsecbunker.keys`,
   which is moved first: after a crash behind that statement every later start takes
   the branch of a fresh install and raises, since `nsec_oracle.keys` is there. A
   fresh install that is interrupted raises for ever too.
4. **Keys shorter than their text** (`key_import`). helpers.py:8-11 says that
   malformed input is rejected; the length is checked on the text, and `bytes.fromhex`
   skips whitespace between pairs of digits.

Met while modelling, and stated by no violated run:

- models.py:6-8 says that windows are capped below the retention, since a longer one
  would be silently loosened as rows age out. The validator admits equality
  (models.py:65). A call takes its cutoff and waits; the prune, whose cutoff is later by
  that wait, removes a row of its window; the call counts too few and signs. With a limit of
  one in three ticks, `Retention = 3`, `MaxLatency = 2` and `Second = 1` TLC finds
  `SlidingWindow` violated; theorem `WindowsHold` asks for the difference. Rows from before
  the validators, adopted ones included, may hold any longer window: services.py:111-115
  asks for positive values only (`Intake`).
- README.md:3 speaks of encryption and decryption "through per-key, per-kind
  permissions with rate limits and an audit log"; the NIP-04/NIP-44 functions check
  the wallet of the key only (`UseKeyRead`).
- README.md:182 says that the cleanup task runs hourly. It sleeps the hour after each
  start and prunes then, so an LNbits that never stays up for an hour never prunes. Without
  the premise of `ExpiredRowsPruned`, TLC finds it violated by starts and stops in turn,
  also under weak fairness of `CleanupStart`.
- `assert updated is not None` (crud.py:80, 166) fails when the row is deleted during
  the update, and the answer is status 500.
- "Defaults to the newest permitted key" (services.py:56): permissions and keys are
  read apart, and two changes between the two leave a call with a key that was the
  newest permitted one at no moment. An older key loses its permission, or a key between
  the two is granted one, and then the newest key is deleted: the call gets the older one.
  So two removals do it, and so does one removal with one grant. The second came out of
  the attempt to prove `NewestKey`, and of a run with one key more.
- README.md:132, "Grant all required permissions for an extension in one call": a
  declared kind or limit that `CreatePermissionData` refuses stops every setup of the
  extension at that entry, with status 500; entries with `required: false` are granted
  like the others; a use declared twice is granted twice.
- `SigningRequirement.kind` is an `int` of pydantic: a declared 1.9 becomes 1, which
  `_coerce_kind` is there to prevent elsewhere. In Python, `sign_event` compares kinds
  with `==`, for which True is 1.
- A legacy schema that never had all its tables is recorded as adopted without them.
- The dialog for a permission sends `rate_limit_count || null` (index.js:394-395): a
  limit of 0 per 0 seconds becomes no limit.
- A reservation whose permission was revoked meanwhile is answered "Rate limit
  exceeded" (services.py:147-150). `SlotReservation!MayRefuse` has that case.

## 5. Proofs

`tlapm` checks the eight proof modules to the last leaf. The assumptions are the named
`ASSUME`s of the modules: subjects and locks are functions of the permission row,
a limit has a positive count and length, times are integers. Two more are
hypotheses of the theorems that need them, because they are facts about a
deployment; finding 1 and the first point met while modelling show what happens
without them:

- `LocksCoverSubjects`: rows of one subject are never locked apart.
- `WindowsWithinRetention`: a window and the longest call fit the retention.

**`SlotReservation`.** `TypeCorrect`, and `WindowsHold` (`Spec => []SlidingWindow`).
Only `Record` can disturb the property (`StepKeepsWindow`). `RecordKeepsWindow`
takes an interval that gained the new row. The row's own window is at least as long
as the interval, and the row's stamp is not after the interval's end, so what the
call counted reaches back at least to the interval's start. The count has no upper
end, so rows stamped later than the call's own are in it too: the call counted every
row of the interval, and found fewer than its own count, which is at most the
interval's.

**`RateLimitedLog`.** The inductive invariant is `IInv`, checked by `log_prune`
before it was proved:

- `TypeOK`, and `signed` is finite, so that cardinalities mean something;
- `LocksHeldInside` and `LockedRowsExist`: the transaction owns its lock, and the
  row it has locked cannot be deleted under it;
- `CallsArePrompt`: a stamp is at most `MaxLatency` old while its call is under way;
- `OnlyOldRowsPruned`: what is not in the table any more is older than the retention;
- `CountStaysValid`.

`CountStaysValid` is not inductive alone. Another call could insert (excluded by
the lock, since equal subjects have equal locks), and the COUNT could miss rows
that were pruned (excluded because a pruned row is older than the retention, hence
than the window of a call no older than `MaxLatency`: `CountSeesWindow`).
`StepTypeOK`, `StepFinite`, `StepLocks`, `StepTime` and `StepCount` prove one part
each, action by action. Theorems: `TypeCorrect` and `LocksAreReleased` with no
hypothesis; `Invariance`, `CountsStayValid`, `PrunesSpareWindows` under both.

`Atomicity` (`Spec => AtomicReservation`): `InitRefines`, and `StepRefines` takes
each step of the algorithm to a step of the promise or a stutter. `Begin` is `Ask`,
`Commit` and `InsertUnlimited` are `Record` (`CountStaysValid` is its guard),
`RowGone` and `LimitReached` are `Refuse` (`RefusalIsJustified`, from the bounds on
`Floor`), `Rollback` and `GiveUp` are `Fail`. `WindowsHold` follows from the theorem
of `SlotReservation`.

**`LegacyAdoption`.** `TypeCorrect`, `Conserved` (`Spec => []NothingLost`) and `Ready`
(`Spec => []RecordedMeansReady`), for every value of `MaxCrashes`. `NothingLost` is not
inductive: `DROP SCHEMA ... CASCADE` takes whatever is still in the legacy schema.
`MovedFirst` is what it needs: before a "drop schema" of the plan there is a move of
every table with data that has not moved yet. `Start` establishes it by its choice of
branch (`AdoptionDropsLast`, `CreationDropsNothing`), and `Execute` keeps it: a move
that leaves the head of the plan has moved its table (`ExecuteMovesFirst`).

`Ready` needs to know the past of a run that ends. `OnCourse` says it: what is left of
the plan is an end of one branch (`EndOf`, `EndShortens`), so its length tells what has
been moved or created; and what crashed runs have left is known from where the keys are
(`KeysGoFirst`). While they are in the legacy schema nothing has been touched and the
next run adopts from the start. Once they have gone, the next run creates, meets their
name at once and is never recorded: the fact behind finding 3 is what keeps a half-done
adoption from being recorded.

**`NsecOracle`.** Every safety property of runs `oracle` and `quick_setup` is a theorem,
for all sets of wallets, calls, requests, setups and extensions, all tables at the start
and all `Config`. The assumptions say what the code ensures of them: the rows of the
start are rows, with unique ids (`PRIMARY KEY`, migrations.py:22, 34) below `FirstId`,
and each permission is of a key of its wallet. TLC found each invariant below to
hold on instances like those of the two runs (`Ids`, `Tenants` and `RowTenants`, which
are costly to evaluate, on one key and one permission per wallet).

*Ids* (`NsecOracle_proofs`). Type correctness alone is not inductive: that an insert
leaves a row of its type takes `StagesFit` (which operations a stage belongs to) and
`RowsAreAccepted` (a setup inserts what the model has accepted), `ChoicesFit` (a call
goes by one of the rows it has read, one that fits its request). The rest of `Ids` says
that an id is stamped once: no row, stage or setup has one that is not below `nextId`,
and no two of those that are yet to insert have the same. `Arrives`,
`SetupStamps`, `SetupInserts` and `SetupGoesOn` are the forms in which a step changes
these, so that each part has one argument per form.

*Tenants* (`Tenancy_proofs`). The hazard is the check that is over when the write comes.
`Claimed(k, w)` gathers everything that goes by the key id k for the wallet w: its row,
the request that creates it, and each permission, call, request and setup that has found
k to be of w at some time. The invariant is that an id is claimed by one wallet, also
after its key has gone. A step adds a claim only where it finds the row
(`CallReferences`) or stamps a fresh id, which nobody can have claimed. `RowClaimed`
and `RowKey` say the same of the id of a permission, and of the key it is of. Together
they are `Tenancy`. `Isolation` follows at once. `OwnersWrite` follows because the row an
id finds is claimed by its wallet and by that of the request. Where ids could be reused,
as with an `INTEGER PRIMARY KEY` in SQLite, neither would hold.

*Requests* (`Requests_proofs`), each from `Tenancy` and what it names:

- `Authorized`: a call has left no row in the log before it returns (`LogsFit`), and its
  permission is one it has read (`ChosenIs`).
- `NoneOrphaned` and `LimitedNeedsKey`: a permission whose key is `Doomed` is `stray`
  (`Cascade`). A deletion removes them all before it goes on to its key, so what is there
  later was inserted later. `LimitedNeedsKey`: a permission that is there and not stray has
  its key, and by `RowKey` the key in the row is the one the call has read.
- `AssertionsFail`: an update goes on over a row that is there or that a request of its
  wallet is deleting (`UpdatesFit`), and once undercut it stays so (`UndercutStays`).
- `NothingTwice`: what a setup has still to grant is nothing an earlier one has granted
  to its key (`Repeats`). The earlier one is over, so it stamps nothing more.
- `GrantsAll`: past its reading of the grants, each declared use has been held by the
  key or is still to be granted (`Grants`); the loop ends when nothing is.
- `NamedAtOneMoment`: where the key of a call is still there, the answer from the
  permissions it has read has been right since it read them (`NamedFit`); once the key
  has gone, the answer is that of the moment.
- `NewestKey`: a request that nothing misleads has met granters only, or a single
  remover. Granters take nothing away, so the best key of the rows read was the best when
  they were read. A single remover takes one permission, or the permissions of one key
  and then the key: the best key of the rows read was the best before, and the best
  without that key was the best once its permissions had gone (`DefaultFit`). Where they
  had gone before the request read, the deletion of the key itself changes no offer
  (`Emptied`).

**`Intake`.** All three properties, for every `MaxKind`, `MaxSeconds`, `KeyBytes`, set
of numbers, set of texts and set of old rows; `IntakeAssumption` asks that the bounds are
positive, that None is no number, and that the old rows have the types of their columns.
`AsGranted` is the invariant. Of a row: it was made by a request and its kind is the
number asked for, or it is of an earlier version and nothing is known but its types
(`RowTyped`). Of its columns: they are what became of the last accepted pair
(`LimitFits`), or no request has set them. `KindsKept` follows by `SignedKind`, for both
ways to match a kind. `LimitsKept` follows because the conversion gives None only for none
(`AcceptedIs`), because a fraction that it makes zero, which the validator lets through,
is one that `InvalidLimit` refuses, and because `InvalidLimit` refuses half a limit of an
old row. `TypeCorrect` needs the length of a parsed key (`ParsedIs`): at most half the
digits of its text. The same lemma gives `UnspacedKeysAreWhole`: finding 4 has no other
cause than whitespace inside the text.

**`WebClient`.** All four properties, for any number of wallets, rows and requests under
way, every page size and every budget. The assumptions are on the start: ids are below
`FirstId`, no two keys and no two permissions have one, a permission is of a key of its
wallet if the key is still there (`StartAssumption`), and the rows of the log have distinct
stamps and keys made before. TLC checked the invariants on the instance of the run first.

- `TypeCorrect` rests on `Types`. `LastOnce`: the last request for a list is in the bag
  once, and is one of the selected wallet, which `SendIs` shows of the one operator that
  puts requests in. A page fits because its rows have as many places as rows: no two rows
  of distinct stamps have equally many newer ones (`PageFits`). That at most `MaxPending`
  requests are under way when a click adds more is a guard, and the library counts a
  bag by recursion, so no bound on the count is stated.
- `ListsComeRight`: `Right` says of each list that no change has passed by (`missed`) and
  none awaits its callback for (`Unseen`) that what it shows, and what the last request
  for it has been answered, is the list of the selected wallet. A request for discovery
  halfway holds permissions read before the keys; they need not be the present ones,
  since a limit may be edited without discovery being asked again, but they have the same
  `Grants`, which is all the answer depends on (`SameGrants`).
- `WalletsApart`: `Tenancy`. A permission is of an id that was given before, and of a
  key of its wallet while the key is there; a change that is served finds the row of its
  wallet (`Owned`), by an id that one row has. A deletion halfway has found its key
  (`OfWallet`), and since ids are given once, whoever has the id by then has its wallet.
- `NothingSkipped`: `Walks`. A row that was listed at the start and has not been seen has
  at least as many newer rows as the pages walked hold (`PassedBy`). Listed rows only sink
  (`Sinks`, `Moves`): the rows that are pruned are older than those that stay, and are too
  old to come again (`Past`). When the total is read, a walk whose pages hold as many
  rows as there are has passed them all by, for a row has fewer newer rows than that
  (`PassedThrough`); being `Through` then lasts, for nothing listed at the start comes
  back. The total has to be read after the page for this. With another wallet selected in
  the middle `Walks` is not an invariant, and TLC shows rows skipped.

**Only model-checked.** Liveness (`EveryCallAnswered`, `ExpiredRowsPruned`,
`UninterruptedCompletes`), which TLAPS 1.4.5 does not prove under fairness. Every other
property of a passing run is a theorem.

## 6. Not modelled

- Time zones: PostgreSQL stores stamps without zone and compares them with a
  cutoff the database converts. SQLite's floats are exact here.
- `datetime.now()` and `time.time()` (crud.py:229, 231) are two readings; the model
  takes one. A clock that is set back is not modelled.
- In `NsecOracle` the clock stands still, so a window never moves on; windows are
  the subject of `RateLimitedLog`.
- Two creations, or two signings, stamped in the same microsecond: ids and stamps are
  distinct and ordered. The listing has no second sort key, so rows of one stamp could
  change places between two pages.
- Cryptography either works or raises. The answer `"no key"` of a call stands for every
  LookupError of the service, also where a route turns it into status 500 (export). `"not
  found"` of a request is the 404 of the ownership checks, of `api_create_permission` and of
  an extension that declares nothing; the LookupErrors of an update and of a quick setup's
  loop, which no route catches, are `"failed"`. Tags, contents
  and `created_at` of events are handed through.
- Each call and request is made once. A retry is another call.
- `config.json` files do not change while the program runs.
- A second administrator beside the page: a page does not hear of other clients, and
  `PageIsRight` is about the changes the page itself makes.
- Labels: `update_key` is in `AdminApi`, where what matters is which row it reads and
  writes; the page's `updateKey` is left out. `get_wallet_pubkey` is one read. The
  template and `views.py` are layout.
- SQLite: legacy tables are not adopted there (migrations.py:12-13), which is the
  branch without schemas.

## 7. Plan

Done: every component of section 1 that has behaviour of its own is modelled and
checked, and every safety property, action property and refinement of the runs is
proved. What is left needs a prover for liveness: `EveryCallAnswered` and
`ExpiredRowsPruned` would rest on the invariants of `RateLimitedLog_proofs`,
`UninterruptedCompletes` on those of `LegacyAdoption_proofs`. The component list says of
each part what a larger model would add; section 6 says why this one does without.
