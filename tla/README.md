# takdata in TLA+

takdata is a FastAPI service that feeds positions of aircraft, ships and made-up
features into a TAK server. One process, one asyncio event loop, one SQLite file.
An *enablement* is a row of the database (its type: ADS-B, AIS or synthetic) with
*sources*; while it runs, a plugin object owns one task with a *worker*, and every
worker puts CoT events on the transmit queue of the one pytak link.

This directory models the service from the code in `app/` and `main.py`. Line
numbers in the modules refer to those files. `PROJECT.json` maps each definition
to its lines and lists runs, mutants, findings, hazards and theorems.

## 1. Inventory

| component | state | operations | modelled in |
|---|---|---|---|
| `RuntimeManager` (core/runtime_manager.py) | `_clitool`, `_tx_queue`, `_connected`, `_active_enablements` | connect, disconnect, start, stop, restart, status | `Runtime` |
| plugins (enablements/base.py, */plugin.py) | `_tasks`, `_running`, config, queue | start, stop, on_config_updated, is_running | `Runtime` |
| plugin registry (enablements/registry.py) | type_id → class, filled at import | lookup | constant `Registered` |
| HTTP routes (api/routes/enablements, sources, tak_config) | one database connection per request | create, put, delete, start, stop; add, edit, remove a source; connect, disconnect; the TAK configuration | `ControlPlane`; the TAK configuration in `Store` |
| enablement service (services/enablement_service.py) | none of its own | queries, building a config, restore at startup | `ControlPlane`; the restore's certificate in `Store` |
| database (models/db.py) | tables enablements, sources, tak_config | schema, migrations at every start | rows and sources in `ControlPlane`, schema and migrations in `Store` |
| startup and shutdown (main.py) | the process | init_db, restore, serve, disconnect | init_db in `Store`, the rest in `ControlPlane` |
| ADS-B worker (enablements/adsb) | cache of aircraft seen, semaphore | poll loops, deduplication, conversion, batches, puts | `AdsbWorker` |
| AIS worker (enablements/ais) | last event and static data per vessel, flag per source name | stream loops with reconnect, throttle, puts | `AisWorker` |
| synthetic worker (enablements/synthetic) | cursor, generators | seeding, ticks, puts | `SyntheticWorker` |
| pytak link (library) | `running_tasks`, `tx_queue` | setup, run_tasks, the TX worker | external, in `Runtime` and the workers |
| certificates, packages (services/cert_service.py, package_service.py and their routes) | files in two directories | upload, list, download, delete | `Store` |
| authorization (api/deps.py) | none | the role a route asks for | not modelled |
| status broadcast (api/routes/status.py) | the open sockets | `get_status` every two seconds | not modelled |

How they interact. A route or the restore reads rows, builds a configuration and
calls the `RuntimeManager` singleton. The manager awaits plugins and the link. A
plugin starts a task for its worker with the queue and the configuration it has at
that moment. Workers and the manager share nothing but that queue. The link's TX
worker takes events off it until its connection ends, of which nobody is told.

What is hard:

* **Interleaving at awaits.** The manager has no lock. Each of its methods checks
  the registry or the connection, awaits, and acts on what it saw. A handler makes
  several queries, each an await, before and after the manager's call.
* **Crash and restore.** The flag `enabled` is written after the start it records.
  init_db runs a series of statements at every start, passes over those that fail,
  and can be cut short between any two.
* **Files without a lock.** An upload writes to the final name; a certificate can be
  deleted between the steps of the connect that uses it.
* **A bounded queue with a consumer that can vanish.** Workers block in `put` while
  they hold a semaphore slot (ADS-B) or a time of theirs gets stale (AIS).
* **State written before or after the await it belongs to.** The ADS-B cache marks
  an aircraft before its event is put; the AIS throttle is written after the put.
* **Unvalidated numbers.** The synthetic sizes can be null, zero or negative.

What makes each part correct:

* the manager: connection fields that agree, every working task within reach of a
  stop, one worker per enablement, workers on the current queue, calls that end;
* the control plane: rows, registry and running configuration that agree once
  nothing is in progress, and a restore of exactly the enabled rows;
* the data directory: a current schema once the service is up, a start that changes
  the table in one step or not at all, answered uploads that are whole, connections
  with the certificate their configuration names;
* ADS-B: what later polls skip has been sent, under a marker that keeps up with the
  cache and stands within the altitude band; no source starves another;
* AIS: events of a vessel spaced but never silenced; flags that tell the truth;
* synthetic: every feature refreshed alike, for every configuration.

## 2. Modules

```
Runtime ── RuntimeProperties ── RuntimeProofs ── DisciplineProofs ── EffectProofs
   │              │    └── MCRuntime                 (four configurations)   │
   │              └── INSTANCE Lifecycle             (abstract specification) │
   └── ControlPlane ── ControlProperties ── ControlProofs ────────────────────┘
                              └── MCControl          (two configurations)
Store ── StoreProofs, MCStore                        (two configurations)
   └── INSTANCE DurableTable                         (abstract specification)
AdsbWorker ── AdsbProofs, MCAdsb                     (two configurations)
AisWorker ── AisProofs, MCAis
SyntheticWorker ── SyntheticProofs, MCSynthetic
```

An operator named `..._slip` is a variant of a definition, as a slip in the code
would make it. No specification uses one; each property is broken by at least one.

### Runtime

One action is everything a coroutine does from one suspension to the next. The
awaits that really suspend are `clitool.setup()`, the gather of a plugin's tasks in
`stop()` and the gather of the link's tasks; `plugin.start()` has none inside.

| code | model |
|---|---|
| `_clitool`, `_tx_queue`, `_connected`, `_active_enablements` | `clitool`, `txQueue` (the link a queue belongs to), `connected`, `active` |
| a plugin, a task, a CLITool | `plugin[p]`, `task[t]`, `link[l]`; identities are reused once nothing refers to them |
| a method call in progress | `call[c]`: operation, where it is, what it read |
| `start_enablement` | `BeginStart`, `StartAfterStop` |
| `stop_enablement` | `BeginStop`, `StopReturns` |
| `restart_enablement`, `on_config_updated` | `BeginReload`, `ReloadRestarts` |
| `connect_tak` | `BeginConnect` (through a disconnect when connected), `SetupReturns`, `SetupFails` |
| `disconnect_tak` | `BeginDisconnect`, `DisconnectGoesOn`, `LinkClosed` |

Choices worth knowing:

* Calls suspended in `stop()` of one plugin are woken in the order of their gathers,
  as asyncio does; another call may begin between two wake-ups, which allows at
  least what the event loop does. The order of a disconnect's snapshot is arbitrary.
* A cancelled task ends after finitely many steps of its own and sends nothing more.
* Of pytak the model assumes: `tx_queue` is None until `setup()` returned,
  `run_tasks` adds a TX worker to those that run, `setup()` returns or raises.
* `LinkLost` ends the TX worker and changes nothing else: `_connected` stays True.
* Bounds: `TaskRoom` and `LinkRoom` let a call that may need a new task or link begin
  only when one is left for it.

### Lifecycle

What the manager promises a caller who lets one operation on an enablement end
before the next: a connection that is up or down and the configuration each
enablement runs with. It is refined by `Runtime` under `DisciplinedSpec`, with the
connected flag and the configuration of the registered plugin as the mapping.

### ControlPlane

The handlers that change a row, a source, the registry or the connection, on top of
`Runtime` (the one that writes the TAK configuration is in `Store`): a request `c` keeps its record in `req[c]` and makes
its manager calls as `call[c]`. Every query is a step of its own; the row and its
sources are read by two (`Found` or `ReadsRow`, then `ReadsSources`), and the manager's call is
a third, so a configuration can be torn or out of date. A write counts at its commit.
In the restore the sources are read with the start that follows, as no request runs yet.
`Crash` loses memory at any point and keeps the tables; `Startup`, `RestoreConnected`
and `RestoreStarts` are the lifespan and the restore. A shutdown is a disconnect
followed by a crash. No request is served before the restore ends. Every row is
taken to be of a type that needs a source. A query that fails and an answer of 404
change nothing and are left out.

A PUT may carry `enabled` (schemas.py:123): it writes the flag with the other fields and
starts or stops nothing. `PutFlags` holds the values clients send, both in
`control_one_at_a_time`, none in `control_overlapping_edits`. The history variable `asked`
keeps the last word of a client on each enablement: "run" after a start, "rest" after a
stop that was answered, one or the other by the flag of a creation; "run" after a PUT that
leaves it marked, "unmark" after one that takes the mark away. `FlagsAgree` relates it to both sides: the flag is
set exactly if the word is "run", and nothing runs whose word is "rest". A plugin that runs
unmarked, or a marked row that does not run, is thus always the work of a client (a PUT of
the flag alone) or of a restart or a lost connection, never of a start or stop of which half is missing.

### Store

The directory `data/`: the SQLite file with the table of enablements and the TAK
configuration, the certificates and the packages; and the connections made from them.

| code | model |
|---|---|
| the table on disk, its columns and rows | `cols` (groups of columns that come and go together), `row` (what the migrations tell apart in a row) |
| `init_db` (models/db.py) | `Startup` (CREATE TABLE, then the INSERT that opens a transaction), one `Executes` for each statement of the loop, `Commits` |
| the transaction | `draft`: columns and rows as its statements see them; gone in a `Crash` |
| POST, PUT, DELETE of an enablement | `WritesRow` |
| `save_cert`, `delete_cert`, the same for packages, their routes | `UploadCert`, `UploadPackage`, `RemoveCert`, `RemovePackage`; `file[f]` is unborn, torn, whole or gone |
| PUT /tak/config | `PutConfig` |
| POST /tak/connect | `ReadsConfig`, `Resolves` (400 where the file is not there), `SetupReturns` |
| the restore's connect | `Restores`: goes on without a certificate that is not found |

The database at the start is empty, of this version, or of one of the three older
schemas that db.py migrates from, with any rows such a version can have written.
Python's sqlite3 opens a transaction before the first INSERT; ALTER TABLE and DELETE
do not end it, so what the loop does becomes visible at the final commit, and a crash
before it undoes all of it. The loop passes over every error (db.py:105): `Executes` may leave
a statement undone because its columns are there, or not there (`Fails`), or for any other
reason; `start` is a history variable that is "faulty" in a start with an error of the last kind.
An error at which SQLite itself rolls back the whole transaction is left out. `Executes_commit_slip` is the same loop with statements
that commit one by one; it breaks the refinement. `kept` is a history variable too. Bounds:
one connect at a time (what two do to each other is in `Runtime`). A `cert_path` that
is no id of a certificate and a configuration without a URL, which answers 400, are
left out.

### DurableTable

What the table promises across restarts: rows change one at a time and only while
the service is up, a start brings the schema up to date and removes the stale rows in
one step, and the end of the process loses nothing. A start in which a statement failed may leave
either undone, but loses no column and no other row. `Store` refines it, with `row` for the
table and "every current column is there" for its readiness.

### AdsbWorker

A poll is: semaphore, fetch, deduplication up to the first put in one step, then
batches whose puts happen in any order. A record holds what the code looks at: the
key of the cache (`aircraft`, which is `hex or icao`, worker.py:191), the `hex` the converter
sees, `messages`, latitude, registration, flight, the three altitudes, whether it is on the
ground, and whether the converter raises on it. The converter does not share the cache's
key: `craft.get("hex", craft.get("icao", ...))` (converter.py:63) takes a null `hex` as the
name NONE, and an empty one as none at all. `Uid` is its choice by `uid_key` with the
fallbacks (`ICAO-NONE`, the flight, or no event), `Altitude` and `Passes` its filter, which takes
`alt_geom or alt_baro`, and `Height` the altitude it writes, where `Alt` comes first. Records
without position, outside the box or without a key, and failed fetches, are a shorter or
empty response. The age of a
cache entry is an expiry that can come at any time. A source lists an aircraft at
most once in a response. A response is a set: its records come in any order, and the
order matters in two places only, which leave it open. A record whose comparison
raises ends the deduplication, and any of the others can have come before it
(`Compared`); a batch is any 50 of the reports that are left (`Batches`). `owed` and `shown` (the last report put under each UID) are
history variables.

### AisWorker

A loop per source: connecting, listening, putting, pausing. A message that is taken
and finds room on the queue is one step; one that finds none waits in `Puts` with the
age of its message, which is only then written to `lastSent`. `Breaks` covers lost
connections and messages that raise in the handler. Ages count up to `Long`.
`lastHeard` is a history variable. The cached static data only changes what an event
says and is left out, as are the active vessels and the counters.

### SyntheticWorker

The sizes N and K that `__init__` makes of unvalidated columns, seeding, the choice of
the features of a tick (in turn, a sample, or draws with repetition) and their puts.
`lead` is a history variable for round robin, counted up to `LeadBound`.

## 3. Runs

All with `tlc -config <cfg> <module>`; states are distinct states.

| run | question | bounds | states |
|---|---|---|---|
| `runtime_free` | what no overlap of calls can break: `TypeOK`, `QueueFollowsConnection`, `OneTask`, `PoppedOnce`, `RegisteredWorks` | 2 calls, 2 enablements, 2 links, 3 tasks, a config whose worker returns | 353,481 |
| `runtime_disciplined` | `NoOrphan`, `OneWorker`, `CurrentQueue`, `OneSender`, `ConnectRecovers`, `ImplementsLifecycle` for a caller that does not overlap calls on one enablement or with the connection | 2 calls, 3 enablements (one of unknown type), 2 configs | 7,358 |
| `runtime_live` | `CallsEnd` under fairness, any overlap | 2 calls, 1 enablement | 181,455 |
| `runtime_stop_race` | violated: `StopCancelsTasks` | 2 calls, 1 enablement | – |
| `control_one_at_a_time` | `ControlTypeOK`, `NoGhost`, `FlagsAgree`, `EditsInForce`, `RestoreExact` for one request at a time per enablement, crash anywhere | 2 enablements, 2 requests, 1 source each, PUTs that set or clear the flag, any initial database | 1,833,066 |
| `control_overlapping_edits` | violated: `EditsInForce` when edits overlap | 1 enablement, 2 requests | – |
| `adsb_polling` | `AdsbTypeOK`, `SeenIsSent`, `NewestIsShown`, `InBand`, `PollsGoOn` | 3 sources, 2 slots, queue of 1, batches of 2, cache limit 2, 3 aircraft, band 1 to 3 | 177,350 |
| `adsb_bad_record` | violated: `SeenIsSent` when a record has null `messages` | 2 sources | – |
| `ais_throttle` | `AisTypeOK`, `LiveIsShown`, `Throttled`, `VesselsGoOn` | 3 sources (one without a box, two of one name), 2 vessels, intervals 2 and 1, queue of 1 | 141,492 |
| `store` | `StoreTypeOK`, `SchemaReady`, `AnsweredIsWhole`, `ShowsItsCert`, `ImplementsTable` | 3 rows, 2 certificates, 1 package, every older schema, statements that fail, crash anywhere | 1,324,961 |
| `store_wipe` | violated: `OnlyV1Wiped` | 1 row, 1 certificate, 1 package | – |
| `synthetic_ticks` | `SynTypeOK`, `OnceInATick`, `Balanced`, `RoundsGoOn` | N from {-1,1,3,4}, K from {null,0,-2,2,3,6}, queue of 2 | 23,604 |

Why the bounds are enough to meet the cases. Two calls show every race of two
methods: each method awaits at most a plugin, the link or `setup()`, and the races
come from one awaiting while the other acts. Two enablements show that a snapshot
is gone through while the registry changes. Two links show an old queue beside a
new one; three plugins for one enablement show an old, a new and an overwritten one.
For ADS-B a queue of one fills at once and two slots for three sources make one wait. One
source returns all three aircraft, so its response exceeds a batch of two and the cache
its limit of two (in the code 10 slots, batches of 50, 1000 entries). One aircraft has a
null hex, a word for `alt_geom` and an `Alt` out of the band; one an empty hex, so that it goes by its
flight, and two reports; one is out of the band by one of its altitudes only.
For the store, three rows hold every kind of stale and current row at once, two
certificates let the configured one change or vanish during a connect, and crashes are
not bounded. For AIS a queue of one makes a put wait past an interval, and the
pause reaches its maximum from below. For the synthetic worker K divides, does not
divide, equals and exceeds N. Where the proofs below apply, the bounds do not matter.

### What the violated runs show

* `runtime_stop_race`: two starts of a running enablement. The first waits for the old
  plugin, the second registers its own, the first overwrites it: a worker nobody can
  stop, although a stop "cancels its tasks" (README.md:362-363).
* `control_overlapping_edits`: an edit that looks at `is_enablement_running` inside
  another edit's reload finds nothing running and reloads nothing; the worker goes on
  with the older configuration (docs/frontend-build-brief.md:211).
* `adsb_bad_record`: null `messages` raises in the middle of the deduplication; the records
  before it are marked as seen and never sent (README.md:134, 177-178).
* `store_wipe`: the DELETE of db.py:87 runs at every start. A synthetic enablement created
  without `feature_count`, which POST accepts and the worker runs with a default, is
  gone after the next start ("stale synthetic rows from v1 schema", db.py:86; "the row
  stays in the DB", README.md:362-363).

Two more races are reachable in `Spec`, where calls overlap freely: a start that passes
its check while a disconnect waits stays registered on a closed link (runtime_manager.py:84,
86), and a start that waits for the old plugin after checking the connection registers one
without a queue (112, 114). `CurrentQueue` excludes both for a disciplined caller only.

### Fairness

`runtime_live`: every coroutine that can go on does, cancelled tasks end, `setup()` and the
link's gather come back. Nothing is assumed of `LinkLost` or of new calls.
`adsb_polling`: fetches end because the session has timeouts (adsb/worker.py:101); a put is
strongly fair because asyncio.Queue wakes its putters in the order they came; a TX
worker that is alive drains. `ais_throttle`: the same for puts and the TX worker, time
passes, and a source that listens again and again hears a vessel that keeps reporting;
reconnects need no fairness, as `VesselsGoOn` is about sources that do come back.
`synthetic_ticks`: the sleep ends, the put goes on when there is room. The loss of the link
has no fairness anywhere; the progress properties promise something only while it
sends, since a dead link blocks every worker for good. That is also why the ADS-B and
synthetic runs allow deadlock.

## 4. Proofs

TLAPS proves, for every value of the constants that meets the named assumptions:

| theorem | property | argument |
|---|---|---|
| `RuntimeProofs!TypeCorrect` | `TypeOK` | inductive with `StoppingHasPlugin`: a call in `stop()` names a plugin |
| `RuntimeProofs!QueueConsistent` | `QueueFollowsConnection` | inductive with the types: the three fields are written at different awaits but never leave the relation |
| `RuntimeProofs!OneTaskHeld` | `OneTask` | `Registry`, below |
| `RuntimeProofs!PopsAreExclusive` | `PoppedOnce` | `Registry`, below |
| `RuntimeProofs!WorkIsAsShown` | `RegisteredWorks` | `Work`, below |
| `DisciplineProofs!NoWorkerLeftBehind` | `NoOrphan` | `Orderly`, below |
| `DisciplineProofs!WorkersFollowEachOther` | `OneWorker` | `Orderly` |
| `DisciplineProofs!QueueIsCurrent` | `CurrentQueue` | `Orderly` |
| `DisciplineProofs!SenderIsOne` | `OneSender` | `Orderly` |
| `DisciplineProofs!ConnectAlwaysRecovers` | `ConnectRecovers` | only `SetupReturns` ends a connect well, and `Orderly` says what it finds |
| `DisciplineProofs!LifecycleImplemented` | `ImplementsLifecycle` | step by step under `Orderly`, below |
| `ControlProofs!ControlTypeCorrect` | `ControlTypeOK` | inductive with `Request`: a request is at a stage of its own handler |
| `ControlProofs!DeletedIsGone` | `NoGhost` | `Controlled`, below |
| `ControlProofs!FlagsFollowRequests` | `FlagsAgree` | `Controlled` with `Flagged`, below; for every `PutFlags` |
| `ControlProofs!EditsReachWorkers` | `EditsInForce` | `Controlled`, and `RegisteredWorks` for the task |
| `ControlProofs!RestoreStartsEnabled` | `RestoreExact` | `Controlled`: what the restore has behind it runs |
| `StoreProofs!StoreTypeCorrect` | `StoreTypeOK` | inductive |
| `StoreProofs!SchemaAlwaysReady` | `SchemaReady` | `SchemaInv`, below |
| `StoreProofs!TableImplemented` | `ImplementsTable` | `SchemaInv`, and what the loop has made of the rows at its commit |
| `StoreProofs!AnswersHold` | `AnsweredIsWhole` | inductive with the types |
| `StoreProofs!CertIsNamed` | `ShowsItsCert` | a connect in `setup()` has the path it was told |
| `AisProofs!AisTypeCorrect` | `AisTypeOK` | inductive; `Doubled` stays between base and maximum |
| `AisProofs!LiveShown` | `LiveIsShown` | inductive with the types |
| `AisProofs!EventsAreThrottled` | `Throttled` | `Timed`, below |
| `AdsbProofs!AdsbTypeCorrect` | `AdsbTypeOK` | inductive with `OnceInLine`: a source waits for the semaphore once |
| `AdsbProofs!MarkersAreInBand` | `InBand` | `Banded`, and that filter and event agree but for `Alt` and 0 |
| `AdsbProofs!SeenMeansSent` | `SeenIsSent` | `Carried`, below; for records without a null for `messages` |
| `AdsbProofs!MarkersAreNewest` | `NewestIsShown` | `Carried`; for records without a null for `messages` |
| `SyntheticProofs!SynTypeCorrect` | `SynTypeOK` | with `AtPut`: at a put there is something to put |
| `SyntheticProofs!TicksRepeatNothing` | `OnceInATick` | K <= N, and places less than a round apart differ |
| `SyntheticProofs!RoundRobinIsFair` | `Balanced` | `TurnInv`, below |

* `Registry` is `Typed /\ OneTask /\ PoppedOnce`. The two need each other: that a plugin in
  the registry is not being emptied by another call's stop follows from
  `PoppedOnce`, and that a reload finds a list it may clear and refill follows from
  `OneTask`.
* `Work` adds to `Registry` that different plugins hold different tasks (`Apart`).
  `RegisteredWorks` alone is not inductive: the task another call ends or replaces could
  be the one a registered plugin holds.
* `Orderly` is for `DisciplinedSpec`: `Work`, the discipline, and five facts. `CallOK` says what
  a suspended call may count on (a disconnect has every enablement still running before it, a
  waiting start is still connected, a reload's plugin still registered); `OnePlugin` that
  an enablement has at most one plugin object, registered or in the hands of a call, with
  at most one task; `Accounted` that every unfinished task is held by the plugin object of its
  enablement, the registered one if it was not cancelled; `Served` that what is registered
  is on the current queue; `Senders` that only the current link sends, and none while
  it is replaced. The discipline enters in one lemma, `OthersOK`: a step of one call leaves
  what the other calls count on.
* For the refinement, every action is shown to be one step of `Lifecycle`: a pop is a stop, a
  launch is a start, the end of a reload's wait is a reload, and the connection comes
  and goes only while nothing runs. Everything else leaves each registered plugin's
  config as it was, the collection of unreferenced objects included (`KeepsConfig`).
* `EffectProofs` says of every step of the manager what it means to its caller: what the
  call's record says afterwards and what runs then (a start is an error, a new plugin or a
  wait; a reload hands over its config or finds nothing; a connect ends with a link or
  without). `ControlProofs` rests on these lemmas; of
  the manager's actions it opens little more than their guards.
* `Controlled` is `Orderly` with what holds of the requests. `Handled`: one request at a time
  for each enablement, and a call in progress is the one its handler makes. `Agreed`: what
  runs has a row, is current or going to be reloaded, and was not asked to rest unless a start
  is about to say otherwise (`Stands`); a row's flag is the last word on it (`Flagged`);
  what a request has read or hands over is the committed row (`Knows`); nothing runs in a
  process that is down (`Serving`); the restore has started what is behind it and nothing of what
  is before it (`Restored`). None of the four properties is inductive: they speak of an
  enablement when nothing is in progress, or of what runs but not of what is about to, and
  are won step by step while a request is in progress. That
  the manager's caller is disciplined is not assumed here: it is proved from one request
  at a time (`Disciplines`), so `Orderly` carries over, through crashes as well.
* `SchemaInv` says what the transaction has done after k statements, from any of the
  versions that can have left the database behind: it has the column of every statement
  behind it unless the start is faulty, and the rows of the table until the DELETE, then those
  it leaves or, in a faulty start, the same. `SchemaReady`
  alone says nothing before the commit.
* `Timed` adds to the types that a source puts only vessels it covers and that, for a
  vessel of one source, the time of the last accepted message is in `lastSent`, or
  with that source's waiting put. `Throttled` alone is not inductive: it does not say
  where the time is while the put waits.
* `Carried` adds to the types of ADS-B where a report is between cache and queue: a poll
  holds only what its source covers and puts only what makes an event (`Held`); what the
  only source of an aircraft still has to put is the cache's entry, if that was not dropped
  meanwhile (`Current`); what is owed makes an event (`Owing`). `Current` is what keeps an
  older report from being put over a newer one. Every step is shown to be of one of
  four kinds (`Kinds`): it moves no report, converts a batch, puts one report, or finds
  some. The hypothesis on null is needed: `adsb_bad_record` shows what one does.
* `TurnInv` says where the round is: the features before the next one are one event
  ahead, the others are not. `Balanced` alone does not say which ones are.

Only model-checked: liveness (`CallsEnd`, `PollsGoOn`, `VesselsGoOn`, `RoundsGoOn`), which is out
of the prover's reach. Every other property of a run that passes is a theorem. The deduplication and
the batches could be proved about because they are written over sets of reports: a fold over
the records in their order would need an induction over data, which the provers cannot do.

## 5. Not modelled, and limits of what is

* Two ADS-B sources that return the same aircraft: an older report can be put after a
  newer one. The model has it; `NewestIsShown` speaks of aircraft of one source. The
  worker also drops what the other source just reported, where README.md:179-182 says
  both produce events.
* The ADS-B deduplication looks at `messages` and latitude only and at no other
  identifier than the hex address; the model does the same.
* Two AIS sources that hear the same vessel can both pass the throttle while a put
  waits. `Throttled` speaks of vessels of one source. Two AIS sources of one name share one
  connected flag, which the breakdown of either clears; `LiveIsShown` speaks of sources with
  a name of their own.
* The clock: AIS ages and the age of an ADS-B entry come from `time.time()`, which may be set
  back. Ages in the models only grow, an ADS-B entry expires at any moment.
* A start that overlaps the delete of its enablement leaves a plugin without a row, whose stop
  route answers 404 (enablements.py:127). It is reachable in `ControlSpec`; `NoGhost` speaks
  of one request at a time for an enablement.
* A migration statement that fails for another reason than the columns that are there passes
  for done (db.py:105): the service then runs without that column until the next
  start. `SchemaReady` speaks of starts without such an error, and so shows that the next one heals it.
* AIS: the pause is never set back after a connection, and a clean end leaves the flag
  set. Both are in the model; no document forbids either.
* Adding the first source to an enablement whose worker returned for want of one
  starts nothing (sources.py:122). It is in `ControlPlane`; no document forbids it.
* A restore whose connection fails is not tried again; a later connect starts nothing.
* Identity of ADS-B aircraft: README.md:84-85 says they are deduplicated by `uid_key`, the
  cache goes by `hex or icao` (worker.py:191). README.md:142 asks for any one identifier,
  but a record without an address is dropped whatever else it has. The two keys can
  part: with `hex` null and `icao` set the cache has the address and the marker is
  `ICAO-NONE` (converter.py:63), shared by all such aircraft; with `hex` empty the marker
  goes by the flight, or there is no event (145-149). In the same way a null registration is
  the name NONE (66), shared under `uid_key` REG. All of it is in `AdsbWorker`; `NewestIsShown`
  speaks of aircraft that have their names to themselves, which those with a null `hex` have not as
  soon as there are two. Records with both `hex` and `icao` null are one cache entry, NONE; the
  model takes a response to hold an aircraft once and so has at most one of them in it.
* Altitude of ADS-B markers: the filter takes `alt_geom or alt_baro` (converter.py:82), the
  event `Alt`, then `alt_geom` if it is there, then `alt_baro` (173; README.md:143 knows no `Alt`).
  A record with `Alt`, or with an `alt_geom` of 0, can be shown outside the band. Both are
  in the model; `InBand` leaves the two cases out, and shows that in all others the two agree.
* Values of a JSON type the feeds do not use for a field (a list as altitude, a number as
  `hex`) are left out, but for null.
* What an AIS event says, and the static data cached for it, are left out: the throttle,
  the puts and the reconnects do not depend on them. There, `or 15` and `or 511`
  (ais/converter.py:82, 86) turn the valid values 0 into "not available".
* Authorization is a role per route that is checked before the handler and keeps no
  state; a model of it would restate the table. (The start and stop routes ask for the viewer
  role, enablements.py:142 and 170, where README.md:243 calls viewers read-only.)
* The status broadcast only reads, as do listing and download; statistics and what else
  the converters write into an event are layout.

## 6. Plan

Done so far: the runtime with its discipline and refinement, the control plane, the
three workers and the store, each checked and its safety properties proved.

1. `TxPath`: one queue shared by the workers of several enablements, with a link that
   dies and a reconnect; abstract specification: each worker sees a queue that
   accepts again and again while the link sends, which is what the worker modules
   assume.
2. AIS static data and what an event says of a vessel.
