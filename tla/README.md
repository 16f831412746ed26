# Verification of the AgriLogy API

TLA+ models, TLC runs and TLAPS proofs for the back end of AgriLogy: the
FastAPI service in `src/back/src/fastapp`, its Celery jobs and its MQTT
subscriber; the Django worker in `src/back/src/agriapi` that ran the same jobs
before and is kept for a rollback; and how all of them boot and are deployed
(`src/back/docker-entrypoint.sh`, `src/back/scripts`, `docker-compose.yml`,
`.github/workflows/deploy-back.yml`). Everything is translated from that code.

There is one database (Postgres under READ COMMITTED), one broker (Redis), and
processes that share them: the web processes, a Celery worker with its beat, and
one MQTT subscriber. Each request, uplink or task is a transaction or a few of
them, and what makes the system hard is what happens between two statements of
one of them.

- [Inventory](#inventory): the components, their state, what is hard
- [Modules](#modules): which module models what, and how it maps to the code
- [Runs](#runs): what TLC checks, within which bounds
- [Proofs](#proofs): what holds for every value of the constants
- [What the code does not keep](#what-the-code-does-not-keep)
- [Not modelled](#not-modelled), [Plan](#plan)

To repeat a run: `tlc -workers 2 -config AlertBurst.cfg MCAlertIngest.tla`;
to repeat a proof: `tlapm AlertIngestProofs.tla`, and so for each `*Proofs.tla`.

## Inventory

| component | state it keeps | operations | what is hard |
|---|---|---|---|
| **Alert dispatch on ingest** (`ingest.py`, `routers/ingest.py`) | readings, `analytics_alert.last_emailed_at` | one transaction per uplink: write a reading, match alerts, claim them, push a task, next reading | claims of concurrent uplinks, lock waits and deadlocks, tasks pushed before the commit, rules edited meanwhile |
| **Alert delivery** (`tasks_comms.py`, `celery_app.py`, `email.py`, `sms.py`, `routers/notifications.py`) | broker queue, delivery log, task log | deliver an e-mail, digest, SMS, WhatsApp; queue a zone-outbound message | early acknowledgement, deaths of the worker, answers that are lost, alerts silenced while a task waits |
| **Cadence jobs** (`tasks_scan.py`, `tasks_compute.py`, `routers/users.py`) | `last_health_notified`, `last_proactive_notified`, `last_notified`, a Redis key | scan devices, customers, users, zones; mail on demand | overlapping runs, claim before the mail, claim given back, one commit per run or per item |
| **Irrigation programs** (`tasks_scan.py`, `routers/irrigation.py`) | programs with `last_run_at`, output commands | the runner, program edits, manual commands, zone deletion | overlapping runs, midnight, edits between load and claim, deaths |
| **ET0 and VPD** (`tasks_compute.py`, `agriapi/tasks.py`) | one row per zone and hour | select, then update or insert | overlapping runs insert twice |
| **Django worker** (`agriapi/tasks.py`, `apps/alerts/engine.py`) | the same rows, and a cache in its memory | the same jobs, each statement committed by itself | the cutover, and tasks of either left in the queue |
| **Device routing** (`ingest.py`, `routers/devices.py`, `routers/admin_analytics.py`) | zones, devices, mappings, the `lora` placeholder | resolve a serial, register it, route readings; register, transfer, delete, map | resolution in several statements, first uplinks, a transfer while an uplink is handled |
| **MQTT subscriber** (`mqtt.py`) | connection, liveness file | connect, subscribe, handle, heartbeat | callback and heartbeat threads, dropped uplinks |
| **Accounts and sessions** (`auth.py`, `passwords.py`, `routers/auth_issuance.py`, `routers/users.py`, `routers/admin_impersonation.py`) | accounts, revocation stamps, failed-login counters, tokens in the clients' hands | sign in, refresh, sign out, view as, activate, demote, delete | authentication, decision and minting in separate transactions; stamps of one second |
| **Manager affirmations** (`routers/manager_affirmations.py`, `routers/admin_analytics.py`, `routers/users.py`) | affirmations, zone columns, account activity | ask, approve, reject; direct writes by staff | two admins decide at once, stale loads, column-wise writes |
| **Crop calendars** (`routers/kc.py`, `routers/admin_kc.py`) | Kc header, assignments, periods | create, replace, delete, by owner, staff or approval | replacement reads without locks, lock cycles |
| **Farm records**: sectors and map, notification zones, technicians, sensor groups, calibrations, alert rules, feedback (`routers/…`) | a dozen tables of one owner | create, replace, delete | sets replaced by two statements, writes the ORM omits, refusals after a first write, retries by a client's key |
| **Back office, billing, settings** (`routers/admin_*.py`) | the same tables and plans, subscriptions, settings, readings | the staff's writes, backfill of readings, the table browser | the same |
| **Reads** (`routers/selfreads.py`, `reports.py`, lists and dashboards of every router, `sensors.py`) | none | answers put together from several statements | what commits between two of them, failures swallowed in an aborted transaction |
| **History** (`history.py`) and **schema shims** (`schema_compat.py`) | history rows, a cache of probes per process | record if the table exists; leave out or refuse what the schema lacks | records that break what they record, cached absences, migrations while serving |
| **Assistant** (`assistant/`, `routers/assistant.py`, `routers/admin_assistant.py`) | settings with a sealed key, conversations | chat with tools in rounds, proposals behind a button, fallback to rules | what the model may do by itself, keys of several providers |
| **Satellite imagery** (`satellite/cdse.py`, `routers/ndvi.py`) | a cache and a token, shared by threads | query an external API | token expiry, a sector redrawn under a cached answer |
| **Boot and deployment** (`docker-entrypoint.sh`, `scripts/`, `deploy-back.yml`) | code tree, images, schema, revision | boot with waits, create missing tables, reset, build, migrate, stamp, recreate | restarts between two steps, outages, deploys that end early |

How they interact: an uplink arrives over HTTP or from the MQTT subscriber,
**Device routing** decides whose it is, **Alert dispatch** writes it and pushes
tasks, **Alert delivery** takes those tasks from the broker, **History** records
the firing on the same transaction. **Cadence jobs**, **Irrigation programs** and
**ET0** are started by beat on the same worker, native or Django.
**Affirmations** change rows that **Accounts**, zones and **Crop calendars** also
change directly. **Farm records** refer to each other, and zones can be deleted
under all of them. **Reads** run beside every writer. Any of it may meet a schema
that **Deployment** has not brought up to date. `PROJECT.json` lists every
component with its sources and every hazard at its line.

What makes each correct, in one line:

- *dispatch*: committed firings of an alert are spaced by its grace, a committed
  firing was pushed, and nobody waits for ever;
- *delivery*: at most one message per task, none about a silenced alert, a
  truthful log;
- *cadence*: at most one message per window unless somebody could not know, no
  silence without a message, whichever worker runs the job;
- *irrigation*: one opening per start instant, none forgotten;
- *hourly rows*: one per bucket of an hour without overlap, both series or none;
- *routing*: a reading goes to an assignment that was real at one instant, and
  never into another owner's zone through a mapping;
- *MQTT*: every uplink is stored, dropped for a reason or still at the broker,
  and the liveness file tells the truth within two beats;
- *accounts*: an administrator remains, and a revocation reaches everything that
  was refreshed from what it revoked;
- *affirmations*: what is approved is applied, and nothing else is written;
- *calendars*: a replacement leaves exactly its stages;
- *records*: overlapping requests leave what some order of them would have left;
- *reads*: an answer shows what its caller could see, all of what he could see
  throughout, and fails only for a cause;
- *history and shims*: a record never costs the work it is about; what is
  accepted is stored; nothing held back is ever named;
- *assistant*: an alert lands on the farmer's own zone unless the model wrote the id of
  another's, a key at its provider;
- *imagery*: the sector as it is drawn, and no refusal for a token that aged;
- *deployment*: every container comes up, and unless a failed inspection had the
  database stamped again, none on an old schema and with the schema that is recorded.

## Modules

A module has the component's state as variables and one action per statement or
step that others can observe; handlers keep the names of the code. The theorems about
them are in eight modules whose names end in `Proofs` (see [Proofs](#proofs)). What
follows says what each leaves out and where it takes a decision of its own.

### AlertIngest, GraceGate
A handler of an uplink goes through its readings and, within one reading, through
its alerts. `Begin` starts the transaction, `Write` inserts, `Match` selects,
`ClaimWon`/`ClaimLost` are the conditional UPDATE of `last_emailed_at` with its
row lock and the WhatsApp and SMS pushes that follow it, `PushMail` the plain or
digest e-mail of a reading. The pushes are made inside the transaction.
`DeadlockVictim` is Postgres's abort of a handler in a circle of waits: the
dispatch raises, the caller logs it and goes on in a failed transaction, whose
`Commit` is a silent rollback. A `Crash` leaves the uplink to be redelivered,
`Resend` is a sender that tries again. `EditRule` and `DeleteRule` are the owner's
routes. Values are abstracted to whether a rule fires on them; a `BadValue` is one
the database refuses, which only the untyped weather payload can bring. `fire`,
`rolled` and `sent` are history. `GraceGate` is the abstract specification: an
alert fires when its spacing has passed. The runs `alert_burst` (spacing) and
`cadence_health` (cooldown) check that both detailed modules implement it.

### AlertDelivery
What the worker makes of a task: `Take` acknowledges before running (`acks_late`
is off), `Load` re-reads the alert and its owner, `Send` is the provider call with
its three outcomes (accepted, refused, accepted without an answer), `Record`
writes the delivery log, `PostRun` the task log. `Crash` loses the task. The
zone-outbound route runs beside it, channel by channel.

### CadenceJobs
Four beat jobs in one module, since they are one protocol with three differences,
each an operator: `WholeRun` (one commit per run or per item), `Restores` (a failed
send gives the claim back), `StampsRunStart` (the run's instant or the item's).
Each run scans the items in order. The proactive job then SELECTs the stamp it would
give back (`Look`), in a statement before its UPDATE, between which others commit
(`LooksFirst`); the health job has it from the rows it loaded. `ClaimWon` is the
conditional UPDATE (`SET NX` for idle zones), `Send` and its outcomes follow.
`glimpsed` is history: the claims that somebody looked at while they were in flight. `OnDemand` is the user's own
request for a message, which moves the same stamp.

### LegacyTasks
The same jobs in the Django worker, together with the native ones in outline, on
one item: six jobs, of which one is chosen at the start. Django commits every
statement by itself, so a claim is visible at once and a restore (`Failed`) is
another statement, which writes back what was *loaded*; the slot of an idle zone
is in the cache, and since no `CACHES` is configured that is the memory of the
process. `Take` and `Post` are the tasks of the queue, which a worker of either
kind may get. `Die` is a death or the container being recreated as the other kind.

### HourlySeries
The select-then-insert of one hour's rows. The native run takes zone by zone, the
Django run computes all first and writes them in one transaction; rows are counts,
since nothing in the schema keeps them from being two. `Victim` is a deadlock,
`MultipleResultsFound` what a run meets once there are two.

### IrrigationRunner
`run_due_irrigation_programs` and the routes that edit what it reads. `Visit`
decides from the rows the run loaded, `ClaimFirst` and `ClaimAgain` are the two
shapes of the conditional UPDATE, `Commit` publishes commands and stamps together.
Time is in ticks, `Day` a constant, so midnight and weekdays are arithmetic.

### DeviceRouting
The tables `analytics_zone`, `analytics_device`, `analytics_devicesensor` and the
two resolutions that read them. A ChirpStack frame runs `Resolve`, for an unknown
serial `FindOwner`, `AddOwner`, `CatchAll`, `Register`, `ResolveAgain`, then
`Write` and `Commit`; a Bivocom uplink runs `Look`, `ReadMappings`, `ReadOwners`,
`WriteTags`, `Commit`. A webhook that names an account runs `sensor_ingest`,
`first_zone_for`, `Write`, `Commit`. The administrators' operations are one step each: what they
check either cannot change afterwards (the owner of a zone) or is checked once
more by a unique key. `seen` collects the rows a serial had while its frame was
handled.

### MqttSubscriber
The callbacks paho runs on the main thread (`Connect`, `Refused`, `Disconnected`,
`Deliver` and what the handler makes of a message), the heartbeat thread, which
asks paho first (`Beat`) and stamps or removes the liveness file later
(`BeatEnd`), the healthcheck of the container (`Healthy`), `Shutdown` by signal.
The broker is external: a durable session whose queue keeps what is not
acknowledged. Faults are bounded together by `MaxFaults`. Message bodies are
abstracted to what the topic's handler makes of them (`Outcome`). `tries` and
`excused` are history.

### Accounts
A request with a token is authenticated in a transaction of its own, which leaves
a snapshot of the caller (`caller`), then `Load`s and judges its target, and
commits. Sign-in, refresh and view-as sessions check first and mint afterwards
(`Mint`). A token is a record: whose, issued when, until when, and the sign-in it
descends from (`root`, history). Times are seconds, the resolution of `iat`.
`raced`, `late` and `excuses` name the overlaps a property excuses. Payloads that
do not pass validation (weak passwords among them) write nothing and are left out;
`Sends` are the columns that the others may carry, `Over` is a row with some columns
set anew.

### Affirmations
Requests that approve, reject or write a row directly. `Load` is the SELECT,
`Read` computes the columns that differ from the loaded row (that is what the ORM
writes), `Write` waits for the row lock, `Commit` publishes row and affirmation.

### KcCalendar
One calendar under concurrent replacement and deletion. A stage is known by the
request that inserted it and its place. Locks are explicit (`WaitsFor`), so that
lock cycles are states: `Deadlocked` sets, resolved by `Victim`.

### Records, FarmRecords, FarmHandlers, StaffHandlers
A row is a function from columns to values, its column `of` the row it belongs to
(`Records`). Every handler is an operator that returns the statements it executes
after its checks, given the row it loaded and what its checks saw: the owner's in
`FarmHandlers` (sectors, zones of a sector, notification zones, technicians,
groups, calibrations, alerts, map, conversations, feedback), the staff's in
`StaffHandlers`. `4xx` in a plan is an answer that leaves the transaction with
what it wrote before it, since a response returned from `session_scope` commits.
`FarmRecords` executes them: a request is `Load`, `Check`, then for each statement
`Scan` (the rows of its snapshot) and `Apply` (when no other transaction holds
them; it looks at those rows again, and at no others), then `Commit`, where
deferred foreign keys are checked (`Dangling`). `Fail` is a unique or foreign key,
or the ORM finding fewer rows than it saved; `NotFound` a counted DELETE that
counts none; `Victim` a deadlock. Which columns an ORM flush names is `Dirty`. A
technician's login and grant are one row; a group's unique name is a row of its
own, so that names collide and wait like rows.

### Reads, ReadHandlers
`ReadHandlers` has for each GET whom it answers, the kinds of row its answer is
made of, and its statements in order: a listing (`Rows`), further rows of each
listed one (`More`), one row that must be there (`Find`, `Demand`), a look-up that
may miss (`Lookup`), an aggregate (`Count`), with its guard (a savepoint, an
exception swallowed without one). `Reads` executes one request, statement by
statement, each on what is committed then, while others' commits and a failing
statement come in between. `could` and `must` are what the caller could see at
some moment and throughout. Endpoints with equal plans are asked once. A long
table of the code (the series of sensors, the browser's tables, the keys of a
snapshot) stands as two or three representatives.

### HistoryLog, SchemaCompat, EnsureTables
`HistoryLog` is one record on the transaction of its caller (a firing, a digest)
or on its own (advice): the cached probe, the savepoint, what the row says.
`SchemaCompat` is what the handlers ask of the schema: each feature of
`schema_compat.py` is a set of tables and columns, a handler names some, asks for
some first, and leaves out or refuses what it is told is missing; migrations and
the scripts of `web` change the schema meanwhile. `EnsureTables` is those scripts,
transaction by transaction, on the boot of `web`, while Alembic may be applying
migrations.

### AssistantChat, LlmConfig
One message: shortcuts go to the rules, the rest to the model, which asks for
tools round by round (`AskTools`, `Call`) until it answers, is cut off (`Capped`)
or fails (`GiveUp`, the rules answer). A tool that changes something is proposed,
and executed by the button (`Confirm`). A proposal is for the farm, for the selected
zone, which is filled in only where the model wrote nothing and only when it is the
caller's (`Prefilled`), or for a zone whose id the model wrote (`Written`), which may be
anybody's (`Owners`). `LlmConfig` is what an administrator saves,
what a chat makes of it, and the test of settings saved or still in the form; a
key is known by the provider it was typed for, and the address it is sent to
(`base_url`) is left out.

### Satellite
Requests in threads share one client: a cache by outline, and a token that a lock
protects while it is renewed, but not when a refusal drops it. One sector, one
day; what is cached and shown is an outline and whether it has the picture.

### Deployment
Containers with their waits, the entry point's roles, docker's restarts, and the
steps of a deploy: checkout, build, migration or stamp, recreation. A revision is
a number, the schema the set of revisions whose tables exist. The inspection that
decides between stamp and upgrade is misread when it fails (`Absent`), which is one of
the faults that `MaxFaults` bounds; the setting that asks for a stamp names a revision or
the head of the image (`AtHead`) and is there until the operator removes it (`Unset`).
`restamped` is history. `mounted` is the
bind mount of `docker-compose.yml`, through which a checkout is live at once.

### The MC modules
They give constants their values and compose. Four of them extend one component and
hold an instance each of others: `MCBackOffice` extends `BackOffice` and instantiates
`FarmRecords` (rows and requests in `MCFarmRecords`, `MCReads`,
`MCAccounts`), `MCServices` extends `AlertIngest` and instantiates `HistoryLog`,
`HourlySeries`, `LlmConfig`, `AssistantChat` and `Satellite`, `MCContainers` extends
`MqttSubscriber` and instantiates `Deployment` and `EnsureTables`, `MCCadenceItems`
extends `CadenceJobs` and instantiates `LegacyTasks`. `BackOffice` is `Accounts` with
instances of `Affirmations`, `KcCalendar`, `SchemaCompat` and `Reads`. `part` says which of them
a behaviour is about, and the others stay in their initial states: they share no
variable, so nothing is lost, and one run checks them all. The constants of the
instances are constants of these modules, so the theorems about an instance are about
all of their values. In `BackOffice`, `FailsForCause` also states the two properties
of `SchemaCompat` (`DegradesSafely`), and in `MCContainers` `BootsMigrated` that of
`EnsureTables`.

## Runs

Every passing run ends with all of its state space explored; sizes are distinct
states.

| run | configuration | states | bounds | shows |
|---|---|---|---|---|
| alert_burst | `AlertBurst` | 2.0 M | 2 uplinks of one reading, 2 alerts (farm zone, notification zone), clock to 2, 2 attempts, edits of one rule, crashes | spacing, refinement, duplicates only after a rollback, committed firings were pushed |
| delivery | `Delivery` | 2.2 M | a digest of 2 alerts, a zone-outbound request of 2 channels, 1 worker, 1 death | at most one message, silence, a truthful log |
| cadence_health | `CadenceHealth` | 540 k | 2 workers, 2 devices, 3 runs, clock to 2, fairness | whole-run transactions: windows, restores, refinement, no lock cycle |
| cadence_items | `CadenceItems` | 1.5 M | 3 native jobs on 1 item, 2 runs; or 6 jobs of the Django worker, 3 runs, 1 death or cutover | claims by item, silences, one claim for both workers |
| irrigation | `Irrigation` | 1.0 M | 2 workers, 1 program, days of 4 ticks, 6 instants, 2 edits, 1 death | one opening per start, none that was due forgotten |
| device_routing | `DeviceRouting` | 1.0 M | 2 frames of one sensor and 1 uplink of a router, or a frame and a reading that names an account; 2 administrator edits, 4 starting tables | routing, ownership, lost frames |
| back_office | `BackOffice` | 281 k | by part: 2 requests on 5 affirmations and 4 rows; 2 requests on a calendar of up to 2 stages each; 2 requests of a family on a farm with a row of each kind; 2 account requests at a time, 3 in all, 3 seconds; a read and 2 changes; 2 requests against the migrations | approvals, replacement, serial outcomes, sessions, regular answers, degraded schemas |
| services | `Services` | 432 k | by part: 2 uplinks claiming in opposite orders, 2 attempts; 3 history calls, 1 edit, fault and restart; 2 workers, 2 zones, 2 hours, 3 runs; 2 saves, 1 conversation of the settings; 2 rounds of tools, 1 press; 2 picture requests, 2 outlines, 2 tokens | deadlock victims, records that do no harm, hourly rows, keys, proposals, pictures |
| containers | `Containers` | 147 k | by part: 2 uplinks, 2 faults, a window of 3 beats; web and worker, 2 deploys (1 where the checkout is mounted), 1 fault; 2 held migrations, 2 boots, 1 fault; fairness | health, no silent loss, the queue drains, boots and revisions |
| alert_one_email | `AlertOneEmail` | violation | as alert_burst, with a bad value | see below |
| irrigation_midnight | `IrrigationMidnight` | violation | 1 worker, runs every 2 ticks | see below |
| kc_replaced | `KcReplaced` | violation | 2 requests | see below |

`CadenceRespected` and the gates say when something may happen again;
`DuplicatesOnlyAfterRollback`, `DuplicatesOnlyWhenUnsure`, `SilencedWasMailed`,
`LostForCause`, `AuthForCause`, `SerialUnlessKnown` and their like name the only
causes of what looks wrong, so a cause the code does not have is found.

**Why the bounds are enough.** The hazards are between two transactions, so two
actors reach them, three where a third has to change what both have seen. A clock
to 2 with a grace of one tick has an instant before, at and after the cutoff. One
death is enough where a second one meets the same states again; days of four ticks
hold a window on either side of midnight. Two administrator edits are what it
takes to transfer a device with its mapping still on the old zone, and to create a
zone called `lora` and delete it. A request of `FarmRecords` is handled once and
meets one other; the pairs that are tried are those of one family, requests that
write or look at a common row, since others commute. Three account requests are a
sign-in, what is done with its token, and the revocation between. Two rounds of
tools have a round after a tool and a cap. Every property is known to fail on a
changed model: `PROJECT.json` lists for each a mutant, a plausible bug, that
violates it under the same bounds.

**Reductions.** TLC's symmetry is used where permuted values are interchangeable
in the module and the configuration (workers, requests, alerts of one digest,
frames of one sensor), and never in a run with a liveness property. Where a run
has both, the MC module says which of the interchangeable actors moves first, as
the first of the idle workers in `MCServices`. `MCCadenceItems` lets the Django
jobs' clock and conditions turn only when somebody is about to look at them.
`MCContainers` deploys a mounted checkout once, since the safety properties of the
deploys excuse it. In
`Reads` and `SchemaCompat` what changes beside a request is what it reads.

**Fairness.** In `services`, weak fairness of every uplink handler's next
statement, the abort of a deadlock victim included: a web process runs its handler
to the end and Postgres resolves a deadlock after `deadlock_timeout`. In
`cadence_health`, weak fairness of each worker's next statement: a task is not
interrupted except by death, and provider calls time out. In `containers`, weak
fairness of the start of the subscriber (docker restarts it), of connecting and
of noticing a lost connection (paho's loop does), of delivering, handling and
acknowledging, of each container's next step of its boot, and of the recovery of
a service. Nothing is assumed of users, clock, heartbeat, faults or deploys. Runs
without a temporal property use a bare specification.

`CHECK_DEADLOCK FALSE` is everywhere: with every uplink handled, every bound
reached and nobody acting, these systems rest.

## Proofs

TLAPS proves the following for **every** number of uplinks, alerts, rules,
payloads, tasks, programs, devices, accounts, requests, workers and instants. Each
theorem is one argument: an inductive invariant (`IInv` where a module is about one
component), shown to hold at first and to be kept by every step (one step of the proof
per action), from which the property follows. `CadenceProofs`, `ContainersProofs`,
`BackOfficeProofs` and `ServicesProofs` are about several components that share a run.

Nothing is assumed but what the constants are. TLC evaluates each assumption in the
run of its module. Most are types. Those that say something about the code:

| assumption | says | because |
|---|---|---|
| `AlertIngest!GraceAssumption` | an alert's rules never have a grace below its `Spacing` | it defines `Spacing` |
| `CadenceJobs!TimesAssumption` | a run lasts at most `MaxRun <= Cooldown` | provider calls time out after 10 or 15 s (`email.py:31`, `sms.py:86`), so a run takes minutes, and windows are hours |
| `DeviceRouting!TableAssumption` | devices are at first in zones that are there | the foreign key of `zone_id` |
| `LegacyTasks!WindowAssumption` | a run lasts at most `MaxRun <= Window` | the same: minutes against hours or days |
| `MqttSubscriber!WindowAssumption` | the healthcheck allows two beats or more | beats of 15 s, an age of 60 s |
| `Accounts!JobsAssumption` | a payload has the columns of its schema | pydantic drops the others |
| `Accounts!AccountsAssumption`, `TokensAssumption` | at first no stamp and no token is from the future, a refresh token is a sign-in's, and there is an administrator | what a deployment starts from |
| `Affirmations!RowsAssumption`, `PayloadsAssumption` | at first the rows are there, and an affirmation asks for one of them | `create_affirmation` refuses others |
| `Deployment!RevisionsAssumption`, `ContainersAssumption` | the head is a revision, `None` and `AtHead` are none, `web` is a container, and each waits for a subset of the two services | `docker-compose.yml`, `docker-entrypoint.sh` |
| `SchemaCompat!TablesAssumption` | the tables that handlers name without asking are among those the scripts of `web` make | `list_devices` and the sectors ask only for what came later |
| `HourlySeries!WorkersAssumption` | there are finitely many workers | rows are counted |
| `NoneAssumption`, `UnbornAssumption`, `SlotAssumption`, `ShownAssumption` of several | what stands for nothing is no value | a choice of the model |

`CadenceProofs!HealthIsGated` assumes besides that `"health"` is one of `Jobs`.
The theorems about `Accounts` and `MqttSubscriber` have the assumptions of these modules
as hypotheses, those about an instance assume what the module of its run assumes.

### AlertIngestProofs
`TypeCorrect`; `Cadence` (`CadenceRespected`): committed firings of an alert are
more than their rule's grace apart; `RefinesGraceGate`: `Spec =>
ImplementsGraceGate`; `SpacedTasks` (`DuplicatesOnlyAfterRollback`); `FiringsPushed`
(`CommittedFiringPushed`).

`CadenceRespected` is not inductive: it speaks of committed firings, and what
commits is a claim taken many steps before. `IInv` adds that a claimed row has one
holder (`OneHolder`), that a claim was due against the *committed* stamp and still
is, since nobody else can commit that row while it is held (`ClaimsDue`), and that
a grace that a handler has read is not below its alert's `Spacing` (`Patient`).
`Commit` then turns claims into firings. The refinement is the same invariant read
once more: a commit restamps exactly the claimed rows, each due, and an alert whose
rule has grace `g` is due for `Spacing <= g`.

A push cannot be taken back, so `PInv` ties a task to the attempt that pushed it.
As long as that attempt was not rolled back, the alerts of the task are locked by
it or committed, with a stamp not before the task's (`TasksStamped`); whoever claims
one of them later is due after that stamp, and so is the mail it gathers
(`MailIsDue`). In the other direction a claim has been pushed on the channels of the
rule it was taken under, or is gathered for the mail, or the broker refused
(`ClaimsPushed`), and the mail is gone before the commit.

### AlertDeliveryProofs
`TypeCorrect`; `OneMessage` (`AtMostOneMessage`); `Silenced` (`SilencedStaysSilent`);
`TruthfulLog` (`LogIsTruthful`).

A task enters the broker once: the dispatch's are there at first, and the route
queues a channel that it has not queued (`TodoIsUnspent`). One worker takes it and
nobody else ever has it (`OneTaker`); until then nothing has come of it
(`UntakenIsFresh`), and afterwards what has come of it is a function of where its
worker is (`Stages`), or final when the worker is done or dead (`TasksKept`). What
was quiet when the task was taken is not in its body (`StageOf`), and what is quiet
is inactive (`QuietIsInactive`).

### CadenceProofs
Of `CadenceJobs`: `TypeCorrect`; `OncePerWindow` (`DuplicatesOnlyWhenUnsure`);
`NeverSilenced` (`SilencedWasMailed`); `HealthIsGated`: `Spec => ImplementsHealthGate`.
Of `LegacyTasks`: `ClaimsCountOnce` (`OneWorkersClaimCounts`), `StampsMean`
(`StampsMeanSomething`).

The claim covers the messages: no message that counts is younger than the committed
stamp or than what an open whole-run transaction holds (`Covered`), so a new claim is
a window after all of them. What makes this hard is the claim that is given back. The
stamp that is restored must cover the earlier messages (`Flight`); for the health job
it does because what a run read is the committed stamp, or another run has claimed the
item within `MaxRun <= Cooldown`, which makes the item not due for this one (`Fresh`),
and for the proactive job because the claim is the committed stamp while it is in
flight and there is one such flight per item (`Alone`). `SilencedWasMailed` needs that
a stamp is explained or its claim in flight (`Told`), and so is what a run has looked
at before its UPDATE, or else it is in `glimpsed` (`Glances`). The refinement: a commit of the
health job stamps items that were due (`Holds`) or leaves them as they were found.

The argument for the Django worker is the same one with claims that are visible at once.
A message that counts (`Counts`: its run was not rolled back, and no claim was given back
for it) is at or before the stamp, or the key, that the next claim is tested against, or
is that of a native run which holds the row (`Behind`). A claim that can be given back
gives back a stamp that is not before any message either (`Kept`): what a run loaded is
that stamp, or somebody has claimed the item within `MaxRun <= Window`. So claims for
which nothing was sent yet are a window from each other and from every message
(`Distinct`), and messages from each other (`Letters`). The slot of an idle zone in the
memory of a process is one that dies with it, so it is known by its process and how many
have died before (`Slot`). That a claim sends one message takes the numbers of the runs
(`Numbered`), of which the task of a queued alert has that of the run that queued it.
`StampsMeanSomething` needs that whatever a failed claim writes back was accounted for
when it was loaded (`Accounted`).

### IrrigationProofs
`TypeCorrect`; `Apart` (`FiringsApart`): two openings of a program are more than a
window apart; `OpensOnce` (`OncePerStart`); `NoneForgotten` (`DueIsServed`).

A program has one claiming worker (`OneHolder`), a visiting worker's program is due in
its run (`Visiting`), a claim is more than a window after the committed `last_run_at`
(`ClaimsDue`), which is at or after every recorded opening (`CommandsBehind`), ids are
born once (`RowsBorn`), an opening lies in the window of its start instant
(`OpeningsInWindow`). `OncePerStart` follows: two openings of one instant would be
within a window of each other.

`DueIsServed` is an action property: a run that commits leaves no program it found due
without an opening. It takes four more facts (`SInv`). A due program a run is done with
it has claimed, or the row has run since the window opened or is gone (`Attended`). The
run passes over it for what it loaded, and a row that had run then has run still
(`LoadedBefore`), or because both claims failed: the second sees that the row has run in
the window only as the first has seen that it has run at all (`Retrying`). And
`last_run_at` is the instant of a recorded opening (`Recorded`). What keeps them is that
ids are not handed out again and `last_run_at` only grows (`ServedNext`). That the run's
`isoweekday` filter agrees with the days the property counts from midnights is
arithmetic (`Remainder`, `WeekdayOfMidnight`).

### DeviceRoutingProofs
`TypeCorrect`; `FeedsOwner` (`FeedsTheOwner`); `AsAssigned` (`RoutedAsAssigned`);
`ForCause` (`LostForCause`).

A handler acts on rows that it read statements ago, so the invariant is about what
stays true of a zone id once a handler knows it. An id is of one open transaction, then
settled (`ZonesBorn`), and the owner of a zone never changes: the zone a frame aims at
is of the account it will name, or gone (`Aimed`), and so are the zones of a router's
owner (`OwnedKnown`). What a frame knows of its device is a row its serial had meanwhile
(`Informed`), which makes a reading right when it is written (`Right`), and nothing
makes it wrong later. For the placeholder `Right` asks for *a* catch-all zone: two
transactions can each create one and commit in the other order than their ids'. A frame
that may lose a race is one that began before the placeholder was there (`Early`), and
until a zone is deleted all that a frame refers to is there (`Intact`).

### ContainersProofs
Of `MqttSubscriber`: `TypeCorrect`; `UplinksKept` (`NoSilentLoss`);
`HealthIsConnection` (`HealthFollowsConnection`). Of `Deployment`: `RevisionIsTruth`
(`VersionIsTruth`). Of `Deployment` and `EnsureTables`: `NoBootIsUnmigrated`,
`BootsMigrated`.

An uplink in hand is the first that the broker has for the session, as long as the
broker is there to be told, and is stored before it is acknowledged (`InHand`): an
acknowledgement takes it off the queue, and nothing else takes anything off. For the
health, a beat that asked paho and has not acted yet is of the interval that is being
counted (`Prompt`), so it does what paho says now; one beat after a change the file says
what paho says, and may age until the next (`Fresh`), and a file without a connection is
older than its loss (`Ages`). With `Window >= 2` that file is not too old in between.

All of what follows is until a database is stamped again. Once the operator has named a
revision, and until it is stamped, that is what the schema, the image and every container
are of (`Named`); from the stamp on nothing runs, or is about to, that knows more than
the recorded revision (`Stamped`), so that the scripts of
`web` have nothing to add to it. Of those scripts, whatever is behind the transaction at
hand is in the database, but for a script that failed in this boot (`Behind`, `Begun`),
since nothing takes a table away (`Found`).

### BackOfficeProofs
Of `Accounts`: `TypeCorrect`; `Administered` (`AdminRemains`); `SessionsHaveSignIns`
(`SignedInSince`); `DeadStaysDead` (`Spec => RevokedStaysRevoked`, an action property).
Of `KcCalendar`: `StagesAreReplaced` (`ReplacedUnlessRaced`, an action property). Of
`Affirmations`: `ApprovalIsApplied` (`ApprovedIsApplied`, an action property). Of
`SchemaCompat`: `DegradesGently` (`DegradesSafely`). Of `Reads` and `SchemaCompat`:
`ReadsFailForCause` (`FailsForCause`).

A request that is to commit a stamp computed it before, so tokens are issued in between:
those that are not marked `late` are not younger than the stamp (`Issued`). A token
younger than the last revocation goes back to a sign-in that is, too (`Rooted`), which a
refresh keeps because a session about to be minted is older than no revocation that it
could know of (`Minting`). A request that no other overlaps stamps later than those
before it (`Newer`), hence a stamp goes back only among requests that overlap
(`Overlaps`). Who takes the last administrator away: only an administrator's request
changes who is one, never its own level (`Ruling`), so a request that leaves nobody was
made by somebody who is no longer an administrator, or switched off itself.

A replacement that nobody overlaps reads, drops and counts what it later commits over:
whoever commits in between marks it as raced, so as long as it is not, the rows it has
read are the committed ones (`Undisturbed`), and no row has its stages before it has
inserted them (`Born`). An approval likewise: what it found to be as asked for, or is
about to write, is what the row will hold (`Pending`), since the row is locked from the
write to the commit (`Held`). A process of the API that takes a feature to be there is
right, because nothing takes a table or a column away (`PresentIsThere`); what a handler
names besides are tables the scripts owe.

For the reads the environment is any transaction that deletes no account and leaves
no reference to one that never was (`Commit`, of which the run takes those of
`FarmRecords`), and the deletion of an account (`Leave`). A request fails on a row only
where a statement takes it to be there (`strict`). That this is never anything but the
account of the caller, or the one a listed row names, is a lemma about the plans of all
78 endpoints (`EveryPlan`: each is a sequence of `Fitting` statements); the mutant that
demands the sector of a zone fails there as it does in the run. An account that a shown
row names was there when the row was read, so it is there still or has left
(`Referred`), and a transaction is aborted by a statement that failed (`Reading`).

### ServicesProofs
`RecordingIsHarmless` (`WorkSurvivesItsRecord`), `OneRowPerHour` (`OncePerBucket`),
`KeysStayHome` (`KeyGoesToItsProvider`), `ProposalsAreOwn` (`AlertsOnOwnZone`),
`RefusalHasACause` (`AuthForCause`), `PicturesAreOfTheSector` (`ShownAsDrawn`).

Each has an invariant of its own. A transaction that was not spoiled by a swallowed read
is sound until its commit (`LogInv`). The key that a chat has resolved is that of the
provider it was resolved with, or was carried to it (`ConfigInv`). A zone is known to the
assistant only by a look at it while it was the farmer's, and what is offered on a button
for the selected zone was known (`ChatInv`); a zone the model wrote is excused. A row that is there twice, or is about to be, is of an hour in
which two runs were open (`Doubled`), and a zone's second series follows its first, in the
table or in the hand of the run that goes on (`Coupling`). A request without an excuse is
on its first attempt, or has or will get a token that is accepted (`Renewed`); what is
cached for an outline is a picture of it (`Drawn`).

### How the invariants were found
Each was checked by TLC before its proof. On the configurations of the runs, or on
ones like them with the specification of the component alone: `DeviceRouting` 1.0 M
states; `SInv` of `IrrigationRunner` 1.0 M; `CadenceJobs` 540 k for the health job, 1.0 M
for the others, and for health and proactive together with `Cooldown = MaxRun = 2` and a
clock to 4, 224 k with two runs and the first 6.8 M with three; `MqttSubscriber`
45 k with a window of 2 and two faults, 187 k with a window of 3 and three; `Accounts`
26 k, 42 k and 7.5 k for the three sets of requests of `MCAccounts`, 20 k for all of
them together, 56 k for three at a time; `Reads` 39 k.

`LegacyTasks` was explored entirely with two runs, to depth 14 with three, and by
simulation with a window of 2.

Looking for proofs changed the project four times. `ApprovedIsApplied` used to speak of
the status of an affirmation: with three requests, one that died after another had
approved the same affirmation refuted it, so it now speaks of the commit that approves.
`OneWorkersClaimCounts` excused two messages of one run; the proof never needed it, and
the excuse is gone. `Leave` used to require that no row refers to the account, as a
foreign key would; looking for what keeps that true showed that the tables which the
boot makes have none, and the theorem holds without it. `AnswersAreRegular` held among
writers that made no row; an environment that may do anything showed one made in a zone
after it was taken out of the grant, which a technician is shown and could see at no
moment. The run now makes rows, and the property names the exception (`Outdated`).

### What is only model-checked
- Liveness under fairness, out of the prover's reach: `RunsEnd`, `HandlersFinish`,
  `EventuallyHandled`, `EverythingComesUp`.
- `SerialUnlessKnown` of `FarmRecords` and `AnswersAreRegular` of `Reads`.

`SerialUnlessKnown` compares with every order of the requests, whose outcome is a fold
over the statements of a plan: induction over data, which the prover cannot do.
`AnswersAreRegular` says of each of the 78 plans that it reads every kind of row it
shows, finds the rows of each by their parents and looks at the scope, and of what
commits that it moves no row in a way that `moved` does not see: one argument per
endpoint, and no short invariant. No module uses `RECURSIVE`; sequences are walked with
the folds of the community modules.

## What the code does not keep

Three disagreements between the code and what the repository says of it have a
run of their own, with TLC's counterexample:

- **An e-mail again after a rollback** (`OneEmailPerGrace`, `AlertOneEmail.cfg`).
  `docs/flows/alerts.md:353-356` has one e-mail per grace. Tasks are pushed
  before the commit (`ingest.py:583`); when a later reading of the payload is
  refused by the database the claim rolls back, the e-mail does not.
- **The last minutes of a day** (`StartsAreCaught`, `IrrigationMidnight.cfg`).
  `start_dt` is put on the date of the run (`tasks_scan.py:360`), so a start
  between the last run before midnight and midnight is never found due.
- **Two writers of a calendar** (`StagesOfOneWrite`, `KcReplaced.cfg`).
  `routers/kc.py:9` has the periods fully replaced on every write; two
  overlapping ones leave both payloads.

The modules state others. To see TLC refute one, add it to the configuration
named:

| property | configuration | where | what the text says |
|---|---|---|---|
| `AnsweredIsStored` | `Services`, as an invariant | `ingest.py:800` catches the deadlock, Postgres has aborted the transaction, the commit rolls back, the answer is 201 | `ingest.py:789` "Alert dispatch must never abort the ingest loop" |
| `NeverRaises` | `Delivery`, as an invariant | `tasks_comms.py:61`, a delivery-log commit that fails | `tasks_comms.py:14` "never raises" |
| `OneMailPerWindow` | `CadenceHealth`, as an invariant | `tasks_scan.py:63`, a worker that dies before the commit of its run | `tasks_scan.py:55-56` "at most once per cooldown window" |
| `ProgramsHaveZones` | `Irrigation`, as an invariant | `admin_analytics.py:621`, the table has no foreign key | `apps/irrigation/models.py:688-690` CASCADE |
| `DecidedOnce` | `BackOffice`, as a property | `manager_affirmations.py:309`, the status is checked on an unlocked read | `docs/flows/alerts.md:398` "immutable after" |
| `FieldCapacityAboveWilting` | `BackOffice`, as an invariant | `manager_affirmations.py:124`, only columns named together are compared | `manager_affirmations.py:127` |
| `NothingDropped` | `DeviceRouting`, as an invariant | `ingest.py:736`, the raw record is in the transaction a foreign key or a unique key rolls back | `ingest.py:735` "for EVERY frame — nothing dropped" |
| `PlaceholderOwns` | `DeviceRouting`, as an invariant | `ingest.py:250`, the catch-all is any zone *named* `lora` | `ingest.py:278-281` "owned by the `lora` placeholder user" |
| `WedgedGoesStale` | `Containers`, as a property, with `SPECIFICATION MCHeartbeats` | `mqtt.py:145`, `is_connected()` of a main thread stuck in a callback stays true | `mqtt.py:141-143` "a WEDGED-but-connected client also goes stale/unhealthy" |
| `NoHourIsPoisoned` | `Services`, as an invariant | `tasks_compute.py:42`, two overlapping runs insert twice, and every later run of that hour raises `MultipleResultsFound` | `tasks_compute.py:41` "keep exactly one row per bucket" |
| `PictureOnceThere` | `Services`, as an invariant | `satellite/cdse.py`, what was asked before the picture was published is cached as long as a picture | `satellite/cdse.py:13` "images per date never change" |

What follows is not a property of its own, but a named exception of one that is
checked, or a precondition; without it TLC refutes the property under the run's
configuration, except where it says *left out*.

**Records** (`SerialUnlessKnown`)
- Two replacements of a technician's scope (`technicians.py:155`), or of the
  zones of a sector (`sectors.py:509`), leave both sets, or fail on the unique key
  where they share one: a DELETE that waited does not see what the other one
  inserted. One that overlaps the deletion of the sector leaves zones whose sector
  is gone, which `farm_overview` lists nowhere.
- Map preferences (`farm_map.py:413-458`) and the assistant's settings: columns not
  sent are written back as they were loaded, and a PUT that keeps the key restores
  one that was removed meanwhile. Both create a row when they find none, twice.
- Two updates of one column, one of them to the value it has: that one is not
  written, so the outcome mixes. Conversations mix the same way, and of two first
  PUTs of one the second is a 500 of the unique key, as is a racing retry with the
  same `client_ref` of a placed sensor.
- Two backfills, or one and the deletion of its range, leave readings twice or for
  a zone without data; it copies `device_id`, which may resolve to another zone.
- A refusal after a first write keeps that write: `update_sector` with a bad shape
  answers 400 or 503 and keeps the new name (`sectors.py:447`), `create_technician`
  with a foreign zone keeps the login and its grant (`technicians.py:239`).
- Zones, grants and plans with dependents that appear at the last moment fail at
  the deferred key of the commit, as a 500 instead of the 400 of the flush.
- Two edits that bind an alert to a zone and to a notification zone leave both set,
  and so does one PATCH that sends only the other (`alerts.py:147` says "not both").

**Accounts** (`excuses`, `raced`, `late`)
- Tokens of the second of a revocation survive it; a refresh that was checked
  before a revocation mints after it (`auth_issuance.py:378`).
- `patch_user` that disables an account does not stamp `sessions_revoked_at`, so
  its old tokens work again when it is enabled.
- An administrator who switches off the own account is answered 400 after the row
  was changed, and that commits (`users.py:539`).
- The lockout is per process and per spelling, and failures that overlap count once.

**Reads** (`Outdated`)
- An account that is deleted in the browser of the tables while a grant refers to it
  fails the list of the technicians until the grant is deleted too, where
  `scripts/ensure_technician_tables.py` made the table: the model it makes it from has
  no foreign key (`apps/irrigation/models.py:158`).
- The scope of a grant that is revoked or narrowed while an answer is put together,
  and with it rows that are new in a zone that is not granted any more; statements
  of one answer are of different instants; `farm_map` and `available_sensors` lose
  what follows a failed statement, in the aborted transaction.

**Jobs and workers**
- A failed send of a whole-run job gives back the stamp it loaded; a run that
  loaded before another gave its claim back restores an old stamp and silences the
  device a window with no message (`agriapi/tasks.py:1346-1348`, `Revivable`).
- Two runs of `scan_proactive_insights` for one customer: the second SELECTs the claim
  the first has in flight (`tasks_scan.py:244-253`), the first fails and takes it back,
  the second claims, fails too and restores what it read (`:295-300`): the customer is
  silenced a window with no message and no death (`SilencedWasMailed`, `glimpsed`).
- Django's idle-zone slot lives in one process (no `CACHES`), so a restart mails
  again; `simulate_sensor_ingest` always raises; its SMS and WhatsApp are unlogged.
- Each statement of a Django job commits by itself; `docker-entrypoint.sh:162-164`
  says the two workers must never run together, `LegacyTasks` shows which claims
  hold even so.

**History, schema, assistant, imagery**
- `record_notification_decision` reads outside its savepoint: a failed read aborts
  its caller's transaction, and the delivery-log row is silently rolled back
  (`history.py:26` "Recording must never break what it records"; `spoiled`). A
  failed inspection is cached as an absent table until the restart.
- The probes of `schema_compat` are cached per process, so two web processes may
  differ after a migration; the scripts make absent tables, never the columns of
  an older one, and the worker does not wait for them.
- A PUT that keeps the key while it changes the provider carries the old key there
  (`carried`), and one that changes its `base_url` sends it there; a test of settings
  with a key and an address from two reads mixes them (`admin_assistant.py:169-185`;
  both of `base_url` left out). A button pressed twice creates two alerts; a `ProviderError` after a
  proposal drops it.
- An id that the model writes for the zone is kept (`llm.py:157-159` fills in the
  selected zone only where there is none) and stored as it is (`tools.py:831-832`), so an
  alert may land on another's zone (`AlertsOnOwnZone`, `named`). A null that it writes
  makes an alert of the whole farm out of one asked for the selected zone.
- A token that is dropped without the lock may be the new one (`refusedI`).

**Deployment** (`mounted`, `restamped`, preconditions of `GitReset`)
- With the bind mount of `docker-compose.yml` a restart between checkout and
  migration boots new code on the old schema; the droplet's override removes it.
- The first deploy with a stamp must carry no migration, since the stamp hides it;
  a revert after it cannot be migrated, and the deploy aborts.
- Any failure of the inspection (`docker-entrypoint.sh:222`) is taken for an absent
  `alembic_version`. While `ALEMBIC_STAMP_REV` is still set, line 227 then stamps a
  database that has a revision in place of upgrading it, and the deploy goes on: new code
  on the old schema, or a revision that is not the schema (`restamped`).
- With the gate off, or a failure of a script swallowed, `web` serves without its
  tables until it is restarted.

## Not modelled

- **Application frame**: routers' registration, middleware, CORS, logging, images,
  nginx: no state of their own that a property tells apart.
- **Agronomic formulas**: they are in the package agri-core, which is not in this
  repository. A computation is a success or a failure.
- **Texts and decoding**: message wording, serializers, and the decoding of payloads
  beyond what a handler makes of them (`Content`, `Outcome`).
- **Django's HTTP views and administration**, which nginx no longer routes to, and
  its models and migrations except where they define a column or key that the
  native code relies on. Table definitions of the map are left out as DDL.
- **Left out of modelled components**: `alert_burst` leaves out deadlocks and
  resends (services has them), and `cadence_health` changes of the items
  (cadence_items has them). `/alerts/for-graph` commits what agri-core may stamp.
  Devices' coordinates and the renaming of zones and tags are not in
  `DeviceRouting`, where a request that changes several columns does so in several
  steps. What the browser of the tables (`admin_db.py`) writes into an account is not in
  `Accounts`, nor the address of a provider in `LlmConfig`. The sign-in log, audit rows and
  status colours of the map are left out. The recreation of a container is one
  step. A crash of the broker between a push and its delivery is a refused push.

`PROJECT.json` gives the reason for each component that is partly modelled or not.

## Plan

What is left, in this order:

1. **More proofs.** `AnswersAreRegular` of `Reads`, family by family of its endpoints.
2. **Pure functions**: device health, zone status and bucketing as operators against
   reference definitions on bounded inputs.
3. **Composition**: an uplink through `MqttSubscriber`, `DeviceRouting`,
   `AlertIngest` and `AlertDelivery`, with the tasks pushed by the one taken by the
   other; today each is checked against all that the others can do to it.
4. **What the partly modelled components lack**: the Django views if they are routed
   again, and the tables that the boot makes for the map.
