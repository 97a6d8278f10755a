# Shirokuma: a verification development

Shirokuma's *local experiment* (`tools/local_experiment/`) is a small data
platform that runs on one machine: Python servers and command-line programs
around a local Kubernetes cluster with Trino, an Iceberg catalog and an object store. This
directory models the parts of it that carry its own logic, in TLA+: what the
programs keep, what each operation does to it, and what happens when operations
of several threads and processes meet, fail half way or die. TLC checks the
models on small instances; TLAPS proves the central invariants for every value
of the constants. `src/` below stands for the root of the repository.

## 1. The system

### Components, what they keep and what they do

The first table is the server and what its threads run; the second what operators
run beside it; the third the repository itself.

| Component | State | Operations | Interacts with |
|---|---|---|---|
| Jobs ledger and worker, `jobs_resident.py` | SQLite: `jobs`, `schedules`, `runs`, `steps`, `stage_files`; the file lock `jobs-active.lock`; one worker thread | `save_job`, `submit_run`, `get_run`, `list_runs`, `list_schedules`, `_recover`, `_worker` | request threads and the tick submit; the worker calls Trino, ingest, dbt, wap, alerts, stages, exports, marts |
| Scheduler, `schedule_resident.py` | `schedules.enabled`, `next_run_at`; the file lock `jobs-scheduler-tick.lock`; a thread per server | `save_schedule`, `_tick`, `_next` | ledger (admission), stages and marts (preflight) |
| Stages, `stages_resident.py` | `stages`, `stage_files`; the registered directories | `save_stage`, `preview`, `submit_import`, `submit_scan`, `_claim`, `_execute_import` | ledger, ingest |
| Stage exports, `stage_exports.py` | exported files | `submit_export`, `_execute_export`, `_publish` | ledger, Trino |
| Marts, `marts_resident.py` | registry of targets, versions, change baselines | `save_target`, `submit_refresh`, `save_schedule`, `_refresh` | ledger, WAP |
| WAP, `wap_resident.py` | sandbox and mart tables and their snapshots, model operation lock | stage, audit, publish, refresh, roll back | Trino, dbt |
| Warehouse, `warehouse_resident.py` | file lock `warehouse.lock`, `auto_chill.json`, `last_activity.json`, a daemon per server, the deployment's replicas, the owners of continuations | `query`, `execute`, the Trino endpoint, `transition`, `configure_auto_chill`, `check_auto_chill` | kubectl, Trino |
| Alerts, `alerts_resident.py` | the table `alerts` | record, acknowledge, retire | worker, `save_job` |
| Ingest, `lake_ingest.py` | staging tables | `ingest` in four modes | Trino |
| SQL Server sync, `sqlserver_sync.py` | stage and candidate tables, watermark | `sync` | Trino |
| Authentication, `request_auth.py`, `trino_auth.py` | accounts, the default role | the role of a request, of a schedule, of a run's thread | every request |
| Server and page, `workbench_server.py`, `workbench/index.html` | none of its own | routing; the page polls | all of the above |

| Component | State | Operations | Interacts with |
|---|---|---|---|
| Backup and restore, `disaster_recovery.py` | one archive; the files, tables and views it restores | `backup`, `restore` | state directory, Trino |
| Bucket export and restore, `object_storage_backup.py`, `object_storage_s3.py` | a directory; a bucket | export, restore, smoke test | the object store and its other clients |
| Experiment runner, `local_experiment.py` | `plan.json` of each run, the pointer to the active run | prepare, apply, resume | Kubernetes, two Flux reconcilers |
| Lab, `lab_lifecycle.py`, `agenthouse/manage.py`, `loki/manage.py`, `polaris_permissions.py` | virtual machine, containers, volumes, secret files, roles and grants | up, down, permissions | Docker, kubectl, Polaris |
| Iceberg bootstrap, `IcebergBootstrap.java` | catalog, namespace, table, fixture file, marker | a run of the job, a cleanup | Polaris, the object store, Kubernetes' restarts |
| Pipeline, seed, benchmark, image build; `bears_resident.py`; the Go command line | none | straight-line programs | dbt, Trino, Ollama, Docker |

| Component | State | Operations | Interacts with |
|---|---|---|---|
| Image admission, `verify_supply_chain.py`, `verify_gitops_image_admission.py`, `verify_trivyignore.py` | the ledger of images, scan reports, exceptions, receipts, manifests, the accepted findings | checks of the tree on a day, in a strict and a lab profile | people who edit the tree, the owner who approves |
| Other checks, `scripts/` and `docs/design/evidence` | none | one pass over documents | none |
| Deployment, `deploy/` | manifests | applied by Kubernetes and Flux | none |

### What is hard

The servers are threaded, several may share one state directory (the Workbench
and a command line, or two servers), and the only means of exclusion are
`flock`s, SQLite transactions and in-process locks. The hard behaviour is

* **a lock that changes hands.** A request takes `jobs-active.lock`, commits a
  run, and gives the open descriptor to a thread it starts; the thread closes it
  when the run ends. Everything that dies on the way drops the lock, and leaves
  rows behind that only the next holder may settle.
* **recovery by reading.** `list_runs`, `get_run` and `list_schedules` take the
  lock if they can and declare every unfinished run lost. If they could do so
  beside a live worker they would end a run that is still working.
* **outcomes that are not known.** An import, an export, a publication or a
  statement may have taken effect although the call raised, the answer was lost,
  or the record could not be written; the ledger must say `unknown` and must
  never repeat it without being asked.
* **several writes that are one step to their reader.** A refresh writes the
  table, the registry's baseline and the ledger; an export a file and a row; a
  bootstrap a table and its marker; a restore files, tables and views.
* **statements that outlive their client.** Trino goes on with what a dead
  process asked for, over tables that somebody else has changed since.
* **automation.** Scheduled slots are consumed, skipped or deferred against a
  ledger, a clock and a lock that change meanwhile.
* **an idle check that stops a server.** Auto-chill looks, waits for the gate,
  looks again, polls Trino, and looks a third time before it scales to zero.
* **what is checked and what is used.** A file is listed, claimed and read; keys
  are checked and merged; a bucket is empty and then written; a role is looked up
  and then used by a thread of its own; a tree of files agrees pair by pair.

### What makes each component correct

* *Ledger*: one run at a time; recovery only when nobody is at a run; ended runs
  stay as they are; steps tell what was done; content is imported once, and
  again only on request; every run ends.
* *Scheduler*: a slot is consumed at most once, and never run late; no catch-up;
  a pause sticks; a tick gives its locks back; one bad schedule does not starve
  the others. The next occurrence is the least valid one after now, across gaps
  and folds of local time.
* *Stages and exports*: only claimed bytes reach the table; what the ledger says
  of a content is true; an export is all of its table, for the definition that was
  asked for, and the ledger never denies one that is there.
* *Marts and WAP*: a publication is of an audited snapshot; automation never
  passes an unresolved outcome; the baseline never hides a change; a timed check
  is for the registered definition.
* *Warehouse*: no stop between a request's wake and its statement; auto-chill
  only when the setting is on, the warehouse idle and none of the statements running
  that its poll counts;
  turning it off returns; a continuation belongs to the one it was given to.
* *Alerts*: an open alert is of a saved rule and the only one of its kind; what
  was resolved stays so.
* *Roles*: nothing is done above the role it was asked for, nor above what the
  user holds when it is done.
* *Loads and syncs*: readers see a load whole or not at all; stages are dropped;
  unique keys stay unique.
* *Restores*: success is complete, a ledger in use is kept, restored schedules rest,
  and a restore ends. A bucket's export is exact, its restore spares what is there.
* *Runner*: a suspension of a reconciler is never forgotten; resume gives back
  what was there.
* *Lab*: the secret on the disk is the container's; commands go on from wherever
  one stopped.
* *Bootstrap*: one fixture; a report holds as long as it should.
* *Image admission*: what passes was scanned, accepted and released together.

`PROJECT.json` lists the hazards at their lines with the properties that cover
them.

## 2. The modules

### `JobsLedger`: the ledger, admissions and the worker

`JobsLedger` models `jobs_resident.py` and the parts of the scheduler, stages,
exports and marts that touch the ledger. State and code:

| Variable | Code |
|---|---|
| `lock` | the `flock` on `jobs-active.lock`: free, a request thread's, or the worker's of a run (the same open descriptor) |
| `runs`, `steps`, `files` | the tables `runs` (with the submitted definition as `plan`), `steps`, `stage_files` |
| `enabled` | `schedules.enabled`; its `next_run_at` is abstracted to "may be due at any time" |
| `pc`, `reg` | where a request thread or the tick is, and the run it has inserted |
| `worker` | the worker thread of each run: its point in `_worker`, its position, the outcome of the exception it handles |
| `begun`, `reported`, `ingests` | history, in no table: what was really started, returned, and handed to ingest |

One committed SQLite transaction is one step; so is one call that leaves the
program. `TakeLock`, `Submit...`, `StartWorker` / `StartFails`, `Close` are a
submission; `Recover` the readers; `TickRefused`, `TickAdmit`, `TickSkip`,
`TickSkipBusy`, `TickDefers` one due slot of the tick; `SaveSchedule`,
`SaveMartSchedule`, `EditMart` the settings; `WorkerStart` to `WorkerCloses` the
worker, in the order of its code: the gate (account, mode, 900 s budget), the
claim of content, the call, its return or exception, the success transaction or
its failure, the failure transaction. `RequestDies` and `WorkerDies` are the
death of a process and every exception that is not handled.

Abstracted: what a step does (an action is `sql` unless it has bookkeeping of its
own), the definitions and parameters, and account names. A run's number
is its insertion order (`rowid`); a `uuid4` does not repeat. Of times only that
of a mart's run is kept (`created`), because `_requires_manual` goes through the mart's
history by `created_at` before `rowid`: an admission reads any value of the clock
(`Created`), so the clock may be set back between two runs, and `Newer` is the order of
the code.

### `JobSlot`: the abstract promise

One place, no queue, runs declared lost only when the place is empty.
`JobsLedger` implements it with `status` the runs' status and `holder` the run
whose admission or worker has the lock (`ImplementsSlot`): lock file, threads,
steps, claims, deaths and recoveries are all stutters or steps of `JobSlot`.

### `StageClaims`: the abstract promise about contents

Whoever takes contents takes them together and settles what others left behind; works on
one at a time (`Begin`, `Import`, `Doubt`, `Succeed`); at the first that fails frees those
that still wait (`Fail`); or is gone (`Crash`). `claim` is the status in `stage_files`,
`place` where a content is with its holder, `handed` how often it went to ingest. Two models
implement it (`ImplementsClaims`): `JobsLedger`, which has threads, runs of any kind and the
lock, but knows contents by their claim only, and `Stages`, which has one job and the
directory with its files. So what `Stages` leaves out of the ledger does not matter
for contents: both keep the same promise of the same columns.

### `Warehouse`: the gate, the setting, the daemons

`Warehouse` models the control of `warehouse_resident.py` for any number of
server processes on one state directory.

| Variable | Code |
|---|---|
| `gate` | `warehouse.lock`, held shared by requests, exclusively by stops and changes of the setting |
| `mutex`, `starter` | `_ACTIVITY_LOCK`, `_AUTO_CHILL_LOCK` of each process |
| `saved`, `minutes` | `auto_chill.json`; `_AUTO_CHILL_MINUTES` |
| `shared`, `last` | `last_activity.json`; `_LAST_ACTIVITY` |
| `up`, `queries` | the deployment has a replica; statements running in Trino |
| `hidden` | those of them whose text names `system.runtime.queries`, which the poll leaves out |
| `alive`, `stop`, `pc`, `then`, `local` | processes; `_AUTO_CHILL_STOP`; threads and their local variables |

`Enter` to `Leave` are a request inside `warehouse_activity`; `Answer` may leave
the statement running, as a page of the endpoint does. `AskChill`, `Chill` stop
by hand; `AskConfigure`, `Configure`, `StartDaemon`, `StopDaemon`, `Joined` are
`configure_auto_chill`; `Check`, `CheckGate`, `Recheck`, `Poll`, `PollFails`,
`Decide`, `AutoChill` are `check_auto_chill`, by a daemon or asked for.
`Starts` is a start of the server, `Dies` its death at any step.

Abstracted: SQL and its policy, telemetry, kubectl (a scale takes effect or the
call is a `Fails`), HTTP and its retries, credentials.

### `Schedules`: the tick against clock, lock and owners

`JobsLedger` lets any slot be due at any time and keeps the ledger's rows.
`Schedules` keeps what `_tick` of `schedule_resident.py` decides by, and reduces
the ledger to one bit. The two describe the same steps: `TickAdmit` is a
`Consume` that starts, `TickSkip` and `TickSkipBusy` one that does not,
`TickDefers` a `PassOver`, `StartFails` is in both.

| Variable | Code |
|---|---|
| `now`, `backs` | `_now()`, in half minutes; the wall clock may be set back |
| `sched` | `schedules`: kind, `enabled`, `next_run_at` |
| `last` | history, in no table: the slot consumed last since the schedule was saved |
| `unfinished` | whether `runs` has a queued or running row |
| `lock`, `claim` | `jobs-active.lock`, `jobs-scheduler-tick.lock` |
| `txn` | the connection whose `BEGIN IMMEDIATE` is open |
| `tick`, `stop` | where the `_tick` of each server is, with its local variables; `_STOP` |

`Begin` takes the claim and `Scan` lists the due names; `TakeLock` or
`LockRefused` begins a name; `PassOver` leaves a slot that has moved meanwhile,
or whose lock belongs to a recovery; `Open` begins the transaction and reads the
row again; `Preflight` is the time the checks of the input take; `TimeSetBack`
and `Consume` end it with the second reading of the clock; `Start`, `StartFails`
hand the lock over; `EndTick` ends the tick, `PreflightRaises` and `Aborts` end
it early. Beside it `WorkerRecords`, `WorkerCloses`, `OtherTakes`, `OtherLeaves`
are the lock's other users, `Save` and `Pause` the owners. Everything that
writes waits for `txn`. The result of a check is chosen when it is made: a
definition or an account may have become invalid since the schedule was saved.

Abstracted: the definitions, accounts and files that are checked; the texts of
reasons; when a schedule is saved, the clock is read and the row written in one
step. Of a calendar only its times are kept (`Occurs`).

### `Calendar`: `_next` and `_local_time`

The day-by-day search of `_next` for daily, weekly and monthly schedules, as
operators (`LocalTime`, `Found`, `NextTime`), against what an occurrence is: the
first instant at which the clock of the zone shows the schedule's time on one of
its days (`Occurrences`). `zoneinfo` is external: `Wall` turns UTC into local
time, `FromWall` a local time with `fold=0` into UTC, and `LocalTime` rejects a
time the clock skips by the round trip, as the code does. The state machine
follows one schedule through its slots, each consumed at once or an hour late.
Days, weeks, months and the year are scaled down; a zone changes its offset
twice. What a zone and a calendar are is said by `IsZone` and `DaysRecur`: changes further
apart than offsets, jumps of a day at most, and days of the month that come again within a
third of the days searched (the longest wait, for a 31st, is 62 of 370).

### `Stages`: one stage, its imports and scans

`JobsLedger` knows content by its claim. `Stages` puts the directory beside it:
`disk` is what lies there and may be rewritten at any time, also under the same
size and time (`stamp`); `claims` is `stage_files`; `rows` how often each content
was ingested, and `landed` whether it was since its last claim. One record, `job`,
is the holder of the jobs lock with its place, its listing and its imports left,
since lock and worker follow each other. `List` and `Describe` are two looks at the
directory as in `_scan_steps`; `Admit` claims what is claimable of it; `Read`,
`Mark`, `Ingest`, `RecordImport` are `_execute_import` and the worker's
transactions. An export is here only a run that has the lock (`AskExport`, `EndExport`).
`Restart` and `EndFailed` are deaths and failures with what they leave `unknown`. `SaveStage`
changes the definition meanwhile and turns scans off; `EnableScans` is for the
definition its owner had read. The keys of two definitions differ if anything differs
that enters `_claim`'s digest (`Meaning`).

### `StageExports`: exports of a table into files

`stage_exports.py` with the worker of `jobs_resident.py` and `export_table` of
`lake_ingest.py`.

| Variable | Code |
|---|---|
| `revision` | `stages.updated_at`, which `_current` compares: a counter, so two saves never have one time |
| `size` | the table in Trino, as its number of rows |
| `asked` | what `submit_export` has read of the stage before it takes the lock, and the name |
| `export` | the holder of the jobs lock: the request, then the worker, with what its statements returned and what has become of its step |
| `runs` | `runs` and `steps`: a run is one step |
| `dir`, `temps` | the exports directory: whose file has each name, and the temporary files |
| `kept`, `linked` | history: temporary files that could not be removed; what each run linked and under which definition |

`ReadStage` to `Admit` are the request, `Start` to `End` the worker, in the order of the
code: `Check` looks at definition and name, `CountRows` and `ReadRows` are the two
statements of `export_table` (between which the table may change; one row more than the
limit is asked for), `Verify` compares them, `BeginPublish`, `Link`, `Commit` are the transaction
around `os.link`, `Clean` the `finally`, `Record` the worker's transaction with its
failure. Each can raise, and `Raises` leaves open whether the worker takes that for `failed`
or `unknown`; only a failed `Commit` is always `unknown` (`StepUnknown`). Beside it the
stage is saved anew (`SaveStage`, not while the transaction holds the ledger: `Held`), table and
directory change, the process dies (`Restart`), and readers settle what it left
(`Recover`). The bytes of a temporary file are the export's own: its name is random and nobody
else writes to it. The limit of 25 MiB is one more way to raise.

### `Marts`: one managed mart

`marts_resident.py` and `wap_resident.py` together, since the registry entry and the
tables are shared. Three actors: the refresh, as an admitted job of the page or the
tick; the editor of a definition; and an operator's command (stage, publish, rebuild,
roll back). `source` and `newest` are the sources' snapshots; `sandbox`, `target`,
`past` the tables with what they were built from; `late` a replacement that Trino still
executes for a client that is gone; `entry` the registry with its baseline; `schedule`,
`run`, `debt` what the ledger says; `jobLock`, `opLock` the locks. `ReadEntry`,
`ReadSource` (a snapshot at a time), `Decide` are the change check;
`Build`, `Audit`, `Replace`, `Record` the operation, whose statement names the
audited snapshot; `SaveBaseline` and `Finish` the two writes after it, each of which can
fail. `CrashServer` and `CrashOperator` come at every step. What others write to the
target, and sources that go back to an earlier snapshot, are remembered in
`outside` and `rolled`; `doubt` is what the code should think of the last outcome. A
manual refresh that succeeds settles what was unknown before it, as it does while the clock
is not set back; `JobsLedger` has the case in which it is.

### `Lake`: loads and syncs of a table

`lake_ingest.ingest` with its modes and `sqlserver_sync.sync`, as processes that take
no lock against each other. `target`, `stage`, `candidate` are tables, bags of rows
that know the load they came from; more than `Copies` of a row count as so many. What a load
is given may name a key twice; only an upsert keeps one row of each (`Loaded`), the others
write what they have. Every statement can fail without effect, or take effect and lose its
answer, or lose it first: then it is `pending`, its client raises and cleans up, and it
`Lands` at any later time, or never. A stage that is created after its `DROP TABLE
IF EXISTS` stays (`leaked`, history, with failed drops and deaths). One statement of a load
can be pending, since after the first lost answer only the clean-up follows. An INSERT can
run twice (`http_json` posts again when the connection breaks); a CREATE posted twice is refused
the second time, or does again what it did, and an INSERT into a table that has been dropped is
refused. `Keys` and `Merged` are the check for duplicates and the replacement by key, which
takes the place of as many rows as there are (`Held`); `Extract`, `Reconcile`, `Copy`,
`Fill`, `Metrics`, `Swap` are the sync.

### `Recovery`: backup and restore

`disaster_recovery.py`. A backup collects file by file while the server writes, into a
temporary file that is moved to its place (`taking`, `archive`), and the catalog relation by
relation (`listed`), while the server may write to its tables (`WriteTable`) or lose them all; a
relation that has gone fails the backup. A restore reads and checks
it, creates and fills the tables, then tries the views in rounds until a round brings
nothing, then places files, pausing schedules in the ledger first. `got` is what it has
read; `tables`, `inserts`, `views`, `pending`, `places` what it has left to do, as sets, since
nothing depends on the order within a kind. An INSERT that is posted again when the
connection breaks can take effect twice (`twice`, history), which the code cannot see.
The server writes to no table while a restore runs: it is given an empty warehouse, in which
nobody has work yet, and its success is about the rows that it put there.
Two restores may meet each other, a server that makes a ledger of its own, damage of
the archive, and disasters that take the machine with all that runs on it.

### `ObjectStorage` and `StorageSmoke`

Exports of a bucket into one destination, page by page, with publication by rename,
verification, and restore into a bucket that was looked at and found empty, beside
other clients, failing requests and altered files (`scripts/object_storage_backup.py`,
`object_storage_s3.py`). `StorageSmoke` is the smoke test of a bucket of its own: what
it believes it has made, what there is, and a clean-up after any request.

### `Bootstrap`, `Experiment`, `Lab`

`Bootstrap` is `IcebergBootstrap.java`: pods of one job, each at its request, that may be
restarted or run beside each other, over `catalog`, `namespace`, `table` and the fixture's
`file`; the append and the marker are two commits.

`Experiment` is `local_experiment.py`: `plans` and `pointer` are its files, `cmd` the
command that holds the lock, with its place between any two requests and writes;
`flux` and `live` are the reconcilers and objects, which operators and Flux change
meanwhile. A request can take effect without an answer: `Ask`, `Confirm` and the
`pending` mark are for that.

`Lab` is `lab_lifecycle.py` with the managers it runs and `polaris_permissions.py`, as
processes that die between any two Docker calls, requests or file writes, or meet; a
secret is the number of the process that drew it. Only Loki's manager takes a lock.

### `Alerts`, `Endpoint`, `Roles`

`Alerts`: the table `alerts` of one job, a run that evaluates the rules it was
submitted with, and `save_job`, which retires alerts in its transaction.

`Endpoint`: `owners` is the ordered map of continuations of `serve_endpoint`, `conn` the
requests that are served, `query` what Trino knows. A client may ask for a page again;
the warehouse may be chilled and the endpoint restarted in between.

`Roles`: `thread` is the request each thread serves with its role, `schedule` and `run`
carry theirs with them, and the thread of a run begins as admin until it has set its
own. Accounts, the mode and the default role change meanwhile. A run's `held` is what
its user held when that was last looked up.

### `Admission`: when the checks of the images pass

`tree` is the working tree: the ledger of images, the reports and other evidence of each
component, exceptions, the candidate digests, the manifests Flux would apply, the accepted
findings, and the constants of the scripts that name files byte for byte. `CheckImages`
and `IgnoreAccepted` translate the checks, with their helpers, as predicates on a tree
and a day. The state machine starts in a tree that passes, and edits one place of
it at a time (a new scan, a new digest, another edition of a paper, a moved pointer, an
exception), takes new approvals of the owner, and lets days pass. An evidence
file is one of four editions: the reviewed bytes, other bytes that say the same, bytes
about something else, or something the loaders refuse. The properties speak of the
tree and of what the owner saw (`grants`), never of the checks' own helpers.

### Modules for TLC

`MCJobsLedger`, `MCSchedules`, `MCWarehouse`, `MCRecovery` and `MCAdmission`
instantiate one module. `MCStages` (`Stages`, `StageExports`), `MCTables` (`Lake`, `Marts`), `MCServerParts` (`Alerts`,
`Calendar`, `Endpoint`, `Roles`) and `MCOperatorTools` (`ObjectStorage`, `StorageSmoke`,
`Bootstrap`, `Experiment`, `Lab`, `Admission`) hold parts that share no state, or no more than the jobs lock: a behaviour is of
one of them, chosen at its start, while the others rest in a fixed state. Nothing is lost by
that, and their product, which no property speaks of, is not explored. `MCOperatorTools` has a
specification of its own for `Admission` (`ImagesSpec`), which has a run to itself;
`MCAdmission` is for the finding about it.

## 3. What TLC checks

| Run | Instance | Properties |
|---|---|---|
| `ledger_jobs` | 2 request threads, 1 job, 2 runs of up to 2 steps, with fairness | `OneAtATime`, `EndedRunsAreFinal`, `ImplementsSlot`, `WorkersAndRunsEnd` |
| `ledger_stages` | 2 threads, 1 stage with 2 contents, 1 mart, 2 runs of up to 2 steps, 2 instants in any order | `HistoryInv`, `ImportsOnRequest`, `ImplementsClaims` |
| `warehouse_two` | 2 servers with a daemon and a client each, 2 calls, 3 instants, with fairness | `WarehouseInv`, `AutoChillIsDue`, `StopReturns` |
| `warehouse_daemon` | 1 server, 2 clients, 2 calls | `SettingOnHasDaemon`, violated: a finding, below |
| `schedule_slots` | 2 servers, 1 schedule (interval or once), 5 instants, 1 set-back, every outcome and fault, with fairness | `ScheduleInv`, `NoCatchUp`, `ConsumesTheDueSlot`, `TicksGoOn` |
| `tables` | 2 loads in any of 7 modes, one of two keys, the other of one of these twice or of nothing; 1 mart with 1 source, 2 snapshots, 2 versions | `LakeInv`, `AllOrNothing`, `SyncPublishesItsBatch`; `MartsInv`, `ChecksAreRight` |
| `recovery` | 1 backup, 2 restores, 1 table, 2 views of which one needs the other, 2 disasters, every order of statements and every INSERT once or twice, with fairness | `RecoveryInv`, `ArchivesArriveWhole`, `RestoreIsHonest`, `RestoresEnd` |
| `stages` | 2 files, 2 contents, 2 definitions, scans of 2, 2 ingestions; 2 exports to 1 name, 2 definitions, a table of up to 2 rows and a limit of 1 | `StagesInv`, `ImportsWhatItClaimed`, `ImplementsClaims`; `ExportsInv` |
| `operator_tools` | 2 exports of 2 keys; 2 attempts; 2 pods and 3 starts; 2 plans, 1 object; 2 processes and 3 starts | `StorageInv`, `RestoreSparesObjects`, `SmokeInv`, `BootstrapInv`, `ExperimentInv`, `HandsOverInOrder`, `LabInv` |
| `server_parts` | 1 job with 2 rules and 2 arguments; days of 4 hours, 28 zones; 2 clients, 2 statements of 2 pages, a map of 2; 2 users, 1 request thread, 2 steps, 2 changes | `AlertsInv`, `ResolvedForGood`, `CalendarInv`, `EndpointInv`, `RolesInv` |
| `image_admission` | 2 controllers, 1 without findings, exceptions of 2 days, 2 edits, 1 approval, 3 days | `AdmissionInv` |
| `exception_expiry` | 1 controller, no edits, 3 days | `ExpiredIsRefused`, violated: a finding, below |

Several properties are conjunctions of named parts, stated and explained beside them:
`OneAtATime` (types, `OneActive`, `OneActor`, `WorkerKeepsItsRun`), `HistoryInv`
(`FailFast`, `OpenClaimsHaveARun`, `StepsTellTheTruth`, `MartAutomationResolved`),
`ImportsOnRequest` (`ImportedOnce`, `ReimportOnlyByRetry`), `WorkersAndRunsEnd`,
`WarehouseInv` (types, `GateExcludes`, `AdmittedFindsItUp`), `AutoChillIsDue` (`AutoChillSparesQueries`,
`AutoChillOnlyWhenIdle`), `ScheduleInv` (types, `OnHasNext`, `StartedInTime`),
`TicksGoOn` (`LocksGivenBack`, `DueSlotConsumed`), `CalendarInv` (`NextIsLeast`,
`AlwaysFound`, `OnceADay`), `LakeInv` (types, `NoStageLeftBehind`, `KeysStayUnique`),
`MartsInv` (types, `NeverUnaudited`, `EnabledFitsDefinition`), `ChecksAreRight`
(`UnchangedMeansCurrent`, `NoCheckInDoubt`), `ExportsInv` (types, `FilesAreWhole`,
`FilesAreAskedFor`, `LedgerTellsOfFiles`, `NoTemporaryLeftBehind`), `RestoreIsHonest`
(`LedgerIsKept`, `SuccessIsComplete`), and so on: there is one invariant to a
component and its module's type correctness is part of it.

**Bounds.** Two runs are a run and the admission, recovery or skip that meets
it, or a claim and its retry. Two request threads are
one that holds the lock and one that meets it. Two steps are one that runs and
one before or behind it; two instants (`MaxClock`) are a clock that went on and one that was
set back between two runs; two keys are the file that fails and the file behind
it in a scan. `MaxRuns` ends what may be submitted, never what a worker or a
recovery does. In the warehouse a client and a daemon in each of two processes are
parties of the gate within a process and across; three instants are before, at and
after the idle time of one; the two calls let a stop or a change meet a request.

For the tick, two servers are one that has the claim and one that wants it, or
comes after it. The instants reach past the lateness limit of a slot (`Late`, two
of them) and to the next slot, and one set-back can come before, between and after
the two readings of the clock. In the calendar an hour's change falls on every hour of
a day, forward and back, east and west of UTC; clocks that skip or repeat half a
day, or repeat a whole one, and both ends of months and of the cycle of months are
inside the days followed (`MaxDay`), while the horizon of the search is three
cycles (370 days are one year and more).

Two files of two contents are a content in two places, a rewritten file and one that
goes unread after a failure; two definitions are the one a scan began with and the one
it finds. Two exports to one name are one that died, failed or published and one that meets
what it left; a table of none, one or two rows and a limit of one are below, at and
over it. A mart with two snapshots and two versions has a change that a check misses
or sees, and one that comes back. Two loads meet in every pair of places; one of them
has two batches, so that something can come between, or that name one key. Three copies
of a row (`Copies`) are more than a load is given, so that a row which came twice too
often shows. Two restores are one that died
half way and its successor, or two at once; the views may be tried in the wrong order, so
one needs a second round; with two disasters a restore meets what an earlier one left before
the loss, and after it. The registry's version (`MaxWrites`) tells no two states apart that a
property does, so it stays at one value. Two exports race for one destination; two keys make a listing
of two pages. Three starts are two that meet and one that repeats. Two plans are a
run and its replacement; more only repeat the hand-over. A map of two
paths is crowded out by one answer, and two clients are an owner and somebody else.
Two edits of the tree are the two that would have to agree, or a drift and
its cover-up, from every reviewed start (`Init`); an approval adds a third step. Two days
are an approval's first and last.

**Symmetry** of request threads, keys, contents, clients, plans and processes is
used where only safety is asked.

**Deadlock** is checked in the ledger, the tick, the tables and the stages; loads that
have all ended stutter explicitly. Elsewhere calls, clocks, starts or edits are bounded, so
an instance may come to rest: `CHECK_DEADLOCK FALSE`, and where a wait could be a deadlock
of the code a liveness property asks (`StopReturns`, `RestoresEnd`).

**Fairness.** In `JobsLedger`, weak fairness of a live worker thread and of a
request thread that has begun: the interpreter schedules them, every call has a
timeout, and death remains possible at every step. Strong fairness of `TakeLock`
and `Recover` (`Polling`): the Workbench page asks for the runs every two
seconds while it shows a live one, and a reader tries the lock each time. Without
a reader a dead run stays unfinished, which the code accepts. In `Warehouse`,
weak fairness of every thread of a living process, of a wait for a lock once it
is free; the calls are finite, so no stream of shared holders keeps the gate.
In `Schedules`, weak fairness of each server's tick, which its thread repeats
every ten seconds, of the worker and of whoever has the lock, and of the clock;
none of a preflight that raises or of a thread that fails, nor of owners. That a
due slot is consumed is asked on the condition that the others leave the jobs
lock alone in the end: `flock` is not queued, and a page that happened to hold
it at every attempt would defer the slot each time. In `Recovery`, weak fairness
of a restore's own steps: it is one process whose statements have timeouts.

Every property has a mutant: the definition of the code changed as a plausible
bug would change it, under which the same run must find the property violated.
Mutants are written beside what they change.

Nearly every property has one mutant; `ExportsInv` has three, for the lock of the ledger, the row
beyond the limit, and the commit that fails.

### Findings

* **Two changes of the setting leave it on without a daemon** (`warehouse_daemon`).
  `configure_auto_chill` saves under the gate and starts or stops the daemon after
  it; two calls may save in one order and reach the daemon in the other
  (`warehouse_resident.py:173-185`).
* **Accepted findings never expire** (`exception_expiry`). Without `--now`, which neither the
  Makefile nor the workflow passes, `verify_trivyignore.py:490-494` judges the approval by
  the day after it was given, on every date; the document says that it expires and then
  fails. The same clock is used for the live scan's report (`validate_live_scan_evidence`),
  for which a fresh report seems to be from the future outside one quarter of an hour.

Disagreements met on the way that no run states, since they need no interleaving or
are smaller:

* A slot is skipped as "another job is active" also where the unfinished row is of a run
  that died and the holder of the lock is the recovery about to say so
  (`schedule_resident.py:255-258`).
* An exception that the tick does not list (`schedule_resident.py:295`) ends it
  before the schedules behind it are looked at, though `docs/guides/scheduled_jobs.md:41`
  has the others go on. A minute later the slot is late and is skipped before its input is
  read, so nothing is stuck for good (`DueSlotConsumed`).
* `docs/guides/scheduled_marts.md:29` counts a rollback of a source as a change; one that
  goes back to the snapshot of the baseline between two checks is not seen.
* `docs/LOCAL_EXPERIMENT_RUNNER.md:91-92` says to retry `resume` with the same run; one that
  died between lifting a suspension and recording it is refused, since the reconciler is not
  as its plan says.
* `docs/design/04_Development/049_Supply_Chain_Security.md:48-49` has `make verify-security` validate the
  image ledger; `Makefile:102` does not call `check-images`, and
  `tests/test_trivyignore.py:480` asserts so.
* A statement of a client whose text names `system.runtime.queries` is not counted by the poll
  of `check_auto_chill` (`warehouse_resident.py:233-236`, meant for its own), and the
  warehouse may be stopped under it, though
  `docs/design/04_Development/04F_Commander_Worker_and_Pragmatic_Roadmap.md:173` has running statements counted as
  activity. `AutoChillSparesQueries` names the exception.
* `docs/guides/scheduled_marts.md:45` lets automation go on after an unknown outcome only when a manual refresh
  has succeeded. `_requires_manual` goes by `created_at` (`marts_resident.py:185-187`): with the
  clock set back, a manual success from before the unknown run may be stamped later and hide
  it. `MartAutomationResolved` names the exception.
* A replacement, by ingest or by sync, publishes repeated keys that it was given; only an
  upsert removes or refuses them (`lake_ingest.py:359-372`, `sqlserver_sync.py:280-283`).
* A stage whose CREATE lost its answer may appear after the clean-up has dropped it
  (`lake_ingest.py:388, 404`), and nothing removes it later.
* Syncs of one table exclude nothing: of two that overlap the later swap replaces what the
  other published (`sqlserver_sync.py:375`). `AllOrNothing` and
  `SyncPublishesItsBatch` say what does hold.
* The marks that a job died half way (`Bootstrap`'s `cut`, `Lab`'s `spoiled`) are exceptions of
  their properties because nothing in the code repairs them: an operator has to.

## 4. What TLAPS proves

For every set of threads, jobs, processes, clients, loads, contents, restores, exports, plans
and pods, every calendar and every bound:

| Module | Theorem | States |
|---|---|---|
| `JobsLedgerProofs` | `OneAtATimeAlways` | `Spec => []OneAtATime` |
| | `Exclusion` | `Spec => []OneActor` |
| | `AtMostOneActive` | `Spec => []OneActive` |
| | `WorkerUndisturbed` | `Spec => []WorkerKeepsItsRun` |
| | `EndedStayEnded` | `Spec => EndedRunsAreFinal` |
| | `LedgerImplementsSlot` | `Spec => ImplementsSlot` |
| | `HistoryIsTrue` | `Spec => []HistoryInv` |
| | `ImportsAreOnRequest` | `Spec => ImportsOnRequest` |
| | `LedgerKeepsItsClaims` | `Spec => ImplementsClaims` |
| `WarehouseProofs` | `GateExclusion` | `Spec => []GateExcludes` |
| | `WarehouseInvAlways` | `Spec => []WarehouseInv` |
| | `AutoChillDue` | `Spec => AutoChillIsDue` |
| `SchedulesProofs` | `ScheduleInvAlways` | `Spec => []ScheduleInv` |
| | `ConsumesTheDueSlotAlways` | `Spec => ConsumesTheDueSlot` |
| | `NeverCatchesUp` | `Spec => NoCatchUp` |
| `ServerPartsProofs` | `AlertsStayCurrent` | `PartsSpec => []AlertsInv` |
| | `ResolvedStayResolved` | `PartsSpec => ResolvedForGood` |
| | `NothingAboveItsRole` | `PartsSpec => []RolesInv` |
| | `PagesStayWithTheirOwner` | `PartsSpec => []EndpointInv` |
| | `CalendarFindsTheNextRun` | `PartsSpec => []CalendarInv` |
| `StagesProofs` | `LedgerIsTrueOfTheTable` | `Spec => []StagesInv` |
| | `BytesAreTheClaimed` | `Spec => ImportsWhatItClaimed` |
| | `StageKeepsItsClaims` | `Spec => ImplementsClaims` |
| | `ExportsAreWholeAndTold` | `StageSpec => []ExportsInv` |
| | `NothingPendsWithoutARun` | what is pending belongs to a run that has not ended |
| `TablesProofs` | `MartsShowAuditedContent` | `TablesSpec => []MartsInv` |
| | `ChecksCanBeReliedOn` | `TablesSpec => ChecksAreRight`, from the next two |
| | `ChecksAreNotInDoubt` | `TablesSpec => Marts!NoCheckInDoubt` |
| | `UnchangedIsCurrent` | `TablesSpec => Marts!UnchangedMeansCurrent` |
| | `LoadsLeaveTheCatalogTidy` | `Spec => []LakeInv` |
| | `ReadersSeeAllOrNothing` | `Spec => AllOrNothing` |
| | `SyncsPublishTheirBatch` | `Spec => SyncPublishesItsBatch` |
| `RecoveryProofs` | `RestoredLedgersRest` | `Spec => []RecoveryInv` |
| | `ArchivesAreComplete` | `Spec => ArchivesArriveWhole` |
| | `RestoresAreHonest` | `Spec => RestoreIsHonest` |
| `OperatorToolsProofs` | `StorageIsRight` | `ToolsSpec => []StorageInv` |
| | `RestoreSparesWhatItFound` | `ToolsSpec => RestoreSparesObjects` |
| | `SmokeLeavesNothingBehind` | `ToolsSpec => []SmokeInv` |
| | `BootstrapIsRight` | `ToolsSpec => []BootstrapInv` |
| | `SuspensionsAreRemembered` | `ToolsSpec => []ExperimentInv` |
| | `RunsHandOver` | `ToolsSpec => HandsOverInOrder` |
| | `LabIsTrue` | `ToolsSpec => []LabInv` |
| | `OnlyScannedIsAdmitted` | `ImagesSpec => []AdmissionInv` |

The assumptions are those that the modules name, and TLC evaluates each on its instance:
`LedgerAssumption`, `WarehouseAssumption`, `ScheduleAssumption`, `AlertsAssumption`,
`StagesAssumption`, `StageExportsAssumption`, `TablesAssumption`, `LakeAssumption`, `RecoveryAssumption`,
`StorageAssumption`, `ToolsAssumption` and `PartsAssumption`. They say
that threads, runs, rules, names and relations are distinct, that periods and bounds are natural
numbers, and that the value for "none" is none of the others. `CalendarAssumption` of
`Schedules` says in addition that a calendar has a next time after each instant of the clock,
which is what `CalendarFindsTheNextRun` proves of the search (`AlwaysFound`); that theorem
assumes of zones and calendars what they are (`ZonesAssumption`: `IsZone`, `DaysRecur`).

**The ledger.** The control invariant (`ControlInv`) ties every point of a thread
past `TakeLock` to the value of `lock`, and a worker to the run whose number is in
`lock`. With that, `PlaceInv` says that an unfinished run is either that of the
current holder or one whose holder is gone, and that there is at most one: an
admission settles the unfinished runs in the very transaction that inserts its own,
so the second can only follow from the first. `OneActive` by itself is not
inductive: it needs to know that whoever may insert has the lock and has not
inserted yet. Types are proved table by table (`TypeRows`, `TypeHistory`) since the
tables are typed by what they store and the threads by where they are. That ended
runs are final follows step by step from the same invariant: recovery writes to
unfinished rows, an admission to a fresh one, and a worker's run is unfinished. For
the refinement `RegInv` adds that a request that has not admitted names no run, so
that the abstract place is empty exactly while its lock holder may recover.

**What the ledger tells.** `HistoryInv` relates rows to what was really done (`begun`,
`reported`, `ingests`), and none of its parts is inductive, because a row says nothing of
the worker's place. `StepInv` follows the one unfinished run beside its worker: steps before the
worker's position have succeeded, those behind it are pending and untouched, and the current
one is as the worker's place in `_worker` leaves it; once the worker is gone, what it left is
what `_lost` may find. `ClaimInv` does the same for content: each claim that is queued or
running belongs to a step of that run that has not ended, an import that failed before its
call leaves the content new. Both need to know that plans are well shaped (`PlanInv`: only
imports name a key, no key twice, a retry stands alone), which is a fact about the definitions that
`submit_scan`, `submit_import` and the others build. That content is imported again only
by a retry then follows from what a worker's step may do (`ContentStep`).

**One promise, two models.** The mapping says where a content is from the row's status
and the worker's place. In the ledger every active row belongs to the one unfinished run
(`OpenIsMine`) and at most the one of the step at hand is marked running
(`RunningIsAtHand`), so that a step of the worker moves one content and the others wait or
are nobody's (`AloneAtIt`, `OnePlaceMoves`); without a holder, all are nobody's, and
what the next to take the lock settles is what is left (`PlacesAreKnown`,
`LostClaimsAreLost`). In `Stages` the same facts are those of `PendingInv` and
`ProgressInv`. A failure maps to one abstract step although it rewrites several rows,
because the rows it deletes are just those that wait.

**The tick.** `SlotInv` says that from `Open` to the end of the slot the
transaction is the tick's own and the schedule still has the row that was read;
every other writer waits for the transaction. `OrderInv` says that the next slot
of a schedule that is on lies after the time at which the last one was consumed;
it rests on the arithmetic of `_next` (`NextOfLater`), and neither needs the clock
to be monotone.

**The warehouse.** `GateInv` adds to the exclusion of modes that each thread at a
point inside is recorded in the gate, and what its `then` will make of it after a
touch. `SafetyInv` is `GateInv`, the types, and `ChillInv`: what a thread knows that
is about to stop the server. It has the gate to itself (`Alone`), so no statement is
submitted and no setting saved after its poll; from its last look at the idle time
on it has the activity lock, so `last` of its process stays what it read, while the
clock only makes it older; a client that was admitted has the gate shared, so nobody
stops what it woke. The two locks are needed together: without the activity lock the
request of a thread that has left the gate could still write its time, without the
gate a statement could follow the poll. A process that is dead has no thread, so its
locks are nobody's.

**Alerts.** An alert is opened by a run that evaluates the rules it was *submitted*
with, while owners save others; `Record` compares them with what is saved when it
writes. `RunFits` is the strengthening: what a run has left to evaluate are alert steps
of its own definition. With it the proof goes action by action: `Save` retires the
alerts whose rule has changed, `Record` opens one only if none of its kind is open,
and no action touches one that is resolved.

**Roles.** A request or a run keeps the role it began under while accounts change beside it,
so that it is below its user's maximum is true when it begins and when a step is checked, and no
invariant. What is one: the role a run has set is the one it was submitted or scheduled with, the
maximum it was last checked against (`held`) is no lower, and in local mode the ceiling, which only
a restart changes, is above everything that is served, since a restart takes requests and run away
(`RolesIInv`). That a request gets no more than it asked for rests on what `select_role` picks
(`SelectedBelow`, `LeastRole`).

**The endpoint's pages.** The map holds a path once and for its poster (`Owns`), so entering a
repeated page changes nothing and one entered for the first time goes to the end (`PutGrows`,
`PageGrows`). Hence behind a path stand only paths that came after it, which the
history counts (`Placed`), and one that the limit drops has at least as many of them behind it as
the map holds, all different (`TrimKeeps`): this is where the distinctness of the
paths is needed.

**Stages.** The invariant follows one claim from the listing to the record. `PlaceInv` says
which kinds of job come to which places and that the keys of a run's steps differ;
`PendingInv` that what is pending belongs to the open run and, while its worker lives, to a step
of it; `ProgressInv` that every step but the current one waits with its content not ingested
since the claim, and that the worker at `mark` or later holds the bytes of the key it
claimed. Without the last two, `ClaimsTellTheTruth` fails at the failure paths: whether the
claims behind a failed file may be dropped depends on nothing having touched them.
The current step is the least one left, which exists because names are numbered.

**Exports.** That the ledger tells the truth of a file needs the worker's place: at `link` and
`commit` nothing has been recorded and the definition is the one that was asked for, because
nobody else writes to the ledger meanwhile (`WorkerInv`); behind them what is linked decides what
the outcome can be. What has been read is what was counted and, up to the limit, all there was
(`ReadInv`). A run that has not been admitted has linked nothing (`FutureInv`), so an admission
finds a fresh row, and a run that recovery settles ends as `unknown` whatever it left, which is
why neither `failed` nor `success` is ever said of it.

**Marts.** What a mart shows is good because whatever can become its content is
(`GoodInv`): the table, the one before it, the staged copy of an operation that is about to
replace it, and the statement that outlives its client. "Unchanged" is right because of an
order that every step keeps: the baseline is no newer than what the mart was built
from (`BaselineInv`), and that is no newer than what a refresh reads that begins after it
(`SourceInv`, `BuiltInv`). The order needs who holds which lock (`LockInv`), so that no two
builds meet, which definition the refresh is of (`DefInv`), and that a run whose outcome
is in doubt is in the ledger before the next check (`RunInv`).

**Loads.** Readers see all or nothing because what becomes the target is whole: a stage holds
its load's batches so far and only its own rows (`StageFits`), the places from which it is
published are reached with the last batch, and a candidate is swapped in only when the stage
is merged into it (`CandidateFits`). Which modes come to which place (`ModeFits`) and which
tables are then there (`There`) are part of the invariant because Trino's answers depend on it.
The same is asked of what a pending statement will bring: its rows fit the table it is for, as if
it had taken effect where its client raised (`PendingFits`), and only a load whose client has
gone on to its clean-up, or has ended, has one.
The uniqueness of keys speaks of every table a load might still swap in, late or not (`UniqueInv`).

**Restores.** Success is complete because of what a running restore has made: nobody else has
made the same table (`MadeOnce`, since CREATE TABLE fails for one that is there and no
restore survives the loss of its machine), its rows and the INSERTs left add up
to those of the archive (`TablesInv`), and each view of the archive is there, or is
tried in this round, or waits for the next (`ViewsInv`). The attempt at this proof
corrected the model: with a second disaster a restore that outlived the first one inserted
into tables that another had made, which no machine allows, and the restore's INSERT, unlike those of
the loads, could not run twice, which `http_json` does allow.

**The tools of the operators.** They share no state, so a step of `ToolsNext` is a step of one
tool and a stutter of the others (`ToolsSteps`), and each has an invariant of its own.

*Object storage.* The copy at the destination is that of the export that is past the rename
(`CopyOf`), which the rename decides; as long as nobody has written to the bucket, what an export
has listed, downloaded and sealed is the bucket, page by page up to the one it is at
(`ListInv`, `GetInv`, `SealInv`). A restore has found each key that it passed at `look`, and
put back each that it passed since (`LookInv`, `PutInv`), which says more than its properties:
they speak of the end only.

*Smoke test and bootstrap.* That the smoke test leaves nothing behind follows once each place
says what the store then holds. The bootstrap's proof is about what a pod knows that has been
alone since it started: a pod beside it may have done or undone any of it, so the
invariant gives each place what such a pod may count on, and all pods the little that never
goes back.

*Experiment runner.* `NothingForgotten` is not inductive: a suspension is remembered because the
plan of the active run, or of the one it took over from, tells of it from before it is asked for until
it has been lifted (`PlanInv`), and the pointer leads to one of the two at every place
at which a command may die (`HeirInv`, `LonerInv`). That a resume gives back what was there at first
needs `UntouchedInv`: while no operator interferes, a reconciler is suspended either
by a plan that tells of it or as it was given.

*The lab.* What there is only grows (`Grows`): files, containers, volumes and grants are made and
never taken away, so what a command has seen and what the invariant says of the others survives
any step of one (`OthersWork`). AgentHouse is whole, or somebody is between its first file
and its container, or it is known as half made (`ThingsInv`); a command that has been alone
so far knows what it has looked up (`Aware`), hence is not refused and reports what is so.
`HalfMade` was too wide in the model (it counted a death of Loki's manager at the same
place), which the proof brought up: the property is now the stronger one.

*The calendar.* The search needs no induction over its days, since what it returns is the least
member of a set. A zone is a straight line with two breaks, and from where they are follows
what the code relies on: the translation of a local time that is shown is the first instant
that shows it (`FirstInstant`), later local times that are shown are shown later
(`LaterIsShownLater`), and no time that lies ahead is on a day before the clock's
(`LaterShowsLater`, `NoneBeforeToday`). So the first day found has the least occurrence, and the
next one lies on a later day. That a day is found is a matter of counting: a break loses the
time of one day at most, because it skips or repeats no more than a day, so of three days of the
schedule ahead one is spared (`BreaksSpareOne`), and three are among the days that are searched
(`DaysOfScheduleRecur`). Were three of a schedule's days not among them, `_next` could raise.

*The checks of the images.* Most of `AdmissionInv` holds of any tree that passes, since the
checks say it between them: the theorem is that their conjunction does, across the ledger, the
reports, the records and Flux (`AdmittedScanned`, `AdmittedPair`). That either of the pair
brings in the receipt takes `AtomicLedger` and the records together. The
part that speaks of the past, that the owner has seen what is excepted, needs the invariant: the
approved set that the scripts name is the one granted last, which no edit reaches
(`ImagesIInv`).

Only model-checked is all liveness (`WorkersAndRunsEnd`, `StopReturns`, `TicksGoOn`,
`RestoresEnd`), which is out of this prover's reach.

## 5. What is not modelled

`PROJECT.json` gives the status of each component. Left out are

* *pure functions of their input*: parsing and type inference of files, quoting of
  identifiers, the policy that decides whether a statement only reads, the layout of
  notebooks and telemetry, the page's rendering, cron-like texts, hashes of tokens. What
  the models need of them is a choice of outcome. Policy and telemetry would be worth
  comparing with a reference definition over bounded inputs, but not at the level of
  characters;
* *programs without state of their own*: the pipeline, the seed, the benchmark, the
  image build, the commands of BEARS and the Go command line run one command after
  another and stop at the first failure;
* *checks that read documents once*: those of `scripts/` other than the image checks,
  and the feasibility script among the evidence of the design. In `Admission` the
  scan for secrets, the live scan's report and the syntax of Trivy's ignore file are left
  out; what the last one accepts is modelled as a set of findings;
* *external programs*: Trino, Iceberg, Polaris, Docker, Kubernetes, Flux and the object
  store appear as what the code asks of them, with the answers it handles;
* *manifests and workflows*, which Kubernetes and the CI service interpret.

## 6. Plan

Done: the ledger with its abstract slot and claims; the warehouse; the tick and the calendar;
stages and exports; managed marts with WAP; loads and syncs; backup and restore; the
bucket's export and the smoke test; the runner, the lab and the bootstrap; alerts, the
Trino endpoint, roles; the admission of images.

Left, in this order:

1. Refinement: `Marts` reduces the ledger to one job, as `Stages` does; that it keeps the
   same promise of a mart's schedule and outcomes as `JobsLedger` could be stated through
   a common abstraction, as `StageClaims` is for contents.
2. The SQL policy as operators over an abstract syntax.
