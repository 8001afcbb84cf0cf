# Formal models of the metadata framework

TLA+ models of this repository, the TLC configurations that check them on
small instances, and the theorems about them that TLAPS proves for every value
of their constants. Paths below are relative to the repository; line numbers
are those of the mapped source in `PROJECT.json`.

## 1. The system

A market-data and batch lakehouse: sources (S3 objects, databases, the Dhan
broker's REST API and WebSocket) are ingested into Iceberg *Lake* tables, then
processed to *Bronze* (typed, masked, deduplicated), *Silver* (dbt models) and
*Gold* (published tables). A Flask UI starts every step as a container, by hand
or on a schedule.

| Component | State it keeps | Operations | Interacts with | What makes it correct |
|---|---|---|---|---|
| Live collector (`ingestion/dhan/live_collector.py`) | bounded queue, writer's list, spool directory (survives the process), raw bucket, stop/ready/error flags | feed callback, batch writer, connection loop, shutdown sequence | Dhan SDK thread, S3, token provider, Docker restart policy | an accepted tick lands in the bucket exactly once or its loss is due to a recorded cause; exit code 0 means all landed; a stop ends the process; a dead writer ends it |
| Job log streams (`ui/job_runtime.py`) | bounded queue, two events, error list | produce, stream, close | every job route of `ui/app.py`, the web server | the job runs to its end whatever the browser does; lines in order, none dropped; the error reported |
| Scheduled jobs (`ui/app.py` 211-568, 1349-1492, 2345-2389) | schedule rows and run records in Postgres, APScheduler's in-memory jobs | create, delete, trigger with its phases, load at start-up | Postgres, APScheduler threads, Docker | the scheduler runs what the rows say; a deleted job stays quiet; a run record ends with the true status |
| Active jobs and on-demand runs (`ui/app.py` 178-207, 801-966, 1764-2117) | registry of running containers | register, attach container, remove; the phases of each route | job streams, Docker | a running container is listed; Bronze only after a successful ingestion |
| Silver models (`ui/app.py` 1180-1346) | shared dbt source and model files | write model, extend sources | concurrent requests, dbt | no request loses another's sources |
| Dhan token and REST client (`ingestion/dhan/client.py`, `auth_cli.py`) | token file shared by three processes, cached token | get, generate, refresh once on 401/403 | Dhan's API, file system, live collector, snapshot jobs | a retry uses another token than the refused one; no login while a usable token is untried; the feed recovers without a person |
| Dhan instruments and normalization (`ingestion/dhan/instruments.py`, `normalization.py`) | cached instrument master | resolve a selection, normalize a packet | REST master download | a selection names existing instruments, once each |
| Lake ingestion (`ingestion/main/pipeline.py`, `sink/minio_writer.py`) | Iceberg tables | read, cast, write: append, overwrite, replace | S3, Hive metastore | a failed run leaves the previous data |
| Bronze (`bronze_layer/`) | Bronze tables | full, delta, dedup | Lake | latest record per key, whatever the order of runs |
| Gold (`gold_layer/gold_loader.py`) | Gold tables | replace, append, delete and insert | Trino | a replay of replace or delete-and-insert changes nothing |
| Vault bootstrap (`docker/vault_init.py`, `vault_client.py`) | keys file, token file, seal state | initialise, unseal, watch | Vault | a restart at any point can unseal |
| Users and login (`ui/auth.py`, `ui/models.py`) | failed attempts, lock time | login, lock, unlock | Postgres | five failures lock, a success resets |
| Pipeline helpers, SQL tools, front end, Oracle loader, deployment | little or none | parsing, casting, display, proxying | | see section 13 |

The hard behaviours: three threads and a directory that survives them in the
collector; two threads and a browser that may leave in the job streams;
requests, scheduler threads and restarts over rows without a common
transaction; several processes on one token file; writes to a table that are
more than one step. `PROJECT.json` lists each hazard at the line where it
bites, with the property that would catch it, or with a note: where the code
has nothing against a hazard the properties leave that case out by a history
variable, and the note says so.

## 2. Plan

Modules in order of importance; those marked done are in this directory.

1. `TickLanding`, `LiveCollector`, `LiveCollectorProofs` - **done**.
   The abstract landing of ticks, the collector's threads, their theorems.
2. `JobLog`, `JobStream`, `JobStreamProofs` - **done**.
3. `Scheduler`, `SchedulerProofs` - **done**.
   Rows, APScheduler, concurrent POST and DELETE, triggers, run records,
   containers, crash and start-up, and five theorems.
4. `TokenProvider`, `TokenProviderProofs` - **done**.
   Three kinds of processes on one token file, refresh once, retry.
5. `OnDemand`, `OnDemandProofs` - **done**. The registry of running containers, the requests with
   their containers and the bronze watcher, and the dbt files they share.
6. `LakeBronze`, `LakeBronzeProofs` - **done**. Lake writer modes, Bronze full and delta runs in any
   order, against the promise "latest record per key".
7. `GoldTable`, `GoldPublish`, `GoldPublishProofs` - **done**. The publication strategies statement
   by statement, against an abstract table.
8. `VaultInit`, `VaultInitProofs` - **done**. Initialise, write keys, unseal, watch, with crashes,
   and a client of the token.

Left: `Instruments` (selection and cache against a reference definition),
`TickPipeline` (composes `TickLanding` with `LakeBronze`: late spool replay into a
minute that was ingested already), `Login`.

Every safety property of a passing run - invariants, action properties and
the three refinements - has a theorem that states it for every value of the
constants. The nine liveness properties (`StopEndsTheRun`,
`AcceptedTicksSettle`, `WriterErrorEndsTheRun`, `JobFinishes`,
`ResponseFinishes`, `RunsFinish`, `RenewsUnattended`, `ListEmpties`,
`TokenWorks`) are model-checked only: they rest on fairness, hence on ENABLED,
which this prover does not reason about.

## 3. The live collector

`LiveCollector` models one container process and what outlives it. The state
follows the code's objects: `queue` is `record_queue`; `records`, `uploads` and
`current` are the local variables of the writer's `run`, `_flush` and
`_upload_spooled`; `pending` is the local of `preserve_queued`; `stop`,
`writerStop`, `ready`, `werror`, `failed`, `disconnected` are the events and the
`error` field; `spool` and `s3` are the directory and the bucket; `mpc`, `wpc`
and `feed` are program counters. There is one action per step that another
thread can observe:

- *feed thread* (`on_message`, `on_disconnect`): the stop check and the put are
  two actions, so a callback that passed the check may enqueue after a stop; a
  full queue makes it spool the tick itself, which may fail.
- *writer thread*: replay (list, put, unlink file by file), serving loop (get,
  flush by minute, clear the list, upload), final flush and final replay, and
  the `except` clause (flags, drain, rescue). Every spool write, put and unlink
  has a failing twin; a spool write that raises may still have left the file
  visible (the directory sync comes after `os.replace`), and a put that raises
  may have stored the object.
- *main thread*: start-up, early stop, connect, preflight, poll, recovery,
  clean-up of the feed with its time-outs, the shutdown sequence, the exit code.
- *environment*: `Signal`, `Crash` at any point, `Restart` on the same spool.

Abstractions. A tick is its arrival number and `MinuteOf` gives the minute of
its receipt; a spool file or object is a batch `[id, minute, recs]` with a fresh
id for the uuid. Time is abstract: a deadline, back-off or join may end at any
moment, which includes every real timing. Packets that normalize to nothing are
not represented. Failures of `main` before the writer starts leave no state and
are not represented. `lost` and `fault` are history variables: a tick enters
`lost` when the last memory that held it is gone and no disk has it.

`TickLanding` is the promise: every tick moves from new to memory to spooled to
landed, memory is lost only when a spool write fails or the process ends, and a
run that reports a clean end has landed everything. `ImplementsLanding` states
that `LiveCollector` implements it, with `PlaceOf` as the refinement mapping.

### Runs

| Run | Constants | Checks |
|---|---|---|
| `collector_safety` | 3 ticks in 2 minutes, queue 2, batch 2 | `TypeOK`, `OneRawCopy`, `EveryTickAccountedFor`, `CleanExitCommitsAll`, `GracefulExitKeepsTicks`, `ImplementsLanding` |
| `collector_liveness` | 2 ticks, queue 1, batch 1; thread fairness | `StopEndsTheRun`, `AcceptedTicksSettle`, `WriterErrorEndsTheRun` |
| `collector_exit_code` | 1 tick | a divergence of section 12 |

Three ticks over two minutes are enough for a batch of two groups of which the
second fails, a full queue, a tick in the callback's hand, and files of two
runs in the spool at once; the number of crashes, restarts, errors and
reconnections is not bounded. Deadlock is checked: the container is always
restarted. The code's queue has at least 1000 places; the proofs cover every size.

### Fairness

`ThreadsRun`: main, the writer and a callback that has begun keep running,
because every wait of theirs has a time-out, and Docker restarts the container
(`restart: unless-stopped`). This is all that `StopEndsTheRun` needs.
`ThreadSpec` assumes nothing else. The two other liveness properties are
implications and name what more they need: `NetworkRecovers` is strong fairness
of upload, unlink, preflight and of a poll on a live connection (if they are
tried for ever, one succeeds), and `LeftAlone` says that crashes and signals stop
at some point; without it a container that is killed again and again never
uploads. Nothing is assumed of the SDK's thread.

### What is proved

`LiveCollectorProofs` proves, assuming only `CollectorAssumption` (a positive
capacity and batch size, and a minute for every tick):

- `TypeCorrect` - `Spec => []TypeOK`;
- `Invariance` - `Spec => []IInv`, the inductive invariant;
- `ServingSpool`, `CleanExit`, `GracefulExit`, `Accounted` - the properties
  `ServingLeavesNoSpool`, `CleanExitCommitsAll`, `GracefulExitKeepsTicks` and
  `EveryTickAccountedFor`;
- `HeldOnce` - `Spec => []PlaceInv`: each tick has one holder in memory, and a
  lost tick is nowhere;
- `DurableForGood` - no step takes back what the disk or the bucket holds;
- `LandingImplemented` - `Spec => ImplementsLanding`, the refinement;
- `WrittenOnce` - `Spec => []OneRawCopy`.

None of these is inductive by itself. `IInv` adds, hand-over by hand-over, what
each thread relies on: `FeedInv` (the callback holds one tick exactly while it
is busy, and outside the connection loop a feed thread exists only if the
collector failed), `StartInv` (nothing is received before the loop), `WriterInv`
(uploads are in the spool, the file about to be unlinked has landed, a tick of
an unfinished flush is durable or its minute is still to come), `StrayInv` (a
file the writer does not know of comes from a saturated callback, from
`preserve_queued` or from a failed writer) and `ShutdownInv` (what main sees
when it drains the queue). The proof has one lemma per part and thread;
frame lemmas say what a thread leaves alone. `Accounted` then shows of each
step that what it takes out of one place is in another afterwards.

The refinement needs the converse, that nothing stays behind. `PlaceInv` says
that the callback's hand, the queue, the writer's list and `pending` are
disjoint, that the queue repeats nothing (`OneHolder`), that nothing is
anywhere before it was received (`NoneAhead`), and that `lost` is disjoint from
all other places (`LostForGood`). With it every step of a running process
follows `Flow`: what is durable stays durable, a batch lands from the spool, a tick is
spooled or lost from memory. `FlowIsForward` turns that, place by place, into a
`Forward` move of `TickLanding`; a step that ends the process is `StopClean` or
`StopUnclean`, and `CleanExit` is what makes exit code 0 a `StopClean`.

`OneRawCopy` follows from `OnceInv`: as long as every spool write has returned,
what is in memory is not durable, except for the part of the writer's list
whose minutes it has spooled in the flush it is in. There lies the reason why
the list is cleared before the uploads. `PlaceInv` and `OnceInv` were checked
with TLC on the instance of `collector_safety` before they were proved.

The three liveness properties are model-checked only.

## 4. Job log streams

`JobStream` models `background_job_stream`: the worker (`made` lines printed by
the job, the put with its time-out and the check of `disconnected`), the queue,
and the response (the two reads of its loop condition are two actions, so the
worker runs between them). The server notices a closed connection only when it
writes, so `Close` happens at a yield; a generator that was never run may be
closed too. `JobLog` is the abstract log: lines are printed and shown in order,
and the response ends as the job did after all of them, or is closed.

| Run | Constants | Checks |
|---|---|---|
| `stream` | 6 lines, queue 3 | `TypeOK`, `ImplementsLog`, `JobFinishes`, `ResponseFinishes` |

More lines than places make the worker wait, time out and find the browser
gone with a full queue. Jobs and responses stop for good, so this run does not
check deadlock; its liveness shows that they stop only when they are over.
Fairness: both threads run, the job itself ends, and the server goes on with or
closes a response it has begun (a write to a browser succeeds or fails in the
end). Without the last, a stalled connection that is never closed stalls the
job: that is the back-pressure the code asks for.

`JobStreamProofs` proves, for every number of lines and every capacity,
`TypeCorrect`, `InOrder` (`LinesInOrder`) and `Refinement` (`ImplementsLog`)
from `StreamAssumption`. The strengthening `EventInv` says what the counters and
events imply about each other: that `finished` is set only after the last put,
and `disconnected` only when the response is over.

## 5. Scheduled jobs

`Scheduler` models what `ui/app.py` keeps in three places: `rows` and `runs` are
the tables `scheduled_jobs` and `scheduled_job_runs`; `sched` is APScheduler's
map from a job's id to its trigger, which a restart empties; `containers` are
those that triggers start through the Docker socket, which survive the UI.
`trig[j]` is the thread of a trigger with the locals of
`_trigger_scheduled_job` (the row it read, the run id, the phase, `status`), and
`request[r]` is what a request has committed and not yet told APScheduler.

- *requests*: POST and DELETE are two steps each, `PostCommit`/`PostSchedule`
  and `DeleteCommit`/`DeleteRemove`, because Flask handles requests in threads
  and no lock spans the commit and the call of APScheduler.
- *trigger*: `Fire`, `TSelect` or `TReturn`, `TInsert`, then the phases:
  ingestion and bronze for a lake job, silver and gold for a mart. A phase
  in a container is `TLaunch` and `TWait`; every Docker call and every
  transaction has a failing twin (`TLaunchFails`, `TWaitFails`, `TRemoveFails`,
  `TSelectFails`, `TFinalFails`). `TFinal` is the `finally` clause.
- *environment*: `ContainerExit`, `Crash` at any point, `StartUp`, which cleans
  up containers and loads the rows, or fails to load them and goes on.

Abstractions. A job is its row and id; a cron expression is a model value and a
trigger may fire whenever its job is scheduled, so every real timing is
included. Of a row only what chooses the phases is kept. The silver phase runs
dbt in the UI's own process and is one action with any outcome. `plan`,
`passed`, `spoilt` and `cut` are history: the phases the row asked for, those
that exited with 0, the records whose run has left a container behind (a launch
that raised although the daemon had started it, a remove that raised) or died
with its process, and those that lost their last UPDATE or their process. So
`NoContainerForgotten` and `RunsFinish` hold of every other path into the
`finally` clauses, those of raised Docker calls included; a crash leaves the
record unfinished and the container running, and nothing repairs that. Not
represented: a commit that reports an error after it has taken
effect, a failure of `init_schema`, the pool limit and misfire grace time of
APScheduler (a trigger that is skipped is one that does not fire), a rejected
POST, which changes nothing. The registry of active jobs and the dbt files are
in `OnDemand`, for requests only: a triggered silver job registers, writes the
model and the sources file, runs dbt and starts the Gold container like
`/run-transform-load`, but with a second entry for Gold, and lists the first one
until Gold has ended.

| Run | Constants | Checks |
|---|---|---|
| `scheduler_safety` | a lake and a mart job, 2 crons with symmetry, 1 request at a time, 2 run records | `TypeOK`, `SuccessIsEarned`, `NoContainerForgotten`, `ScheduleMatchesRows`, `InactiveStaysQuiet` |
| `scheduler_liveness` | a mart job, 1 cron, 2 run records | `RunsFinish` |
| `scheduler_reregister` | 1 job, 2 crons, 2 requests | a divergence of section 12 |

`MaxRuns` counts run records with those about to be inserted, `Requests` the
requests under way; crashes, restarts, failures and the number of requests are
not bounded. Two records let two jobs run at once, or one job run again over
what its first run left; two crons are needed to tell a stale trigger.
No definition tells crons apart, and no liveness is checked under symmetry. After the last record the system goes on with requests
and restarts, so deadlock is checked.

`SerialSpec` adds one assumption to `Spec`: no two requests for one job are
handled at once, as with one user who waits for each answer. A run with one
request at a time meets it; without it the rows and APScheduler do part
(section 12). `FairSpec` assumes that a thread of the
pool proceeds and that a container ends some day (a dbt run of a silver phase
too); it never forces a failure. It does not force a restart or a firing.

`SchedulerProofs` proves, from `SchedulerAssumption` (silver jobs are jobs, the
bound is a natural number):

- `TypeCorrect` (`TypeOK`), with the phase of a thread at work as strengthening;
- `Agrees` - `SerialSpec => []ScheduleMatchesRows`. The strengthening says what
  the one request under way for a job will do to `sched`;
- `Quiet` - `Spec => InactiveStaysQuiet`, from type correctness and the guard
  of each step that begins a run;
- `Earned` - `Spec => []SuccessIsEarned`. The strengthening `RecordOf` says that
  the record of a thread at work is its own and unfinished, and that all it lacks
  of its plan are the thread's phase and the next one;
- `NothingForgotten` - `Spec => []NoContainerForgotten`. It needs that a phase
  has one container (`OneContainerPerPhase`) and that two threads never share
  a record (`OwnRecord`).

`RunsFinish` is model-checked only.

## 6. The Dhan token

`TokenProvider` models the processes of `docker-compose.yml` that share the
volume `dhan_secrets`: the live collector, snapshot jobs (`read_dhan_snapshot`)
and the helper `dhan-auth`. A token is the number with which Dhan issued it.
`file` is the token file; `proc[p]` has the provider's `_cached`, the client's
token (`held`), the collector's local variable `token`, and where the process
is in its calls. `fresh` and `live` say which tokens are not near their expiry
and which Dhan accepts; the two are independent, because the code reads the
expiry and learns of a revocation only from a 401.

- *get_token*: `UseCached`, `UseExplicit`, `UseFile` or `RejectFile` (another
  client's token), `RepeatExplicit`, `Generate` or `CannotGenerate`, in the
  order of the code: each is enabled only when those before it do not serve.
  `Mint` and `Save` are steps of their own, so other processes write the file in
  between; either may fail. `os.replace` makes `Save` atomic.
- *requests*: `Accept`, `Refuses` and `Denies` (401 and 403, with one refresh
  and a second try), other failures, `NotEntitled`. `AfterError` is what the
  exception handlers of each process make of a failure, `AfterSuccess` the next
  call.
- *collector*: `FeedLost` and `Resume`. `FeedToken` is the token the feed is
  opened with: the one fetched before the preflight, even if the preflight has
  refreshed it. That costs a connection; the next one uses the new token.
- *environment*: `Start`, `Crash` at any point, `Age`, `Revoke`.

Abstractions. Time is left out: `Age` and `Revoke` happen at any moment. All
processes have the settings of one `.env`. A file that cannot be parsed is not
represented, as only this code writes it. The provider's lock is not, because
each process calls its provider from one thread. `refused` is history.

| Run | Constants | Checks |
|---|---|---|
| `token_provider` | a collector, a job, a helper; 2 tokens | `TypeOK`, `RetryUsesAnotherToken`, `LogsInOnlyWhenRefused`, `RenewsUnattended` |

`MaxTokens` bounds only `Mint`, in the logins of a run; crashes, failures and
lost connections are not bounded. With two tokens one is refused and another
is written by a second process while the first still holds its own; a third
changes no answer, as each process compares the file with one cached token, and
the theorems hold for every number. Deadlock is checked.

`FairSpec` assumes that the collector and the job go on (the container is
restarted, Dhan closes a feed whose token it does not accept) and that from
some point on nothing goes wrong. `RenewsUnattended` then says that the feed
comes to stay open without a person, whatever was cached and saved by then. It
excuses a token of another client in the file, which stops the process by
design, and the bound. It is stated for settings without `DHAN_ACCESS_TOKEN`:
with it, if the explicit token is refused before it expires and the saved one is
refused too, the one refresh is spent on the saved one, the process ends with a
non-zero code, the next begins with the explicit token again, and PIN and TOTP
secret are never used until that token expires.

`TokenProviderProofs` proves from `TokenAssumption` (a positive bound, helpers
are not collectors or jobs): `TypeCorrect`, `Retries`
(`RetryUsesAnotherToken`) and `LogsIn` (`LogsInOnlyWhenRefused`). The inductive
invariant is `TokenInv`: a token that is being saved is known to its process
only; of the usable tokens refused to a process the file holds at most the one
it has cached, so a changed file has a token that was not refused; a request is
made with the cached token, or with the explicit one when nothing can replace
it; and what took the explicit token's place did so because it was refused. All
steps but four change one process's record only, and `RecordStep` says what
such a record must satisfy. `RenewsUnattended` is model-checked only.

## 7. On-demand runs

`OnDemand` models the seven kinds of requests that start work from the browser
(`/run`, `/run-bronze`, `/run-silver`, `/run-gold`, `/silver/run-transform`,
`/run-transform-load`, `/silver/compile-dbt`). `active` is `_active_jobs`; `req[r]` is
a request with its stage (`Stages` lists them), program counter and outcome;
`box[r]` are its containers and `watch[r]` the thread that `/run` leaves behind
when its bronze container still runs. `model` and `sources` are the files of
the dbt project, by the request whose text they hold; `copy[r]` is the document
a request has parsed; `silver` and `gold` are the rows dbt has produced and a Gold
container has read, again by request.

- *registry*: `Register` overwrites an entry of its label, `Attach` sets the
  container if the label is still there, `Unlist` removes whoever's entry it is.
- *containers*: `Launch`, `Waited`, `WaitFail` (the log stream or the wait raises while
  the container goes on), then the clean-up `Unlist` and `Clear`, or `HandOver` to the
  watcher, with `LaunchFail`, `ReloadFail` and `ClearFail` for a Docker call that raises.
- *dbt*: the model and the sources file are emptied by `open` and filled by a
  second step; dbt parses the whole project, so one model without its source
  fails every run (`Undeclared`).

Abstractions. A job is an application and a date; SQL is the request that
wrote it; dbt's strategies are not told apart. The container of `/run-silver`
runs dbt too (`docker/entrypoint.sh`), on the models of its image, since no
volume gives it those of the UI: `SilverBuilds` replaces the rows of its table
without reading or writing the shared files. Disk errors while the two
files are written, and a crash of the UI, which empties the registry, are left
out. `erred`, `shared`, `raced` and `srcRaced` are history: Docker calls that
raised, requests that met another of their label, requests that met another
that writes their model file or whose rows a `/run-silver` container has
replaced before their Gold (`Counting`), and two updates of the sources file at
a time.

| Run | Constants | Checks |
|---|---|---|
| `ondemand` | 2 requests, 12 forms over 2 dates and 2 tables | `EntryHasItsRun`, `RunIsListed`, `NothingLeft`, `OwnWork`, `SourcesDeclared`, `NoKilledRun`, `ListEmpties` |

The properties are exact about their exceptions: a request that shares its label
with nobody is listed with its own container (`RunIsListed`), while an entry of
any request, shared or not, is true (`EntryHasItsRun`). All pairs of forms that
matter for a shared label, file or table are among the twelve; a third request
adds no new relation, since every property is about one request, one entry
or one table and whoever interferes with it. Each request is posted once, so the run
ends: deadlock is not checked, `ListEmpties` is. Fairness is one weak fairness
condition for all threads and containers together: a request has no loop.

`OnDemandProofs` proves `TypeOK` and all six safety properties of the run from
`FormsAssumption` (there are a job and a table, `None` is no request), for any
number of requests, jobs, tables and forms. `IInv` has three parts. `Locals` ties
each request to its containers, its watcher and the Docker calls that raised: a
stage that has not launched has no container, a watcher owns a bronze container of
a request that is done, a container that still runs during the clean-up has a
failed wait behind it. `Registry` says of every entry whose it is and which
container it may show, finds every unmet stage on the list, and makes two stages
of one label meet (`Met`), without which the removal of an entry would not be known
to be the request's own. `FInv` adds the files: two requests that hold one table
have raced (`Pairs`), one that has not finds its own SQL, rows and Gold content
(`Owns`), and while nobody races on the sources file the declaration of a
model is in it, still to come, or in the document about to be written
(`Declared`). Each step is shown to be local to its request (`Others`), quiet
for the registry or for the files, and only the few that are neither are
followed one by one. `ListEmpties`, a liveness property, is model-checked only.

## 8. Lake and Bronze

`LakeBronze` models one application: `hms` says per layer whether the metastore
knows the table, or knows it while its metadata are gone; `lake` and `bronze` are
the rows per date; `job[j]` is a container with its mode, date, the rows it
has computed, and what it has seen of the table. `meta` is what the metadata CSV
names (keys and a timestamp, keys only, neither).

- *ingestion*: `IngestRead`, `Check` or `CheckStale` (`table_exists_safe` drops a stale
  entry and answers "missing"), `LakeDrop` in a replace, then one Iceberg
  commit: `LakeWrite` or `LakeCreate`, which fails if the table has appeared.
- *Bronze*: `BronzeRead` with `_dedup`, `Look` at the previous snapshot and its
  merge in a delta run, `LookFails` (`_bronze_table_exists` takes any error
  for a missing table), then `BronzeWrite` or `BronzeCreate`.
- *failures*: `Fail` at every step, `LoseMetadata`.

Abstractions. A row is a key, a timestamp (0 for null) and a value; the source is
the batch it yields; deduplication picks any of the tied rows, as Spark does.
`by`, `current` and `lost` are history: how a snapshot was built, which
snapshots have had no later change of what they were built from, and whether
the lake table has been lost. `LakeKeepsRows` compares each step with the rows
before it: a run whose test for the table no longer holds - another run has
created it, or dropped it in a replace - must fail rather than take rows away.

| Run | Constants | Checks |
|---|---|---|
| `lake_bronze` | 2 containers with symmetry, 2 dates, 2 keys, 4 batches, 4 runs | `OneRowPerKey`, `SnapshotsAreLatestState`, `LakeKeepsRows` |

Four runs are two ingestions and two Bronze runs, in any order and overlap: enough
for a back-fill, a replay, a late batch and a delta on an earlier snapshot. The
batches have a null, a tie, a newer and an older row of one key. `LatestState` is the
reference definition a snapshot is compared with, for the rows as they are in
`lake` and the previous snapshot. A snapshot whose inputs have changed since
is not `current`: the code rebuilds no later snapshot after a back-fill.
The number of runs is bounded, so deadlock is not checked.

`LakeBronzeProofs` proves `TypeOK` and all three properties (`RowsAreKept` is the
action property), and that a table once created is missing only in the middle
of a replace, after one that failed there, or after a loss of its metadata
(`LakeStays`), from `BatchesAssumption`, for any finite set of rows, any batches, dates and containers and any number
of runs. Besides the properties themselves the invariant says what a container holds
between its steps: the rows that it has computed have one row per key
(`JobsHaveOneRow`), and as long as neither its Lake date nor an earlier
snapshot has changed they are the latest state (`JobsAreSound`), which is what its
commit turns into a statement about the snapshot.

## 9. Gold

`GoldPublish` models `publish` as its statements: `ReadColumns`, `Count`, `LookTarget`,
`Query` (a statement reads its snapshot) and `Insert` or `CreateOrReplace` (it
commits), in containers that nothing keeps apart, over a Silver table that
`Rebuild` may change or remove between any two of them. `gold` is a bag of rows,
because an append may add a row twice. Names and types of columns are abstracted
to their number. `fresh` and `raced` are history: Silver is as it was counted;
another publication has ended since this one looked at Gold.

`GoldTable` is what the layer promises to readers: one publication after the
other, each as a whole. `OnePublicationAfterTheOther` states that `GoldPublish`
implements it. `asked` names the strategy and the day of each publication that
is about to end, so a step is compared with what was asked for: a day
replacement that removed another day's rows is not excused as a replacement of
the table. `open` stands for an overlap, which may do anything but remove the
table. Without the exception the promise does not hold: two appends
that both find no table are two `CREATE OR REPLACE`, and the second removes the
rows of the first (`README.md:179` says "Add source rows"); two replacements of
different days undo each other in the same way.

| Run | Constants | Checks |
|---|---|---|
| `gold_publish` | 2 containers with symmetry, 2 days, 4 publications, 5 states of Silver, 2 rebuilds | `NeverEmptied`, `OnePublicationAfterTheOther` |

Four publications are an existing table, two that overlap, and one that reads
what they have left, such as rows with fewer columns than the table: a day
replacement copies those with nulls (`Projected`). Rows without a date, a missing day, a missing table and an
additional column are among the states of Silver. The number of publications
is bounded, so deadlock is not checked.

`GoldPublishProofs` proves `TypeOK` and `NeverEmptied` from `GoldAssumption`, for any number
of containers, days, versions and states of Silver. The invariant follows one
publication: as long as Silver is as it was counted there are rows to publish,
of the day that is replaced (`HasRowsToPublish`), and what it holds at its commit
has the columns it has read.

`PublishesAsAsked` proves `OnePublicationAfterTheOther`. Its invariant `LookInv`
(`LookInvariance`) says of each publication that, if no other one has ended since its
look at Gold, the table is there if and only if it found it, has the columns it
compared, and holds, for the days it does not replace, the rows its statement has read.
From it each commit is the abstract `Replace`, `Append` or `ReplaceDay` that
was asked for. That a table always has between 1 and `MaxCols` columns is all
that is proved of a raced publication; the rows it copies under other columns
(the bag of `Existing`) are computed by the runs only.

## 10. Vault

`VaultInit` models `docker/vault_init.py` statement by statement, from the wait for
the API to the seal monitor; the Vault server (`vault`, `seeded`, `tokens`), which
restarts sealed; `INIT_FILE` and `TOKEN_FILE`, which are emptied before they are
written; and a process with the cached client of `vault_client.py`. `Seeds` are
the writes of the bootstrap in their order, and `Skips` those left out because a
setting is blank.

- *daemon*: `Begin` ... `WriteToken` once, then `Notice`, `Reunseal`, `CreateToken`,
  `OpenTokenFile`, `WriteToken` whenever the monitor sees the seal. A step that
  cannot be done (`Refused`) or fails (`Error`) ends the bootstrap, and Docker
  starts it again; the monitor goes on.
- *environment*: `VaultDown`, `VaultUp`, `Sealing`, `Kill` (the next container
  may have other settings), `LoseKeys`, `Expire`.
- *client*: `Call`, `UseCached` (which renews the token) or `ReadToken` and
  `Authenticate`, `ReadSecret`; `ClientError` is a request of it that fails on the
  way: `get_vault_client` swallows an error of the look at the cached client and
  of the renewal, all others reach the caller.

| Run | Constants | Checks |
|---|---|---|
| `vault_init` | 3 troubles, 4 tokens | `KeysAreKept`, `TokenOpensDoors`, `FailuresAreDue`, `BlankSettingsChangeNothing`, `TokenWorks` |

`MaxTrouble` counts faults of any kind together; three are a crash in the
bootstrap, a seal and an expiry in one behaviour. A token is written once for
every bootstrap or seal, so `MaxTokens` must be larger (`BoundsAssumption`).
Fairness: the daemon and both containers go on (`restart: unless-stopped`). The
faults end, so `TokenWorks` is `<>[]`. Vault comes to be open unless `lost` (the keys
were never saved: the price of one key share whose only copy is the answer to
one request), and the token is valid unless it is `spoilt` too (it expired, or
the monitor failed while it wrote the file; it tries again only at the next
seal, since it looks at nothing else). A token expires when nobody has renewed
it for its period, so one that a client has just renewed does not.
Deadlock is not checked, as an open Vault with a quiet client may stay as it is.

Not in the model: the health check of the container, which is content with an
unsealed Vault before the token file exists; the salt's value, which a restart with a
blank `SALT_2` overwrites with an empty one; the comment on a "24h" token in
`vault_client.py`, which lives 768 hours.

`VaultInitProofs` proves `TypeOK`, `KeysAreKept`, `TokenOpensDoors`, `FailuresAreDue` and
`BlankSettingsChangeNothing` from `BoundsAssumption`, for any number of tokens and of
faults. The strengthenings are `SeedsSoFar` (the seeds up to the daemon's step
are there, and from the token on all of them) and `CallsAreCalm` (a call whose
Vault, token and requests have been as they should be has a valid token in its hand), without which a
client between two of its steps would know nothing. `TokenWorks` is model-checked
only.

## 11. Mutants

Every property of a passing run has a mutant in `PROJECT.json`: a plausible bug
in one definition (the list not cleared before the upload, the replay that
lists nothing, the loop condition read in the other order, a join without
time-out, a watcher that forgets the entry, a merge that prefers today's row)
that the property must detect. Their definitions stand before the ones they
replace and are marked "Fault".

## 12. Where comments and code disagree

The first two have a run that TLC refutes and an entry under `findings`; the
others were read off the code while modelling it.

- `WriterErrorExitsNonZero`: a stop during the start-up replay returns 0
  whatever the writer did afterwards.
- `ReRegisteringIsSafe`: two POSTs of one schedule may commit in one order and
  reach APScheduler in the other; the row then has one cron and the trigger the
  other until the next restart. A POST and a DELETE can part in the same way:
  a deleted job stays in APScheduler (harmless, by `InactiveStaysQuiet`) or an
  active one is missing from it.
- `live_collector.py:214` says that callbacks are stopped first. The failed writer
  sets its own stop event only, so callbacks go on filling the queue it has
  drained; `preserve_queued` saves those ticks later, as `GracefulExitKeepsTicks` shows.
- `live_collector.py:202` says that a failed writer ends the process. `writer.error`
  is looked at only after a connection has lasted half a second; with a network
  that recovers the process does end (`WriterErrorEndsTheRun`).
- `ui/app.py:2346` says that stopped containers of crashed runs are removed at
  start-up. They are looked for by a name the UI never gives them.
- The first append to Gold and the 24 hours of the Vault token: sections 9 and 10.

## 13. Not modelled

`PROJECT.json` lists every component. `Instruments`, `TickPipeline` and `Login`
(section 2) are left for later. Not planned: argument parsing, casting, masking and
mail (`ingestion/pyfiles`), which are sequential and keep no state; the SQL and AI
proxies; the browser code; the retired Oracle loader; container definitions,
except for the restart policies that `LiveCollector` and `VaultInit` use.
Normalization of a packet is a pure conversion and appears only as success,
nothing or failure.
