# Server_API: a TLA+ model

Server_API serves production records of a plant from two SQLite databases (a
live one that the ERP replaces, an archive that does not change), takes in
documents that portal bots collect, watches for anomalies and tells webhooks
about them. A desktop program, the manager, starts and stops the parts. Most of
it is a FastAPI process with threads; around it are bots, a detector daemon, two
file watchers and scripts, which share files and no locks.

This directory models the parts of it that keep state and where the order of
steps decides, and two that compute what is answered and reported. The 18
component modules are translated from the code, TLC checks them on small
instances in six runs that hold and six that show a disagreement between the
code and its own words, and TLAPS proves every safety property of the six runs
for every value of the constants, a few of them under an assumption that section 4
names; what is left to TLC alone is liveness.

    tlc -workers 2 -config queue.cfg MCWebhookQueue
    tlapm WebhookQueue_proofs.tla

`PROJECT.json` has the details: the source lines of each definition, the runs,
for each property a change of the code that breaks it (the definitions marked
"wrong on purpose" or "a plausible bug", which no specification uses), the
hazards of the code and the theorems.

## 1. The system

Paths are below `src/`. "Correct" is what should hold; section 3 says which
property states it.

**Webhook delivery queue** (`api/notifications`, `api/routers/notifications.py`).
State: the tables `webhooks` and `webhook_deliveries`, and the locals of one
worker thread: its batch, the attempt numbers it read at claim time.
Operations: create, update and delete a webhook; enqueue a delivery for an
event; test a webhook (a pending row, a send, its result); retry one delivery or
many; the worker's recover, claim, send, record and release; start and stop with
the API process.
Interactions: emitters call `enqueue_delivery` from the detector and the API;
handlers run in threads of the pool; the receivers are outside.
Hard: every transaction of one thread falls between two of another; the process
can be killed between a send and its record; a claim has a lease.
Correct: no row is sent more often than its attempts allow, success is never
false, a clean shutdown leaves no claim behind, an accepted retry is dispatched,
orphans are recovered, waiting rows are settled.

**SQLite transactions of the stores** (`notifications/webhooks_repo.py`,
`deliveries_repo.py`, `materials/store.py`). State: the
transaction each thread's connection is in. Operations: the writes of requests,
of the worker's tick and of the daemon's fan-out, and what each does when it
raises.
Hard: sqlite3 begins a transaction by itself, most operations end it only when
they succeed, and the connection goes on to serve other requests.
Correct: the file holds what callers were told, one webhook's failure costs the
others nothing, the worker never trips over its last tick.

**Materials automation** (`api/materials/automation.py`, `runs.py`).
State: one runs table per dataset, worker threads, bot processes.
Operations: `POST /materials/run` and `/binder/run`, the reaper of stale rows,
the worker's launch and finish.
Interactions: all bots use one portal session, so one at a time; a bot outlives
the API process that started it.
Hard: the guard reads several tables one by one under a lock that the worker
threads do not take; a crash leaves rows that nobody will finish.
Correct: one running row, one bot as long as none hangs, results stay but for a
run that was given up too early, no orphan blocks.

**Materials intake** (`api/materials/store.py`).
State: a table of rows per dataset, the tombstones of deleted documents.
Operations: backup (look up tombstones, look up existing rows, write, record),
delete and restore a document.
Hard: a backup is three transactions, others come in between.
Correct: a deleted document does not come back, the counts (received, inserted,
changed, skipped) are true.

**Materials schema migration** (`api/materials/store.py`, `_migrate_table`).
State: the table, its key and columns, the table moved aside.
Hard: DDL commits statement by statement, and the process can die anywhere.
Correct: no row is destroyed, and the next start completes the work.

**Production records query** (`api/routers/records.py`, `shared/database.py`).
State: none in the server; the cursor is the client's, the databases the ERP's.
Hard: rows and the archive file come and go between two pages and between the
steps of one request.
Correct: one copy of each row, none twice, none that stayed left out.

**Summary routes** (`api/routers/summary.py`, `shared/database.py`). State: none.
Each database is aggregated by itself and the partial groups are merged.
Hard: a row has copies in both databases for a while, a month or item has groups
in both, averages are merged as averages.
Correct: sums, counts, averages and the cut at the limit are those of one query
over the union.

**Connection cache** (`shared/_db_connection.py`, `shared/database.py`).
State: a connection and the mtimes per thread, a registry over all threads.
Operations: get a connection, discard it, sweep those of dead threads.
Correct: a query runs on an open connection of its own thread on current files;
none leaks.

**Response cache** (`shared/cache.py`). State: a TTL cache keyed by a version
made of the files' mtimes, itself cached for a second. Correct: staleness is
bounded.

**Rate limiter** (`shared/rate_limiter.py`, the middleware in `api/main.py`).
State: a deque of timestamps per IP, a counter of requests. Correct: the budget
holds in every window, Retry-After is true, the clean-up forgets nobody early.

**Anomaly emission** (`api/anomaly/detector.py`, `store_state.py`,
`store_findings.py`, `tools/anomaly_watch.py`). State: the cooldown file and its
temporary file, the findings table. Two processes run the same scan without a
lock. Correct: once per cooldown, and what failed is not silenced.

**Anomaly rules** (`api/anomaly/rules.py`, `collect_findings` in `detector.py`).
State: none; they read the production rows. Hard: days without production, the
day that is not over, a lookback that two settings share. Correct: the present
day decides nothing, the baseline is full, no stopped item is missed, what gets
worse is not judged milder.

**Service manager window** (`manager.py`) and **process tree killer**
(`shared/process_utils.py`). State: a child process per panel, the set known to
the exit hook, what the panel shows, a monitor thread per one-shot run.
Correct: no panel has two children, quitting leaves none, a kill ends the tree
it found and nothing else.

**Index healing** (`shared/db_maintenance.py`, `tools/db_watcher.py`,
`tools/watcher.py`, and `tools/create_indexes.py`, run by hand). State: the last
state of a file each watcher remembers, one in memory and one in a file.
Correct: missing indexes come back, the watchers do not wake each other for
ever, ANALYZE runs once a day.

**Database backup** (`tools/backup_db.py`). State: the backup files of one
database. Operations: copy, check, remove the oldest; `--cleanup` alone.
Hard: scheduled and manual runs overlap without a lock, and are killed.
Correct: a checked backup goes only when enough others are as new, and nothing
half made stays.

**Archive cutoff** (`scripts/archive_cutoff.py`). State: the documents in the
tree and in the archive. Correct: nothing is overwritten, the rest of a run cut
short is found by the next.

**Portal job settings** (`portal_jobs_logic.py`, `portal_settings_dialog.py`).
State: jobs, collectors and routes in `config.json`, which a write that ends half
way leaves unreadable (`torn`), and the dialog's copy. Correct: what was removed
stays removed, editing one thing keeps the others.

The parts that keep no state of their own or nothing that another step reads
(metrics, signing, system routes, keys and validators, logging, theme, the bot's
environment file, developer scripts) are listed in `PROJECT.json` with the reason.

Parts meet in few places. The detector ends in the queue's `enqueue_delivery`,
which `AnomalyCooldown` takes as an outcome (queued, swallowed, raised) and
`WebhookQueue` as an action. The records query runs over the connection cache
and under the response cache; each is modelled by itself, with the others as
arbitrary delays. The manager starts the API, whose life cycle is in
`WebhookQueue` and `MaterialsRuns`.

## 2. Modules

| module | code | a step is |
|---|---|---|
| `WebhookQueue` | notifications, its routes, `main._lifespan` | one SQL transaction, one send, one change of the process |
| `DeliveryPromise` | (abstract) | what happens to a delivery as its readers see it |
| `StoreTransactions` | the webhook and materials stores | one write with its commit or its failure, one SELECT |
| `MaterialsRuns` | automation and run history | one read or write of one table, a start or end of a thread or bot |
| `MaterialsIntake` | backup, delete, restore | one SELECT or one transaction |
| `MaterialsSchema` | start-up migration | one SQL statement |
| `ProductionPages` | GET /records over both databases | one look at the archive file, or the query |
| `SummaryMerge` | the summary routes, `build_aggregation_sql` | the ERP books, archives or deletes a row; a request is evaluated in each state |
| `DbConnections` | `get_connection`, registry, sweep | one critical section, or one call on a connection |
| `ApiCache` | `api_cache`, `get_db_version` | one critical section; a hit has two steps, as it has two looks at the clock |
| `RateLimiter` | limiter and middleware | one stretch of the middleware between two awaits |
| `AnomalyCooldown` | `_emit_new`, `save_state`, `record_emitted` | one file operation or one emission |
| `AnomalyRules` | `collect_findings`, `rules.py` | the ERP enters or deletes a row; a scan is evaluated in each state |
| `ServiceManager` | panels, monitors, exit | one handler of the main thread, one line of a monitor; a stop has two steps, before and after the kill |
| `ProcessTree` | `kill_process_tree` | one signal to one process |
| `IndexHealing` | both watchers, `create_indexes` | one look at the file, a heal (whole or cut short), an ANALYZE, a save |
| `BackupRetention` | `backup_db.py` | one file operation of one run |
| `ArchiveCutoff` | discovery, plan (a set, taken in the order `Before`), moves | one move |
| `JobSettings` | dialog and modal | one handler |

`MCX` gives `X` its values for TLC. Parts that share no state are put side by side
with their parameters, and the properties of such a run are conjunctions of the
named properties of its parts:

| module | parts | names without a prefix are those of |
|---|---|---|
| `ProductionParts` | pages, summaries, rules, the emission three times | `ProductionPages` |
| `FileParts` | intake, transactions twice, migration, documents | `MaterialsIntake` |
| `ServerParts` | connections, limiter, response cache | `DbConnections` |
| `ManagerParts` | backups, panels, tree, watchers, jobs | `BackupRetention` |

A variable `at`, chosen once, says which part moves in a behaviour, and the others
stay in an initial state: nothing is lost by not interleaving them, and no
product of their states is explored. `ProductionParts` and `FileParts` have `at`
and the specification `AllSpec` themselves, as some of their parts share
variables; for the other two it is in `MCServer` and `MCManager`, and their
theorems speak of the specification of each part.

`X_proofs` holds the theorems about `X`. `FileParts_proofs` takes what it needs of
the transactions from two instances of `StoreTransactions_proofs`, and
`ProductionParts_proofs` what it needs of the emission from three of
`AnomalyCooldown_proofs`; in both, lemmas say that the names of an instance of the
proofs mean what those of the instance of the module mean.

Conventions. Sends, commits and reads of a file are steps of their own wherever
another actor can come between; what runs under a lock or on the one main thread
is one step. Variables under "history" record what the properties speak about
and, but for the counters that bound the model, no guard reads them. Failures are
a disjunct of the step that fails, limited by `MaxFaults`. Time is relative (ages, due times) in the queue and the runs,
and a bounded clock elsewhere.

## 3. Runs

Six runs hold, each with between eighty thousand and four million states and
within four minutes. Invariants and action properties need no fairness.

**queue** (two rows of one webhook, two attempts, batches of two, sends that take
up to one unit of a lease of two, one fault; retries of failed rows). `SendBudget`: a
row is sent at most MaxAttempts times between two retries, plus once per lost
outcome. `NoFalseSuccess`: success was accepted by the receiver. `InFlightOwned`:
without a fault, in_flight means in the hands of the live worker. `RetryDispatched`,
`OneSender`: a retry leads to a dispatch, and never two senders of a row.
`ClaimsKeepPace`: a claim in the worker's hands is no older than the sends of its
batch so far, so that nothing else eats into the lease. `KeepsPromise`: the queue
implements `DeliveryPromise` with phase <- the class of the status, accepted <-
received. `OrphansRecovered`, `Settles`, `StopEnds`: orphaned claims are requeued,
waiting rows settled, and a shutdown ends. Two rows are what ordering, limits and a
half-sent batch need; two attempts are the first, a retry and the last. The two
sends of a batch last as long as the lease together, as they may by the code's
defaults, so a live worker's claim does reach its lease here (`queue_lease`).

**runs** (two datasets, two handlers, two rows, two faults, a stale limit of two
units and bots that live as long as they like). `OneRunning`; `OneBot`: of two bots
that run, one is past the limit; `FinishedStays`: a success is final, and a failure
becomes a success only when the row was given up as stale while its thread still
waited, by that thread and its own bot; `RefusedOnlyByFresh`: no orphan refuses a
request; `Unblocked`: none stays for ever. An age counts up to the limit, as nothing
looks further.

**production** (what is made of the production data).
Pages: four dates with the cutoff at 3, all ranges, seven rows with copies in
both databases, pages of two, two changes, one swap of the archive; the smallest
in which a range end, a page end and a pair of copies meet. `PagesAreRight`: one
copy of each row, range ends inclusive on both sides of the cutoff, and no row
that was there all along is skipped. `NoRowTwice`: what the cursor promises.
Summaries: three dates in two months with the cutoff at the second, three rows,
two equal in size, two items, limits of one and three. `SummariesAreDirect`: every
request of the three routes answers what one query over both databases would.
Three rows give a month two days, a group parts in both databases and a tie.
Rules: seven days of which the sixth is today, three rows, two items, sizes that
reach all thresholds, three settings (one where the stale threshold is larger
than the baseline, one with no days at all). `RulesAreSteady`: today and later
days decide nothing, the baseline has all its days, a stopped item is found and
critical in time, worse is not milder.
Emission: a daemon alone over a clock longer than its prune limit (`CalmRun`), a
daemon killed twice and failing once, with Windows renames (`KilledRun`), a daemon
beside the API with POSIX renames (`SharedRun`).
`EmissionIsExact`: for the daemon alone, killed or not, once per window unless the
mark of the first was lost (`unmarked`), every cooldown is backed by the history
unless its row was (`unrecorded`), a killed save leaves a readable file; beside the
API, a failed emission is not silenced. Two kills lose a mark and then the row that
would have replaced it.

**files** (what the API and the archive script write).
Intake: a document of two items, two contents, two request threads, one fault.
`BackupsAreExact`: every row received is counted as taken or as skipped, and the
counts of inserted and changed rows are true unless another request came between
lookup and write. `RevivedOnlyByRace`: a tombstoned document has rows only if a batch
had passed the tombstones when it was deleted.
Transactions: the webhooks' file with two request threads, worker and daemon, two
webhooks, two events, one restart; the materials' file with two rows. Two
webhooks are a fan-out that goes on after a failure; two events are a
transaction left open by the first that is met by the second. `DatabaseIsAsTold`:
what was acknowledged is there and what was refused is not, but for the rows of a
batch refused half way. `FailuresStayLocal`: the fan-out reaches the other
webhooks, and the worker comes to a claim without a transaction in its way.
Migration: three rows, up to three starts cut short. `MigrationIsSafe`: the server
works on the migrated table only, and no row is destroyed. Archive: a cycle of
four documents, three dates in two months, five versions. `DocumentsAreKept`: each
version is in one place, and what a run left behind the next one finds.

**server**. Limiter, with two clients, two requests in a window of two seconds, and
a clock of half seconds, so that Retry-After is rounded: `BudgetIsExact` (the budget
of every window, a true Retry-After) and `RefusedOnlyAtLimit`. A response of the other
limiter, for reads or for writes, moves the counter they share, so that the clean-up
comes at any moment. Cache, with two
replacements of the file and one failing stat: `CacheIsSound` (staleness is
bounded, an entry found is served).
Connections, with two threads that die and are replaced, two swaps and four
connections, as each thread may hold one and leave one: `ConnectionsAreSound`
(used ones are open and current, none leaks, the registry is bounded).

**manager**. Panels, with three processes, so that a panel has a next one while a
monitor still waits for the last: `EveryChildIsHeld`, `ShotIsReset`. A stop
unregisters the process, kills it, and lets go of it, and monitors, posted calls and
ends of processes come in between; a kill that is denied leaves the handler, and
with it a process that its panel still has and the exit hook no longer knows. A
start may fail, which leaves the panel showing a service that is not there until Stop
is pressed, and no property says that the label is true. Tree: a root, a stranger
and three more, two of them deaf to terminate, any of which may deny it;
`KillsTheTreeOnly`. Watchers and
the script run by hand: on the archive file with a long clock
(`AnalyzedOncePerDay`), and on a live file, absent at first, with two changes, so
that one comes while the other is being healed (`HealsAndSettles`). A heal that fails
may have written some of the indexes. Backups: two
runs that overlap, three files, a retention of two, one refused unlink or lost
listing, one kill. `NewestAreKept`: a checked backup is gone only when as many as
are kept are as new; `OnlyGoodOnesAtRest`: nothing unchecked stays and no more
than the retention, unless a run was killed or an unlink refused. Jobs: two
keywords, a dialog with its modal, a failed read and a failed write, which may
leave the file as it was or cut half way; and two dialogs on one keyword, with a
failed write; `JobsAreKept` until one of them writes a copy older than what the
other has written (`overwrote`).

Type invariants are `TypeOK` in the queue and the runs and a conjunct of one
property per part elsewhere. `CHECK_DEADLOCK FALSE` is set in the four runs that
put parts side by side, and in the violations of such parts, because a part stops
by design: a client that has its last page, a killed tree, clocks at their bound,
a manager that has quit. In the queue and the runs deadlock is checked: there is
always a next step.

Six runs find a violation: `queue_retry_lost`, `queue_lease`, `schema_stranded`,
`jobs_failed_read`, `cooldown_swallowed`, `stores_locked_out` (section 7).

### Fairness

- `WebhookQueue`: weak for the worker thread, which runs until it is told to end,
  and for `Joined`, which follows as the thread has ended. Strong for `Advance`:
  `_run` waits `tick_sec` between two ticks, so time passes although a worker
  without work is enabled all the time. Nothing for requests, the receiver or
  the start of a process that is down.
- `MaterialsRuns`: weak for handlers and worker threads, strong for time. A bot
  ends some time, however late, somebody starts the API again, and
  presses the button again: `Click` is strong, as it needs the lock, and without
  it nobody reaps.
- `ServiceManager`: weak for the monitors, the return of a kill (its waits have
  time-outs) and the end of a one-shot run; strong for the posted reset, which the
  event loop comes to between two handlers. `IndexHealing`: weak for a watcher's cycle, which sleeps
  a fixed time between two rounds; the ERP and the script run by hand owe nothing,
  their changes are bounded.

## 4. Proofs

All proofs are checked by TLAPS to the leaves. The assumptions are the ASSUME of
the module (types of the constants) and what a theorem's own ASSUME says; the
latter are named here. "Any" below means: for every value the types allow.

**Queue** (`WebhookQueue_proofs`, any webhooks, rows, attempts, faults).
`TypeCorrect` rests on `TypeInv == TypeOK /\ Holding`, which ties the locals of the
thread to its program counter. `SendsAreBounded` needs `Budget`: for a row at rest or
claimed, the sends made stay below its attempt number plus its lost sends, and the
same for the number the worker read at claim time. Both copies are in the invariant
because a retry may reset the one while the worker writes back the other.
`SuccessIsTrue` needs `Truthful`: a reply about to be stored is true already.
`ClaimsAreOwned` needs no more than `Holding`.
`RetriesAreDispatched`, `NoSharedDispatch` and `QueueKeepsPromise` assume
`RetryFrom \subseteq {"failure", "dead"}`, what the bulk retry enforces and the single
retry leaves to the operator; without it `queue_retry_lost` is the counterexample.
`Exclusive` is what makes them inductive: worker, test handler and retries write to
different rows. The refinement is one lemma per class of step, each of which is a
step of `DeliveryPromise` or leaves its variables alone.
`ClaimsAreInTime` needs `InTime`: the age of a claimed row is covered by the sends of
the rows before it and the one in progress, whatever is retried, deleted or recovered
meanwhile. A row in the worker's hands is therefore younger than `Batch * SendMax`,
and the lease is long enough when it is longer than that; the code's own defaults,
16 sends of up to 5 s and a lease of 60 s, are not (section 7).

**Runs** (`MaterialsRuns_proofs`, any datasets, handlers, rows and faults).
`RunTypes`; `GuardIsExclusive` by `Guarded`: one handler holds the lock, and the tables
it has passed stay free because only the holder inserts. `RefusalsAreFresh` by
`Reaped`: the tables a handler has passed hold no orphan, as no time passes under
the lock and a row inserted is new. `OneBotAtATime` and `ResultsAreFinal`, for bots of
any duration, need `Covered`: a living bot, or a thread that may still launch or
record, has a row that is running or was given up at the stale limit.

**Intake** (`FileParts_proofs`). `TombstonesHold`, by `RacersKnown`: a batch that still
holds keys of a tombstoned document is a racer. `CountsAreExact`, by `SeenIsThere`:
what a request that nobody overtook has looked up is what the table has, up to the
moment it writes.

**Transactions** (`StoreTransactions_proofs`, any threads, webhooks, items and
events). `FileIsAsTold`, `WorkerStaysClean`, `FanOutIsComplete` and the types, by the
invariants `Safe` and `Recorded`. Its part `Core` says that the draft of the connection
that holds the lock, like the file, agrees with what callers were told: without it,
nothing could be said of the commit that ends a transaction somebody else has left
open. `Ids` is that no id of a webhook is given out twice, without which a row
queued for a deleted webhook could speak for a new one; `Clean` is the worker's own
state. `FilesAreAsTold` and `FailuresRemainLocal` are both instances together.

**Migration** (`FileParts_proofs`, any rows and number of starts cut short).
`MigrationsAreSafe`, by `Migrating`, which says for each point of the script what the
table and the table aside hold there: the one aside is dropped only when the table
has its rows, and unless a start was cut short there is one only inside the script.

**Documents** (`FileParts_proofs`, any slugs, kinds, dates and edits). `DocumentsStay`,
by `Conserved`: a version is in the tree or archived once (`OnePlace`), a move that is
planned has its document in the tree and a month of its own (`Planned`), and what
is not archived yet of a cycle still has its report in the tree, by which discovery
finds it (`Findable`) - the reason why the report is moved last.

**Pages** (`ProductionParts_proofs`, any rows, page size, range and cutoff).
`CursorNeverRepeats`, by `Passed`: all rows received are at or before the cursor; the
order of the query is strict and total, so a finite set of rows has a first and a
last. `PagesAreComplete`, by `Kept`: a row that was there all along has been received
or lies after the cursor (`Ahead`), and the statement being served looks into the
file it is in (`Targeted`). Without them the claim would be about the end only,
and not inductive.

**Summaries** (`ProductionParts_proofs`, any rows, quantities, requests and a cutoff
at the start of a month). `SummariesStayDirect`. The state adds little (`BookTyped`);
the argument is about the operators: `OwnersAreAsked` (the routing leaves no row of
the range out), `MonthOnOneSide` (so an average is never merged from two parts),
`EveryKeyMerges` (the sum and the count of a group are those of its parts), and
`FirstByKey` (the cut at the limit is the same when the keys and figures are).
`MapThenSumSet` is shown to add up every element once over the well-founded order of
the subsets of a finite set.

**Rules** (`ProductionParts_proofs`, any days, items, quantities and thresholds).
`RulesStaySteady`, again by lemmas about the operators: `TodayIsLeftOut`,
`WindowsAreFull` (with few days without production the lookback reaches back to the
whole baseline), `StopsAreFound`, and `WorseIsJudgedWorse`, which compares two
states of the rows: the ratio moves with the day's quantity because the baseline
does not.

**Emission** (`AnomalyCooldown_proofs`, any scanners, keys, window, prune factor and
retention). `MarksAreEarned` for any number of scanners, faults and crashes, by
`Honest`: a mark on disk, in the temporary file or in the hands of a scanner stands
for a call that returned. `SavesAreWhole` and `WindowsAreKept` hold for behaviours in
which no two scans overlap (`[]NoOverlap`: while one is in progress the others rest),
with any number of scanners, faults and crashes. `Whole` follows the temporary file
through its truncation, write and rename; `Exact` relates the cooldowns to what was
queued (`Timely`) and to the history (`Backed`), from the memory of the scan while it
has one and else from the file, except for the marks and rows that a kill or a
failure has cost. That scans do not overlap is needed: section 7 has what two
scanners do at once. `EmissionStaysExact` puts the three together for the instances
of the run; a daemon that is alone does not overlap with itself.

**Backups** (`ManagerParts_proofs`, any runs, retention and number of faults and
kills). `BackupsAreKept` needs `Covered`, which extends the property to files that a
listing has doomed and not yet removed; `Own` and `Known` say whose an unchecked
file is and that no file is from the future, so that a file added later is as new
as those it replaces. `RestIsTidy` needs `Tidy`: each file is checked or in the
hands of a run, and those that no listing has still to judge are within the
retention.

**Panels** (`ManagerParts_proofs`, any number of processes). `ChildrenAreHeld`, by
`Held`: what a panel or a monitor has was started, so a new process is in nobody's
hands yet, and what was denied is still with its panel.

**Tree** (`ManagerParts_proofs`, any processes). `OnlyTheTreeDies`, by `Hunted`: the
snapshot is the root and descendants of it, and what is alive of it when killing
begins is still to be visited, unless a denial has ended the call. Descendants are the least set closed under children,
and a fork only adds to it.

**Watchers** (`ManagerParts_proofs`, either database, any interval, checks, retries
and changes). `AnalyzeIsDaily`, by `Daily`: until a cycle is lost before its save is done, the
time the script keeps, or is about to save, is that of the last ANALYZE.

**Jobs** (`ManagerParts_proofs`, any keywords, dialogs, failed reads and failed
writes). `JobsStayAsSaved`, by `Faithful`: until a dialog writes an older copy, a copy
that is not older than another window's write (`older`) has no removed job, and
until a read fails it agrees with the file unless the file is torn. A second dialog
can be opened once a modal has been closed, and what its Save may then undo is in
section 7.

**Connections** (`ServerParts_proofs`, any threads, connections and swaps).
`CacheIsSafe` is all that the run checks, from the invariant `Safe`: no two of a
thread's cache, its locals, the registry and a sweep hold one connection (`Apart`),
an entry of the registry is its thread's own or a dead one's (`Registered`), and
where a thread is in `get_connection` says what it has of its connection
(`InPlace`). Without `Apart` an address could be reused while a sweep is still to
close it.

**Response cache** (`ServerParts_proofs`, any threads, sizes, times, replacements and
failing stats). `CacheStaysSound`, by `Traced`: a version that is known, in use or a
key of the cache was read from the files at a known time, and a content that is
cached or computed is not older than the version it is kept under was then
(`ReadSince`, `ReadBefore`, `NewerSince`).

**Limiter** (`ServerParts_proofs`, any clients, budget, window, resolution of the
clock and limits of the clean-up). `BudgetStaysExact` and `RefusalsAreDue`, by
`Metered`: the deque is the end of the history and the rest has expired (`Remembered`), a grant
came only when the one a whole budget earlier had expired (`Spaced`), and at the
time advised one of the last grants has (`Advised`).

Only model-checked:

- Liveness: `OrphansRecovered`, `Settles`, `StopEnds`, `Unblocked`, `ShotIsReset` and
  `HealsAndSettles`. Fairness and ENABLED are out of the prover's reach.
- The properties of the six runs that find a violation, which are false.

## 5. Limits of the models

- Computation takes no time; only sends, bots, requests and scans do. In every
  module but `StoreTransactions`, SQLite transactions are atomic, never wait and
  leave nothing behind when they fail.
- Transactions: an operation that commits is one step; a wait for the lock ends
  with the lock or with "database is locked", and how long it takes is left out.
- Queue: url and secret are data, `WEBHOOK_WORKER_ENABLED=false` and the
  synchronous emit path are left out, delays are an arbitrary finite set.
- Runs: a backup's finished rows take no part. The bot's own work is outside, and
  so is "Run Now" of the manager, which does not ask the guard.
- Intake: one dataset; a batch without repeated keys and within one lookup of
  500.
- Detector: in `AnomalyCooldown` a scan finds any set of keys, and `AnomalyRules`
  says which; `last_scan_ts` is only shown
  and left out; the retention is longer than the prune limit.
- Cache: one endpoint and set of arguments; the clock does not go back; the entry
  dropped from a full cache is any. An expired entry between two looks ends the
  request without a response.
- Limiter: the budgets of one of the two limiters, which share the counter of
  responses and nothing else; the clock does not go back.
- Summaries: a quantity is never NULL; an average is kept as a multiple of a
  fraction (1 / `Scale`) that divides evenly for the rows there are; any number of
  rows has one, and rounding is left out.
- Pages: `GET /items` and `/records/{item_code}` read in the same way and are left
  out; filters other than dates choose the rows; a malformed cursor counts as
  none; insertions take ids that no live row has.
- Connections: one set of arguments; each swap gives mtimes not seen before.
- Manager: a handler is one step, but for its kill; killing the manager itself is
  left out. Tree: ids are not reused while it runs; a denied signal ends nothing.
- Healing: one file; a heal is one step, whole or cut short, and so is all that
  `create_indexes` does before its ANALYZE. Archive: one cycle. Jobs: times and binder filters left out;
  a write succeeds, leaves the file alone or leaves it cut half way (`torn`).
- Backups: two runs that name their file in the same second share it and are left
  out; a run whose wait for a resting database fails does nothing. A copy is
  good or fails its check.

### Not modelled

Notification metrics are five separate SELECTs of one report and nothing reads
them back. The portal dialog's environment file is a straight conversion, read
when the dialog opens and written as a whole by its Save. Secrets and signatures,
keys, validators and configuration are functions of a request or of the
environment at start-up; system routes, logging, theme and developer scripts keep
no state.

## 6. Plan

Written so far, in this order: the queue with its abstract promise and proofs;
runs, intake and their proofs; the migration; the records query and its proof;
the limiter, caches and connections; the manager's parts; the detector, the
archive and the job settings; the stores' transactions, the backups and the
connection cache, with their proofs; the summaries, the anomaly rules, and the
index script beside the watchers; the proofs of the other safety properties of
the runs that hold.

Next:

1. Abstract specifications, with their refinement checked and proved: a lock for
   `MaterialsRuns`, a snapshot reader for `ProductionPages`, an atomic register for
   `save_state`.
2. Compositions: the detector over the queue, so that an emission is a row that
   is delivered; the response cache over the connection cache, where
   `UsedIsCurrent` is what a query promises to the cache.
3. Several files in `IndexHealing`.

## 7. Where the code and its words disagree

Six runs show one each (`PROJECT.json`, "findings"):

- A retry pressed while the worker sends the row is accepted and then undone by
  `record_attempt` (`api/notifications/deliveries_repo.py:314`).
- The rows of a batch share one claim time and are sent one by one, so the last of
  16 with a 5 s time-out may outlast the lease of 60 s in the hands of a worker that
  is alive. "A live worker finalizes a claimed row within one dispatch timeout, so
  any in_flight row older than this lease is an orphan from a killed process"
  (`api/notifications/worker.py:33`).
- A start killed between the rename and the copy of the migration leaves the
  legacy rows in `_mig_<table>`, and the next start takes the new empty table
  for migrated (`api/materials/store.py:207`).
- A settings dialog that could not read `config.json` shows no jobs, and its Save
  writes that (`portal_settings_dialog.py:424`).
- `_emit_async` swallows a failed enqueue, so the detector marks a finding nobody
  will be told of (`api/notifications/events.py:113`).
- A write that timed out on the lock leaves a transaction begun, the next SELECT
  fixes its snapshot, and once another connection has committed every write of
  that thread fails at once, although nobody holds the lock
  (`api/notifications/deliveries_repo.py:109`), where the plan has busy_timeout
  wait conflicts out (`docs/01-plan/features/webhook-async-dispatch-v2.plan.md:152`).

The others were met while modelling. The models contain the steps, mostly under
another choice of constants, and the properties of the passing runs are stated so
that they speak of what does hold.

- Runs: `subprocess.run` has no time-out, so a bot that hangs is reaped on paper
  after the stale limit, a second one may start beside it, and the late
  `finish_run`, which updates by id alone, turns the failure into whatever the
  first bot returns (`api/materials/automation.py:58`). "a 'running' row this old can only be an
  orphan" (`api/materials/runs.py:17`).
- Intake: a document deleted between the look at the tombstones and the write
  comes back (`api/materials/store.py:302`), which the docstring at line 276
  excludes; and `updated` may be negative when another backup inserts the same
  row first (line 371), where line 282 promises the rows really updated.
- Cache: versions are rounded to whole seconds, so two replacements within a
  second share their entries until the TTL (`shared/cache.py:69`), where
  `README.md:169` says invalidation is automatic. An entry that expires between
  the test and the read raises KeyError (`shared/cache.py:125`), in the block
  called "double-check (TOCTOU guard)" (line 137).
- Limiter: the clock is `time.time`, which can be set back; "deque is sorted
  ascending" (`shared/rate_limiter.py:83`) then does not hold.
- Records: the cursor holds a position only, so a client that drops the dates
  with it, as `docs/specs/api_guide.md:532` advises, leaves its range
  (`api/routers/records.py:37`). `pick_targets` also asks the live database when a
  range ends at the cutoff, where line 99 says archive only
  (`shared/database.py:122`).
- Detector: two scans in different processes emit the same finding twice
  (`api/anomaly/detector.py:192`), against "at most once per cooldown window"
  (`api/anomaly/store_state.py:3`); and all savers share one temporary name, so
  what `os.replace` publishes may be torn (`store_state.py:52`), against "Persist
  state atomically" (line 43).
- Manager: `_reset_portal_ui` does not ask which process the panel has by then, so
  a scheduler may run in a panel that shows Stopped with Stop disabled
  (`manager.py:924`). A child born between the snapshot and the terminate of its
  parent is not killed (`shared/process_utils.py:46`), against "all its
  descendants reliably" (line 21). psutil.AccessDenied leaves the call (lines 49-56),
  against "Never raises" (line 31), and then the handler: `stop_api` has unregistered
  the process by then (`manager.py:778`), so the exit hook would miss it, and a quit
  is given up half way.
- Healing: the state recorded is that of the file after the heal, read again, so
  a replacement in between goes unnoticed (`tools/db_watcher.py:103`); files that
  appear later are not watched by the thread, against "Watches Live and Archive
  DB files" (line 5).
- Index script: `--force` is described as "Recreate existing indexes"
  (`tools/create_indexes.py:174`), but the statements say IF NOT EXISTS: an index
  that is there is counted as created, and only ANALYZE runs.
- Backups: a file that a killed run left half written counts as a backup, so that
  the listing may remove a checked one for it (`tools/backup_db.py:143`), where
  line 42 says "Keep last 30 daily backups".
- Archive: a status counts as completed if it contains "complet", "Incomplete"
  included, where the module speaks of `Completed` (`scripts/archive_cutoff.py:4`).
- Job settings: adding a removed keyword again does not reconnect its collector
  (`portal_settings_dialog.py:347` says it does); an edit whose collectors could
  not be read writes the default over them (`portal_jobs_logic.py:192`); and once
  a modal was closed a second dialog can be opened, whose Save brings removed
  jobs back (`portal_settings_dialog.py:360`).
