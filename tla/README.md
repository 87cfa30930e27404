# Verification of the ingestion platform

TLA+ models of the platform in `src/`, the TLC configurations that check them on small instances, and TLAPS proofs of what matters most for every value of the constants. The models are read next to the code: every definition that stands for code is listed under `map` in `PROJECT.json` with the lines it stands for.

## 1. The system

The platform is a FastAPI application that copies Salesforce, HubSpot and Slack data into object storage and ClickHouse. Work is a *job*, a row of the SQLite table `jobs`. An HTTP request creates the row and launches a Python thread that does the work; other requests change the row; a heartbeat loop in every process adopts jobs whose process died. Threads, requests and processes communicate through the row and nothing else: there are no locks across them, and a SQLAlchemy session keeps what it read of a row until its next commit or refresh, which is where most of the hard interleavings come from.

| Component | State it keeps | Operations | What makes it correct |
|---|---|---|---|
| **HubSpot job**: `hubspot/ingest.py`, `hubspot/pipeline.py`, `routers/hubspot.py` | a row of `jobs` (status, control, owner, heartbeat, cursor, row_count, retries); Parquet files; ClickHouse rows | start, worker thread page by page, pause, resume, cancel | a saved cursor never runs ahead of the data; each page is counted once; every job ends |
| **Job table**: `jobs.py`, `models.py`, `routers/jobs.py` | the row | `transition`, `update_checkpoint`, status-only pause, resume, cancel, delete | statuses move along the table only |
| **Control, ownership, recovery**: `control.py`, `recovery.py`, `main.py` | `jobs.control`, `owner`, `heartbeat_at`; a boot id per process | signal, clear, claim, heartbeat, conditional take-over, recovery at start and in the loop | a job of a dead process is adopted, one of a live process is not |
| **Signed requests**: `security.py` | `used_nonces` | check the timestamp, remember the nonce, purge | a signed request takes effect at most once for as long as its bodies and clocks are prompt, and never twice within two windows |
| **Slack real-time stream**: `slack/engine.py`, `slack/events.py`, `routers/slack.py`, `routers/slack_events.py` | the stream's row, `realtime_backlog`, `realtime_seen`, one `realtime_mark` per channel | webhook, injected event, ingest, buffer, drain, catch up, pause, resume, cancel | nothing acknowledged is dropped; each message is counted once; the mark names only what is loaded |
| **Slack historical backfill**: `slack/engine.py`, `slack/client.py`, `slack/tables.py` | a checkpoint per channel, one shared row_count | a thread per channel, pause, cancel, resume | a failed channel is read again and no other; the shared count is exact |
| **Salesforce ingestion**: `salesforce/*`, `routers/salesforce.py` | the row, with a stage as its checkpoint (written, never read) | extract, land, load, complete; stop checks between them | COMPLETED means loaded; a batch is counted once; a signal is not lost |
| **Incremental sync**: `sync_state.py`, `hubspot/client.py`, `hubspot/schemas.py` | a high-water mark per service and object | choose the mode, read with overlap, advance, reset | no changed record stays unread behind the mark |
| **Retry policy**: `retry.py`, `errors.py` | attempts and waited seconds of a call | retry, back off, honour Retry-After | attempts and waiting are bounded |
| **ClickHouse sink and views**: `clickhouse_sink.py`, `routers/analytics.py` | tables and views; rows in memory when ClickHouse is off | load a file, define or compute the views | a load replaces rows of the same key; the in-memory stand-in and the SQL agree |
| **Object storage**: `storage.py`, `routers/storage_browser.py`, `shared_names.py` | objects by name | put, list, get | a put under the same name replaces |
| **Database, settings, audit**: `database.py`, `config.py`, `audit.py`, `schemas.py` | engine, settings, append-only logs | | |
| **Console, health, login**: `routers/auth.py`, `routers/system.py`, `static/` | none (signed cookies) | | |
| **Mock services, scripts**: `mock_services/`, `scripts/`, `sign.py` | | | |

How they interact: the routers write the row and launch threads; a worker calls the outside services through `with_retry`, lands a file, loads it, checkpoints the row, and reads `control` between pages; the recovery loop launches the same workers that a resume would; `ingest_realtime_event` is called by the webhook's background task, by the injected-event endpoint, by `drain_backlog` and by `catch_up`, at the same time.

What is hard here, and what the properties are for (the full list with its lines is under `hazards` in `PROJECT.json`):

* *crashes* between landing, loading, checkpoint, mark and status, each of which is a commit or a call of its own;
* *stale reads*: a status read before authenticating or before building views, and written on afterwards;
* *two workers on one job*: a slow start, a stalled heartbeat or a pause and resume in quick succession put two threads to work on one row;
* *ownership in gaps*: RUNNING is committed before a worker claims the row;
* *redelivery and reordering* of Slack events, in parallel with a drain and a catch-up of the same messages;
* *partial failure*: a drain or a catch-up that stops in the middle;
* *time at the boundary*: the nonce purge against clocks that are ahead and slow bodies; ties and late commits at the cut-off of an incremental run;
* *one row, many threads*: the channel threads of a backfill share a row count and the job's signals, and one of them may fail;
* *the same thing written twice*: tables and views in SQL, and again by hand for the sink in memory;
* *a source that changes while it is read* in pages cut by position, and a mark that summarises what was read.

## 2. The modules

| Module | What it is |
|---|---|
| `JobTable` | statuses and the transition table; used by every job module |
| `HubSpotSync` | one HubSpot job: workers, requests, ownership, crashes, several processes |
| `HubSpotSync_proofs` | its theorems |
| `OnceOnly` | abstract specification: an item takes effect once and never again (implemented by the real-time stream) |
| `SignedRequests` | the signed-request guard |
| `SignedRequests_proofs` | its theorems |
| `SlackRealtime` | one real-time stream with one channel, shown to implement `OnceOnly` |
| `SlackRealtime_proofs` | its theorems |
| `IncrementalSync` | consecutive and overlapping runs of one HubSpot object over a source that changes: mode, cut-off, pages, the high-water mark |
| `IncrementalSync_proofs` | its theorems |
| `Retry` | the policy of `with_retry`, as operators |
| `SalesforceIngest` | Salesforce jobs: worker, stop checks, bulk query, requests, crash and recovery; its calls follow `Retry` |
| `SalesforceIngest_proofs` | its theorems, those on `Retry` included |
| `SlackBackfill` | one historical backfill: runs, a thread per channel, checkpoints, requests, crash and recovery |
| `SlackBackfill_proofs` | its theorems |
| `AnalyticsViews` | the ClickHouse sink and its stand-in in memory, given the same loads, and the two joined views |
| `AnalyticsViews_proofs` | its theorems |
| `MCHubSpotSync`, `MCSignedRequests`, `MCSlackRealtime`, `MCIncrementalSync`, `MCSalesforceIngest`, `MCSlackBackfill`, `MCAnalyticsViews` | model values, symmetry and the one state constraint for TLC |

Definitions whose comment starts with *Bug:* are not part of any specification: each is a mutated form of the definition after it, used under `mutants` in `PROJECT.json` to show that a property can fail.

### Granularity

An action is one database commit, one call to an outside service, or one read the thread acts on later, because these are the points between which another thread or a crash can come. Reads and writes that the code makes inside one transaction are one action. Where that is coarser than the code, it is listed in section 6.

### HubSpotSync

| Code | Model |
|---|---|
| row of `jobs` | `job` (status, control, owner, cursor, counted, retries); `fresh` and `aged` stand for `heartbeat_at` and `created_at` compared with the heartbeat timeout |
| `cursor` JSON | the number of the next page; `NotStarted` when the key is absent, `Done` when `resume_cursor` is None after the last page |
| `row_count` | `counted`, per page: how many times the page's rows were added |
| a worker thread of `run_hubspot_ingestion` | `worker[w]`: program counter, process, and the locals that matter (`seen`: the status it read last; `copy`: what its session holds of cursor and row count, `Expired` after each commit of its own; `start`: `start_after`; `page`; `paused`) |
| `run_hubspot_ingestion` to the loop | `Load`, `Authenticate`, `Begin`, `Claim`, `ClearSignal`, `ReadCursor`, `ChooseMode` |
| the page loop, `on_page` | `CheckSignal`, `LandPage`, `LoadPage`, `Checkpoint` |
| the end of the run | `Refresh`, `PauseJob`, `AdvanceMark`, `CompleteJob`, `HandleException` |
| outside failures after all retries; a database failure inside the handler | `Fail`; `LoseWorker` |
| pause, resume, cancel of `routers/hubspot.py`; `routers/jobs.py` | `RequestPause`, `RequestResume`, `RequestCancel`, `RequestStatus`, and `Respond` for the write that follows the read |
| `heartbeat_once`, `_orphan_filter`, `_take_over`, `recover_interrupted_jobs`, the loop | `Heartbeat`, `Orphaned`, `TakeOver`, `Recover`, `SweepFails`, `TimeoutElapses` |
| process death and start | `Crash`, `Restart` (a new boot id: the rows the dead process owned belong to `Nobody`) |

`contested` is a history variable: it becomes TRUE at a launch that finds another worker alive or that does not start from the row's checkpoint. The exact-count and ownership properties are about uncontested jobs; the data properties hold in every state. A commit expires what the session holds of the row, and the next attribute the code touches reads it again: the copy is therefore the row as it was before authenticating for a launch that finds the row RUNNING already, and the row as it was after the last commit otherwise. `Counting` adds to the copy's row count, so two overlapping workers lose increments as they do in the code.

### SignedRequests

`used` is the table (the `seen_at` of each nonce or `Absent`), `serving` the requests whose timestamp has been checked and whose body is awaited, `accepted` how often each was let through. The clock is read in `CheckTimestamp` and again in `Remember`, as in the code, and `Tick` may come between them any number of times: the wait for a body (security.py:116) has no limit, and a timestamp may be a whole window ahead of the server (111). `acceptedAt` is when a request was let through last. `Remember` purges and inserts in one commit; `RefuseReplay` rolls the purge back with the failed insert.

### SlackRealtime

| Code | Model |
|---|---|
| the stream's row | `job` (status, control) and `owned`: claimed by the running process and fresh |
| `realtime_backlog`, `realtime_seen`, `row_count`, `realtime_mark` | `backlog` (rows with an id and a message), `seen`, `counted`, `mark` |
| webhook; `POST /api/slack/realtime/event` | `Webhook`, `Inject` |
| `ingest_or_buffer`, `buffer_event` | `LandFails`, `BufferEvent`; `NewId` is SQLite's choice of a row id |
| `ingest_realtime_event` | `Land`, `Count`, `AdvanceMark` / `MarkFails`, `Ingested` |
| `create_realtime_job` | `Begin`, `Claim`, then `DrainNext` / `DeleteRow` (`drain_backlog`), `ReadMarks`, `FetchPage`, `NextMessage` (`catch_up`), `FailJob` |
| pause, resume, cancel | `RequestPause`, `RequestResume`, `RequestCancel`, `Respond` |
| crash, restart, sweep | `Crash`, `Restart`, `Orphaned`, `Recover` |

A message is its position in the channel, which is also its timestamp. `acked`, `lost`, `overlapped` and `spent` are history variables: what Slack was answered 200 for, what a thread held when the process died, whether two sync threads ever ran at a time, and the counters that the bounds are on.

### IncrementalSync

| Code | Model |
|---|---|
| HubSpot's records | `source`: per record the time of its last modification (its *version*), 0 while it does not exist; records are numbered in the order of creation |
| rows in ClickHouse | `table`: the version that was loaded last, which is the one a ReplacingMergeTree without a version column keeps |
| `sync_state` | `mark` |
| a job, its checkpoint and its worker | `run[k]`: the checkpoint has `mode`, `since`, `offset`, `newest` and `completed`; `pc`, `refresh` (the `full_refresh` argument), `page` and `last` go with the worker |
| `_choose_mode`, `with_overlap`, and the checkpoint that saves the choice | `ChooseMode`, `Since` |
| `fetch_page`: the list endpoint by creation, or the search endpoint by `lastmodifieddate >= since` with the oldest first, cut by offset | `Window`, `Precedes`, `Position`, `PageAt`, `FetchPage` |
| `on_page`: load, then one commit of cursor, newest and completed flag | `LoadPage`, `Checkpoint` |
| `advance_high_water`: an insert and, if the row exists, a conditional update | `InsertMark`, `UpdateMark` |
| `DELETE /api/hubspot/sync_state/{object}` | `Reset` |
| pause, failure or crash, and then a resume or a recovery | `Interrupt`: the worker's state is lost, `full_refresh` with it, and the run goes on from its checkpoint |
| cancel; a failed job that nobody resumes | `Abandon` |
| a record is created or modified, and is visible at most `Lag` later | `Modify` |

`HubSpotSync` has the life of one job in every detail and a source that stands still; `IncrementalSync` has the source, several jobs, and of each job only what its checkpoint and its worker know of the source. `disturbed` and `calm` are history variables. `disturbed` becomes TRUE when a record enters or leaves the part of a listing that an unfinished run has read, or when two runs overlap: positions then shift under the run, and `behind` shows what is lost. `calm` belongs to a run: nothing was modified and no other run was at work since it started.

### SalesforceIngest and Retry

| Code | Model |
|---|---|
| the rows of `jobs` | `job[j]`: status, control, owned, `stage` (what the cursor says) and `counted` (row_count, per record) |
| what Salesforce holds, the landed file, the ClickHouse table, `dead_letter` | `source`, `file`, `table`, `letters` |
| a thread of `run_salesforce_ingestion` | `worker[w]`: the step, `seen` and `read` (what its session read of status and row count), `batch` (the snapshot its query reads), `call` (the retries of the call it is in) |
| start of the run | `Load`, `Begin`, `Claim` |
| `_stop_requested` | `CheckStop`, then `Halt` (the status) and `ClearControl`, two commits; `then` is where the check returns to |
| authenticate, create, poll, results | `Authenticate`, `CreateBulkJob`, `Poll`, `GetResults`; `RetryCall` for an attempt that is made again, `CallRaises` for one that is not |
| dead letters, landing, load, count, COMPLETED | `SendToDeadLetter`, `Land`, `LoadFromStorage`, `CheckpointLoaded`, `Complete` |
| the `except` block; a failure that is not retried | `HandleException`; `Fail` |
| start, pause, resume, cancel | `Start`, `RequestPause`, `RequestResume`, `RequestCancel`, `Respond` |
| sweep, crash, restart | `Orphaned`, `Recover`, `Crash`, `Restart` |

In `Retry` a call is a record of its failures, its 429s and the seconds it has waited and slept. `Retried` and `Raises` are what `with_retry` makes of an answer; `Reply` is what an authenticated request makes of a 401 (one fresh login, one more try). `contested` has the jobs that were taken up while another worker ran, `recounted` those launched again after their batch was counted, `cancelled` those whose cancel was answered and not followed by a resume, `overwritten` those whose file another job stored again, under the same name (`PathOf`), between its landing and its load.

### SlackBackfill

| Code | Model |
|---|---|
| the row; `channel_checkpoint` | `job`; `ckpt[ch]` (cursor and completed) |
| `_pause_events`, `_cancel_events` | `events`, which die with the process and are dropped at the end of every run |
| a call of `run_historical_backfill` and its thread pool | `run[l]`: the stage, the page size, `seen` and `target`, and per channel a thread with its own program counter and cursor |
| up to the pool | `Load`, `Begin`, `Claim`, `Plan` |
| `_backfill_channel` | `CheckStop`, `LandPage`, `LoadPage`, `SavePage` (checkpoint and count in one commit), `ThreadFails` |
| after the pool | `ReadStatus`, `ReadCancel`, `ReadPause` (three reads, with anything in between), `Settle` (the write) |
| the error boundary | `Fail` (the row is read again), `HandleException` (FAILED, if the row allows it), `SwallowException` (that write fails too) |
| start | `Start`, `LaunchStarted` |
| pause | `RequestPause`, `SetPauseEvent`, `StorePause` |
| resume | `RequestResume`, `ClearEvents`, `ClearControl`, `Resume`, `LaunchResumed` |
| cancel | `RequestCancel`, `SetCancelEvents`, `StoreCancel`, `Cancel` |
| a commit or an audit entry that fails | `RequestFails`, `SweepFails`, `ThreadFails`, `Fail` |
| part files, loaded rows | `file[ch]`: per cursor how far the part stored under its name goes; `table[ch]` |
| sweep | `Orphaned`, `TakeOver`, `ReadOrphan`, `Honour` / `ClearHonoured` or `LaunchOrphan` |
| crash, restart | `Crash`, `Restart` |

`contested` becomes TRUE when the job is taken up (its signals cleared, resumed or taken over) while a run, a request about to launch one or the sweep has it, `mixed` when runs of different page sizes are at work at once, and `outage` when a failing commit leaves the row as if somebody had the job: between a take-over or a resume and the launch, or under the error boundary. The row count is kept per channel (`job.rows`), so that the sum the code keeps is right for a reason and not by two errors that cancel.

### AnalyticsViews

`live` has the ClickHouse tables as `FINAL` shows them, `memory` those of `NullClickHouseSink`. `Load` is one row loaded into both: an INSERT for the one (`InsertLive`: the key is organisation and id, a NULL becomes the default), the copy of a table for the other, which `Replace` puts in the table's place (`InsertMemory`: the key is the id). `PipelineLive` and `Client360Live` are the joins of the SQL, `PipelineMemory` and `Client360Memory` the dictionaries of `_view_rows`. `raced` has the tables that two loads were in the middle of at once. `KeysAssumption`: an id or an organisation is neither missing nor empty, because both sinks skip rows that lack a required key (clickhouse_sink.py:78, 202).

## 3. The runs

`pass` runs finish without an error. A `violation` run checks one sentence of the repository that the code does not keep; TLC's counterexample is described under `findings` in `PROJECT.json`.

| Run | Shows | Bounds |
|---|---|---|
| `races` | `TypeOK`, `CheckpointIsBacked`, `FinishedIsLoaded`, `RowCountExact`: cursors, the mark and COMPLETED never run ahead of the data, and while launches do not overlap row_count is exactly the rows of the checkpointed pages | 1 process, 2 workers, 2 requests in flight, 2 pages, stalled heartbeats, a failing database, the status-only endpoints, 1 crash, 1 failure, 2 requests (2.6 million states) |
| `live` | `RunningIsSettled`, `PendingStarts` under fairness, `OnlyACrashStrands`, `ClaimIsRespected` | 2 processes, 1 thread of the job at a time, 1 request in flight, 1 page, 2 crashes, 1 failure, 2 requests (480,000 states) |
| `stuck` (violation of `RunningEnds`) | a resume answered by one process just before it dies leaves the job RUNNING under the heartbeat of the other, and nobody runs it | 2 processes, 2 workers, 1 request in flight, 1 page, 1 crash, 1 failure, 1 request |
| `legal` (violation of `LegalMoves`) | a cancel accepted while the worker authenticates is overwritten with RUNNING | 1 worker, 1 request |
| `signed` | `SecondUseIsLate`, `NonceMeansAccepted`, `TypeOK` | 2 requests with timestamps up to a window ahead, 2 handlers, window 3, bodies that take any time, clock up to 14 (104,000 states) |
| `slack_data` | `CountedOnce` (refinement of `OnceOnly`), `CountedIsLoaded`, `AckedIsKept`, `PagedOverIsIngested`, `TypeOK` | 2 threads, 3 messages, pages of 1, 1 crash, 1 failure, 2 requests, 2 deliveries, slow starts (3.5 million states) |
| `slack_live` | `DrainIsComplete` under fairness | 2 threads, 2 messages, pages of 1, 1 crash, 1 failure, 2 requests, 2 deliveries, no slow start |
| `incremental` | `MarkCovers`, `CalmRunCatchesUp`, `RefreshReconciles`, `MarkMovesForward`, `TypeOK` | 2 runs, 3 records, pages of 2, overlap 1, lag 1 (the tightest the assumption allows), clock to 4, any number of interruptions and resets (4.1 million states) |
| `behind` (violation of `NothingBehindMark`) | a record modified after its page was read falls behind the mark when a later page holds a modification newer than it by more than the overlap | 2 runs, 3 records, pages of 1, overlap 1, lag 0, clock to 5 |
| `salesforce` | `CompletedIsLoaded`, `CountedOnce`, `CancelHolds`, `SignalIsKept`, `RetriesAreBounded`, `RunningIsRun`, `TypeOK` | 1 job, 2 workers, 1 request in flight, 1 valid and 1 invalid record, 1 crash, 3 requests; 2 attempts, 2 rate-limit retries, 1 second per wait and in total, Retry-After of 0 or 2 (2.3 million states) |
| `backfill` | `CheckpointIsBacked`, `RowCountExact`, `CompletedIsComplete`, `OnePageInFlight`, `SettledIsQuiet`, `RunningIsRun`, `TypeOK` | 2 runs, 2 channels of 2 and no messages, pages of 1 and 2 (2 after a resume or a recovery), 1 request in flight, 1 crash, 1 failure, 2 requests |
| `views` | `TablesAgree`, `PipelineAgrees`, `LinksAgree`, `TypeOK` | 2 threads, 2 organisations, 2 companies, 1 opportunity, account, deal and pipeline each, 2 names (one of them empty), 4 loads (2.1 million states) |

Why the bounds are enough. A page only interacts with its neighbours (the one checkpointed and the one in progress), so two pages have a first and a last one; two workers are the fewest that race and the code treats each pair alike; two processes are an adopter and a victim; two crashes let a recovery itself be interrupted. In `live` a launch waits for the thread before it to end, because two threads and two processes together are beyond five minutes: what overlapping threads do is in `races`, in `stuck` and, for `ClaimIsRespected` and `OnlyACrashStrands`, in the theorems. A nonce's life is two windows long, and the clock covers four: a second use does occur in the run, so `SecondUseIsLate` is not empty. Three Slack messages and pages of one are what catch-up needs to page at all: one message that sets the mark, and two unread pages behind it. Two deliveries are a first and a second copy of one message, or two messages. Two incremental runs are one that leaves a mark and one that starts from it, or two that race for it; three records and pages of two give a full page, a short one, and a record on each side of a page's end; a clock of four leaves room for a mark, its overlap and modifications on both sides of the cut-off. Two Salesforce workers race as two HubSpot workers do; three requests are a pause, a resume and a cancel; a Retry-After of 0 and of 2 lie on both sides of the longest wait of 1, so both the waiting budget and the count of 429s come to their limit. One channel of two messages, read as one full page or as two, and one without any, whose only page is empty, let one thread fail, stop or finish while the other goes on; two runs of a backfill are the one that a resume or a sweep launches and the one it meets. Four loads fill every table that one row of `v_client_360_deals` is joined from (opportunity, account, company, deal), or overwrite a row in the middle; two companies are what it takes for one name to match twice, though with the one deal of the run only one of them links anything: several companies of one name, each with deals, are covered by the theorem only. The proofs of section 5 remove the bounds for every safety and action property of the passing runs; what stays bounded is liveness. The inductive invariants of `SlackBackfill` were also model-checked before they were proved: completely for channels of 2 and 1 messages, and over ten million states of an instance with two requests in flight and pages of 1 and 3.

Deadlock is not checked (`CHECK_DEADLOCK FALSE`) in any run: a finished job with no request left, and a clock at its bound, are where these systems stop. What must not stop is stated as liveness.

## 4. Fairness

`FairSpec` in `HubSpotSync` and `SlackRealtime` assumes, and the code gives:

* a thread that exists runs on (`WF` of its steps, per thread): Python threads are preemptive and no step waits for another thread of the model; calls to outside services end, because `with_retry` bounds attempts and waiting;
* a request that read the row writes its answer (`WF` of `Respond`);
* the loop of every live process comes round: heartbeats, take-overs and recoveries (`WF` of each): `start_background_loop` runs them every `heartbeat_interval_seconds` and catches every exception;
* time passes (`WF` of `TimeoutElapses`);
* a process that died is started again (`WF` of `Restart`): `restart: unless-stopped`, docker-compose.yml:33.

Nothing makes a user send a request, Slack deliver an event, a service fail or a process crash. Weak fairness is enough everywhere; no property rests on strong fairness. The liveness runs assume a database that answers inside error handlers (`DbOutage = FALSE`): when it does not, the sweeping process owns a job that nothing runs, and no document promises otherwise.

`SalesforceIngest`, `SlackBackfill` and `AnalyticsViews` state no fairness and no liveness: a Salesforce job need not end (a bulk query that never completes is polled for ever), and what their ends come to is said by the safety property `RunningIsRun`: a row that is RUNNING and owned has a thread at work on it, so the fairness above and the sweep are all that is left to rely on.

## 5. What is proved

The theorems hold for all numbers of processes, threads, requests, pages and messages, and for all values of the bounds, from the `ASSUME`s of the component's module and nothing else.

**HubSpotSync.** `TypeCorrect` (`[]TypeOK`) comes first. `CheckpointIsBacked` is not inductive: a worker that is about to checkpoint holds a page number the row says nothing about, and a request in flight holds a cursor from which it will launch a worker later. `BackingInv` says that *every* cursor held anywhere (row, thread, request) has all earlier pages landed and loaded, that a thread at "sink" has landed its page and one at "checkpoint" has also loaded it, and that a thread past the loop and not paused has everything loaded. The stores only grow, so other threads cannot break it: this is why two racing workers, and a checkpoint that moves *backwards* when the slower one writes, are harmless. `CheckpointBacked` and `FinishedLoaded` follow. `RowCountExact` needs `CountInv`: while `contested` is FALSE there is at most one worker, its `start` and `page` agree with the row's cursor, and its copy of the row, as long as it is not expired, is the row.

`ClaimIsRespected` is an action property about a sweep, of which it says that the conditional take-over fails while a living worker has claimed the job. Its invariant is `OwnInv`: the row names the process of the worker that has claimed it, and is fresh while it is RUNNING; a sweep then finds neither an owner that is dead nor a stale heartbeat. `OwnInv` rests on `CountInv` (the claiming worker is the only one) and on `PlaceInv`: threads and requests are of processes that are up, a request makes a row RUNNING only if it also launches a worker, and a row is PENDING only until a worker has begun. The two conditions in the property are the two ways out: a heartbeat that stalls makes a row stale under its worker, and so do the status-only pause and resume, because the heartbeat passes over a PAUSED row.

`OnlyACrashStrands` says how a job comes to be RUNNING under the heartbeat of a process that runs nothing (`Stranded`). `StrandedByCrash` proves it from `PlaceInv`, which shows that a worker's end, a request's answer and a sweep's action never leave a RUNNING row behind without somebody at work, and that the owner's own death leaves the row to nobody; `OwnInv` adds that a worker which had claimed the row made its process the owner. What remains is the death of a process that is not the owner, before its worker has claimed: the window that `stuck` shows.

**SignedRequests.** Nothing is assumed of clients' clocks or of the wait for a body, because the code bounds neither. `NonceInv`: the row of a request holds the time it was last let through and stays in the table for two windows after that, and a copy in hand was checked no later than a window after the request's timestamp. A step that lets a request through a second time has found its row purged, so two windows have passed since the first time (`acceptedAt`), and the copy was checked at most a window after its timestamp, so the rest of the time was the wait for its body: that is `SecondUseIsLate`, proved as `SecondUseOnlyLate`. A nonce is therefore used once (README.md:103 of the source) whenever no body takes longer than a window less what the client's clock is ahead; with a clock a whole window ahead (allowed by security.py:111) a body that takes a second is enough for a second use.

**SlackRealtime.** Four invariants, each stated in the module and also checked with TLC: `LoadInv` (what a thread has done with the message in its hands is in the stores; `counted` is the characteristic function of `seen`), which gives `CountedIsLoaded` and, with the step lemma, the refinement `CountedOnce`; `SyncInv` (which kinds of thread can be where, and when they have a row in hand); `KeepInv` (while syncs have not overlapped: row ids are unique and the one sync thread's row is in the backlog with its message), which gives `AckedIsKept`; `PageInv` (a page is the newest part of what is unread, so the cursor and the page in hand cover what was paged over), which gives `PagedOverIsIngested` for every page size.

**IncrementalSync.** The inductive invariant is `ClockInv /\ PageInv /\ ReadInv /\ CoverInv` with the types, all stated in the module. `ClockInv` orders the times that are held anywhere (a row is no newer than its record, a cut-off lies an overlap behind the clock); `PageInv` ties a worker's page and flags to its pc and bounds the cursor by the number of records. `ReadInv` is the core: whatever an undisturbed run has read is loaded or in hand in its latest version, and after its last page nothing is left but what was modified later. It rests on lemmas about positions: the listing is a strict total order, positions are distinct and below its length, so a page is no longer than `PageSize`, has no gap and ends within the listing, and a change to a record outside the part already read moves nothing inside it. `CoverInv` carries that over to marks: before a mark less the overlap, before a cut-off, and before the newest version of a completed run less the overlap, everything is loaded. The step `Modify` preserves it because of `LagAssumption` (`Lag <= Overlap`): what appears late still lies at or after every cut-off. `MarkCovered`, `CalmCatchesUp` and `Reconciles` follow; `TypeCorrect` and `MarkNeverMovesBack` need only the first parts. The greatest element of a finite set, which `newest()` returns, is shown to exist by counting (`Greatest`), without induction.

**SlackBackfill.** `RunInv` gives `RunningIsRun`: of the runs alive behind an owned RUNNING row at least one will write a status before it ends (only a run that has read PAUSED, or a status that FAILED may not follow, ends without writing), or a request or the sweep is about to launch or settle. It holds while runs overlap; `outage` has what a failing commit leaves behind: between a take-over or a resume and the launch, and under the error boundary (engine.py:390). Types and `RunHasRow` (whatever has the job finds its row) are proved together.

The other safety properties are about a backfill that nobody took up over somebody else (`contested` is FALSE). `OwnerInv` says that a run, a request about to launch one and the sweep then exclude each other, and that a job shown as PAUSED, FAILED or COMPLETED is had by nobody; since the steps of a request and of the sweep are apart, this is what makes the reads they act on still true when they write. `CalmInv` follows a run: every thread stands at its channel's checkpoint, and a channel that is not complete is being read, has failed, or was stopped by a signal, also between the reads of the cancel and of the pause signal. When the pool is joined and nothing failed or was signalled, every channel is therefore complete. That is `CompletedIsComplete`; `RowCountExact`, `OnePageInFlight` and `SettledIsQuiet` come from the two invariants.

`CheckpointIsBacked` holds for overlapping runs too and needs an argument of its own, `BackingInv`. A channel can be read on from several *points*: its checkpoint and the cursor of each thread. Up to each point everything is stored and loaded; the part under a point's name never shrinks beneath another point, because as soon as two runs are alive both use the default page size (the size of the first run is its own, and then it is alone, or the history is `mixed`). `StartInv` is why a start cannot bring in another size later: it launches once, and the sweep that overtakes it uses the default size.

**SalesforceIngest and Retry.** `RowsExist`: a thread, a request and a cancel are about a job with a row. `RetriesAreBounded` needs `RetryInv`, which bounds what was *slept* by what was waited on 429s and one longest back-off for each counted failure; it is preserved by `Retried` for all values of the four budgets. `WorkedOn` gives `RunningIsRun`: a thread about to clear its signal has written PAUSED or CANCELLED, so a RUNNING row has another. `CancelHolds` needs `SignalInv`: as long as a first worker may still write RUNNING over a cancel, the signal is stored, and after it did, the worker has met no stop check yet (it is at "claim", at a check or at the branch of the check that stops it). `SignalIsKept` follows from the part of `SignalInv` about threads at "clear". `CarryInv` follows what a job's creation found in Salesforce through snapshot, dead letters, file and table to COMPLETED; it is broken by one thing only, a second job that stores its file in between (`overwritten`). `CountInv`, with `SignalInv` and `CarryInv`, gives `CountedOnce`.

**AnalyticsViews.** `AgreeInv`: ClickHouse has one row of a key, and for a table that no two loads raced for, what *follows* it is the copy in the loading thread's hands, or the stand-in's table when no thread has one. When all threads are idle and no id is shared between organisations, following is equality (`TablesAgree`). The views are then compared on equal tables: a lookup by key finds the same row in both, a missing or empty reference finds none because no key is missing or empty, and a name is compared as `NameOrEmpty` on one side and as the default of NULL on the other. `LinksAgree` has a second part: where the account of an opportunity is missing, the SQL compares with NULL and links nothing, while the dictionaries look up the empty name (clickhouse_sink.py:245) and link the deals of the companies without one. `Client360Invented` is exactly these rows, and the theorem says that the in-memory links are those of the SQL and these, no more and no fewer.

Only model-checked: the liveness properties `RunningIsSettled`, `PendingStarts` and `DrainIsComplete`, which rest on fairness and ENABLED and so are out of the proof system's reach. The three violation runs are counterexamples, found by TLC.

## 6. Abstractions to know about

* HubSpot pages hold at least one valid record and the source does not change during a run. Dead letters and the mode decision (full or incremental) are not in `HubSpotSync`; the mark is a flag.
* The copy a session holds of a HubSpot row is as old as its last commit, refresh or first read. Where a page had invalid records, the commits of their dead letters expire the copy, which `LoadPage` leaves open by a choice. `RowCountExact` is about launches that do not overlap: with overlapping ones increments are lost or made twice, in the model as in the code.
* `ClaimIsRespected` is about `GenericApi = FALSE` and `Stalls = FALSE`, which are conditions of the property: the status-only pause and resume stop the heartbeat of a running worker for as long as the row is PAUSED, so a resumed row is stale until the next beat.
* A bounded set of thread names blocks a launch while all are busy, so `live` is about one thread of the job at a time. `slack_live` has one name more than the code can keep busy for ever.
* The two DELETE endpoints of `routers/jobs.py` are not modelled.
* SlackRealtime has one process (`README.md` of the source, known limitations), one channel and one stream. A request's read and its write are two steps; the read and the transition of `Begin` and `FailJob` are one, and so are the take-over and the launch of a recovery. Thread replies and dead letters are left out. `counted` and `seen` are one commit in the code too. That the mark does not move back is the guard of its only writer, one conditional UPDATE (slack/engine.py:499), and is not stated as a property; the marks of `sync_state`, which an insert, an update and a reset write, have `MarkMovesForward`.
* Slack's history cursor is a timestamp in the model. The mock service uses offsets, with which a message posted during catch-up makes a page overlap the one before; ingestion is idempotent, so nothing but work is added.
* A live event that is ingested after a restart and before catch-up has read the mark makes catch-up skip what was posted during the downtime. The source's README names this among the known limitations; the model has these behaviours and no property excludes them.
* In `IncrementalSync` choosing the mode and saving it are one action. Objects without a search endpoint (always read in full), records without a timestamp, deletions and the search endpoint's limit of 10,000 results are left out. A start, and a crash, are possible at any time; whether a restart adopts the job is `HubSpotSync`'s matter.
* `SalesforceIngest` and `SlackBackfill` have one process; several processes and their heartbeats are `HubSpotSync`'s matter. The status-only endpoints and DELETE are left out of both. A stage checkpoint without a count is one step with the call before it. How often a dead letter is repeated, and retry_count, are not kept. A database that refuses a commit is in `HubSpotSync` and `SlackBackfill`, not in `SalesforceIngest`: the handler at salesforce/ingest.py:192 queries the session without rolling it back, so such a failure can leave the job RUNNING.
* In `SlackBackfill` a page's files (messages, files, reactions) are one part with one load, and a message's replies go with the message; row_count counts both. Calls to Slack are retried by the policy of `Retry`; the module has only what remains, an answer or a failed thread. Within a run the stop check reads event and control column in one step, and the plan reads all checkpoints in one. A second backfill of the organisation on the same day, and a second process, write parts of the same names (engine.py:261); the model has one job and one process. Two runs that insert a channel's first checkpoint at once are serialised; in the code one of them fails on the unique constraint (models.py:108), as `ThreadFails` allows.
* In `Retry` time is in whole seconds, and the jitter of a back-off is 0 or 1.
* In `AnalyticsViews` a file has one row. Names are compared as the views do after lower-casing: SQL's `lower` handles ASCII, Python's all of Unicode, so names with other letters may match in one view only. The creation of the sink (`get_clickhouse_sink`) is not modelled.
* What the conditions of the properties leave out, because the code differs there: overlapping runs of one job can count twice (`contested`), and a Salesforce job that dies between its count and COMPLETED counts its batch again, as it always starts from the top although update_checkpoint's docstring says it can "resume from here" (`recounted`); a resume and a recovery of a backfill use the default page size (routers/slack.py:164, recovery.py:61), and where such a run overlaps the first, two parts of one name differ and rows can be missing from ClickHouse (`mixed`); a worker past its last check writes COMPLETED over a CANCELLED status (`Settle`); two threads loading one in-memory table can lose a load (`raced`); the in-memory tables have the id alone as their key, ClickHouse organisation and id; and of several companies with one name, those without deals add a row without a deal in SQL only.
* Two Salesforce jobs of one object, organisation and day land under one file name (salesforce/ingest.py:167), and each reads back what was stored last. A job whose snapshot is older may store its file between another's landing and load; the other then loads the older snapshot and is COMPLETED with rows missing. The model has this (`PathOf`, `overwritten`), and `CompletedIsLoaded` leaves out exactly the jobs it happened to. The run has one job; the theorem has any number, with any sharing of names.
* Two further behaviours of the code that the models have: with two drains at a time, SQLite gives the row id that one has freed to a newly parked event, and the other deletes it unread (slack/engine.py:567); a catch-up that fails after its first page has moved the mark past the pages it did not read, so the resume reads nothing (slack/engine.py:596).
* Behaviours the models have and no property excludes: PAUSED written over a cancel that came between a Salesforce stop check and its write; a slow start (authentication that outlasts the heartbeat timeout) is joined by a second worker from its own process's sweep; a pause answered with 200 between a resume's RUNNING and the worker's `ClearSignal` is erased; a cancel of a FAILED stream or backfill is answered with 200, leaves it FAILED, and is forgotten at the next resume, which clears the signal (routers/slack.py:160); a Slack event parked just after a drain stays parked until the next resume; `full_refresh` is forgotten when a run dies before its mode is saved (recovery.py:58 passes no such argument); a reset during a run is undone by that run's own mark.

## 7. Plan

Done, in this order: `JobTable`, `HubSpotSync` and its proofs, `OnceOnly`, `SignedRequests` and its proofs, `SlackRealtime` and its proofs, `IncrementalSync` and its proofs, `Retry`, `SalesforceIngest`, `SlackBackfill`, `AnalyticsViews`, the proof of `ClaimIsRespected`, the proofs of the last three modules, and then `SlackBackfill` again with requests, sweep and failing commits step by step, `SignedRequests` without a bound on clocks and bodies, and `OnlyACrashStrands`.

Next, most important first:

1. An abstract specification of a job that all job modules implement: page sets that only grow, a status that is COMPLETED only when they are whole; `HubSpotSync` and `SlackBackfill` shown to refine it, from `BackingInv` and `CalmInv`.
2. What the conditions of the theorems leave out, stated positively: how many extra counts an overlap can make (`RowCountExact` and `CountedOnce` with a bound in place of `contested`).
3. The step lemmas that liveness would need (a measure that every step of a thread decreases), so that of `RunningIsSettled` and `DrainIsComplete` only the fairness argument is left to TLC.

Not planned: object storage, settings, console, mock servers and scripts (I/O or stateless); the Slack timeline view and the content of records (queries, CSV and type conversion, generated records), which are data formatting. The job modules take from storage that a put replaces an object of the same name as a whole, and from ClickHouse that a load replaces rows of the same key.
