---------------------------- MODULE HubSpotSync ----------------------------
(***************************************************************************)
(* One HubSpot ingestion job: its row in the `jobs` table, the worker      *)
(* threads that run it page by page, the API requests that pause, resume   *)
(* and cancel it, and the processes whose sweeps adopt it when its owner   *)
(* has gone silent.  Processes crash and restart at any step.              *)
(*                                                                         *)
(* Every action is one database commit or one call to an outside service,  *)
(* because those are the points between which another thread, another      *)
(* request or a crash can come.  A status write is split from the read it  *)
(* was decided on exactly where the code holds the row across other work.  *)
(*                                                                         *)
(* Abstractions.  A page of the source is its number.  The cursor column   *)
(* is the number of the next page to fetch (NotStarted before the first    *)
(* checkpoint, Done after the last).  row_count is kept per page, as the   *)
(* number of times the page's rows were added to it.  Every page holds at  *)
(* least one valid record.  The source does not change during the run.     *)
(***************************************************************************)
EXTENDS Naturals, FiniteSets, JobTable

CONSTANTS
  Procs,        \* processes of the API sharing the database
  Workers,      \* names for the worker threads of this job
  Clients,      \* names for API requests in flight
  N,            \* pages of the source
  Stalls,       \* TRUE: a live process may miss its heartbeats for a whole timeout
  DbOutage,     \* TRUE: the database may fail inside an error handler or a sweep
  GenericApi,   \* TRUE: the status-only endpoints under /api/jobs are used too
  MaxCrashes,   \* bound on process crashes
  MaxFailures,  \* bound on failures of outside services
  MaxRequests,  \* bound on API requests
  Nobody        \* owner column: NULL, or the boot id of a process that is gone

ASSUME PagesAssumption == N \in Nat \ {0}
ASSUME OwnerAssumption == Nobody \notin Procs
ASSUME BoundsAssumption ==
  /\ MaxCrashes \in Nat /\ MaxFailures \in Nat /\ MaxRequests \in Nat
  /\ Stalls \in BOOLEAN /\ DbOutage \in BOOLEAN /\ GenericApi \in BOOLEAN

Pages      == 1..N
NotStarted == 0
Done       == N + 1
Cursors    == 0..N+1

VARIABLES
  job,        \* the row of the jobs table
  fresh,      \* heartbeat_at is younger than the heartbeat timeout
  aged,       \* created_at is older than the heartbeat timeout
  live,       \* processes that are up
  worker,     \* the worker threads
  request,    \* API requests that read the row and have not written it yet
  taken,      \* processes whose sweep took the job over and has not acted on it yet
  landed,     \* pages whose Parquet file is in object storage
  table,      \* pages whose rows are in ClickHouse
  marked,     \* the high-water mark covers this job's records
  contested,  \* history: two launches of this job have overlapped
  crashes,    \* number of crashes so far
  requests    \* number of API requests so far

vars == <<job, fresh, aged, live, worker, request, taken, landed, table, marked,
          contested, crashes, requests>>

-----------------------------------------------------------------------------
(***************************************************************************)
(* The threads.  `seen` is the status the thread read last, `copy` is what *)
(* its session holds of the row's cursor and row count, Expired after each *)
(* commit of its own until it reads the row again, and `start` is the      *)
(* start_after argument it was launched with.                              *)
(***************************************************************************)
Steps == {"load", "auth", "begin", "claim", "clear", "read", "mode",
          "check", "land", "sink", "checkpoint",
          "refresh", "settle", "complete"}
PageSteps == {"check", "land", "sink", "checkpoint"}

Idle == [pc |-> "idle"]

\* What a session holds of the row, and what it reads of it now.
Expired == [expired |-> TRUE]
Copies  == [cursor : Cursors, counted : [Pages -> Nat]]
RowNow  == [cursor |-> job.cursor, counted |-> job.counted]

\* The steps that use the session's copy, and find one.
Holding == {"mode", "land", "sink", "checkpoint"}

WorkerStates ==
  {r \in [pc : Steps, proc : Procs, seen : Statuses, start : Pages,
          copy : Copies \cup {Expired}, page : Pages, paused : BOOLEAN] :
     r.pc \in Holding => r.copy # Expired} \cup {Idle}

Alive(w) == worker[w] # Idle
At(w, step) == Alive(w) /\ worker[w].pc = step

\* Writes the thread makes to its own locals: it goes on at `step`.
Goes(w, step) == worker' = [worker EXCEPT ![w].pc = step]
Ends(w)       == worker' = [worker EXCEPT ![w] = Idle]

\* cursor.get("resume_cursor"), as the page number a launch starts from: the
\* key is absent before the first checkpoint and None after the last page.
StartAfter(c) == IF c \in Pages THEN c ELSE 1

\* A worker thread is launched.  The history variable records a launch that
\* is not the only one going on from the job's current checkpoint.
Launch(w, p, start) ==
  /\ ~Alive(w)
  /\ worker' = [worker EXCEPT ![w] =
       [pc |-> "load", proc |-> p, seen |-> "PENDING", start |-> start,
        copy |-> Expired, page |-> 1, paused |-> FALSE]]
  /\ contested' = (contested \/ start # StartAfter(job.cursor)
                             \/ \E v \in Workers : Alive(v))

\* A status write: the new row keeps everything but the status.
WriteStatus(s) == job' = [job EXCEPT !.status = s]

-----------------------------------------------------------------------------
(***************************************************************************)
(* POST /api/hubspot/start has created the row and launched its worker.    *)
(***************************************************************************)
NoRequest == [launches |-> FALSE, target |-> "PENDING"]

Init ==
  /\ job = [status |-> "PENDING", control |-> "none", owner |-> Nobody,
            cursor |-> NotStarted, counted |-> [p \in Pages |-> 0], retries |-> 0]
  /\ fresh = FALSE /\ aged = FALSE
  /\ live = Procs
  /\ \E w \in Workers, p \in Procs :
       worker = [v \in Workers |->
         IF v = w THEN [pc |-> "load", proc |-> p, seen |-> "PENDING", start |-> 1,
                        copy |-> Expired, page |-> 1, paused |-> FALSE]
                  ELSE Idle]
  /\ request = [c \in Clients |-> NoRequest]
  /\ taken = {} /\ landed = {} /\ table = {}
  /\ marked = FALSE /\ contested = FALSE
  /\ crashes = 0 /\ requests = 0

-----------------------------------------------------------------------------
(***************************************************************************)
(* run_hubspot_ingestion, up to the page loop.                             *)
(***************************************************************************)
world == <<fresh, aged, live, request, taken, crashes, requests>>
stores == <<landed, table, marked>>

\* get_job_or_404: the session keeps what it read until its next commit.
Load(w) ==
  /\ At(w, "load")
  /\ worker' = [worker EXCEPT ![w].pc = "auth", ![w].seen = job.status,
                              ![w].copy = RowNow]
  /\ UNCHANGED <<job, world, stores, contested>>

\* _make_client and _authenticate_with_retry: any time may pass here.
Authenticate(w) ==
  /\ At(w, "auth")
  /\ Goes(w, "begin")
  /\ UNCHANGED <<job, world, stores, contested>>

\* Bug: the error boundary counts the failure and leaves the status.
HandleExceptionKeepingStatus(w) ==
  /\ Ends(w)
  /\ job' = [job EXCEPT !.retries = @ + 1]
  /\ UNCHANGED <<world, stores, contested>>

\* The error boundary: count the failure, then FAILED if the row allows it.
HandleException(w) ==
  /\ Ends(w)
  /\ job' = [job EXCEPT !.retries = @ + 1,
                        !.status = IF CanTransition(@, "FAILED") THEN "FAILED" ELSE @]
  /\ UNCHANGED <<world, stores, contested>>

\* The transition to RUNNING is decided on, and allowed by, the status read
\* before authenticating.  The commit expires what the session read.
Begin(w) ==
  /\ At(w, "begin")
  /\ \/ /\ worker[w].seen = "RUNNING"
        /\ Goes(w, "claim")
        /\ UNCHANGED <<job, world, stores, contested>>
     \/ /\ CanTransition(worker[w].seen, "RUNNING")
        /\ WriteStatus("RUNNING")
        /\ worker' = [worker EXCEPT ![w].pc = "claim", ![w].copy = Expired]
        /\ UNCHANGED <<world, stores, contested>>
     \/ /\ worker[w].seen # "RUNNING" /\ ~CanTransition(worker[w].seen, "RUNNING")
        /\ HandleException(w)

\* Bug: the claim sets the owner and leaves the heartbeat of an earlier run.
ClaimKeepingHeartbeat(w) ==
  /\ At(w, "claim")
  /\ Goes(w, "clear")
  /\ job' = [job EXCEPT !.owner = worker[w].proc]
  /\ UNCHANGED <<world, stores, contested>>

\* claim_job: this process owns the row, with a heartbeat of now.
Claim(w) ==
  /\ At(w, "claim")
  /\ Goes(w, "clear")
  /\ job' = [job EXCEPT !.owner = worker[w].proc]
  /\ fresh' = TRUE
  /\ UNCHANGED <<aged, live, request, taken, crashes, requests, stores, contested>>

\* clear_pause_signal: whatever was asked of the previous run is forgotten.
ClearSignal(w) ==
  /\ At(w, "clear")
  /\ Goes(w, "read")
  /\ job' = [job EXCEPT !.control = "none"]
  /\ UNCHANGED <<world, stores, contested>>

\* _load_cursor: a launch that found the row RUNNING still has the copy it read
\* before authenticating, any other reads the row here.
ReadCursor(w) ==
  /\ At(w, "read")
  /\ IF worker[w].copy = Expired
       THEN worker' = [worker EXCEPT ![w].pc = "mode", ![w].copy = RowNow]
       ELSE Goes(w, "mode")
  /\ UNCHANGED <<job, world, stores, contested>>

\* A first run saves its mode before any work, which expires its copy; a
\* resumed one keeps the saved mode and its copy.
SaveMode(w, pc, page) ==
  LET first == worker[w].copy.cursor = NotStarted IN
  /\ job' = IF first THEN [job EXCEPT !.cursor = worker[w].start] ELSE job
  /\ worker' = [worker EXCEPT ![w].pc = pc, ![w].page = page,
                              ![w].copy = IF first THEN Expired ELSE @]

\* Bug: a run that died after its last page is run again from the first.
ChooseModeIgnoringCompleted(w) ==
  /\ At(w, "mode")
  /\ SaveMode(w, "check", worker[w].start)
  /\ UNCHANGED <<world, stores, contested>>

\* A run whose every page is checkpointed goes on to finish, any other starts
\* its pages where it was told to.
ChooseMode(w) ==
  /\ At(w, "mode")
  /\ IF worker[w].copy.cursor = Done
       THEN SaveMode(w, "refresh", worker[w].page)
       ELSE SaveMode(w, "check", worker[w].start)
  /\ UNCHANGED <<world, stores, contested>>

-----------------------------------------------------------------------------
(***************************************************************************)
(* run_hubspot_sync: the page loop.                                        *)
(***************************************************************************)

\* The line that is printed between pages reads an expired row again, and
\* is_paused reads the control column.
CheckSignal(w) ==
  /\ At(w, "check")
  /\ worker' = [worker EXCEPT
       ![w].copy = IF @ = Expired THEN RowNow ELSE @,
       ![w].pc = IF job.control = "none" THEN "land" ELSE "refresh",
       ![w].paused = job.control # "none"]
  /\ UNCHANGED <<job, world, stores, contested>>

\* Bug: the page is checkpointed as soon as its file is stored.
LandPageAndCheckpoint(w) ==
  /\ At(w, "land")
  /\ Goes(w, "checkpoint")
  /\ landed' = landed \cup {worker[w].page}
  /\ UNCHANGED <<job, world, table, marked, contested>>

\* The page is fetched and validated, and its file is stored under a name made
\* of the job and the cursor, so a replay overwrites it.
LandPage(w) ==
  /\ At(w, "land")
  /\ Goes(w, "sink")
  /\ landed' = landed \cup {worker[w].page}
  /\ UNCHANGED <<job, world, table, marked, contested>>

\* ClickHouse loads the file; rows replace earlier rows of the same id.  A page
\* with invalid records has put them among the dead letters before, commits
\* that expired the session's copy, and the row is read anew.
LoadPage(w) ==
  /\ At(w, "sink")
  /\ \E read \in {worker[w].copy, RowNow} :
       worker' = [worker EXCEPT ![w].pc = "checkpoint", ![w].copy = read]
  /\ table' = table \cup {worker[w].page}
  /\ UNCHANGED <<job, world, landed, marked, contested>>

\* The row with the page's checkpoint: cursor and row count in one commit, the
\* count added to what the session read before.
Counting(w, page) ==
  [job EXCEPT !.cursor = page + 1, !.counted = [worker[w].copy.counted EXCEPT ![page] = @ + 1]]

\* Bug: the loop asks for one page more than the source has.
CheckpointPastEnd(w) ==
  /\ At(w, "checkpoint")
  /\ LET page == worker[w].page IN
     /\ job' = Counting(w, page)
     /\ worker' = IF page > N
          THEN [worker EXCEPT ![w].pc = "refresh", ![w].copy = Expired]
          ELSE [worker EXCEPT ![w].pc = "check", ![w].copy = Expired, ![w].page = page + 1]
  /\ UNCHANGED <<world, stores, contested>>

\* update_checkpoint.
Checkpoint(w) ==
  /\ At(w, "checkpoint")
  /\ LET page == worker[w].page IN
     /\ job' = Counting(w, page)
     /\ worker' = IF page = N
          THEN [worker EXCEPT ![w].pc = "refresh", ![w].copy = Expired]
          ELSE [worker EXCEPT ![w].pc = "check", ![w].copy = Expired, ![w].page = page + 1]
  /\ UNCHANGED <<world, stores, contested>>

-----------------------------------------------------------------------------
(***************************************************************************)
(* The end of the run.                                                     *)
(***************************************************************************)

\* db.refresh(job): a cancelled run stops here, any other goes on with the
\* status read now.
Refresh(w) ==
  /\ At(w, "refresh")
  /\ IF job.status = "CANCELLED"
       THEN Ends(w)
       ELSE worker' = [worker EXCEPT ![w].pc = "settle", ![w].seen = job.status,
                                     ![w].copy = Expired]
  /\ UNCHANGED <<job, world, stores, contested>>

\* The views are built, and then a paused run writes PAUSED over whatever the
\* row holds by now, if the status read at the refresh allows it.
PauseJob(w) ==
  /\ At(w, "settle") /\ worker[w].paused
  /\ IF CanTransition(worker[w].seen, "PAUSED")
       THEN /\ WriteStatus("PAUSED")
            /\ Ends(w)
            /\ UNCHANGED <<world, stores, contested>>
       ELSE HandleException(w)

\* Bug: a paused run moves the mark too.
AdvanceMarkAlways(w) ==
  /\ At(w, "settle")
  /\ marked' = TRUE
  /\ Goes(w, "complete")
  /\ UNCHANGED <<job, world, landed, table, contested>>

\* advance_high_water: only a run that reached its last page moves the mark.
AdvanceMark(w) ==
  /\ At(w, "settle") /\ ~worker[w].paused
  /\ marked' = TRUE
  /\ Goes(w, "complete")
  /\ UNCHANGED <<job, world, landed, table, contested>>

\* The commit of the mark expired the row: its status is read anew.
CompleteJob(w) ==
  /\ At(w, "complete")
  /\ IF CanTransition(job.status, "COMPLETED")
       THEN /\ WriteStatus("COMPLETED")
            /\ Ends(w)
            /\ UNCHANGED <<world, stores, contested>>
       ELSE HandleException(w)

\* An outside service fails for good: HubSpot, object storage or ClickHouse.
\* A paused run that loaded no page builds no view, so nothing fails there.
Fail(w) ==
  /\ \E step \in {"auth", "land", "sink", "settle"} : At(w, step)
  /\ worker[w].paused => worker[w].page # worker[w].start
  /\ job.retries < MaxFailures
  /\ HandleException(w)

\* The database fails under the error handler itself: the thread is gone and
\* its process goes on.
LoseWorker(w) ==
  /\ DbOutage /\ Alive(w)
  /\ Ends(w)
  /\ UNCHANGED <<job, world, stores, contested>>

-----------------------------------------------------------------------------
(***************************************************************************)
(* The API.  A request served by process p reads the row in one step and   *)
(* writes the status it decided on in a later one.                         *)
(***************************************************************************)
Targets == {"PAUSED", "RUNNING", "CANCELLED"}

Free(c, p) == /\ p \in live /\ request[c] = NoRequest
              /\ requests < MaxRequests
              /\ requests' = requests + 1

Decides(c, p, target, launches) ==
  request' = [request EXCEPT ![c] =
    [proc |-> p, target |-> target, launches |-> launches, start |-> StartAfter(job.cursor)]]

\* POST /api/hubspot/pause: only a RUNNING job can be asked to pause.
RequestPause(c, p) ==
  /\ Free(c, p)
  /\ job.status = "RUNNING"
  /\ job' = [job EXCEPT !.control = "pause"]
  /\ UNCHANGED <<fresh, aged, live, worker, request, taken, stores, contested, crashes>>

\* POST /api/hubspot/resume reads a PAUSED or FAILED row and its cursor.
RequestResume(c, p) ==
  /\ Free(c, p)
  /\ job.status \in {"PAUSED", "FAILED"}
  /\ Decides(c, p, "RUNNING", TRUE)
  /\ UNCHANGED <<job, fresh, aged, live, worker, taken, stores, contested, crashes>>

\* POST /api/hubspot/cancel reads the row and signals the worker, even when
\* the transition that follows is going to be refused.
RequestCancel(c, p) ==
  /\ Free(c, p)
  /\ job' = [job EXCEPT !.control = "pause"]
  /\ IF CanTransition(job.status, "CANCELLED")
       THEN Decides(c, p, "CANCELLED", FALSE)
       ELSE UNCHANGED request
  /\ UNCHANGED <<fresh, aged, live, worker, taken, stores, contested, crashes>>

\* POST /api/jobs/{id}/pause, resume and cancel: the status and nothing else.
RequestStatus(c, p, target) ==
  /\ GenericApi
  /\ Free(c, p)
  /\ CanTransition(job.status, target)
  /\ Decides(c, p, target, FALSE)
  /\ UNCHANGED <<job, fresh, aged, live, worker, taken, stores, contested, crashes>>

\* The write a request decided on.  A resume then launches a worker from the
\* cursor it read.
Respond(c) ==
  /\ request[c] # NoRequest
  /\ WriteStatus(request[c].target)
  /\ IF request[c].launches
       THEN \E w \in Workers : Launch(w, request[c].proc, request[c].start)
       ELSE UNCHANGED <<worker, contested>>
  /\ request' = [request EXCEPT ![c] = NoRequest]
  /\ UNCHANGED <<fresh, aged, live, taken, stores, crashes, requests>>

-----------------------------------------------------------------------------
(***************************************************************************)
(* Ownership.                                                              *)
(***************************************************************************)

\* The heartbeat loop of a live owner keeps a RUNNING job fresh.
Stamped == ~Stalls /\ job.status = "RUNNING" /\ job.owner \in live

\* A heartbeat timeout passes.
TimeoutElapses ==
  /\ aged' = TRUE
  /\ fresh' = (fresh /\ Stamped)
  /\ <<aged, fresh>> # <<aged', fresh'>>
  /\ UNCHANGED <<job, live, worker, request, taken, stores, contested, crashes, requests>>

\* Bug: a process stamps every RUNNING job.
HeartbeatForAll(p) ==
  /\ p \in live /\ ~fresh
  /\ job.status = "RUNNING"
  /\ fresh' = TRUE
  /\ UNCHANGED <<job, aged, live, worker, request, taken, stores, contested, crashes, requests>>

\* heartbeat_once: a process stamps the RUNNING jobs it owns.
Heartbeat(p) ==
  /\ p \in live /\ ~fresh
  /\ job.owner = p /\ job.status = "RUNNING"
  /\ fresh' = TRUE
  /\ UNCHANGED <<job, aged, live, worker, request, taken, stores, contested, crashes, requests>>

\* Bug: a job that never ran is nobody's orphan.
OrphanedRunning(p) == job.owner # p /\ ~fresh /\ job.status = "RUNNING"

\* _orphan_filter, as process p evaluates it: not ours, and no sign of life.
Orphaned(p) ==
  /\ job.owner # p
  /\ ~fresh
  /\ job.status = "RUNNING" \/ (job.status = "PENDING" /\ aged)

\* _take_over: one conditional UPDATE.
TakeOver(p) ==
  /\ p \in live \ taken
  /\ Orphaned(p)
  /\ job' = [job EXCEPT !.owner = p]
  /\ fresh' = TRUE
  /\ taken' = taken \cup {p}
  /\ UNCHANGED <<aged, live, worker, request, stores, contested, crashes, requests>>

\* What the sweep does with a job it took over: a stored pause is honoured,
\* otherwise a worker is launched from the checkpoint.
Recover(p) ==
  /\ p \in taken
  /\ taken' = taken \ {p}
  /\ IF job.control = "pause" /\ job.status = "RUNNING"
       THEN /\ job' = [job EXCEPT !.status = "PAUSED", !.control = "none"]
            /\ UNCHANGED <<worker, contested>>
       ELSE /\ \E w \in Workers : Launch(w, p, StartAfter(job.cursor))
            /\ UNCHANGED job
  /\ UNCHANGED <<fresh, aged, live, request, stores, crashes, requests>>

\* The database fails between the take-over and the launch: the loop goes on.
SweepFails(p) ==
  /\ DbOutage /\ p \in taken
  /\ taken' = taken \ {p}
  /\ UNCHANGED <<job, fresh, aged, live, worker, request, stores, contested, crashes, requests>>

\* A process dies: its threads, its requests and its boot id are gone.
Crash(p) ==
  /\ p \in live /\ crashes < MaxCrashes
  /\ crashes' = crashes + 1
  /\ live' = live \ {p} /\ taken' = taken \ {p}
  /\ worker' = [w \in Workers |->
       IF Alive(w) /\ worker[w].proc = p THEN Idle ELSE worker[w]]
  /\ request' = [c \in Clients |->
       IF request[c] # NoRequest /\ request[c].proc = p THEN NoRequest ELSE request[c]]
  /\ job' = IF job.owner = p THEN [job EXCEPT !.owner = Nobody] ELSE job
  /\ UNCHANGED <<fresh, aged, stores, contested, requests>>

\* A process starts, under a boot id of its own.
Restart(p) ==
  /\ p \notin live
  /\ live' = live \cup {p}
  /\ UNCHANGED <<job, fresh, aged, worker, request, taken, stores, contested, crashes, requests>>

-----------------------------------------------------------------------------
\* The steps a worker takes when nothing outside fails.
Work(w) ==
  \/ Load(w) \/ Authenticate(w) \/ Begin(w) \/ Claim(w) \/ ClearSignal(w)
  \/ ReadCursor(w) \/ ChooseMode(w)
  \/ CheckSignal(w) \/ LandPage(w) \/ LoadPage(w) \/ Checkpoint(w)
  \/ Refresh(w) \/ PauseJob(w) \/ AdvanceMark(w) \/ CompleteJob(w)

Serve(c) ==
  \/ \E p \in Procs : RequestPause(c, p) \/ RequestResume(c, p) \/ RequestCancel(c, p)
  \/ \E p \in Procs, s \in Targets : RequestStatus(c, p, s)
  \/ Respond(c)

Run(p) ==
  \/ Heartbeat(p) \/ TakeOver(p) \/ Recover(p) \/ SweepFails(p)
  \/ Crash(p) \/ Restart(p)

Next ==
  \/ \E w \in Workers : Work(w) \/ Fail(w) \/ LoseWorker(w)
  \/ \E c \in Clients : Serve(c)
  \/ TimeoutElapses
  \/ \E p \in Procs : Run(p)

Spec == Init /\ [][Next]_vars

\* Threads that exist run on, the loop of every live process comes round
\* (heartbeat_interval_seconds), time passes, an answer is written, and a
\* process that died is started again (restart: unless-stopped).  Nothing
\* makes a user send a request, a service fail or a process crash.
FairSpec ==
  /\ Spec
  /\ WF_vars(TimeoutElapses)
  /\ \A w \in Workers : WF_vars(Work(w))
  /\ \A c \in Clients : WF_vars(Respond(c))
  /\ \A p \in Procs : /\ WF_vars(Heartbeat(p)) /\ WF_vars(TakeOver(p))
                       /\ WF_vars(Recover(p)) /\ WF_vars(Restart(p))

-----------------------------------------------------------------------------
(***************************************************************************)
(* Properties.                                                             *)
(***************************************************************************)

\* Every variable holds a value of its kind.
TypeOK ==
  /\ job \in [status : Statuses, control : {"none", "pause"}, owner : Procs \cup {Nobody},
              cursor : Cursors, counted : [Pages -> Nat], retries : Nat]
  /\ fresh \in BOOLEAN /\ aged \in BOOLEAN
  /\ live \in SUBSET Procs /\ taken \in SUBSET live
  /\ worker \in [Workers -> WorkerStates]
  /\ request \in [Clients -> {NoRequest} \cup
       [proc : Procs, target : Targets, launches : BOOLEAN, start : Pages]]
  /\ landed \in SUBSET Pages /\ table \in SUBSET Pages
  /\ marked \in BOOLEAN /\ contested \in BOOLEAN
  /\ crashes \in Nat /\ requests \in Nat

\* The pages before cursor c are in object storage and in ClickHouse.
Stored(c) == \A p \in Pages : p < c => p \in landed /\ p \in table

\* The worker has claimed the row and not yet come to the end of its pages.
Claimed(w) == Alive(w) /\ worker[w].pc \in {"clear", "read", "mode"} \cup PageSteps

\* A saved cursor never runs ahead of the data: whatever crashes, and however
\* many workers race, every page before the checkpoint is landed and loaded.
CheckpointIsBacked == Stored(job.cursor)

\* A job shown as COMPLETED, and a high-water mark that lets the next run skip
\* this job's records, both mean that every page is landed and loaded.
FinishedIsLoaded == (job.status = "COMPLETED" \/ marked) => Stored(Done)

\* row_count holds each page before the checkpoint once and no other page: the
\* page a crash interrupts is replayed without being counted twice, and a run
\* that died after its last page is not counted again.  Only launches that
\* overlap (`contested`) can break this.
RowCountExact ==
  ~contested => \A p \in Pages : job.counted[p] = IF p < job.cursor THEN 1 ELSE 0

\* A process never adopts a job from a living worker that has claimed it: the
\* worker's process is the owner and its heartbeats keep the job.  A heartbeat
\* that stalls can break this, and the status-only endpoints, which take the job
\* out of the heartbeat's sight and put it back.
ClaimIsRespected ==
  [][\A p \in Procs, w \in Workers :
       (~contested /\ ~Stalls /\ ~GenericApi /\ TakeOver(p)) => ~Claimed(w)]_vars

\* Nothing is at work on a RUNNING job or about to be, while the process its
\* row names as the owner is up, whose heartbeat keeps every sweep away.
Stranded ==
  /\ job.status = "RUNNING" /\ job.owner \in live
  /\ \A w \in Workers : ~Alive(w)
  /\ \A c \in Clients : ~request[c].launches
  /\ taken = {}

\* A job that is RUNNING is not left so by the processes that share the
\* database: it completes, fails, is paused or cancelled, whichever of them
\* dies, unless it gets stranded (start_background_loop, the sweep for "jobs
\* whose owner died", which promises more: see RunningEnds).
RunningIsSettled == job.status = "RUNNING" ~> job.status # "RUNNING" \/ Stranded

\* A job is stranded by one thing only: a process dies that is not the row's
\* owner, with a worker that had yet to claim the row.  No failure, pause,
\* cancel or resume and no sweep does it, and not the owner's own death.
OnlyACrashStrands ==
  [][(~DbOutage /\ ~GenericApi /\ ~Stranded /\ Stranded') =>
       \E p \in live \ live' :
         /\ p # job.owner
         /\ ~contested /\ ~Stalls => \A w \in Workers : ~Claimed(w)]_vars

\* A job whose process dies before its worker started is started all the same.
PendingStarts == job.status = "PENDING" ~> job.status # "PENDING"

-----------------------------------------------------------------------------
(***************************************************************************)
(* What the documents say and the code does not always do.                 *)
(***************************************************************************)

\* "Only these transitions are legal": a row's status only moves along the
\* table.
LegalMoves == [][job'.status # job.status => CanTransition(job.status, job'.status)]_vars

\* "A job whose owner dies later is picked up by a surviving instance"
\* (recovery.py, at the sweep): a job does not stay RUNNING for ever.
RunningEnds == job.status = "RUNNING" ~> job.status # "RUNNING"

-----------------------------------------------------------------------------
(***************************************************************************)
(* Inductive invariants, proved in HubSpotSync_proofs.                     *)
(***************************************************************************)

\* What a thread holds in its locals is backed by the stores, whoever else
\* writes the row meanwhile.
Backed(w) ==
  LET r == worker[w] IN
  /\ Stored(r.start)
  /\ r.copy # Expired => Stored(r.copy.cursor)
  /\ r.pc \in PageSteps => Stored(r.page)
  /\ r.pc \in {"sink", "checkpoint"} => r.page \in landed
  /\ r.pc = "checkpoint" => r.page \in table
  /\ r.pc \in {"refresh", "settle"} /\ ~r.paused => Stored(Done)
  /\ r.pc = "complete" => Stored(Done)

\* Cursors held anywhere, in the row, a thread or a request, are backed.
BackingInv ==
  /\ CheckpointIsBacked
  /\ FinishedIsLoaded
  /\ \A w \in Workers : Alive(w) => Backed(w)
  /\ \A c \in Clients : request[c] # NoRequest => Stored(request[c].start)

\* The steps before the first page.
Opening == {"load", "auth", "begin", "claim", "clear", "read", "mode"}

\* The only thread of an uncontested job works from the row's own checkpoint.
InStep(w) ==
  LET r == worker[w] IN
  /\ r.copy \in {Expired, RowNow}
  /\ r.pc \in Opening => r.start = StartAfter(job.cursor)
  /\ r.pc \in PageSteps => r.page = job.cursor

CountInv ==
  ~contested =>
    /\ \A p \in Pages : job.counted[p] = IF p < job.cursor THEN 1 ELSE 0
    /\ \A v, w \in Workers : Alive(v) /\ Alive(w) => v = w
    /\ \A w \in Workers : Alive(w) => InStep(w)

\* Owner, threads and requests are of processes that are up, a row goes to
\* RUNNING by a request only together with a launch, and it is PENDING no more
\* once a worker has read it otherwise, or has begun.
PlaceInv ==
  /\ job.owner \in live \cup {Nobody}
  /\ \A w \in Workers : Alive(w) => worker[w].proc \in live
  /\ \A c \in Clients : request[c] # NoRequest =>
       /\ request[c].proc \in live
       /\ ~GenericApi /\ request[c].target = "RUNNING" => request[c].launches
  /\ \A w \in Workers : Alive(w) /\ job.status = "PENDING" =>
       \/ worker[w].pc = "load"
       \/ worker[w].pc \in {"auth", "begin"} /\ worker[w].seen = "PENDING"

\* The row names the process of a worker that has claimed it, and is fresh for
\* as long as a sweep would look at it.
OwnInv ==
  ~contested /\ ~Stalls /\ ~GenericApi => \A w \in Workers : Claimed(w) =>
    /\ job.owner = worker[w].proc
    /\ job.status = "RUNNING" => fresh
=============================================================================
