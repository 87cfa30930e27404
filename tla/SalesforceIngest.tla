-------------------------- MODULE SalesforceIngest --------------------------
(***************************************************************************)
(* Salesforce ingestion jobs: the rows of the `jobs` table, the worker     *)
(* threads that run a job stage by stage (extract through a bulk query,    *)
(* land, load, complete), and the requests that start, pause, resume and   *)
(* cancel it.  The process crashes and restarts at any step, and its sweep *)
(* adopts the jobs of the process before it.                               *)
(*                                                                         *)
(* Every action is one database commit, one attempt of a call to an        *)
(* outside service, or one read the thread acts on later.  The calls are   *)
(* retried by the policy of module Retry.                                  *)
(*                                                                         *)
(* Abstractions.  A record of the source is a model value; some are        *)
(* invalid.  row_count is kept per record, as the number of times the      *)
(* record was counted.  The cursor column is the stage it names, with the  *)
(* states of the bulk query under "created".                               *)
(***************************************************************************)
EXTENDS Naturals, JobTable, Retry

CONSTANTS
  Jobs,         \* jobs of one object of one organisation
  Workers,      \* names for worker threads
  Clients,      \* names for API requests in flight
  Records,      \* records the source may hold
  Invalid,      \* those without an id
  Initial,      \* those it holds to begin with
  Paths,        \* names of objects in storage
  PathOf,       \* the name a job lands its file under
  MaxCrashes,   \* bound on crashes of the process
  MaxRequests   \* bound on API requests

ASSUME RecordsAssumption == Invalid \subseteq Records /\ Initial \subseteq Records
ASSUME PathsAssumption == PathOf \in [Jobs -> Paths]
ASSUME BoundsAssumption == MaxCrashes \in Nat /\ MaxRequests \in Nat

VARIABLES
  job,        \* the rows of the jobs table
  worker,     \* the worker threads
  request,    \* API requests that read a row and have not written it yet
  up,         \* the process is running
  source,     \* records Salesforce holds
  file,       \* per name, the records of the object stored under it
  table,      \* records in ClickHouse
  letters,    \* per job, the records sent to the dead letters
  since,      \* history: the records Salesforce held when the job was created
  contested,  \* history: jobs with a launch while another worker ran
  recounted,  \* history: jobs launched after their batch was counted
  cancelled,  \* history: jobs with a cancel answered and no resume since
  overwritten,\* history: jobs whose file was replaced before its load
  spent       \* crashes and requests so far

vars == <<job, worker, request, up, source, file, table, letters,
          since, contested, recounted, cancelled, overwritten, spent>>

-----------------------------------------------------------------------------
CallSteps  == {"auth", "create", "poll", "results"}
Steps      == {"load", "begin", "claim", "check", "pause", "cancel", "clear",
               "letters", "land", "sink", "loaded", "complete"}
                \cup CallSteps
Stages     == {"none", "created", "landed", "loaded"}
Controls   == {"none", "pause", "cancel"}
Counts     == [Records -> Nat]

Idle == [pc |-> "idle"]

\* `seen` and `read` are what the thread's session read of the status and the
\* row count, `then` is where it goes from a stop check, `batch` the snapshot
\* its bulk query reads.
WorkerStates ==
  [pc : Steps, job : Jobs, seen : Statuses, read : Counts, then : Steps,
   batch : SUBSET Records, call : Calls]
    \cup {Idle}

Alive(w) == worker[w] # Idle
At(w, step) == Alive(w) /\ worker[w].pc = step
Of(w) == worker[w].job
Row(w) == job[Of(w)]

Goes(w, step) == worker' = [worker EXCEPT ![w].pc = step]
Ends(w)       == worker' = [worker EXCEPT ![w] = Idle]

\* The thread makes a stop check and goes on at `step` if nothing stops it.
Checks(w, step) == worker' = [worker EXCEPT ![w].pc = "check", ![w].then = step]

NoRow == [status |-> "none", control |-> "none", owned |-> FALSE, stage |-> "none",
          counted |-> [r \in Records |-> 0]]

Exists(j) == job[j].status \in Statuses

WriteStatus(j, s) == job' = [job EXCEPT ![j].status = s]

\* Somebody takes the job up: it is contested if a worker has it already.
Contends(j) ==
  contested' = contested \cup {i \in {j} : \E v \in Workers : Alive(v) /\ Of(v) = i}

\* A worker thread is launched for job j.  It always starts from the top: the
\* stage in the cursor column is written and never read.
Launch(w, j) ==
  /\ ~Alive(w)
  /\ worker' = [worker EXCEPT ![w] =
       [pc |-> "load", job |-> j, seen |-> "PENDING", read |-> NoRow.counted,
        then |-> "auth", batch |-> {}, call |-> FreshCall]]
  /\ Contends(j)
  /\ recounted' = IF job[j].stage = "loaded" THEN recounted \cup {j} ELSE recounted

NoRequest == [target |-> "none"]

Init ==
  /\ job = [j \in Jobs |-> NoRow]
  /\ worker = [w \in Workers |-> Idle]
  /\ request = [c \in Clients |-> NoRequest]
  /\ up = TRUE
  /\ source = Initial
  /\ file = [p \in Paths |-> {}]
  /\ table = {}
  /\ letters = [j \in Jobs |-> {}]
  /\ since = [j \in Jobs |-> {}]
  /\ contested = {} /\ recounted = {} /\ cancelled = {} /\ overwritten = {}
  /\ spent = [crashes |-> 0, requests |-> 0]

history == <<since, contested, recounted, cancelled, overwritten, spent>>
stores  == <<source, file, table, letters>>

-----------------------------------------------------------------------------
(***************************************************************************)
(* run_salesforce_ingestion, up to the bulk query.                         *)
(***************************************************************************)

\* get_job_or_404, before the client is made.
Load(w) ==
  /\ At(w, "load")
  /\ worker' = [worker EXCEPT ![w].pc = "begin", ![w].seen = Row(w).status]
  /\ UNCHANGED <<job, request, up, stores, history>>

\* Bug: a failure is left to a caller that a background thread does not have.
ReRaise(w) ==
  /\ Ends(w)
  /\ UNCHANGED <<job, request, up, stores, history>>

\* The error boundary: FAILED, if the row as it is now allows it.
HandleException(w) ==
  /\ Ends(w)
  /\ IF CanTransition(Row(w).status, "FAILED")
       THEN WriteStatus(Of(w), "FAILED") ELSE UNCHANGED job
  /\ UNCHANGED <<request, up, stores, history>>

\* RUNNING is decided on, and allowed by, the status read before.
Begin(w) ==
  /\ At(w, "begin")
  /\ \/ /\ worker[w].seen = "RUNNING"
        /\ Goes(w, "claim")
        /\ UNCHANGED <<job, request, up, stores, history>>
     \/ /\ CanTransition(worker[w].seen, "RUNNING")
        /\ WriteStatus(Of(w), "RUNNING")
        /\ worker' = [worker EXCEPT ![w].pc = "claim", ![w].seen = "RUNNING"]
        /\ UNCHANGED <<request, up, stores, history>>
     \/ /\ worker[w].seen # "RUNNING" /\ ~CanTransition(worker[w].seen, "RUNNING")
        /\ HandleException(w)

\* claim_job, and on to the first stop check.
Claim(w) ==
  /\ At(w, "claim")
  /\ job' = [job EXCEPT ![Of(w)].owned = TRUE]
  /\ Checks(w, "auth")
  /\ UNCHANGED <<request, up, stores, history>>

-----------------------------------------------------------------------------
(***************************************************************************)
(* _stop_requested: between stages.                                        *)
(***************************************************************************)

\* The row is read anew and the control column with it.  The thread goes on,
\* or is done, or has decided on the status that the request asked for.
CheckStop(w) ==
  /\ At(w, "check")
  /\ \/ /\ Row(w).status \in {"CANCELLED", "PAUSED"}
        /\ Ends(w)
     \/ /\ Row(w).status \notin {"CANCELLED", "PAUSED"}
        /\ Row(w).control # "none"
        /\ worker' = [worker EXCEPT ![w].pc = Row(w).control, ![w].seen = Row(w).status]
     \/ /\ Row(w).status \notin {"CANCELLED", "PAUSED"}
        /\ Row(w).control = "none"
        /\ worker' = [worker EXCEPT ![w].pc = worker[w].then,
                                    ![w].read = Row(w).counted]
  /\ UNCHANGED <<job, request, up, stores, history>>

\* Bug: the signal is erased before the status that answers it is written.
HaltClearingFirst(w, signal, target) ==
  /\ At(w, signal)
  /\ IF CanTransition(worker[w].seen, target)
       THEN /\ IF Row(w).control # "none"
                 THEN /\ job' = [job EXCEPT ![Of(w)].control = "none"]
                      /\ UNCHANGED worker
                 ELSE WriteStatus(Of(w), target) /\ Ends(w)
            /\ UNCHANGED <<request, up, stores, history>>
       ELSE HandleException(w)

\* The status asked for is written over whatever the row holds by now, if the
\* status read at the check allows it.
Halt(w, signal, target) ==
  /\ At(w, signal)
  /\ IF CanTransition(worker[w].seen, target)
       THEN /\ WriteStatus(Of(w), target)
            /\ Goes(w, "clear")
            /\ UNCHANGED <<request, up, stores, history>>
       ELSE HandleException(w)

\* clear_control, in a commit of its own.
ClearControl(w) ==
  /\ At(w, "clear")
  /\ job' = [job EXCEPT ![Of(w)].control = "none"]
  /\ Ends(w)
  /\ UNCHANGED <<request, up, stores, history>>

-----------------------------------------------------------------------------
(***************************************************************************)
(* Extract: authenticate, create the query job, poll it, read its results. *)
(***************************************************************************)

\* A call that succeeds: the thread goes on at `step`.
Succeeds(w, step) ==
  worker' = [worker EXCEPT ![w].pc = step, ![w].call = FreshCall]

Authenticate(w) ==
  /\ At(w, "auth")
  /\ Succeeds(w, "create")
  /\ UNCHANGED <<job, request, up, stores, history>>

\* update_checkpoint without a row count.  It is a commit of its own, made
\* one step with the call before it: nothing reads the stage but a person.
Reaches(w, stage) == job' = [job EXCEPT ![Of(w)].stage = stage]

\* The records that a query job is created over, for all its pages.
Snapshot == source

\* Salesforce runs the query over what it holds now.
CreateBulkJob(w) ==
  /\ At(w, "create")
  /\ worker' = [worker EXCEPT ![w].pc = "poll", ![w].call = FreshCall,
                              ![w].batch = Snapshot]
  /\ Reaches(w, "created")
  /\ UNCHANGED <<request, up, stores, history>>

\* Where an answer sends the worker: the query is in progress, or complete.
Answers == {"poll", "results"}

\* The loop asks for the state, checkpoints it and looks for a request to
\* stop.  It ends when Salesforce answers JobComplete, and on nothing else.
Poll(w) ==
  /\ At(w, "poll")
  /\ Reaches(w, "created")
  /\ \E next \in Answers :
       worker' = [worker EXCEPT ![w].pc = "check", ![w].then = next, ![w].call = FreshCall]
  /\ UNCHANGED <<request, up, stores, history>>

\* All pages of the snapshot are read and split by validate_records.
GetResults(w) ==
  /\ At(w, "results")
  /\ Succeeds(w, "letters")
  /\ UNCHANGED <<job, request, up, stores, history>>

\* An attempt is answered with a transient failure and made again later.
RetryCall(w) ==
  /\ \E step \in CallSteps : At(w, step)
  /\ \E reply \in AuthorizedReplies : \E call \in Retried(worker[w].call, reply) :
       worker' = [worker EXCEPT ![w].call = call]
  /\ UNCHANGED <<job, request, up, stores, history>>

CallRaises(w) ==
  /\ \E step \in CallSteps : At(w, step)
  /\ \E reply \in AuthorizedReplies : Raises(worker[w].call, reply)
  /\ HandleException(w)

-----------------------------------------------------------------------------
(***************************************************************************)
(* Land, load, complete.                                                   *)
(***************************************************************************)
ValidBatch(w) == worker[w].batch \ Invalid

\* Bug: what is invalid is left out and forgotten.
DropInvalid(w) ==
  /\ At(w, "letters")
  /\ Goes(w, "land")
  /\ UNCHANGED <<job, request, up, stores, history>>

\* Every invalid record goes to the dead letters, again on every run.
SendToDeadLetter(w) ==
  /\ At(w, "letters")
  /\ letters' = [letters EXCEPT ![Of(w)] = letters[Of(w)] \cup (worker[w].batch \cap Invalid)]
  /\ Goes(w, "land")
  /\ UNCHANGED <<job, request, up, source, file, table, history>>

\* The jobs whose worker has landed its file and not loaded it, and that land
\* under the name of w's job: what w stores there is what they load.
Overwrites(w) ==
  overwritten' = overwritten \cup
    {j \in Jobs \ {Of(w)} : PathOf[j] = PathOf[Of(w)] /\ \E v \in Workers :
       Alive(v) /\ Of(v) = j /\ (At(v, "sink") \/ (At(v, "check") /\ worker[v].then = "sink"))}

\* Bug: the checkpoint after the landing counts the batch as well.
LandCounting(w) ==
  /\ At(w, "land")
  /\ file' = [file EXCEPT ![PathOf[Of(w)]] = ValidBatch(w)]
  /\ job' = [job EXCEPT ![Of(w)].stage = "landed", ![Of(w)].counted =
       [r \in Records |-> Row(w).counted[r] + IF r \in ValidBatch(w) THEN 1 ELSE 0]]
  /\ Checks(w, "sink")
  /\ Overwrites(w)
  /\ UNCHANGED <<request, up, source, table, letters, since, contested, recounted, cancelled, spent>>

\* put_object replaces what is stored under the name, and the stage is saved.
Land(w) ==
  /\ At(w, "land")
  /\ file' = [file EXCEPT ![PathOf[Of(w)]] = ValidBatch(w)]
  /\ Reaches(w, "landed")
  /\ Checks(w, "sink")
  /\ Overwrites(w)
  /\ UNCHANGED <<request, up, source, table, letters, since, contested, recounted, cancelled, spent>>

\* The table is ensured, and the sink reads the file back by its name.
LoadFromStorage(w) ==
  /\ At(w, "sink")
  /\ table' = table \cup file[PathOf[Of(w)]]
  /\ Goes(w, "loaded")
  /\ UNCHANGED <<job, request, up, source, file, letters, history>>

\* The views are built, then the stage and the row count in one commit.  The count is the one the
\* session read at the last stop check, increased by the batch in memory.
CheckpointLoaded(w) ==
  /\ At(w, "loaded")
  /\ job' = [job EXCEPT ![Of(w)].stage = "loaded", ![Of(w)].counted =
       [r \in Records |-> worker[w].read[r] + IF r \in ValidBatch(w) THEN 1 ELSE 0]]
  /\ Goes(w, "complete")
  /\ UNCHANGED <<request, up, stores, history>>

\* The commit before expired the row: its status is read anew.
Complete(w) ==
  /\ At(w, "complete")
  /\ IF CanTransition(Row(w).status, "COMPLETED")
       THEN /\ WriteStatus(Of(w), "COMPLETED")
            /\ Ends(w)
            /\ UNCHANGED <<request, up, stores, history>>
       ELSE HandleException(w)

\* The client cannot be made, storage refuses the file, or ClickHouse fails:
\* nothing of this is retried.
Fail(w) ==
  /\ \E step \in {"begin", "letters", "land", "sink", "loaded"} : At(w, step)
  /\ HandleException(w)

-----------------------------------------------------------------------------
(***************************************************************************)
(* The API.  A request reads the row, and the signal it sends, in one step *)
(* and writes the status it decided on in a later one.                     *)
(***************************************************************************)
Free(c) ==
  /\ up /\ request[c] = NoRequest
  /\ spent.requests < MaxRequests
  /\ spent' = [spent EXCEPT !.requests = spent.requests + 1]

Decides(c, j, target) == request' = [request EXCEPT ![c] = [target |-> target, job |-> j]]

Signals(j, control) == job' = [job EXCEPT ![j].control = control]

\* POST /api/salesforce/start: the row, and a worker in the background.
Start(j) ==
  /\ up /\ ~Exists(j)
  /\ \E w \in Workers : Launch(w, j)
  /\ job' = [job EXCEPT ![j].status = "PENDING"]
  /\ since' = [since EXCEPT ![j] = source]
  /\ UNCHANGED <<request, up, stores, cancelled, overwritten, spent>>

\* Bug: the status is stored where the signal belongs.
RequestPauseMixedUp(c, j) ==
  /\ Free(c)
  /\ job[j].status = "RUNNING"
  /\ Signals(j, "PAUSED")
  /\ UNCHANGED <<worker, request, up, stores, since, contested, recounted, cancelled, overwritten>>

\* POST /api/salesforce/pause: only a RUNNING job can be asked to pause.
RequestPause(c, j) ==
  /\ Free(c)
  /\ job[j].status = "RUNNING"
  /\ Signals(j, "pause")
  /\ UNCHANGED <<worker, request, up, stores, since, contested, recounted, cancelled, overwritten>>

\* POST /api/salesforce/resume forgets the signal and goes on to RUNNING.
RequestResume(c, j) ==
  /\ Free(c)
  /\ job[j].status \in {"PAUSED", "FAILED"}
  /\ Signals(j, "none")
  /\ Decides(c, j, "RUNNING")
  /\ UNCHANGED <<worker, up, stores, since, contested, recounted, cancelled, overwritten>>

\* Bug: a cancel changes the status and sends no signal.
RequestCancelSilently(c, j) ==
  /\ Free(c)
  /\ Exists(j)
  /\ CanTransition(job[j].status, "CANCELLED")
  /\ Decides(c, j, "CANCELLED")
  /\ UNCHANGED <<job, worker, up, stores, since, contested, recounted, cancelled, overwritten>>

\* POST /api/salesforce/cancel signals the worker, even when the transition
\* that follows is going to be refused.
RequestCancel(c, j) ==
  /\ Free(c)
  /\ Exists(j)
  /\ Signals(j, "cancel")
  /\ IF CanTransition(job[j].status, "CANCELLED")
       THEN Decides(c, j, "CANCELLED") ELSE UNCHANGED request
  /\ UNCHANGED <<worker, up, stores, since, contested, recounted, cancelled, overwritten>>

\* The write a request decided on; a resume then launches a worker.
Respond(c) ==
  /\ request[c] # NoRequest
  /\ LET j == request[c].job IN
     /\ WriteStatus(j, request[c].target)
     /\ \/ /\ request[c].target = "RUNNING"
           /\ \E w \in Workers : Launch(w, j)
           /\ cancelled' = cancelled \ {j}
        \/ /\ request[c].target = "CANCELLED"
           /\ cancelled' = cancelled \cup {j}
           /\ UNCHANGED <<worker, contested, recounted>>
  /\ request' = [request EXCEPT ![c] = NoRequest]
  /\ UNCHANGED <<up, stores, since, overwritten, spent>>

-----------------------------------------------------------------------------
(***************************************************************************)
(* The process, its sweep, and Salesforce.                                 *)
(***************************************************************************)

\* A job whose owner is not this process and has shown no sign of life: the
\* process before has died, or a start has outlasted the heartbeat timeout.
Orphaned(j) == job[j].status \in {"PENDING", "RUNNING"} /\ ~job[j].owned

\* The take-over, and what the sweep does with the job: a stored signal is
\* honoured, otherwise a worker is launched.
Recover(j) ==
  /\ up /\ Orphaned(j)
  /\ \/ /\ job[j].control = "cancel"
        /\ job' = [job EXCEPT ![j].owned = TRUE, ![j].status = "CANCELLED",
                              ![j].control = "none"]
        /\ Contends(j)
        /\ UNCHANGED <<worker, recounted>>
     \/ /\ job[j].control = "pause" /\ job[j].status = "RUNNING"
        /\ job' = [job EXCEPT ![j].owned = TRUE, ![j].status = "PAUSED",
                              ![j].control = "none"]
        /\ Contends(j)
        /\ UNCHANGED <<worker, recounted>>
     \/ /\ job[j].control = "none" \/ (job[j].control = "pause" /\ job[j].status = "PENDING")
        /\ job' = [job EXCEPT ![j].owned = TRUE]
        /\ \E w \in Workers : Launch(w, j)
  /\ UNCHANGED <<request, up, stores, since, cancelled, overwritten, spent>>

\* The process dies with its threads and requests; its boot id is gone.
Crash ==
  /\ up /\ spent.crashes < MaxCrashes
  /\ spent' = [spent EXCEPT !.crashes = spent.crashes + 1]
  /\ up' = FALSE
  /\ worker' = [w \in Workers |-> Idle]
  /\ request' = [c \in Clients |-> NoRequest]
  /\ job' = [j \in Jobs |-> [job[j] EXCEPT !.owned = FALSE]]
  /\ UNCHANGED <<stores, since, contested, recounted, cancelled, overwritten>>

Restart ==
  /\ ~up
  /\ up' = TRUE
  /\ UNCHANGED <<job, worker, request, stores, history>>

\* A record appears in Salesforce.
SourceGrows(r) ==
  /\ r \notin source
  /\ source' = source \cup {r}
  /\ UNCHANGED <<job, worker, request, up, file, table, letters, history>>

-----------------------------------------------------------------------------
Step(w) ==
  \/ Load(w) \/ Begin(w) \/ Claim(w)
  \/ CheckStop(w) \/ Halt(w, "pause", "PAUSED") \/ Halt(w, "cancel", "CANCELLED")
  \/ ClearControl(w)
  \/ Authenticate(w) \/ CreateBulkJob(w) \/ Poll(w) \/ GetResults(w) \/ RetryCall(w) \/ CallRaises(w)
  \/ SendToDeadLetter(w) \/ Land(w) \/ LoadFromStorage(w)
  \/ CheckpointLoaded(w) \/ Complete(w) \/ Fail(w)

Serve(c) ==
  \/ \E j \in Jobs : RequestPause(c, j) \/ RequestResume(c, j) \/ RequestCancel(c, j)
  \/ Respond(c)

Next ==
  \/ \E w \in Workers : Step(w)
  \/ \E c \in Clients : Serve(c)
  \/ \E j \in Jobs : Start(j) \/ Recover(j)
  \/ Crash \/ Restart
  \/ \E r \in Records : SourceGrows(r)

Spec == Init /\ [][Next]_vars

-----------------------------------------------------------------------------
(***************************************************************************)
(* Properties.                                                             *)
(***************************************************************************)

\* Every variable holds a value of its kind.
TypeOK ==
  /\ job \in [Jobs -> [status : Statuses \cup {"none"}, control : Controls,
                       owned : BOOLEAN, stage : Stages, counted : Counts]]
  /\ worker \in [Workers -> WorkerStates]
  /\ request \in [Clients -> {NoRequest} \cup
       [target : {"RUNNING", "CANCELLED"}, job : Jobs]]
  /\ up \in BOOLEAN
  /\ source \in SUBSET Records /\ table \in SUBSET Records
  /\ file \in [Paths -> SUBSET Records]
  /\ letters \in [Jobs -> SUBSET Records] /\ since \in [Jobs -> SUBSET Records]
  /\ contested \in SUBSET Jobs /\ recounted \in SUBSET Jobs /\ cancelled \in SUBSET Jobs
  /\ overwritten \in SUBSET Jobs
  /\ spent \in [crashes : Nat, requests : Nat]

\* A job shown as COMPLETED has every record that Salesforce held when the job
\* was created: the valid ones in ClickHouse, the others in its dead letters.
\* Only another job of its object, organisation and day that lands between its
\* landing and its load can break this.
CompletedIsLoaded ==
  \A j \in Jobs \ overwritten : job[j].status = "COMPLETED" =>
    since[j] \ Invalid \subseteq table /\ since[j] \cap Invalid \subseteq letters[j]

\* row_count has each valid record of the batch once when the batch is loaded,
\* and nothing before.  Only launches that overlap, and a launch of a job that
\* was stopped between its count and COMPLETED, can break this.
CountedOnce ==
  \A j \in Jobs \ (contested \cup recounted) :
    /\ \A r \in Records : job[j].counted[r] <= 1
    /\ job[j].stage # "loaded" => job[j].counted = NoRow.counted
    /\ job[j].stage = "loaded" => \A r \in since[j] \ Invalid : job[j].counted[r] = 1

\* A pause or a cancel that was signalled is erased only when the job is no
\* longer RUNNING: the status is written before the signal is cleared.
SignalIsKept ==
  [][\A j \in Jobs \ contested' :
       job[j].control # "none" /\ job'[j].control = "none" => job'[j].status # "RUNNING"]_vars

\* A cancel that was answered holds: the job does not complete behind it, even
\* when its worker was starting and wrote RUNNING over the status.
CancelHolds ==
  \A j \in Jobs \ contested : j \in cancelled => job[j].status # "COMPLETED"

\* Whatever the service answers, a call stays within the retry policy.
RetriesAreBounded == \A w \in Workers : Alive(w) => WithinBudget(worker[w].call)

\* A job shown as RUNNING is run: a thread of the process is at work on it, or
\* its owner is gone and the sweep will find it.  No failure, no signal and no
\* two workers in each other's way leave a row RUNNING with nobody behind it.
RunningIsRun ==
  \A j \in Jobs : job[j].status = "RUNNING" /\ job[j].owned =>
    \E w \in Workers : Alive(w) /\ Of(w) = j

-----------------------------------------------------------------------------
(***************************************************************************)
(* The inductive invariants the theorems rest on.                          *)
(***************************************************************************)

\* What a job's steps refer to is there: workers and requests are for rows of
\* the table, and a stop check goes on at one of four places.
RowsExist ==
  /\ \A w \in Workers : Alive(w) =>
       Exists(Of(w)) /\ worker[w].then \in {"auth", "poll", "results", "sink"}
  /\ \A c \in Clients : request[c] # NoRequest => Exists(request[c].job)
  /\ \A j \in cancelled : Exists(j)

\* What a call slept is what it waited for its 429s, and a back-off for each of
\* its failures.
CallInv(call) ==
  /\ call.failures < MaxAttempts /\ call.limits <= MaxRetries
  /\ call.waited <= TotalWait
  /\ call.slept <= call.waited + call.failures * BackoffMax

RetryInv == \A w \in Workers : Alive(w) => CallInv(worker[w].call)

\* The worker behind a RUNNING row is not about to end: one that clears the
\* signal has written PAUSED or CANCELLED, and another has made it RUNNING.
WorkedOn ==
  \A j \in Jobs : job[j].status = "RUNNING" /\ job[j].owned =>
    \E w \in Workers : Alive(w) /\ Of(w) = j /\ worker[w].pc # "clear"

\* A job that is not contested has one worker at most.
Solo(j) ==
  \A v \in Workers : \A w \in Workers :
    Alive(v) /\ Alive(w) /\ Of(v) = j /\ Of(w) = j => v = w

\* A cancel of the job was answered, or is about to be.
Cancelling(j) ==
  \/ j \in cancelled
  \/ \E c \in Clients : request[c] # NoRequest /\ request[c].job = j
                          /\ request[c].target = "CANCELLED"

\* The job's first worker is still to make it RUNNING.
Starting(j) ==
  \/ job[j].status = "PENDING"
  \/ \E w \in Workers : At(w, "begin") /\ Of(w) = j /\ worker[w].seen = "PENDING"

\* A worker that starts has found its job as the launch left it, or cancelled;
\* one that clears the signal has stopped it.
StartsOrStops(j) ==
  \A w \in Workers : Alive(w) /\ Of(w) = j =>
    /\ worker[w].pc \in {"load", "begin"} =>
         job[j].status \in {"PENDING", "RUNNING", "CANCELLED"}
    /\ worker[w].pc = "begin" => worker[w].seen \in {"PENDING", "RUNNING", "CANCELLED"}
    /\ worker[w].pc = "clear" => job[j].status \in {"PAUSED", "CANCELLED"}

\* RUNNING written over a cancel has the signal still to meet: its worker has
\* not passed a stop check since.
SignalAhead(j) ==
  /\ Starting(j) /\ Cancelling(j) => job[j].control # "none"
  /\ j \in cancelled /\ job[j].status = "RUNNING" =>
       /\ job[j].control # "none"
       /\ \A w \in Workers : Alive(w) /\ Of(w) = j =>
            worker[w].pc \in {"claim", "check", "pause", "cancel"}
  /\ j \in cancelled => job[j].status # "COMPLETED"

SignalInv ==
  \A j \in Jobs \ contested : Solo(j) /\ StartsOrStops(j) /\ SignalAhead(j)

\* The worker has its snapshot, has landed its file, has loaded it.
Reading == {"poll", "results", "letters", "land", "sink", "loaded", "complete"}
HasBatch(w)  == \/ worker[w].pc \in Reading
                \/ worker[w].pc = "check" /\ worker[w].then # "auth"
HasLetters(w) == worker[w].pc = "land"
HasLanded(w) == \/ worker[w].pc = "sink"
                \/ worker[w].pc = "check" /\ worker[w].then = "sink"
HasLoaded(w) == worker[w].pc \in {"loaded", "complete"}

\* What a job's creation found in Salesforce follows the worker: in the
\* snapshot, the dead letters, the file and the table.
Carried(w) ==
  /\ HasBatch(w) => since[Of(w)] \subseteq worker[w].batch
  /\ HasLetters(w) \/ HasLanded(w) \/ HasLoaded(w) =>
       since[Of(w)] \cap Invalid \subseteq letters[Of(w)]
  /\ HasLanded(w) /\ Of(w) \notin overwritten =>
       since[Of(w)] \ Invalid \subseteq file[PathOf[Of(w)]]
  /\ HasLoaded(w) /\ Of(w) \notin overwritten =>
       since[Of(w)] \ Invalid \subseteq table

CarryInv ==
  /\ \A j \in Jobs : since[j] \subseteq source
  /\ \A w \in Workers : Alive(w) => Carried(w)
  /\ CompletedIsLoaded

\* No worker of a job is at a stage the job has left behind it, and none has
\* read a count other than zero.
CountInv ==
  \A j \in Jobs \ (contested \cup recounted) :
    /\ \A w \in Workers : Alive(w) /\ Of(w) = j =>
         /\ worker[w].read = NoRow.counted
         /\ worker[w].pc # "complete" => job[j].stage # "loaded"
    /\ job[j].stage # "loaded" => job[j].counted = NoRow.counted
    /\ job[j].stage = "loaded" =>
         \A r \in Records : /\ job[j].counted[r] <= 1
                            /\ r \in since[j] \ Invalid => job[j].counted[r] = 1
=============================================================================
