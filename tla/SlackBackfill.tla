--------------------------- MODULE SlackBackfill ---------------------------
(***************************************************************************)
(* A historical backfill of a Slack workspace: one row of the `jobs` table *)
(* and its channel checkpoints, the runs of run_historical_backfill that   *)
(* are launched for it, and in each run one thread per channel, all at     *)
(* work at once.  A thread walks its channel page by page: land the page's *)
(* files, have ClickHouse load them, save the checkpoint.                  *)
(*                                                                         *)
(* Every action is one database commit, one page landed, one load, or one  *)
(* read that is acted on later.                                            *)
(*                                                                         *)
(* Abstractions.  A channel's messages are the positions 1..Length; a      *)
(* cursor is the position its page comes after, and 0 the None of the      *)
(* first page.  The up to three files of a page (messages, files,          *)
(* reactions) are one object, and their loads one load.  A call to Slack   *)
(* either answers or fails the thread, its retries used up.                *)
(***************************************************************************)
EXTENDS Naturals, JobTable

CONSTANTS
  Runs,         \* names for launches of run_historical_backfill
  Clients,      \* names for API requests in flight
  Channels,     \* the workspace's channels
  Length,       \* how many messages each holds
  Sizes,        \* page sizes a start may ask for
  DefaultSize,  \* the page size of every other launch
  MaxCrashes,   \* bound on crashes of the process
  MaxFailures,  \* bound on failing commits, loads and calls
  MaxRequests   \* bound on API requests

ASSUME LengthAssumption == Length \in [Channels -> Nat]
ASSUME SizesAssumption == Sizes \subseteq Nat \ {0} /\ DefaultSize \in Sizes
ASSUME BoundsAssumption == MaxCrashes \in Nat /\ MaxFailures \in Nat /\ MaxRequests \in Nat

VARIABLES
  job,        \* the row of the jobs table, its row count kept apart per channel
  ckpt,       \* channel_checkpoints
  run,        \* the runs and their channel threads
  request,    \* API requests between two of their steps
  sweep,      \* where the recovery sweep is with the job
  up,         \* the process is running
  events,     \* the process's pause and cancel events that are set
  file,       \* per channel and cursor, the last position of the part stored
  table,      \* per channel, the positions in bronze_slack_messages
  contested,  \* history: the job was taken up while somebody else had it
  mixed,      \* history: runs of different page sizes were at work at once
  outage,     \* history: a failure left the job as if somebody had it
  spent       \* crashes, failures and requests so far

vars == <<job, ckpt, run, request, sweep, up, events, file, table,
          contested, mixed, outage, spent>>

-----------------------------------------------------------------------------
Positions(ch) == 0 .. Length[ch]
Controls      == {"none", "pause", "cancel"}

Busy    == {"check", "land", "load", "save"}
Threads == [pc : Busy \cup {"off", "done", "failed"}, cursor : Nat]

Stages == {"load", "begin", "claim", "plan", "work",
           "cancel", "pause", "settle", "except"}

Off  == [pc |-> "off", cursor |-> 0]
Idle == [pc |-> "idle"]

\* `seen` is the status the run's session read at its end, `target` the one it
\* decided on.
RunStates ==
  [pc : Stages, size : Sizes, seen : Statuses, target : Statuses,
   thread : [Channels -> Threads]]
    \cup {Idle}

Alive(l) == run[l] # Idle
At(l, stage) == Alive(l) /\ run[l].pc = stage
Active(l, ch) == Alive(l) /\ run[l].thread[ch].pc \in Busy
ThreadAt(l, ch, pc) == Alive(l) /\ run[l].thread[ch].pc = pc
Cursor(l, ch) == run[l].thread[ch].cursor

Goes(l, stage) == run' = [run EXCEPT ![l].pc = stage]
ThreadGoes(l, ch, pc) == run' = [run EXCEPT ![l].thread[ch].pc = pc]
ThreadEnds(l, ch, pc) == run' = [run EXCEPT ![l].thread[ch] = [Off EXCEPT !.pc = pc]]

Exists == job.status \in Statuses
WriteStatus(s) == job' = [job EXCEPT !.status = s]

\* How far a channel is saved: next_cursor is None after its last page.
Saved(ch) == IF ckpt[ch].completed THEN Length[ch] ELSE ckpt[ch].cursor

\* Where a page of the run ends that is as long as it asks for.  (Bug: every
\* page is taken to be.)
FullPage(l, ch) == Cursor(l, ch) + run[l].size

\* The last position of a page of the run, and whether more follow it.
PageEnd(l, ch) ==
  IF FullPage(l, ch) < Length[ch] THEN FullPage(l, ch) ELSE Length[ch]
HasMore(l, ch) == PageEnd(l, ch) < Length[ch]

\* Launches answer a start or a resume, after the row is written.
RequestSteps == {"none", "started", "pauseEvent", "pauseStore", "clearEvents", "clearStore",
                 "resume", "launch", "cancelEvents", "cancelStore", "cancel"}
SweepSteps   == {"none", "read", "cancel", "pause", "clear", "launch"}

\* Who has the job: a run, a request that is to launch one, or the sweep.
Working    == \E l \in Runs : Alive(l)
Pending(c) == request[c].step \in {"started", "launch"}
Taken      == Working \/ (\E c \in Clients : Pending(c)) \/ sweep # "none"

ContestedIf(other) == contested' = (contested \/ other)

Launch(l, size) ==
  /\ ~Alive(l)
  /\ run' = [run EXCEPT ![l] =
       [pc |-> "load", size |-> size, seen |-> "PENDING", target |-> "PENDING",
        thread |-> [ch \in Channels |-> Off]]]
  /\ mixed' = (mixed \/ \E k \in Runs : Alive(k) /\ run[k].size # size)

\* The end of a run: its `finally` drops the events of the job.
Ends(l) ==
  /\ run' = [run EXCEPT ![l] = Idle]
  /\ events' = {}

NoRow     == [status |-> "none", control |-> "none", owned |-> FALSE,
              rows |-> [ch \in Channels |-> 0]]
NoRequest == [step |-> "none", live |-> FALSE]

Init ==
  /\ job = NoRow
  /\ ckpt = [ch \in Channels |-> [cursor |-> 0, completed |-> FALSE]]
  /\ run = [l \in Runs |-> Idle]
  /\ request = [c \in Clients |-> NoRequest]
  /\ sweep = "none"
  /\ up = TRUE
  /\ events = {}
  /\ file = [ch \in Channels |-> [p \in Positions(ch) |-> 0]]
  /\ table = [ch \in Channels |-> {}]
  /\ contested = FALSE /\ mixed = FALSE /\ outage = FALSE
  /\ spent = [crashes |-> 0, failures |-> 0, requests |-> 0]

saved   == <<ckpt, file, table>>
history == <<contested, mixed, outage, spent>>

\* A commit, a load, a call to Slack or to the storage fails.
Failing ==
  /\ spent.failures < MaxFailures
  /\ spent' = [spent EXCEPT !.failures = @ + 1]

CancelRequested == "cancel" \in events \/ job.control = "cancel"
PauseRequested  == "pause" \in events \/ job.control \in {"pause", "cancel"}

-----------------------------------------------------------------------------
(***************************************************************************)
(* run_historical_backfill, up to its channel threads.                     *)
(***************************************************************************)
Load(l) ==
  /\ At(l, "load")
  /\ Goes(l, IF job.status = "PENDING" THEN "begin" ELSE "claim")
  /\ UNCHANGED <<job, request, sweep, up, events, saved, history>>

Begin(l) ==
  /\ At(l, "begin")
  /\ WriteStatus("RUNNING")
  /\ Goes(l, "claim")
  /\ UNCHANGED <<request, sweep, up, events, saved, history>>

Claim(l) ==
  /\ At(l, "claim")
  /\ job' = [job EXCEPT !.owned = TRUE]
  /\ Goes(l, "plan")
  /\ UNCHANGED <<request, sweep, up, events, saved, history>>

\* Bug: a completed channel, whose cursor is None, is read again.
PlanAll(l) ==
  /\ At(l, "plan")
  /\ run' = [run EXCEPT ![l].pc = "work", ![l].thread =
       [ch \in Channels |-> [Off EXCEPT !.pc = "check", !.cursor = ckpt[ch].cursor]]]
  /\ UNCHANGED <<job, request, sweep, up, events, saved, history>>

\* Threads for the channels that are not completed, each from its checkpoint,
\* once Slack has answered and listed them (a call that fails is Fail).
Plan(l) ==
  /\ At(l, "plan")
  /\ run' = [run EXCEPT ![l].pc = "work", ![l].thread =
       [ch \in Channels |->
          IF ckpt[ch].completed THEN Off
          ELSE [Off EXCEPT !.pc = "check", !.cursor = ckpt[ch].cursor]]]
  /\ UNCHANGED <<job, request, sweep, up, events, saved, history>>

-----------------------------------------------------------------------------
(***************************************************************************)
(* _backfill_channel.                                                      *)
(***************************************************************************)
CheckStop(l, ch) ==
  /\ ThreadAt(l, ch, "check")
  /\ IF CancelRequested \/ PauseRequested
       THEN ThreadEnds(l, ch, "done") ELSE ThreadGoes(l, ch, "land")
  /\ UNCHANGED <<job, request, sweep, up, events, saved, history>>

\* Parts are named by the cursor of their page: a replay overwrites.
PartOf(l, ch) == Cursor(l, ch)

\* Bug: a part that is in storage already is taken to be loaded too.
LandMissing(l, ch) ==
  /\ ThreadAt(l, ch, "land")
  /\ file' = [file EXCEPT ![ch][PartOf(l, ch)] = PageEnd(l, ch)]
  /\ ThreadGoes(l, ch, IF file'[ch] = file[ch] THEN "save" ELSE "load")
  /\ UNCHANGED <<job, ckpt, request, sweep, up, events, table, history>>

\* A page is fetched and stored under the name of its cursor; a page without
\* messages stores nothing.
LandPage(l, ch) ==
  /\ ThreadAt(l, ch, "land")
  /\ file' = IF PageEnd(l, ch) = Cursor(l, ch) THEN file
             ELSE [file EXCEPT ![ch][PartOf(l, ch)] = PageEnd(l, ch)]
  /\ ThreadGoes(l, ch, "load")
  /\ UNCHANGED <<job, ckpt, request, sweep, up, events, table, history>>

\* What a load takes from the part: the positions it holds when it is read.
PartRows(l, ch) == Cursor(l, ch) + 1 .. file[ch][PartOf(l, ch)]

\* ClickHouse reads the part and inserts its rows.
LoadPage(l, ch) ==
  /\ ThreadAt(l, ch, "load")
  /\ table' = [table EXCEPT ![ch] = @ \cup PartRows(l, ch)]
  /\ ThreadGoes(l, ch, "save")
  /\ UNCHANGED <<job, ckpt, request, sweep, up, events, file, history>>

\* Bug: the checkpoint is written when the channel is through.
SaveLast(l, ch) ==
  /\ ThreadAt(l, ch, "save")
  /\ job' = [job EXCEPT !.rows[ch] = @ + (PageEnd(l, ch) - Cursor(l, ch))]
  /\ IF HasMore(l, ch)
       THEN /\ run' = [run EXCEPT ![l].thread[ch] =
                         [Off EXCEPT !.pc = "check", !.cursor = PageEnd(l, ch)]]
            /\ UNCHANGED ckpt
       ELSE /\ ckpt' = [ckpt EXCEPT ![ch] = [cursor |-> 0, completed |-> TRUE]]
            /\ ThreadEnds(l, ch, "done")
  /\ UNCHANGED <<request, sweep, up, events, file, table, history>>

\* One commit: the checkpoint and the row count, which SQL adds to.
SavePage(l, ch) ==
  /\ ThreadAt(l, ch, "save")
  /\ job' = [job EXCEPT !.rows[ch] = @ + (PageEnd(l, ch) - Cursor(l, ch))]
  /\ IF HasMore(l, ch)
       THEN /\ ckpt' = [ckpt EXCEPT ![ch] = [cursor |-> PageEnd(l, ch), completed |-> FALSE]]
            /\ run' = [run EXCEPT ![l].thread[ch] =
                         [Off EXCEPT !.pc = "check", !.cursor = PageEnd(l, ch)]]
       ELSE /\ ckpt' = [ckpt EXCEPT ![ch] = [cursor |-> 0, completed |-> TRUE]]
            /\ ThreadEnds(l, ch, "done")
  /\ UNCHANGED <<request, sweep, up, events, file, table, history>>

\* Slack, the storage, ClickHouse or the database fails the thread.
ThreadFails(l, ch) ==
  /\ Failing
  /\ Active(l, ch)
  /\ ThreadEnds(l, ch, "failed")
  /\ UNCHANGED <<job, request, sweep, up, events, saved, contested, mixed, outage>>

-----------------------------------------------------------------------------
(***************************************************************************)
(* The end of a run.                                                       *)
(***************************************************************************)

\* All threads are through; the row is read again.
ReadStatus(l) ==
  /\ At(l, "work")
  /\ \A ch \in Channels : ~Active(l, ch)
  /\ run' = [run EXCEPT ![l].pc = "cancel", ![l].seen = job.status]
  /\ UNCHANGED <<job, request, sweep, up, events, saved, history>>

Decides(l, status) == run' = [run EXCEPT ![l].pc = "settle", ![l].target = status]

\* Whether it was cancelled ...
ReadCancel(l) ==
  /\ At(l, "cancel")
  /\ IF CancelRequested THEN Decides(l, "CANCELLED") ELSE Goes(l, "pause")
  /\ UNCHANGED <<job, request, sweep, up, events, saved, history>>

\* Bug: a channel that failed is only logged.
VerdictOnSignals(failed) == IF PauseRequested THEN "PAUSED" ELSE "COMPLETED"

\* What becomes of a job that was not cancelled when `failed` channels failed.
Verdict(failed) ==
  CASE PauseRequested -> "PAUSED"
    [] ~PauseRequested /\ failed # {} -> "FAILED"
    [] OTHER -> "COMPLETED"

\* ... and, read after that, whether it was paused.
ReadPause(l) ==
  /\ At(l, "pause")
  /\ Decides(l, Verdict({ch \in Channels : ThreadAt(l, ch, "failed")}))
  /\ UNCHANGED <<job, request, sweep, up, events, saved, history>>

\* Whether the status read allows the one decided on.
MaySettle(l)   == CanTransition(run[l].seen, run[l].target)
StaysPaused(l) == run[l].seen = "PAUSED" /\ run[l].target = "PAUSED"

\* The write, allowed by the status read before; a job already PAUSED stays so.
Settle(l) ==
  /\ At(l, "settle")
  /\ \/ MaySettle(l) /\ WriteStatus(run[l].target)
     \/ StaysPaused(l) /\ UNCHANGED job
  /\ Ends(l)
  /\ UNCHANGED <<request, sweep, up, saved, history>>

\* A failure, or a write that the status read does not allow, leads to the
\* error boundary, which reads the row again ...
Fail(l) ==
  /\ \/ /\ \E stage \in Stages \ {"work", "except"} : At(l, stage)
        /\ Failing
     \/ /\ At(l, "settle") /\ ~MaySettle(l) /\ ~StaysPaused(l)
        /\ UNCHANGED spent
  /\ run' = [run EXCEPT ![l].pc = "except", ![l].seen = job.status, ![l].target = "FAILED"]
  /\ UNCHANGED <<job, request, sweep, up, events, saved, contested, mixed, outage>>

\* Bug: a failure is left to a caller that a background thread does not have.
ReRaise(l) ==
  /\ At(l, "except")
  /\ Ends(l)
  /\ UNCHANGED <<job, request, sweep, up, saved, history>>

\* ... and writes FAILED, if what it read allows it.
HandleException(l) ==
  /\ At(l, "except")
  /\ IF MaySettle(l) THEN WriteStatus("FAILED") ELSE UNCHANGED job
  /\ Ends(l)
  /\ UNCHANGED <<request, sweep, up, saved, history>>

\* A failure of that write, too, is swallowed, and the run ends.
SwallowException(l) ==
  /\ At(l, "except")
  /\ Failing
  /\ Ends(l)
  /\ outage' = TRUE
  /\ UNCHANGED <<job, request, sweep, up, saved, contested, mixed>>

-----------------------------------------------------------------------------
(***************************************************************************)
(* The API.  A request reads the row first and acts on what it read.       *)
(***************************************************************************)
Free(c) ==
  /\ up /\ request[c] = NoRequest
  /\ spent.requests < MaxRequests
  /\ spent' = [spent EXCEPT !.requests = @ + 1]

Asks(c, step) == request' = [request EXCEPT ![c].step = step]
Answered(c)   == request' = [request EXCEPT ![c] = NoRequest]

\* POST /api/slack/historical/start writes the row ...
Start(c) ==
  /\ up /\ ~Exists /\ request[c] = NoRequest
  /\ WriteStatus("PENDING")
  /\ Asks(c, "started")
  /\ UNCHANGED <<run, sweep, up, events, saved, history>>

\* ... and launches a run with the page size asked for.
LaunchStarted(c) ==
  /\ request[c].step = "started"
  /\ \E l \in Runs, size \in Sizes : Launch(l, size)
  /\ Answered(c)
  /\ UNCHANGED <<job, sweep, up, events, saved, contested, outage, spent>>

\* POST /api/slack/pause reads the status ...
RequestPause(c) ==
  /\ Free(c)
  /\ job.status = "RUNNING"
  /\ Asks(c, "pauseEvent")
  /\ UNCHANGED <<job, run, sweep, up, events, saved, contested, mixed, outage>>

\* ... sets the event ...
SetPauseEvent(c) ==
  /\ request[c].step = "pauseEvent"
  /\ events' = events \cup {"pause"}
  /\ Asks(c, "pauseStore")
  /\ UNCHANGED <<job, run, sweep, up, saved, history>>

\* Bug: a backfill is paused at once, as a real-time job is.
StorePauseAtOnce(c) ==
  /\ request[c].step = "pauseStore"
  /\ job' = [job EXCEPT !.control = "pause", !.status = "PAUSED"]
  /\ Answered(c)
  /\ UNCHANGED <<run, sweep, up, events, saved, history>>

\* ... and stores the signal.
StorePause(c) ==
  /\ request[c].step = "pauseStore"
  /\ job' = [job EXCEPT !.control = "pause"]
  /\ Answered(c)
  /\ UNCHANGED <<run, sweep, up, events, saved, history>>

\* POST /api/slack/resume reads the status ...
RequestResume(c) ==
  /\ Free(c)
  /\ job.status \in {"PAUSED", "FAILED"}
  /\ Asks(c, "clearEvents")
  /\ UNCHANGED <<job, run, sweep, up, events, saved, contested, mixed, outage>>

\* ... forgets the events ...
ClearEvents(c) ==
  /\ request[c].step = "clearEvents"
  /\ events' = {}
  /\ ContestedIf(Working)
  /\ Asks(c, "clearStore")
  /\ UNCHANGED <<job, run, sweep, up, saved, mixed, outage, spent>>

\* ... and the stored signal ...
ClearControl(c) ==
  /\ request[c].step = "clearStore"
  /\ job' = [job EXCEPT !.control = "none"]
  /\ ContestedIf(Working)
  /\ Asks(c, "resume")
  /\ UNCHANGED <<run, sweep, up, events, saved, mixed, outage, spent>>

\* ... writes the status ...
Resume(c) ==
  /\ request[c].step = "resume"
  /\ WriteStatus("RUNNING")
  /\ ContestedIf(Taken)
  /\ Asks(c, "launch")
  /\ UNCHANGED <<run, sweep, up, events, saved, mixed, outage, spent>>

\* ... and launches a run, which does not know the page size of the start.
LaunchResumed(c) ==
  /\ request[c].step = "launch"
  /\ \E l \in Runs : Launch(l, DefaultSize)
  /\ Answered(c)
  /\ UNCHANGED <<job, sweep, up, events, saved, contested, outage, spent>>

\* POST /api/slack/cancel reads the status ...
RequestCancel(c) ==
  /\ Free(c)
  /\ Exists
  /\ request' = [request EXCEPT ![c] =
       [step |-> "cancelEvents", live |-> job.status \in {"PENDING", "RUNNING", "PAUSED"}]]
  /\ UNCHANGED <<job, run, sweep, up, events, saved, contested, mixed, outage>>

\* ... signals the threads, whatever it was ...
SetCancelEvents(c) ==
  /\ request[c].step = "cancelEvents"
  /\ events' = {"pause", "cancel"}
  /\ Asks(c, "cancelStore")
  /\ UNCHANGED <<job, run, sweep, up, saved, history>>

StoreCancel(c) ==
  /\ request[c].step = "cancelStore"
  /\ job' = [job EXCEPT !.control = "cancel"]
  /\ IF request[c].live THEN Asks(c, "cancel") ELSE Answered(c)
  /\ UNCHANGED <<run, sweep, up, events, saved, history>>

\* ... and cancels the job if it was live then.
Cancel(c) ==
  /\ request[c].step = "cancel"
  /\ WriteStatus("CANCELLED")
  /\ Answered(c)
  /\ UNCHANGED <<run, sweep, up, events, saved, history>>

\* A commit or an audit entry fails, and the request with it: what it did
\* before stays, and what it was to launch is not launched.
RequestFails(c) ==
  /\ request[c] # NoRequest
  /\ Failing
  /\ outage' = (outage \/ request[c].step = "launch")
  /\ Answered(c)
  /\ UNCHANGED <<job, run, sweep, up, events, saved, contested, mixed>>

-----------------------------------------------------------------------------
(***************************************************************************)
(* The process and its sweep.                                              *)
(***************************************************************************)

\* No owner, or one that is gone: the process before has died, or a start has
\* outlasted the heartbeat timeout before it claimed the job.
Orphaned == job.status \in {"PENDING", "RUNNING"} /\ ~job.owned

\* _take_over: one conditional statement.
TakeOver ==
  /\ up /\ sweep = "none" /\ Orphaned
  /\ job' = [job EXCEPT !.owned = TRUE]
  /\ ContestedIf(Taken)
  /\ sweep' = "read"
  /\ UNCHANGED <<run, request, up, events, saved, mixed, outage, spent>>

\* The row is read again; a cancel of a job that is at its end is refused, and
\* the sweep breaks off.
ReadOrphan ==
  /\ sweep = "read"
  /\ sweep' = CASE job.control = "cancel" /\ CanTransition(job.status, "CANCELLED") -> "cancel"
                [] job.control = "cancel" /\ ~CanTransition(job.status, "CANCELLED") -> "none"
                [] job.control = "pause" /\ job.status = "RUNNING" -> "pause"
                [] OTHER -> "launch"
  /\ UNCHANGED <<job, run, request, up, events, saved, history>>

\* What was asked for before the crash is done ...
Honour ==
  /\ sweep \in {"cancel", "pause"}
  /\ WriteStatus(IF sweep = "cancel" THEN "CANCELLED" ELSE "PAUSED")
  /\ sweep' = "clear"
  /\ UNCHANGED <<run, request, up, events, saved, history>>

\* ... and forgotten.
ClearHonoured ==
  /\ sweep = "clear"
  /\ job' = [job EXCEPT !.control = "none"]
  /\ sweep' = "none"
  /\ UNCHANGED <<run, request, up, events, saved, history>>

\* Nothing was: a run goes on from the checkpoints.
LaunchOrphan ==
  /\ sweep = "launch"
  /\ \E l \in Runs : Launch(l, DefaultSize)
  /\ sweep' = "none"
  /\ UNCHANGED <<job, request, up, events, saved, contested, outage, spent>>

\* The database fails under the sweep, which has the job and leaves it.
SweepFails ==
  /\ sweep # "none"
  /\ Failing
  /\ sweep' = "none"
  /\ outage' = (outage \/ sweep # "clear")
  /\ UNCHANGED <<job, run, request, up, events, saved, contested, mixed>>

\* The process dies: its threads, requests and events go.
Crash ==
  /\ up /\ spent.crashes < MaxCrashes
  /\ spent' = [spent EXCEPT !.crashes = @ + 1]
  /\ up' = FALSE
  /\ run' = [l \in Runs |-> Idle]
  /\ request' = [c \in Clients |-> NoRequest]
  /\ sweep' = "none"
  /\ events' = {}
  /\ job' = [job EXCEPT !.owned = FALSE]
  /\ UNCHANGED <<saved, contested, mixed, outage>>

Restart ==
  /\ ~up
  /\ up' = TRUE
  /\ UNCHANGED <<job, run, request, sweep, events, saved, history>>

-----------------------------------------------------------------------------
ThreadStep(l, ch) ==
  \/ CheckStop(l, ch) \/ LandPage(l, ch) \/ LoadPage(l, ch)
  \/ SavePage(l, ch) \/ ThreadFails(l, ch)

RunStep(l) ==
  \/ Load(l) \/ Begin(l) \/ Claim(l) \/ Plan(l)
  \/ \E ch \in Channels : ThreadStep(l, ch)
  \/ ReadStatus(l) \/ ReadCancel(l) \/ ReadPause(l) \/ Settle(l)
  \/ Fail(l) \/ HandleException(l) \/ SwallowException(l)

Ask(c) == Start(c) \/ RequestPause(c) \/ RequestResume(c) \/ RequestCancel(c)
Answer(c) ==
  \/ LaunchStarted(c) \/ SetPauseEvent(c) \/ StorePause(c)
  \/ ClearEvents(c) \/ ClearControl(c) \/ Resume(c) \/ LaunchResumed(c)
  \/ SetCancelEvents(c) \/ StoreCancel(c) \/ Cancel(c) \/ RequestFails(c)

Sweep ==
  \/ TakeOver \/ ReadOrphan \/ Honour \/ ClearHonoured \/ LaunchOrphan \/ SweepFails

Next ==
  \/ \E l \in Runs : RunStep(l)
  \/ \E c \in Clients : Ask(c) \/ Answer(c)
  \/ Sweep \/ Crash \/ Restart

Spec == Init /\ [][Next]_vars

-----------------------------------------------------------------------------
(***************************************************************************)
(* Properties.                                                             *)
(***************************************************************************)

\* Every variable holds a value of its kind, and no cursor, part or row is
\* beyond its channel's last message.
TypeOK ==
  /\ job \in [status : Statuses \cup {"none"}, control : Controls, owned : BOOLEAN,
              rows : [Channels -> Nat]]
  /\ ckpt \in [Channels -> [cursor : Nat, completed : BOOLEAN]]
  /\ run \in [Runs -> RunStates]
  /\ request \in [Clients -> [step : RequestSteps, live : BOOLEAN]]
  /\ sweep \in SweepSteps
  /\ up \in BOOLEAN /\ contested \in BOOLEAN /\ mixed \in BOOLEAN /\ outage \in BOOLEAN
  /\ events \in {{}, {"pause"}, {"pause", "cancel"}}
  /\ file = [ch \in Channels |-> file[ch]]
  /\ table \in [Channels -> SUBSET Nat]
  /\ spent \in [crashes : Nat, failures : Nat, requests : Nat]
  /\ \A ch \in Channels :
       /\ ckpt[ch].cursor \in Positions(ch) /\ table[ch] \subseteq Positions(ch)
       /\ file[ch] \in [Positions(ch) -> Positions(ch)]
       /\ \A l \in Runs : Alive(l) => Cursor(l, ch) \in Positions(ch)

\* The positions of a channel that some part in storage holds.
Landed(ch) == UNION {p + 1 .. file[ch][p] : p \in Positions(ch)}

\* What a checkpoint says is backfilled is in storage and in ClickHouse,
\* through crashes, failed threads and overlapping runs - unless runs of
\* different page sizes overlapped: their parts share names and differ.
CheckpointIsBacked ==
  ~mixed => \A ch \in Channels : 1 .. Saved(ch) \subseteq table[ch] \cap Landed(ch)

\* Of every channel the row count has exactly what its checkpoint says is saved,
\* although all channel threads add to it at once.
RowCountExact ==
  ~contested => \A ch \in Channels : job.rows[ch] = Saved(ch)

\* A job shown as COMPLETED has every channel complete: no thread that failed
\* and none that was stopped is hidden behind it.
CompletedIsComplete ==
  job.status = "COMPLETED" /\ ~contested => \A ch \in Channels : ckpt[ch].completed

\* A crash or a failure replays at most the page in flight: nothing is stored
\* or loaded beyond one page after the checkpoint, under the checkpoint's name.
OnePageInFlight ==
  ~contested => \A ch \in Channels :
    /\ \A p \in table[ch] : \E size \in Sizes : p <= Saved(ch) + size
    /\ \A p \in Positions(ch) : p > Saved(ch) => file[ch][p] = 0

\* A run has been joined by the time its job is shown as stopped: no channel
\* thread goes on behind a job shown as PAUSED, FAILED or COMPLETED.
SettledIsQuiet ==
  job.status \in {"PAUSED", "FAILED", "COMPLETED"} /\ ~contested =>
    \A l \in Runs, ch \in Channels : ~Active(l, ch)

\* A job shown as RUNNING is run: by a run of this process or by what is about
\* to launch or to settle one, or it has no owner and the sweep will find it.
\* Only a database that fails between a take-over or a resume and the launch, or
\* under the error boundary, can leave it shown as RUNNING with nobody at work.
RunningIsRun == job.status = "RUNNING" /\ job.owned /\ ~outage => Taken

-----------------------------------------------------------------------------
(***************************************************************************)
(* The inductive invariants the theorems rest on.                          *)
(***************************************************************************)

\* What has the job has a row; TypeOK needs it, for what a run reads.
RunHasRow ==
  Working \/ sweep # "none" \/ (\E c \in Clients : request[c] # NoRequest) => Exists

\* A run that will end without a write: it read a status that allows none.
Resigned(l) ==
  \/ (At(l, "cancel") \/ At(l, "pause") \/ At(l, "settle")) /\ run[l].seen = "PAUSED"
  \/ At(l, "except") /\ ~MaySettle(l)

\* Why RunningIsRun: a job shown as RUNNING by its owner has a run, a request or
\* the sweep at work that will not leave it so.
RunInv ==
  /\ \A l \in Runs :
       /\ At(l, "settle") => run[l].target \in {"CANCELLED", "PAUSED", "FAILED", "COMPLETED"}
       /\ At(l, "except") => run[l].target = "FAILED"
  /\ job.status = "RUNNING" /\ job.owned /\ ~outage =>
       \/ \E l \in Runs : Alive(l) /\ ~Resigned(l)
       \/ \E c \in Clients : request[c].step = "launch"
       \/ sweep \in {"read", "cancel", "pause", "launch"}

\* The signals a thread stops for.
Signalled == CancelRequested \/ PauseRequested

\* While nobody has taken the job up over somebody else, whoever has it is
\* alone, and nobody has a job that is shown as stopped.
OwnerInv ==
  ~contested =>
    /\ \A l, k \in Runs : Alive(l) /\ Alive(k) => l = k
    /\ \A c, d \in Clients : Pending(c) /\ Pending(d) => c = d
    /\ \A c \in Clients : Pending(c) => ~Working /\ sweep = "none"
    /\ sweep # "none" => ~Working
    /\ job.status \in {"PAUSED", "FAILED", "COMPLETED"} =>
         ~Working /\ (\A c \in Clients : ~Pending(c)) /\ sweep \in {"none", "clear"}

\* Then a run's threads stand at their checkpoints, what is not complete is at
\* work, failed or stopped, and the stores are at most a page ahead.
CalmInv ==
  /\ \A ch \in Channels : \A p \in Positions(ch) :
       \E size \in Sizes : file[ch][p] <= p + size
  /\ ~contested =>
       /\ job.status = "COMPLETED" => \A ch \in Channels : ckpt[ch].completed
       /\ \A l \in Runs : At(l, "settle") /\ run[l].target = "COMPLETED" =>
            \A ch \in Channels : ckpt[ch].completed
       /\ \A l \in Runs, ch \in Channels :
            /\ Active(l, ch) => At(l, "work") /\ ~ckpt[ch].completed /\ ckpt[ch].cursor = Cursor(l, ch)
            /\ (At(l, "work") \/ At(l, "cancel") \/ At(l, "pause")) /\ ~ckpt[ch].completed =>
                 Active(l, ch) \/ ThreadAt(l, ch, "failed") \/ Signalled
       /\ RowCountExact /\ OnePageInFlight

\* Where some reader of a channel may go on from: its checkpoint, and the
\* cursors of the threads at work on it.
Points(ch) ==
  {Saved(ch)} \cup {Cursor(l, ch) : l \in {k \in Runs : Active(k, ch)}}

\* Why CheckpointIsBacked: up to each of its points a channel is stored and
\* loaded, and the part a thread may store again beneath another point is no
\* longer than the one it will be replaced by.  A page size of its own only a run
\* that is alone has.
BackingInv ==
  ~mixed =>
    /\ \A l, k \in Runs : Alive(l) /\ Alive(k) =>
         run[l].size = run[k].size /\ (run[l].size = DefaultSize \/ l = k)
    /\ \A l \in Runs, ch \in Channels :
         /\ Active(l, ch) =>
              run[l].size = DefaultSize \/ Cursor(l, ch) = Saved(ch)
         /\ ThreadAt(l, ch, "load") \/ ThreadAt(l, ch, "save") =>
              PageEnd(l, ch) \in {Cursor(l, ch), file[ch][PartOf(l, ch)]}
         /\ ThreadAt(l, ch, "save") =>
              Cursor(l, ch) + 1 .. PageEnd(l, ch) \subseteq table[ch]
    /\ \A ch \in Channels : \A m \in Points(ch) :
         /\ 1 .. m \subseteq table[ch] \cap Landed(ch)
         /\ \A p \in Positions(ch) : p > m => file[ch][p] <= p + DefaultSize
         /\ \A n \in Points(ch) : m < n => file[ch][m] <= m + DefaultSize

\* The start launches once, and what runs before it does has the default size.
StartInv ==
  /\ \A c, d \in Clients : request[c].step = "started" /\ request[d].step = "started" => c = d
  /\ ~mixed => \A c \in Clients, l \in Runs :
       request[c].step = "started" /\ Alive(l) => run[l].size = DefaultSize
=============================================================================
