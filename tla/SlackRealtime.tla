--------------------------- MODULE SlackRealtime ---------------------------
(***************************************************************************)
(* The Slack real-time stream of one organisation and one channel: the     *)
(* webhook that acknowledges events and ingests or parks them, the sync    *)
(* thread that a start, a resume or a crash recovery launches to drain the *)
(* backlog and catch up from the channel's history, and the requests that  *)
(* pause, resume and cancel the stream.  The API is one process, which     *)
(* crashes and restarts.                                                   *)
(*                                                                         *)
(* A message is its position in the channel's history, which is also its   *)
(* message_ts.  Every action is one database commit, one call to an        *)
(* outside service, or the answer to a request.  The database itself does  *)
(* not fail, except where the code swallows its error (MarkFails).         *)
(***************************************************************************)
EXTENDS Naturals, FiniteSets, JobTable

CONSTANTS
  Threads,        \* names for the threads of the process
  Clients,        \* names for API requests in flight
  N,              \* messages that may be posted in the channel
  PageSize,       \* messages on a page of the channel's history
  SlowStart,      \* TRUE: a launched thread may begin later than the heartbeat timeout
  MaxCrashes,     \* bound on crashes
  MaxFailures,    \* bound on failures of outside services
  MaxRequests,    \* bound on requests to pause, resume and cancel
  MaxDeliveries   \* bound on webhooks, first deliveries and redeliveries

ASSUME SizesAssumption == N \in Nat /\ PageSize \in Nat \ {0}
ASSUME BoundsAssumption ==
  /\ MaxCrashes \in Nat /\ MaxFailures \in Nat
  /\ MaxRequests \in Nat /\ MaxDeliveries \in Nat /\ SlowStart \in BOOLEAN

Messages == 1..N

VARIABLES
  job,         \* the stream's row of the jobs table: its status and control
  owned,       \* the row's owner is the process that is up, and fresh
  up,          \* the process is up
  thread,      \* its threads
  request,     \* requests that read the row: the status each is going to write
  posted,      \* messages posted in the channel so far
  backlog,     \* the realtime_backlog table
  table,       \* messages landed in object storage and loaded into ClickHouse
  seen,        \* the realtime_seen table
  counted,     \* row_count, by message
  mark,        \* the realtime_mark of the channel, 0 when it has none
  acked,       \* history: messages Slack was answered 200 for
  lost,        \* history: messages in a thread's hands when the process died
  overlapped,  \* history: two sync threads have run at a time
  spent        \* history: crashes, failures, requests and deliveries so far

vars == <<job, owned, up, thread, request, posted, backlog, table, seen, counted,
          mark, acked, lost, overlapped, spent>>

-----------------------------------------------------------------------------
(***************************************************************************)
(* Threads.  An "event" thread handles a Slack webhook, an "api" thread a  *)
(* POST to /api/slack/realtime/event, a "sync" thread create_realtime_job. *)
(* `row` is the backlog row in hand (0 for none), `oldest` the mark that   *)
(* catch-up started from, `todo` what is left of the page in hand, and     *)
(* `before` the cursor: the next page holds messages older than it.        *)
(***************************************************************************)
Ingesting == {"land", "count", "mark"}
Steps == Ingesting \cup {"buffer", "begin", "claim", "drain", "delete",
                         "marks", "fetch", "next", "fail"}

Idle == [pc |-> "idle"]
ThreadStates ==
  [pc : Steps, kind : {"event", "api", "sync"}, msg : 0..N, row : Nat,
   oldest : 0..N, before : 1..N+1, top : 0..N, todo : SUBSET Messages] \cup {Idle}

Fresh(kind, step, m) ==
  [pc |-> step, kind |-> kind, msg |-> m, row |-> 0,
   oldest |-> 0, before |-> N + 1, top |-> 0, todo |-> {}]

Alive(t)    == thread[t] # Idle
At(t, step) == Alive(t) /\ thread[t].pc = step
Sync(t)     == Alive(t) /\ thread[t].kind = "sync"

Goes(t, step) == thread' = [thread EXCEPT ![t].pc = step]
Ends(t)       == thread' = [thread EXCEPT ![t] = Idle]

LaunchSync(t) ==
  /\ ~Alive(t)
  /\ thread' = [thread EXCEPT ![t] = Fresh("sync", "begin", 0)]
  /\ overlapped' = (overlapped \/ \E u \in Threads : Sync(u))

Spend(what) == spent' = [spent EXCEPT ![what] = @ + 1]
CanFail     == spent.failures < MaxFailures /\ Spend("failures")

\* active_realtime_job: the statuses of a stream somebody listens to.
LiveStatuses == {"RUNNING", "PAUSED", "PENDING", "FAILED"}

\* POST /api/slack/realtime/start has created the job and launched its thread.
Init ==
  /\ job = [status |-> "PENDING", control |-> "none"]
  /\ owned = FALSE /\ up = TRUE
  /\ \E t \in Threads :
       thread = [u \in Threads |-> IF u = t THEN Fresh("sync", "begin", 0) ELSE Idle]
  /\ request = [c \in Clients |-> "none"]
  /\ posted = 0
  /\ backlog = {} /\ table = {} /\ seen = {}
  /\ counted = [m \in Messages |-> 0]
  /\ mark = 0
  /\ acked = {} /\ lost = {} /\ overlapped = FALSE
  /\ spent = [crashes |-> 0, failures |-> 0, requests |-> 0, deliveries |-> 0]

row == <<job, owned>>
rest == <<up, request, posted, lost, overlapped>>
stores == <<table, seen, counted, mark>>

-----------------------------------------------------------------------------
(***************************************************************************)
(* Events arrive.                                                          *)
(***************************************************************************)

\* Somebody writes in the channel.
Post ==
  /\ posted < N
  /\ posted' = posted + 1
  /\ UNCHANGED <<row, up, thread, request, backlog, stores, acked, lost, overlapped, spent>>

Delivers(t, m) ==
  /\ up /\ ~Alive(t)
  /\ m <= posted
  /\ job.status \in LiveStatuses
  /\ spent.deliveries < MaxDeliveries /\ Spend("deliveries")

\* slack_events: Slack delivers a message, or delivers it again.  With the
\* stream RUNNING it is answered 200 and ingested in the background; with the
\* stream in another status it is going to be parked.
Webhook(t, m) ==
  /\ Delivers(t, m)
  /\ LET running == job.status = "RUNNING" IN
     /\ thread' = [thread EXCEPT ![t] = Fresh("event", IF running THEN "land" ELSE "buffer", m)]
     /\ acked' = IF running THEN acked \cup {m} ELSE acked
  /\ UNCHANGED <<row, rest, backlog, stores>>

\* receive_realtime_event: a signed client injects a message; it is answered
\* when it was ingested or parked.
Inject(t, m) ==
  /\ Delivers(t, m)
  /\ thread' = [thread EXCEPT ![t] =
       Fresh("api", IF job.status = "RUNNING" THEN "land" ELSE "buffer", m)]
  /\ UNCHANGED <<row, rest, backlog, stores, acked>>

\* The id of a new backlog row: SQLite gives it one more than the largest id
\* in the table, so the id of a deleted last row is used again.
NewId(i) == /\ \A r \in backlog : r.id < i
            /\ i = 1 \/ \E r \in backlog : r.id + 1 = i

Buffered(m) == \E r \in backlog : r.msg = m

\* buffer_event: (org, message) is unique, a redelivery changes nothing.
BufferEvent(t) ==
  /\ At(t, "buffer")
  /\ LET m == thread[t].msg IN
     /\ IF Buffered(m)
          THEN backlog' = backlog
          ELSE \E i \in 1..MaxDeliveries :
                 NewId(i) /\ backlog' = backlog \cup {[id |-> i, msg |-> m]}
     /\ acked' = acked \cup {m}
  /\ Ends(t)
  /\ UNCHANGED <<row, rest, stores, spent>>

-----------------------------------------------------------------------------
(***************************************************************************)
(* ingest_realtime_event, for every kind of thread.                        *)
(***************************************************************************)

\* The file is stored and ClickHouse loads it; both replace an earlier copy.
Land(t) ==
  /\ At(t, "land")
  /\ table' = table \cup {thread[t].msg}
  /\ Goes(t, "count")
  /\ UNCHANGED <<row, rest, backlog, seen, counted, mark, acked, spent>>

\* Bug: a failed load is logged and the message counted all the same.
LandFailsSilently(t) ==
  /\ At(t, "land")
  /\ CanFail
  /\ Goes(t, "count")
  /\ UNCHANGED <<row, rest, backlog, stores, acked>>

\* Bug: an event that cannot be ingested is dropped.
LandFailsDropping(t) ==
  /\ At(t, "land")
  /\ CanFail
  /\ IF Sync(t) THEN Goes(t, "fail") ELSE Ends(t)
  /\ UNCHANGED <<row, rest, backlog, stores, acked>>

\* Object storage or ClickHouse is down.  A webhook's event is parked, an
\* injected one is answered with an error, and a sync fails.
LandFails(t) ==
  /\ At(t, "land")
  /\ CanFail
  /\ CASE thread[t].kind = "event" -> Goes(t, "buffer")
       [] thread[t].kind = "api"   -> Ends(t)
       [] thread[t].kind = "sync"  -> Goes(t, "fail")
  /\ UNCHANGED <<row, rest, backlog, stores, acked>>

\* Bug: every ingestion adds to row_count.
CountEveryTime(t) ==
  /\ At(t, "count")
  /\ seen' = seen \cup {thread[t].msg}
  /\ counted' = [counted EXCEPT ![thread[t].msg] = @ + 1]
  /\ Goes(t, "mark")
  /\ UNCHANGED <<row, rest, backlog, table, mark, acked, spent>>

\* realtime_seen and row_count change in one commit; a message that is in
\* realtime_seen already is a duplicate.
Count(t) ==
  /\ At(t, "count")
  /\ LET m == thread[t].msg IN
       IF m \in seen
         THEN UNCHANGED <<seen, counted>>
         ELSE /\ seen' = seen \cup {m}
              /\ counted' = [counted EXCEPT ![m] = @ + 1]
  /\ Goes(t, "mark")
  /\ UNCHANGED <<row, rest, backlog, table, mark, acked, spent>>

\* What follows the ingestion, by the kind of thread.
Ingested(t) ==
  IF ~Sync(t) THEN Ends(t)
  ELSE Goes(t, IF thread[t].row # 0 THEN "delete" ELSE "next")

\* Bug: the mark is the first message that catch-up is to read.
AdvanceMarkPast(t) ==
  /\ At(t, "mark")
  /\ mark' = IF mark < thread[t].msg + 1 THEN thread[t].msg + 1 ELSE mark
  /\ Ingested(t)
  /\ UNCHANGED <<row, rest, backlog, table, seen, counted, acked, spent>>

\* advance_mark: one conditional statement, the mark never moves back.
AdvanceMark(t) ==
  /\ At(t, "mark")
  /\ mark' = IF mark < thread[t].msg THEN thread[t].msg ELSE mark
  /\ Ingested(t)
  /\ UNCHANGED <<row, rest, backlog, table, seen, counted, acked, spent>>

\* The error of a mark that could not be written is swallowed.
MarkFails(t) ==
  /\ At(t, "mark")
  /\ CanFail
  /\ Ingested(t)
  /\ UNCHANGED <<row, rest, backlog, stores, acked>>

-----------------------------------------------------------------------------
(***************************************************************************)
(* create_realtime_job: the sync thread.                                   *)
(***************************************************************************)
Begin(t) ==
  /\ At(t, "begin")
  /\ job' = IF job.status = "PENDING" THEN [job EXCEPT !.status = "RUNNING"] ELSE job
  /\ Goes(t, "claim")
  /\ UNCHANGED <<owned, rest, backlog, stores, acked, spent>>

Claim(t) ==
  /\ At(t, "claim")
  /\ owned' = TRUE
  /\ Goes(t, "drain")
  /\ UNCHANGED <<job, rest, backlog, stores, acked, spent>>

\* drain_backlog takes the oldest row.
DrainNext(t) ==
  /\ At(t, "drain")
  /\ \/ backlog = {} /\ Goes(t, "marks")
     \/ \E r \in backlog :
          /\ \A q \in backlog : r.id <= q.id
          /\ thread' = [thread EXCEPT ![t].pc = "land", ![t].row = r.id, ![t].msg = r.msg]
  /\ UNCHANGED <<row, rest, backlog, stores, acked, spent>>

\* Bug: one row is drained and no more.
DeleteOnlyRow(t) ==
  /\ At(t, "delete")
  /\ backlog' = {r \in backlog : r.id # thread[t].row}
  /\ thread' = [thread EXCEPT ![t].pc = "marks", ![t].row = 0]
  /\ UNCHANGED <<row, rest, stores, acked, spent>>

\* The row that was ingested is deleted, by its id.
DeleteRow(t) ==
  /\ At(t, "delete")
  /\ backlog' = {r \in backlog : r.id # thread[t].row}
  /\ thread' = [thread EXCEPT ![t].pc = "drain", ![t].row = 0]
  /\ UNCHANGED <<row, rest, stores, acked, spent>>

\* catch_up reads the marks once; without one there is nothing to read from.
ReadMarks(t) ==
  /\ At(t, "marks")
  /\ IF mark = 0 THEN Ends(t)
     ELSE thread' = [thread EXCEPT ![t].pc = "fetch", ![t].oldest = mark, ![t].top = posted]
  /\ UNCHANGED <<row, rest, backlog, stores, acked, spent>>

\* The messages of the history that thread t has not paged over yet.
Unread(t) == {m \in 1..posted : thread[t].oldest < m /\ m < thread[t].before}

\* The newest page of them.
PageOf(unread) == {m \in unread : Cardinality({k \in unread : k > m}) < PageSize}

\* Bug: the next page starts one message too far.
FetchPageSkipping(t) ==
  /\ At(t, "fetch")
  /\ LET page == PageOf(Unread(t)) IN
       IF page = {} THEN Ends(t)
       ELSE \E b \in page :
              /\ \A m \in page : b <= m
              /\ thread' = [thread EXCEPT ![t].pc = "next", ![t].todo = page, ![t].before = b - 1]
  /\ UNCHANGED <<row, rest, backlog, stores, acked, spent>>

\* One page of history: newest page first, to be ingested oldest message first.
FetchPage(t) ==
  /\ At(t, "fetch")
  /\ LET page == PageOf(Unread(t)) IN
       IF page = {} THEN Ends(t)
       ELSE \E b \in page :
              /\ \A m \in page : b <= m
              /\ thread' = [thread EXCEPT ![t].pc = "next", ![t].todo = page, ![t].before = b]
  /\ UNCHANGED <<row, rest, backlog, stores, acked, spent>>

NextMessage(t) ==
  /\ At(t, "next")
  /\ \/ /\ thread[t].todo = {}
        /\ IF Unread(t) = {} THEN Ends(t) ELSE Goes(t, "fetch")
     \/ \E m \in thread[t].todo :
          /\ \A k \in thread[t].todo : m <= k
          /\ thread' = [thread EXCEPT ![t].pc = "land", ![t].msg = m, ![t].todo = @ \ {m}]
  /\ UNCHANGED <<row, rest, backlog, stores, acked, spent>>

\* Slack does not answer.
FetchFails(t) ==
  /\ At(t, "fetch")
  /\ CanFail
  /\ Goes(t, "fail")
  /\ UNCHANGED <<row, rest, backlog, stores, acked>>

\* A sync that failed fails the job, if it is still RUNNING.
FailJob(t) ==
  /\ At(t, "fail")
  /\ job' = IF job.status = "RUNNING" THEN [job EXCEPT !.status = "FAILED"] ELSE job
  /\ Ends(t)
  /\ UNCHANGED <<owned, rest, backlog, stores, acked, spent>>

-----------------------------------------------------------------------------
(***************************************************************************)
(* Requests read the row, change the control column and then write the     *)
(* status they decided on.                                                 *)
(***************************************************************************)
Decides(c, target, control) ==
  /\ up /\ request[c] = "none"
  /\ spent.requests < MaxRequests /\ Spend("requests")
  /\ request' = [request EXCEPT ![c] = target]
  /\ job' = [job EXCEPT !.control = control]
  /\ UNCHANGED <<owned, up, thread, posted, backlog, stores, acked, lost, overlapped>>

RequestPause(c)  == job.status = "RUNNING" /\ Decides(c, "PAUSED", "none")
RequestResume(c) == job.status \in {"PAUSED", "FAILED"} /\ Decides(c, "RUNNING", "none")

\* A cancel of a FAILED or finished stream leaves its signal and nothing else.
RequestCancel(c) ==
  Decides(c, IF job.status \in {"PENDING", "RUNNING", "PAUSED"} THEN "CANCELLED" ELSE "none",
          "cancel")

\* The write, and after a resume the launch of a sync thread.
Respond(c) ==
  /\ request[c] # "none"
  /\ job' = [job EXCEPT !.status = request[c]]
  /\ IF request[c] = "RUNNING" THEN \E t \in Threads : LaunchSync(t)
                               ELSE UNCHANGED <<thread, overlapped>>
  /\ request' = [request EXCEPT ![c] = "none"]
  /\ UNCHANGED <<owned, up, posted, backlog, stores, acked, lost, spent>>

-----------------------------------------------------------------------------
(***************************************************************************)
(* Crashes, and the sweep that adopts the stream of a process that died, a *)
(* stream that was resumed and not claimed, or one that was never started. *)
(***************************************************************************)
InHand == {thread[t].msg : t \in {u \in Threads : Alive(u) /\ thread[u].kind = "event"}}

Crash ==
  /\ up /\ spent.crashes < MaxCrashes /\ Spend("crashes")
  /\ up' = FALSE /\ owned' = FALSE
  /\ lost' = lost \cup InHand
  /\ thread' = [t \in Threads |-> Idle]
  /\ request' = [c \in Clients |-> "none"]
  /\ UNCHANGED <<job, posted, backlog, stores, acked, overlapped>>

Restart ==
  /\ ~up
  /\ up' = TRUE
  /\ UNCHANGED <<row, thread, request, posted, backlog, stores, acked, lost, overlapped, spent>>

\* _orphan_filter: a RUNNING stream that this process has not claimed, or a
\* PENDING one that is older than the timeout.
Orphaned ==
  /\ ~owned
  /\ \/ job.status = "RUNNING"
     \/ job.status = "PENDING" /\ (SlowStart \/ \A t \in Threads : ~At(t, "begin"))

\* recover_interrupted_jobs: a stored cancel is honoured, otherwise the stream
\* is brought up to date.
Recover(t) ==
  /\ up /\ Orphaned
  /\ owned' = TRUE
  /\ IF job.control = "cancel"
       THEN /\ job' = [status |-> "CANCELLED", control |-> "none"]
            /\ UNCHANGED <<thread, overlapped>>
       ELSE /\ LaunchSync(t)
            /\ UNCHANGED job
  /\ UNCHANGED <<up, request, posted, backlog, stores, acked, lost, spent>>

-----------------------------------------------------------------------------
\* The steps a thread takes when nothing outside fails.
Work(t) ==
  \/ BufferEvent(t) \/ Land(t) \/ Count(t) \/ AdvanceMark(t)
  \/ Begin(t) \/ Claim(t) \/ DrainNext(t) \/ DeleteRow(t)
  \/ ReadMarks(t) \/ FetchPage(t) \/ NextMessage(t) \/ FailJob(t)

Fails(t) == LandFails(t) \/ MarkFails(t) \/ FetchFails(t)

Next ==
  \/ Post \/ Crash \/ Restart
  \/ \E t \in Threads : Work(t) \/ Fails(t) \/ Recover(t)
  \/ \E t \in Threads, m \in Messages : Webhook(t, m) \/ Inject(t, m)
  \/ \E c \in Clients : RequestPause(c) \/ RequestResume(c) \/ RequestCancel(c) \/ Respond(c)

Spec == Init /\ [][Next]_vars

\* Threads that exist run on, a request that read the row writes it, the
\* process is restarted and its sweep comes round.  Nothing makes Slack
\* deliver, a user send a request or a service fail.
FairSpec ==
  /\ Spec
  /\ WF_vars(Restart)
  /\ WF_vars(\E t \in Threads : Recover(t))
  /\ \A t \in Threads : WF_vars(Work(t))
  /\ \A c \in Clients : WF_vars(Respond(c))

-----------------------------------------------------------------------------
(***************************************************************************)
(* Properties.                                                             *)
(***************************************************************************)

\* A thread that has a message in hand.
Holding(t) == Alive(t) /\ thread[t].pc \in Ingesting \cup {"buffer", "delete"}

\* Every variable holds a value of its kind.
TypeOK ==
  /\ job \in [status : Statuses, control : {"none", "cancel"}]
  /\ owned \in BOOLEAN /\ up \in BOOLEAN /\ overlapped \in BOOLEAN
  /\ thread \in [Threads -> ThreadStates]
  /\ \A t \in Threads : Holding(t) => thread[t].msg \in Messages
  /\ request \in [Clients -> {"none", "PAUSED", "RUNNING", "CANCELLED"}]
  /\ posted \in 0..N /\ mark \in 0..N
  /\ backlog \in SUBSET [id : Nat, msg : Messages]
  /\ table \in SUBSET Messages /\ seen \in SUBSET Messages
  /\ acked \in SUBSET Messages /\ lost \in SUBSET (0..N)
  /\ counted \in [Messages -> Nat]
  /\ spent \in [crashes : Nat, failures : Nat, requests : Nat, deliveries : Nat]

\* "Counted exactly once": however often a message is delivered, drained and
\* caught up on, and in however many threads at a time, it adds one to
\* row_count and never another.
Once == INSTANCE OnceOnly WITH Items <- Messages, effects <- counted
CountedOnce == Once!Spec

\* A message that is counted, and one the mark tells catch-up to skip, is in
\* ClickHouse.
CountedIsLoaded == seen \subseteq table /\ (mark # 0 => mark \in seen)

\* A message Slack was answered 200 for is ingested, parked in the backlog or
\* in the hands of a thread.  Only a crash of that thread, or two sync threads
\* at a time, can break this.
Carried(m) == \E t \in Threads : Alive(t) /\ thread[t].kind = "event" /\ thread[t].msg = m
AckedIsKept ==
  ~overlapped => \A m \in acked \ lost : m \in seen \/ Buffered(m) \/ Carried(m)

\* Catch-up leaves no hole behind it: what a sync thread has paged over is
\* ingested, but for the page in hand.
PagedOverIsIngested ==
  \A t \in Threads : Sync(t) =>
    \A m \in thread[t].before..thread[t].top :
      m \in seen \/ m \in thread[t].todo
                 \/ (m = thread[t].msg /\ thread[t].pc \in {"land", "count", "fail"})

\* What is in the backlog when a sync thread drains it is ingested, unless the
\* stream stops RUNNING: a crash of the thread only delays it.
Draining == \E t \in Threads : Sync(t) /\ thread[t].pc \in {"begin", "claim", "drain"}
DrainIsComplete ==
  \A m \in Messages :
    (Draining /\ Buffered(m)) ~> (m \in seen \/ job.status # "RUNNING" \/ overlapped)

-----------------------------------------------------------------------------
(***************************************************************************)
(* Inductive invariants, proved in SlackRealtime_proofs.                   *)
(***************************************************************************)

\* What a thread has done with the message in its hands is in the stores.
LoadInv ==
  /\ CountedIsLoaded
  /\ \A m \in Messages : counted[m] = IF m \in seen THEN 1 ELSE 0
  /\ \A t \in Threads : Alive(t) =>
       /\ thread[t].pc = "count" => thread[t].msg \in table
       /\ thread[t].pc \in {"mark", "delete"} => thread[t].msg \in seen

\* Only a sync thread drains and catches up, and it has a row in hand exactly
\* while it ingests one from the backlog.
SyncInv ==
  \A t \in Threads : Alive(t) =>
    /\ thread[t].pc \in {"begin", "claim", "drain", "marks", "fetch", "next"} =>
         thread[t].kind = "sync" /\ thread[t].row = 0
    /\ thread[t].pc = "delete" => thread[t].kind = "sync" /\ thread[t].row # 0
    /\ thread[t].pc = "fail" => thread[t].kind = "sync"

\* The only sync thread holds a row that is in the backlog, under an id that
\* no other row has or gets.
KeepInv ==
  ~overlapped =>
    /\ \A m \in acked \ lost : m \in seen \/ Buffered(m) \/ Carried(m)
    /\ \A t, u \in Threads : Sync(t) /\ Sync(u) => t = u
    /\ \A q, r \in backlog : q.id = r.id => q = r
    /\ \A t \in Threads : (Sync(t) /\ thread[t].row # 0) =>
         [id |-> thread[t].row, msg |-> thread[t].msg] \in backlog

\* What a sync thread has paged over: nothing before it read the marks, and
\* afterwards the messages from its cursor up to the newest it found.
PageInv ==
  /\ PagedOverIsIngested
  /\ \A t \in Threads : Sync(t) =>
       /\ thread[t].top <= posted
       /\ (thread[t].pc \in {"begin", "claim", "drain", "marks"} \/ thread[t].row # 0)
            => thread[t].before = N + 1 /\ thread[t].todo = {}
       /\ thread[t].pc = "fetch" => thread[t].todo = {}
=============================================================================
