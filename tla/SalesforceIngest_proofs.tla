---------------------- MODULE SalesforceIngest_proofs ----------------------
(***************************************************************************)
(* Theorems about SalesforceIngest, for every set of jobs, threads, API    *)
(* requests and records, every naming of files and every value of the      *)
(* retry policy's parameters and of the bounds.                            *)
(***************************************************************************)
EXTENDS SalesforceIngest, TLAPS

\* What a worker that is alive is: a record, never the idle marker.
WorkerRecords ==
  [pc : Steps, job : Jobs, seen : Statuses, read : Counts, then : Steps,
   batch : SUBSET Records, call : Calls]

Rows == [status : Statuses \cup {"none"}, control : Controls, owned : BOOLEAN,
         stage : Stages, counted : Counts]

\* The parts of TypeOK.
WorkersOK == worker \in [Workers -> WorkerStates]
RowsOK    == job \in [Jobs -> Rows]
RequestsOK ==
  request \in [Clients -> {NoRequest} \cup [target : {"RUNNING", "CANCELLED"}, job : Jobs]]
StoresOK ==
  /\ source \in SUBSET Records /\ table \in SUBSET Records
  /\ file \in [Paths -> SUBSET Records] /\ letters \in [Jobs -> SUBSET Records]
HistoryOK ==
  /\ since \in [Jobs -> SUBSET Records]
  /\ contested \in SUBSET Jobs /\ recounted \in SUBSET Jobs /\ cancelled \in SUBSET Jobs
  /\ overwritten \in SUBSET Jobs
  /\ spent \in [crashes : Nat, requests : Nat]

LEMMA TypeParts ==
  TypeOK <=> WorkersOK /\ RowsOK /\ RequestsOK /\ StoresOK /\ HistoryOK /\ up \in BOOLEAN
BY DEF TypeOK, WorkersOK, RowsOK, RequestsOK, StoresOK, HistoryOK, Rows

LEMMA TypePartsNext ==
  WorkersOK' /\ RowsOK' /\ RequestsOK' /\ StoresOK' /\ HistoryOK' /\ up' \in BOOLEAN => TypeOK'
BY DEF TypeOK, WorkersOK, RowsOK, RequestsOK, StoresOK, HistoryOK, Rows

-----------------------------------------------------------------------------
(***************************************************************************)
(* What the writes to a row and to a worker leave.                         *)
(***************************************************************************)

\* Only row j, only worker w is written.
OnlyRow(j)    == \A i \in Jobs : i # j => job'[i] = job[i]
OnlyWorker(w) == \A v \in Workers : v # w => worker'[v] = worker[v]

\* All rows keep the fields that decide on signals and statuses.
RowsKeepStatus ==
  \A j \in Jobs : /\ job'[j].status = job[j].status /\ job'[j].control = job[j].control
                  /\ job'[j].owned = job[j].owned

\* Row j keeps the fields of its checkpoint.
KeepsCheckpoint(j) == job'[j].stage = job[j].stage /\ job'[j].counted = job[j].counted

LEMMA StatusWritten ==
  ASSUME RowsOK, NEW j \in Jobs, NEW s \in Statuses, WriteStatus(j, s)
  PROVE  /\ RowsOK' /\ OnlyRow(j) /\ job'[j].status = s /\ KeepsCheckpoint(j)
         /\ job'[j].control = job[j].control /\ job'[j].owned = job[j].owned
BY DEF RowsOK, Rows, OnlyRow, WriteStatus, KeepsCheckpoint

LEMMA ControlWritten ==
  ASSUME RowsOK, NEW j \in Jobs, NEW c \in Controls, job' = [job EXCEPT ![j].control = c]
  PROVE  /\ RowsOK' /\ OnlyRow(j) /\ job'[j].control = c /\ KeepsCheckpoint(j)
         /\ job'[j].status = job[j].status /\ job'[j].owned = job[j].owned
BY DEF RowsOK, Rows, OnlyRow, KeepsCheckpoint

LEMMA OwnerWritten ==
  ASSUME RowsOK, NEW j \in Jobs, job' = [job EXCEPT ![j].owned = TRUE]
  PROVE  /\ RowsOK' /\ OnlyRow(j) /\ job'[j].owned = TRUE /\ KeepsCheckpoint(j)
         /\ job'[j].status = job[j].status /\ job'[j].control = job[j].control
BY DEF RowsOK, Rows, OnlyRow, KeepsCheckpoint

LEMMA Honoured ==
  ASSUME RowsOK, NEW j \in Jobs, NEW s \in Statuses,
         job' = [job EXCEPT ![j].owned = TRUE, ![j].status = s, ![j].control = "none"]
  PROVE  /\ RowsOK' /\ OnlyRow(j) /\ job'[j].owned = TRUE /\ job'[j].status = s
         /\ job'[j].control = "none" /\ KeepsCheckpoint(j)
BY DEF RowsOK, Rows, OnlyRow, Controls, KeepsCheckpoint

LEMMA StageWritten ==
  ASSUME RowsOK, NEW j \in Jobs, NEW s \in Stages, job' = [job EXCEPT ![j].stage = s]
  PROVE  /\ RowsOK' /\ OnlyRow(j) /\ job'[j].stage = s /\ job'[j].counted = job[j].counted
         /\ RowsKeepStatus
BY DEF RowsOK, Rows, OnlyRow, RowsKeepStatus

LEMMA CheckpointWritten ==
  ASSUME RowsOK, NEW j \in Jobs, NEW s \in Stages, NEW counts \in Counts,
         job' = [job EXCEPT ![j].stage = s, ![j].counted = counts]
  PROVE  /\ RowsOK' /\ OnlyRow(j) /\ job'[j].stage = s /\ job'[j].counted = counts
         /\ RowsKeepStatus
BY DEF RowsOK, Rows, OnlyRow, RowsKeepStatus

LEMMA WorkerIsRecord ==
  ASSUME WorkersOK, NEW w \in Workers, Alive(w)
  PROVE  worker[w] \in WorkerRecords /\ Of(w) \in Jobs
BY DEF WorkersOK, Alive, WorkerStates, WorkerRecords, Of

\* One worker becomes another record.
LEMMA WorkerBecomes ==
  ASSUME WorkersOK, NEW w \in Workers, NEW r \in WorkerRecords,
         worker' = [worker EXCEPT ![w] = r]
  PROVE  WorkersOK' /\ OnlyWorker(w) /\ worker'[w] = r /\ Alive(w)'
<1>1. r # Idle /\ r \in WorkerStates BY DEF WorkerRecords, WorkerStates, Idle, Steps, CallSteps
<1> QED BY <1>1 DEF WorkersOK, OnlyWorker, Alive

LEMMA WorkerEnds ==
  ASSUME WorkersOK, NEW w \in Workers, Ends(w)
  PROVE  WorkersOK' /\ OnlyWorker(w) /\ ~Alive(w)'
BY DEF WorkersOK, OnlyWorker, Ends, Alive, WorkerStates

\* The fields of the worker after a step at which it lives on.
Becomes(w, pc, seen, read, then, batch, call) ==
  /\ WorkersOK' /\ OnlyWorker(w) /\ Alive(w)'
  /\ worker'[w].pc = pc /\ worker'[w].job = worker[w].job
  /\ worker'[w].seen = seen /\ worker'[w].read = read /\ worker'[w].then = then
  /\ worker'[w].batch = batch /\ worker'[w].call = call

\* A field-by-field assignment is an assignment of the record.
LEMMA WorkerAssigned ==
  ASSUME WorkersOK, NEW w \in Workers, Alive(w), NEW r \in WorkerRecords,
         r.job = worker[w].job, worker' = [worker EXCEPT ![w] = r]
  PROVE  Becomes(w, r.pc, r.seen, r.read, r.then, r.batch, r.call)
BY WorkerBecomes DEF Becomes

LEMMA GoesBecomes ==
  ASSUME WorkersOK, NEW w \in Workers, Alive(w), NEW s \in Steps, Goes(w, s)
  PROVE  Becomes(w, s, worker[w].seen, worker[w].read, worker[w].then, worker[w].batch, worker[w].call)
<1> DEFINE r == [worker[w] EXCEPT !.pc = s]
<1>1. r \in WorkerRecords /\ r.pc = s /\ r.job = worker[w].job /\ r.seen = worker[w].seen
      /\ r.read = worker[w].read /\ r.then = worker[w].then /\ r.batch = worker[w].batch
      /\ r.call = worker[w].call
  BY WorkerIsRecord DEF WorkerRecords
<1>2. worker' = [worker EXCEPT ![w] = r] BY DEF Goes
<1> HIDE DEF r
<1> QED BY <1>1, <1>2, WorkerAssigned

-----------------------------------------------------------------------------
(***************************************************************************)
(* What each step of a worker leaves in its record and in its job's row.   *)
(***************************************************************************)
Sound == TypeOK /\ RowsExist

LEMMA WorkerFacts ==
  ASSUME Sound, NEW w \in Workers, Alive(w)
  PROVE  /\ WorkersOK /\ RowsOK /\ worker[w] \in WorkerRecords /\ Of(w) \in Jobs
         /\ Row(w).status \in Statuses /\ Row(w).control \in Controls /\ Row(w).counted \in Counts
         /\ worker[w].then \in {"auth", "poll", "results", "sink"}
<1>1. WorkersOK /\ RowsOK BY TypeParts DEF Sound
<1>2. worker[w] \in WorkerRecords /\ Of(w) \in Jobs BY <1>1, WorkerIsRecord
<1> QED BY <1>1, <1>2 DEF RowsOK, Rows, Row, Sound, RowsExist, Exists

\* The rest of the state.
Elsewhere == <<request, up, stores, history>>

\* The worker ends, and its job is as it was but for its status.
Leaves(w) ==
  /\ WorkersOK' /\ OnlyWorker(w) /\ ~Alive(w)'
  /\ RowsOK' /\ OnlyRow(Of(w)) /\ KeepsCheckpoint(Of(w))
  /\ job'[Of(w)].owned = Row(w).owned

LEMMA BoundaryEffect ==
  ASSUME Sound, NEW w \in Workers, Alive(w), HandleException(w)
  PROVE  /\ Leaves(w) /\ UNCHANGED Elsewhere
         /\ job'[Of(w)].control = Row(w).control
         /\ Row(w).status \in {"PENDING", "RUNNING"} => job'[Of(w)].status = "FAILED"
         /\ Row(w).status \notin {"PENDING", "RUNNING"} => job'[Of(w)].status = Row(w).status
<1>1. WorkersOK /\ RowsOK /\ Of(w) \in Jobs /\ Row(w).status \in Statuses BY WorkerFacts
<1>2. WorkersOK' /\ OnlyWorker(w) /\ ~Alive(w)' BY <1>1, WorkerEnds DEF HandleException
<1>3. CanTransition(Row(w).status, "FAILED") <=> Row(w).status \in {"PENDING", "RUNNING"}
  BY <1>1 DEF CanTransition, AllowedTransitions, Statuses
<1>4. CASE CanTransition(Row(w).status, "FAILED")
  <2>1. WriteStatus(Of(w), "FAILED") BY <1>4 DEF HandleException
  <2> QED BY <1>1, <1>2, <1>3, <1>4, <2>1, StatusWritten DEF Leaves, Statuses, HandleException, Elsewhere, Row
<1>5. CASE ~CanTransition(Row(w).status, "FAILED")
  <2>1. UNCHANGED job BY <1>5 DEF HandleException
  <2> QED BY <1>1, <1>2, <1>3, <1>5, <2>1 DEF Leaves, HandleException, Elsewhere, Row, OnlyRow, KeepsCheckpoint, RowsOK
<1> QED BY <1>4, <1>5

LEMMA LoadEffect ==
  ASSUME Sound, NEW w \in Workers, Load(w)
  PROVE  /\ Alive(w) /\ worker[w].pc = "load" /\ UNCHANGED job /\ UNCHANGED Elsewhere
         /\ Becomes(w, "begin", Row(w).status, worker[w].read, worker[w].then, worker[w].batch,
                    worker[w].call)
<1>1. Alive(w) /\ worker[w].pc = "load" BY DEF Load, At
<1> DEFINE r == [worker[w] EXCEPT !.pc = "begin", !.seen = Row(w).status]
<1>2. r \in WorkerRecords /\ r.pc = "begin" /\ r.job = worker[w].job /\ r.seen = Row(w).status
      /\ r.read = worker[w].read /\ r.then = worker[w].then /\ r.batch = worker[w].batch
      /\ r.call = worker[w].call
  BY <1>1, WorkerFacts DEF WorkerRecords, Steps
<1>3. worker' = [worker EXCEPT ![w] = r] BY DEF Load
<1> HIDE DEF r
<1> QED BY <1>1, <1>2, <1>3, WorkerFacts, WorkerAssigned DEF Load, Elsewhere

LEMMA BeginEffect ==
  ASSUME Sound, NEW w \in Workers, Begin(w)
  PROVE  /\ Alive(w) /\ worker[w].pc = "begin"
         /\ \/ /\ worker[w].seen = "RUNNING" /\ UNCHANGED job /\ UNCHANGED Elsewhere
               /\ Becomes(w, "claim", "RUNNING", worker[w].read, worker[w].then, worker[w].batch,
                          worker[w].call)
            \/ /\ worker[w].seen \in {"PENDING", "PAUSED", "FAILED"} /\ UNCHANGED Elsewhere
               /\ RowsOK' /\ OnlyRow(Of(w)) /\ KeepsCheckpoint(Of(w)) /\ job'[Of(w)].status = "RUNNING"
               /\ job'[Of(w)].control = Row(w).control /\ job'[Of(w)].owned = Row(w).owned
               /\ Becomes(w, "claim", "RUNNING", worker[w].read, worker[w].then, worker[w].batch,
                          worker[w].call)
            \/ HandleException(w)
<1>1. Alive(w) /\ worker[w].pc = "begin" BY DEF Begin, At
<1>2. WorkersOK /\ RowsOK /\ worker[w] \in WorkerRecords /\ Of(w) \in Jobs BY <1>1, WorkerFacts
<1>3. CASE worker[w].seen = "RUNNING" /\ Goes(w, "claim") /\ UNCHANGED <<job, request, up, stores, history>>
  BY <1>1, <1>2, <1>3, GoesBecomes DEF Steps, Elsewhere
<1>4. CASE /\ CanTransition(worker[w].seen, "RUNNING") /\ WriteStatus(Of(w), "RUNNING")
           /\ worker' = [worker EXCEPT ![w].pc = "claim", ![w].seen = "RUNNING"]
           /\ UNCHANGED <<request, up, stores, history>>
  <2> DEFINE r == [worker[w] EXCEPT !.pc = "claim", !.seen = "RUNNING"]
  <2>1. r \in WorkerRecords /\ r.pc = "claim" /\ r.job = worker[w].job /\ r.seen = "RUNNING"
        /\ r.read = worker[w].read /\ r.then = worker[w].then /\ r.batch = worker[w].batch
        /\ r.call = worker[w].call
    BY <1>2 DEF WorkerRecords, Steps, Statuses
  <2>2. worker' = [worker EXCEPT ![w] = r] BY <1>4
  <2> HIDE DEF r
  <2>3. Becomes(w, "claim", "RUNNING", worker[w].read, worker[w].then, worker[w].batch, worker[w].call)
    BY <1>1, <1>2, <2>1, <2>2, WorkerAssigned
  <2>4. worker[w].seen \in {"PENDING", "PAUSED", "FAILED"}
    BY <1>2, <1>4 DEF WorkerRecords, CanTransition, AllowedTransitions, Statuses
  <2>5. /\ RowsOK' /\ OnlyRow(Of(w)) /\ KeepsCheckpoint(Of(w)) /\ job'[Of(w)].status = "RUNNING"
        /\ job'[Of(w)].control = Row(w).control /\ job'[Of(w)].owned = Row(w).owned
    BY <1>2, <1>4, StatusWritten DEF Statuses, Row
  <2> QED BY <1>1, <1>4, <2>3, <2>4, <2>5 DEF Elsewhere
<1> QED BY <1>1, <1>3, <1>4 DEF Begin

LEMMA ClaimEffect ==
  ASSUME Sound, NEW w \in Workers, Claim(w)
  PROVE  /\ Alive(w) /\ worker[w].pc = "claim" /\ UNCHANGED Elsewhere
         /\ RowsOK' /\ OnlyRow(Of(w)) /\ KeepsCheckpoint(Of(w)) /\ job'[Of(w)].owned = TRUE
         /\ job'[Of(w)].status = Row(w).status /\ job'[Of(w)].control = Row(w).control
         /\ Becomes(w, "check", worker[w].seen, worker[w].read, "auth", worker[w].batch, worker[w].call)
<1>1. Alive(w) /\ worker[w].pc = "claim" BY DEF Claim, At
<1>2. WorkersOK /\ RowsOK /\ worker[w] \in WorkerRecords /\ Of(w) \in Jobs BY <1>1, WorkerFacts
<1> DEFINE r == [worker[w] EXCEPT !.pc = "check", !.then = "auth"]
<1>3. r \in WorkerRecords /\ r.pc = "check" /\ r.job = worker[w].job /\ r.seen = worker[w].seen
      /\ r.read = worker[w].read /\ r.then = "auth" /\ r.batch = worker[w].batch
      /\ r.call = worker[w].call
  BY <1>2 DEF WorkerRecords, Steps, CallSteps
<1>4. worker' = [worker EXCEPT ![w] = r] BY DEF Claim, Checks
<1> HIDE DEF r
<1>5. Becomes(w, "check", worker[w].seen, worker[w].read, "auth", worker[w].batch, worker[w].call)
  BY <1>1, <1>2, <1>3, <1>4, WorkerAssigned
<1> QED BY <1>1, <1>2, <1>5, OwnerWritten DEF Claim, Elsewhere, Row

LEMMA CheckEffect ==
  ASSUME Sound, NEW w \in Workers, CheckStop(w)
  PROVE  /\ Alive(w) /\ worker[w].pc = "check" /\ UNCHANGED job /\ UNCHANGED Elsewhere
         /\ \/ /\ Row(w).status \in {"CANCELLED", "PAUSED"}
               /\ WorkersOK' /\ OnlyWorker(w) /\ ~Alive(w)'
            \/ /\ Row(w).status \notin {"CANCELLED", "PAUSED"} /\ Row(w).control \in {"pause", "cancel"}
               /\ Becomes(w, Row(w).control, Row(w).status, worker[w].read, worker[w].then,
                          worker[w].batch, worker[w].call)
            \/ /\ Row(w).status \notin {"CANCELLED", "PAUSED"} /\ Row(w).control = "none"
               /\ Becomes(w, worker[w].then, worker[w].seen, Row(w).counted, worker[w].then,
                          worker[w].batch, worker[w].call)
<1>1. Alive(w) /\ worker[w].pc = "check" BY DEF CheckStop, At
<1>2. /\ WorkersOK /\ worker[w] \in WorkerRecords /\ Row(w).status \in Statuses
      /\ Row(w).control \in Controls /\ Row(w).counted \in Counts
      /\ worker[w].then \in {"auth", "poll", "results", "sink"}
  BY <1>1, WorkerFacts
<1>3. CASE Row(w).status \in {"CANCELLED", "PAUSED"} /\ Ends(w)
  BY <1>1, <1>2, <1>3, WorkerEnds DEF CheckStop, Elsewhere
<1>4. CASE /\ Row(w).status \notin {"CANCELLED", "PAUSED"} /\ Row(w).control # "none"
           /\ worker' = [worker EXCEPT ![w].pc = Row(w).control, ![w].seen = Row(w).status]
  <2> DEFINE r == [worker[w] EXCEPT !.pc = Row(w).control, !.seen = Row(w).status]
  <2>1. r \in WorkerRecords /\ r.pc = Row(w).control /\ r.job = worker[w].job
        /\ r.seen = Row(w).status /\ r.read = worker[w].read /\ r.then = worker[w].then
        /\ r.batch = worker[w].batch /\ r.call = worker[w].call
    BY <1>2, <1>4 DEF WorkerRecords, Steps, Controls
  <2>2. worker' = [worker EXCEPT ![w] = r] BY <1>4
  <2> HIDE DEF r
  <2>3. Becomes(w, Row(w).control, Row(w).status, worker[w].read, worker[w].then,
                worker[w].batch, worker[w].call)
    BY <1>1, <1>2, <2>1, <2>2, WorkerAssigned
  <2> QED BY <1>1, <1>2, <1>4, <2>3 DEF CheckStop, Elsewhere, Controls
<1>5. CASE /\ Row(w).status \notin {"CANCELLED", "PAUSED"} /\ Row(w).control = "none"
           /\ worker' = [worker EXCEPT ![w].pc = worker[w].then, ![w].read = Row(w).counted]
  <2> DEFINE r == [worker[w] EXCEPT !.pc = worker[w].then, !.read = Row(w).counted]
  <2>1. r \in WorkerRecords /\ r.pc = worker[w].then /\ r.job = worker[w].job
        /\ r.seen = worker[w].seen /\ r.read = Row(w).counted /\ r.then = worker[w].then
        /\ r.batch = worker[w].batch /\ r.call = worker[w].call
    BY <1>2 DEF WorkerRecords, Steps, CallSteps
  <2>2. worker' = [worker EXCEPT ![w] = r] BY <1>5
  <2> HIDE DEF r
  <2>3. Becomes(w, worker[w].then, worker[w].seen, Row(w).counted, worker[w].then,
                worker[w].batch, worker[w].call)
    BY <1>1, <1>2, <2>1, <2>2, WorkerAssigned
  <2> QED BY <1>1, <1>5, <2>3 DEF CheckStop, Elsewhere
<1> QED BY <1>3, <1>4, <1>5 DEF CheckStop

LEMMA HaltEffect ==
  ASSUME Sound, NEW w \in Workers, NEW signal \in {"pause", "cancel"},
         NEW target \in {"PAUSED", "CANCELLED"}, Halt(w, signal, target)
  PROVE  /\ Alive(w) /\ worker[w].pc = signal
         /\ \/ /\ UNCHANGED Elsewhere
               /\ RowsOK' /\ OnlyRow(Of(w)) /\ KeepsCheckpoint(Of(w)) /\ job'[Of(w)].status = target
               /\ job'[Of(w)].control = Row(w).control /\ job'[Of(w)].owned = Row(w).owned
               /\ Becomes(w, "clear", worker[w].seen, worker[w].read, worker[w].then,
                          worker[w].batch, worker[w].call)
            \/ HandleException(w)
<1>1. Alive(w) /\ worker[w].pc = signal BY DEF Halt, At
<1>2. WorkersOK /\ RowsOK /\ Of(w) \in Jobs BY <1>1, WorkerFacts
<1>3. CASE CanTransition(worker[w].seen, target)
  <2>1. WriteStatus(Of(w), target) /\ Goes(w, "clear") /\ UNCHANGED <<request, up, stores, history>>
    BY <1>3 DEF Halt
  <2>2. Becomes(w, "clear", worker[w].seen, worker[w].read, worker[w].then, worker[w].batch, worker[w].call)
    BY <1>1, <1>2, <2>1, GoesBecomes DEF Steps
  <2> QED BY <1>1, <1>2, <2>1, <2>2, StatusWritten DEF Elsewhere, Statuses, Row
<1> QED BY <1>1, <1>3 DEF Halt

LEMMA ClearEffect ==
  ASSUME Sound, NEW w \in Workers, ClearControl(w)
  PROVE  /\ Alive(w) /\ worker[w].pc = "clear" /\ Leaves(w) /\ UNCHANGED Elsewhere
         /\ job'[Of(w)].control = "none" /\ job'[Of(w)].status = Row(w).status
<1>1. Alive(w) /\ worker[w].pc = "clear" BY DEF ClearControl, At
<1>2. WorkersOK /\ RowsOK /\ Of(w) \in Jobs BY <1>1, WorkerFacts
<1>3. WorkersOK' /\ OnlyWorker(w) /\ ~Alive(w)' BY <1>2, WorkerEnds DEF ClearControl
<1> QED BY <1>1, <1>2, <1>3, ControlWritten DEF ClearControl, Leaves, Elsewhere, Row, Controls

\* A call that succeeds leaves a fresh one behind.
LEMMA SucceedsBecomes ==
  ASSUME WorkersOK, NEW w \in Workers, Alive(w), NEW s \in Steps, Succeeds(w, s)
  PROVE  Becomes(w, s, worker[w].seen, worker[w].read, worker[w].then, worker[w].batch, FreshCall)
<1> DEFINE r == [worker[w] EXCEPT !.pc = s, !.call = FreshCall]
<1>1. r \in WorkerRecords /\ r.pc = s /\ r.job = worker[w].job /\ r.seen = worker[w].seen
      /\ r.read = worker[w].read /\ r.then = worker[w].then /\ r.batch = worker[w].batch
      /\ r.call = FreshCall
  BY WorkerIsRecord DEF WorkerRecords, FreshCall, Calls
<1>2. worker' = [worker EXCEPT ![w] = r] BY DEF Succeeds
<1> HIDE DEF r
<1> QED BY <1>1, <1>2, WorkerAssigned

LEMMA AuthenticateEffect ==
  ASSUME Sound, NEW w \in Workers, Authenticate(w)
  PROVE  /\ Alive(w) /\ worker[w].pc = "auth" /\ UNCHANGED job /\ UNCHANGED Elsewhere
         /\ Becomes(w, "create", worker[w].seen, worker[w].read, worker[w].then,
                    worker[w].batch, FreshCall)
<1>1. Alive(w) /\ worker[w].pc = "auth" BY DEF Authenticate, At
<1> QED BY <1>1, WorkerFacts, SucceedsBecomes DEF Authenticate, Elsewhere, Steps, CallSteps

LEMMA CreateEffect ==
  ASSUME Sound, NEW w \in Workers, CreateBulkJob(w)
  PROVE  /\ Alive(w) /\ worker[w].pc = "create" /\ UNCHANGED Elsewhere
         /\ RowsOK' /\ OnlyRow(Of(w)) /\ RowsKeepStatus
         /\ job'[Of(w)].stage = "created" /\ job'[Of(w)].counted = Row(w).counted
         /\ Becomes(w, "poll", worker[w].seen, worker[w].read, worker[w].then, source, FreshCall)
<1>1. Alive(w) /\ worker[w].pc = "create" BY DEF CreateBulkJob, At
<1>2. WorkersOK /\ RowsOK /\ worker[w] \in WorkerRecords /\ Of(w) \in Jobs BY <1>1, WorkerFacts
<1> DEFINE r == [worker[w] EXCEPT !.pc = "poll", !.call = FreshCall, !.batch = source]
<1>3. source \in SUBSET Records BY TypeParts DEF StoresOK, Sound
<1>4. r \in WorkerRecords /\ r.pc = "poll" /\ r.job = worker[w].job /\ r.seen = worker[w].seen
      /\ r.read = worker[w].read /\ r.then = worker[w].then /\ r.batch = source
      /\ r.call = FreshCall
  BY <1>2, <1>3 DEF WorkerRecords, Steps, CallSteps, FreshCall, Calls
<1>5. worker' = [worker EXCEPT ![w] = r] BY DEF CreateBulkJob, Snapshot
<1> HIDE DEF r
<1>6. Becomes(w, "poll", worker[w].seen, worker[w].read, worker[w].then, source, FreshCall)
  BY <1>1, <1>2, <1>4, <1>5, WorkerAssigned
<1> QED BY <1>1, <1>2, <1>6, StageWritten DEF CreateBulkJob, Reaches, Stages, Elsewhere, Row

LEMMA PollEffect ==
  ASSUME Sound, NEW w \in Workers, Poll(w)
  PROVE  /\ Alive(w) /\ worker[w].pc = "poll" /\ UNCHANGED Elsewhere
         /\ RowsOK' /\ OnlyRow(Of(w)) /\ RowsKeepStatus
         /\ job'[Of(w)].stage = "created" /\ job'[Of(w)].counted = Row(w).counted
         /\ \E next \in {"poll", "results"} :
              Becomes(w, "check", worker[w].seen, worker[w].read, next, worker[w].batch, FreshCall)
<1>1. Alive(w) /\ worker[w].pc = "poll" BY DEF Poll, At
<1>2. WorkersOK /\ RowsOK /\ worker[w] \in WorkerRecords /\ Of(w) \in Jobs BY <1>1, WorkerFacts
<1>3. PICK next \in {"poll", "results"} :
        worker' = [worker EXCEPT ![w].pc = "check", ![w].then = next, ![w].call = FreshCall]
  BY DEF Poll, Answers
<1> DEFINE r == [worker[w] EXCEPT !.pc = "check", !.then = next, !.call = FreshCall]
<1>4. r \in WorkerRecords /\ r.pc = "check" /\ r.job = worker[w].job /\ r.seen = worker[w].seen
      /\ r.read = worker[w].read /\ r.then = next /\ r.batch = worker[w].batch
      /\ r.call = FreshCall
  BY <1>2 DEF WorkerRecords, Steps, CallSteps, FreshCall, Calls
<1>5. worker' = [worker EXCEPT ![w] = r] BY <1>3
<1> HIDE DEF r
<1>6. Becomes(w, "check", worker[w].seen, worker[w].read, next, worker[w].batch, FreshCall)
  BY <1>1, <1>2, <1>4, <1>5, WorkerAssigned
<1> QED BY <1>1, <1>2, <1>6, StageWritten DEF Poll, Reaches, Stages, Elsewhere, Row

LEMMA ResultsEffect ==
  ASSUME Sound, NEW w \in Workers, GetResults(w)
  PROVE  /\ Alive(w) /\ worker[w].pc = "results" /\ UNCHANGED job /\ UNCHANGED Elsewhere
         /\ Becomes(w, "letters", worker[w].seen, worker[w].read, worker[w].then,
                    worker[w].batch, FreshCall)
<1>1. Alive(w) /\ worker[w].pc = "results" BY DEF GetResults, At
<1> QED BY <1>1, WorkerFacts, SucceedsBecomes DEF GetResults, Elsewhere, Steps

LEMMA LettersEffect ==
  ASSUME Sound, NEW w \in Workers, SendToDeadLetter(w)
  PROVE  /\ Alive(w) /\ worker[w].pc = "letters" /\ UNCHANGED job
         /\ letters' \in [Jobs -> SUBSET Records]
         /\ letters'[Of(w)] = letters[Of(w)] \cup (worker[w].batch \cap Invalid)
         /\ \A j \in Jobs : letters[j] \subseteq letters'[j]
         /\ UNCHANGED <<request, up, source, file, table, history>>
         /\ Becomes(w, "land", worker[w].seen, worker[w].read, worker[w].then,
                    worker[w].batch, worker[w].call)
<1>1. Alive(w) /\ worker[w].pc = "letters" BY DEF SendToDeadLetter, At
<1>2. WorkersOK /\ worker[w] \in WorkerRecords /\ Of(w) \in Jobs BY <1>1, WorkerFacts
<1>3. Becomes(w, "land", worker[w].seen, worker[w].read, worker[w].then,
              worker[w].batch, worker[w].call)
  BY <1>1, <1>2, GoesBecomes DEF SendToDeadLetter, Steps
<1>4. letters \in [Jobs -> SUBSET Records] BY TypeParts DEF StoresOK, Sound
<1>5. worker[w].batch \in SUBSET Records BY <1>2 DEF WorkerRecords
<1>6. letters[Of(w)] \cup (worker[w].batch \cap Invalid) \in SUBSET Records BY <1>2, <1>4, <1>5
<1> QED BY <1>1, <1>2, <1>3, <1>4, <1>6 DEF SendToDeadLetter

LEMMA LandEffect ==
  ASSUME Sound, NEW w \in Workers, Land(w)
  PROVE  /\ Alive(w) /\ worker[w].pc = "land"
         /\ file' \in [Paths -> SUBSET Records] /\ overwritten' \in SUBSET Jobs
         /\ file'[PathOf[Of(w)]] = ValidBatch(w)
         /\ \A p \in Paths : p # PathOf[Of(w)] => file'[p] = file[p]
         /\ overwritten \subseteq overwritten'
         /\ \A v \in Workers : 
              Alive(v) /\ HasLanded(v) /\ Of(v) # Of(w) /\ PathOf[Of(v)] = PathOf[Of(w)] =>
                Of(v) \in overwritten'
         /\ RowsOK' /\ OnlyRow(Of(w)) /\ RowsKeepStatus
         /\ job'[Of(w)].stage = "landed" /\ job'[Of(w)].counted = Row(w).counted
         /\ UNCHANGED <<request, up, source, table, letters, since, contested, recounted, cancelled, spent>>
         /\ Becomes(w, "check", worker[w].seen, worker[w].read, "sink", worker[w].batch, worker[w].call)
<1>1. Alive(w) /\ worker[w].pc = "land" BY DEF Land, At
<1>2. WorkersOK /\ RowsOK /\ worker[w] \in WorkerRecords /\ Of(w) \in Jobs BY <1>1, WorkerFacts
<1> DEFINE r == [worker[w] EXCEPT !.pc = "check", !.then = "sink"]
<1>3. r \in WorkerRecords /\ r.pc = "check" /\ r.job = worker[w].job /\ r.seen = worker[w].seen
      /\ r.read = worker[w].read /\ r.then = "sink" /\ r.batch = worker[w].batch
      /\ r.call = worker[w].call
  BY <1>2 DEF WorkerRecords, Steps, CallSteps
<1>4. worker' = [worker EXCEPT ![w] = r] BY DEF Land, Checks
<1> HIDE DEF r
<1>5. Becomes(w, "check", worker[w].seen, worker[w].read, "sink", worker[w].batch, worker[w].call)
  BY <1>1, <1>2, <1>3, <1>4, WorkerAssigned
<1>6. file \in [Paths -> SUBSET Records] /\ overwritten \in SUBSET Jobs
  BY TypeParts DEF StoresOK, HistoryOK, Sound
<1>7. ValidBatch(w) \in SUBSET Records /\ PathOf[Of(w)] \in Paths
  BY <1>2, PathsAssumption DEF ValidBatch, WorkerRecords
<1>8. /\ file' \in [Paths -> SUBSET Records] /\ file'[PathOf[Of(w)]] = ValidBatch(w)
      /\ \A p \in Paths : p # PathOf[Of(w)] => file'[p] = file[p]
  BY <1>6, <1>7 DEF Land
<1>9. overwritten' \in SUBSET Jobs /\ overwritten \subseteq overwritten'
  BY <1>6 DEF Land, Overwrites
<1>10. \A v \in Workers :
         Alive(v) /\ HasLanded(v) /\ Of(v) # Of(w) /\ PathOf[Of(v)] = PathOf[Of(w)] =>
           Of(v) \in overwritten'
  <2> SUFFICES ASSUME NEW v \in Workers, Alive(v), HasLanded(v), Of(v) # Of(w),
                      PathOf[Of(v)] = PathOf[Of(w)]
               PROVE  Of(v) \in overwritten'
    OBVIOUS
  <2>1. Of(v) \in Jobs BY <1>2, WorkerIsRecord
  <2>2. At(v, "sink") \/ (At(v, "check") /\ worker[v].then = "sink") BY DEF HasLanded, At
  <2>3. Overwrites(w) BY DEF Land
  <2> HIDE DEF Of
  <2> QED BY <2>1, <2>2, <2>3 DEF Overwrites
<1> QED BY <1>1, <1>2, <1>5, <1>8, <1>9, <1>10, StageWritten DEF Land, Reaches, Stages, Row

LEMMA SinkEffect ==
  ASSUME Sound, NEW w \in Workers, LoadFromStorage(w)
  PROVE  /\ Alive(w) /\ worker[w].pc = "sink" /\ UNCHANGED job
         /\ table' \in SUBSET Records /\ table' = table \cup file[PathOf[Of(w)]]
         /\ UNCHANGED <<request, up, source, file, letters, history>>
         /\ Becomes(w, "loaded", worker[w].seen, worker[w].read, worker[w].then,
                    worker[w].batch, worker[w].call)
<1>1. Alive(w) /\ worker[w].pc = "sink" BY DEF LoadFromStorage, At
<1>2. WorkersOK /\ Of(w) \in Jobs BY <1>1, WorkerFacts
<1>3. Becomes(w, "loaded", worker[w].seen, worker[w].read, worker[w].then,
              worker[w].batch, worker[w].call)
  BY <1>1, <1>2, GoesBecomes DEF LoadFromStorage, Steps
<1>4. file \in [Paths -> SUBSET Records] /\ table \in SUBSET Records
  BY TypeParts DEF StoresOK, Sound
<1> QED BY <1>1, <1>2, <1>3, <1>4, PathsAssumption DEF LoadFromStorage

LEMMA LoadedEffect ==
  ASSUME Sound, NEW w \in Workers, CheckpointLoaded(w)
  PROVE  /\ Alive(w) /\ worker[w].pc = "loaded" /\ UNCHANGED Elsewhere
         /\ RowsOK' /\ OnlyRow(Of(w)) /\ RowsKeepStatus
         /\ job'[Of(w)].stage = "loaded"
         /\ \A r \in Records : job'[Of(w)].counted[r] =
              worker[w].read[r] + IF r \in ValidBatch(w) THEN 1 ELSE 0
         /\ Becomes(w, "complete", worker[w].seen, worker[w].read, worker[w].then,
                    worker[w].batch, worker[w].call)
<1>1. Alive(w) /\ worker[w].pc = "loaded" BY DEF CheckpointLoaded, At
<1>2. WorkersOK /\ RowsOK /\ worker[w] \in WorkerRecords /\ Of(w) \in Jobs BY <1>1, WorkerFacts
<1>3. Becomes(w, "complete", worker[w].seen, worker[w].read, worker[w].then,
              worker[w].batch, worker[w].call)
  BY <1>1, <1>2, GoesBecomes DEF CheckpointLoaded, Steps
<1> DEFINE counts == [r \in Records |-> worker[w].read[r] + IF r \in ValidBatch(w) THEN 1 ELSE 0]
<1>4. counts \in Counts BY <1>2 DEF WorkerRecords, Counts
<1>5. job' = [job EXCEPT ![Of(w)].stage = "loaded", ![Of(w)].counted = counts]
  BY DEF CheckpointLoaded
<1>6. \A r \in Records : counts[r] = worker[w].read[r] + IF r \in ValidBatch(w) THEN 1 ELSE 0
  OBVIOUS
<1> HIDE DEF counts
<1>7. RowsOK' /\ OnlyRow(Of(w)) /\ RowsKeepStatus /\ job'[Of(w)].stage = "loaded"
      /\ job'[Of(w)].counted = counts
  BY <1>2, <1>4, <1>5, CheckpointWritten DEF Stages
<1> QED BY <1>1, <1>3, <1>6, <1>7 DEF CheckpointLoaded, Elsewhere

LEMMA CompleteEffect ==
  ASSUME Sound, NEW w \in Workers, Complete(w)
  PROVE  /\ Alive(w) /\ worker[w].pc = "complete"
         /\ \/ /\ Row(w).status = "RUNNING" /\ Leaves(w) /\ UNCHANGED Elsewhere
               /\ job'[Of(w)].control = Row(w).control /\ job'[Of(w)].status = "COMPLETED"
            \/ HandleException(w)
<1>1. Alive(w) /\ worker[w].pc = "complete" BY DEF Complete, At
<1>2. WorkersOK /\ RowsOK /\ Of(w) \in Jobs /\ Row(w).status \in Statuses BY <1>1, WorkerFacts
<1>3. CASE CanTransition(Row(w).status, "COMPLETED")
  <2>1. Row(w).status = "RUNNING" BY <1>2, <1>3 DEF CanTransition, AllowedTransitions, Statuses
  <2>2. WorkersOK' /\ OnlyWorker(w) /\ ~Alive(w)' BY <1>2, <1>3, WorkerEnds DEF Complete
  <2> QED BY <1>1, <1>2, <1>3, <2>1, <2>2, StatusWritten DEF Complete, Leaves, Elsewhere, Statuses, Row
<1> QED BY <1>1, <1>3 DEF Complete

-----------------------------------------------------------------------------
(***************************************************************************)
(* The retry policy.                                                       *)
(***************************************************************************)

\* One more back-off, and no more than a number of them.
LEMMA Products ==
  ASSUME NEW m \in Nat, NEW n \in Nat, NEW b \in Nat, m <= n
  PROVE  m * b \in Nat /\ (m + 1) * b = m * b + b /\ m * b <= n * b
<1>1. m * b \in Nat /\ (n - m) * b \in Nat /\ n - m \in Nat OBVIOUS
<1>2. n * b = m * b + (n - m) * b OBVIOUS
<1>3. (m + 1) * b = m * b + b OBVIOUS
<1> QED BY <1>1, <1>2, <1>3

LEMMA SleepsAreBounded ==
  \A n : \A t \in Backoff(n) : t \in Nat /\ t <= BackoffMax
BY RetryAssumption DEF Backoff

LEMMA FreshCallKept == FreshCall \in Calls /\ CallInv(FreshCall)
<1>1. 0 * BackoffMax = 0 BY RetryAssumption
<1> QED BY <1>1, RetryAssumption DEF FreshCall, Calls, CallInv

\* A call that goes on after an unsuccessful attempt is within its bounds.
LEMMA RetriedKept ==
  ASSUME NEW call \in Calls, NEW reply \in AuthorizedReplies, NEW next \in Retried(call, reply)
  PROVE  next \in Calls /\ (CallInv(call) => CallInv(next))
<1>1. CASE reply = "limited"
  <2>1. PICK wait \in Waits(call) : ~Outwaited(call, wait) /\ next = WaitOut(call, wait)
    BY <1>1 DEF Retried
  <2>2. wait \in Nat BY <2>1, RetryAssumption, SleepsAreBounded DEF Waits
  <2>0. call.limits + 1 \in Nat /\ call.waited + wait \in Nat /\ call.slept + wait \in Nat
    BY <2>2 DEF Calls
  <2>3. /\ next.failures = call.failures /\ next.limits = call.limits + 1
        /\ next.waited = call.waited + wait /\ next.slept = call.slept + wait
        /\ next \in Calls
    <3> DEFINE a == call.limits + 1
               b == call.waited + wait
               c == call.slept + wait
               r == [call EXCEPT !.limits = a, !.waited = b, !.slept = c]
    <3>1. a \in Nat /\ b \in Nat /\ c \in Nat BY <2>0
    <3>2. next = r BY <2>1 DEF WaitOut
    <3> HIDE DEF a, b, c
    <3>3. r \in Calls /\ r.failures = call.failures /\ r.limits = a /\ r.waited = b /\ r.slept = c
      BY <3>1 DEF Calls
    <3> QED BY <3>2, <3>3 DEF a, b, c
  <2>4. next.waited <= TotalWait /\ next.limits <= MaxRetries
    BY <2>1, <2>2, <2>3, RetryAssumption DEF Outwaited, Calls
  <2>5. call.failures * BackoffMax \in Nat BY RetryAssumption, Products DEF Calls
  <2> QED BY <2>2, <2>3, <2>4, <2>5, RetryAssumption DEF CallInv, Calls
<1>2. CASE reply # "limited"
  <2>1. PICK sleep \in Backoff(call.failures + 1) :
          ~Exhausted(call) /\ next = BackOff(call, sleep)
    BY <1>2 DEF Retried
  <2>2. sleep \in Nat /\ sleep <= BackoffMax BY <2>1, SleepsAreBounded
  <2>3. /\ next.failures = call.failures + 1 /\ next.limits = call.limits
        /\ next.waited = call.waited /\ next.slept = call.slept + sleep
        /\ next \in Calls
    <3> DEFINE a == call.failures + 1
               c == call.slept + sleep
               r == [call EXCEPT !.failures = a, !.slept = c]
    <3>1. a \in Nat /\ c \in Nat BY <2>2 DEF Calls
    <3>2. next = r BY <2>1 DEF BackOff
    <3> HIDE DEF a, c
    <3>3. r \in Calls /\ r.failures = a /\ r.limits = call.limits /\ r.waited = call.waited
          /\ r.slept = c
      BY <3>1 DEF Calls
    <3> QED BY <3>2, <3>3 DEF a, c
  <2>4. /\ call.failures \in Nat /\ call.failures * BackoffMax \in Nat
        /\ (call.failures + 1) * BackoffMax = call.failures * BackoffMax + BackoffMax
    BY RetryAssumption, Products DEF Calls
  <2>5. next.failures < MaxAttempts BY <2>1, <2>3, RetryAssumption DEF Exhausted, Calls
  <2> QED BY <2>2, <2>3, <2>4, <2>5, RetryAssumption DEF CallInv, Calls
<1> QED BY <1>1, <1>2

\* The bounds of a call are those of the policy.
LEMMA BoundsAreBudget ==
  ASSUME NEW call \in Calls, CallInv(call)
  PROVE  WithinBudget(call)
<1>1. call.failures \in Nat /\ MaxAttempts - 1 \in Nat /\ call.failures <= MaxAttempts - 1
  BY RetryAssumption DEF CallInv, Calls
<1>2. /\ call.failures * BackoffMax \in Nat /\ (MaxAttempts - 1) * BackoffMax \in Nat
      /\ call.failures * BackoffMax <= (MaxAttempts - 1) * BackoffMax
  BY <1>1, RetryAssumption, Products
<1> QED BY <1>2, RetryAssumption DEF CallInv, WithinBudget, LongestSleep, Calls

LEMMA RetryEffect ==
  ASSUME Sound, NEW w \in Workers, RetryCall(w)
  PROVE  /\ Alive(w) /\ worker[w].pc \in CallSteps /\ UNCHANGED job /\ UNCHANGED Elsewhere
         /\ \E call \in Calls :
              /\ CallInv(worker[w].call) => CallInv(call)
              /\ Becomes(w, worker[w].pc, worker[w].seen, worker[w].read, worker[w].then,
                         worker[w].batch, call)
<1>1. Alive(w) /\ worker[w].pc \in CallSteps BY DEF RetryCall, At
<1>2. WorkersOK /\ worker[w] \in WorkerRecords BY <1>1, WorkerFacts
<1>3. PICK reply \in AuthorizedReplies : \E call \in Retried(worker[w].call, reply) :
        worker' = [worker EXCEPT ![w].call = call]
  BY DEF RetryCall
<1>4. PICK call \in Retried(worker[w].call, reply) : worker' = [worker EXCEPT ![w].call = call]
  BY <1>3
<1>5. worker[w].call \in Calls BY <1>2 DEF WorkerRecords
<1>6. call \in Calls /\ (CallInv(worker[w].call) => CallInv(call)) BY <1>5, RetriedKept
<1> DEFINE r == [worker[w] EXCEPT !.call = call]
<1>7. r \in WorkerRecords /\ r.pc = worker[w].pc /\ r.job = worker[w].job /\ r.seen = worker[w].seen
      /\ r.read = worker[w].read /\ r.then = worker[w].then /\ r.batch = worker[w].batch
      /\ r.call = call
  BY <1>2, <1>6 DEF WorkerRecords
<1>8. worker' = [worker EXCEPT ![w] = r] BY <1>4
<1> HIDE DEF r
<1>9. Becomes(w, worker[w].pc, worker[w].seen, worker[w].read, worker[w].then,
              worker[w].batch, call)
  BY <1>1, <1>2, <1>7, <1>8, WorkerAssigned
<1> QED BY <1>1, <1>6, <1>9 DEF RetryCall, Elsewhere

-----------------------------------------------------------------------------
(***************************************************************************)
(* What the steps of requests, of the sweep and of the process leave.      *)
(***************************************************************************)

\* Worker w is launched for job j.
Launched(w, j) ==
  /\ WorkersOK' /\ OnlyWorker(w) /\ ~Alive(w) /\ Alive(w)'
  /\ worker'[w].pc = "load" /\ worker'[w].job = j /\ worker'[w].seen = "PENDING"
  /\ worker'[w].read = NoRow.counted /\ worker'[w].then = "auth" /\ worker'[w].call = FreshCall

\* Job j is taken up: it is contested if a worker has it already.
Taken(j) ==
  /\ contested' \in SUBSET Jobs /\ contested \subseteq contested'
  /\ contested' \subseteq contested \cup {j}
  /\ j \notin contested' => \A v \in Workers : Alive(v) => Of(v) # j

Recounts(j) ==
  /\ recounted' \in SUBSET Jobs /\ recounted \subseteq recounted'
  /\ job[j].stage = "loaded" => j \in recounted'

LEMMA ContendsTakes ==
  ASSUME HistoryOK, NEW j \in Jobs, Contends(j) PROVE Taken(j)
BY DEF HistoryOK, Contends, Taken

LEMMA LaunchEffect ==
  ASSUME Sound, NEW w \in Workers, NEW j \in Jobs, Launch(w, j)
  PROVE  Launched(w, j) /\ Taken(j) /\ Recounts(j)
<1> DEFINE r == [pc |-> "load", job |-> j, seen |-> "PENDING", read |-> NoRow.counted,
                 then |-> "auth", batch |-> {}, call |-> FreshCall]
<1>1. WorkersOK /\ HistoryOK BY TypeParts DEF Sound
<1>2. NoRow.counted \in Counts BY DEF NoRow, Counts
<1>3. r \in WorkerRecords
  BY <1>2, FreshCallKept DEF WorkerRecords, Steps, CallSteps, Statuses
<1>4. /\ r.pc = "load" /\ r.job = j /\ r.seen = "PENDING" /\ r.read = NoRow.counted
      /\ r.then = "auth" /\ r.call = FreshCall
  OBVIOUS
<1>5. worker' = [worker EXCEPT ![w] = r] BY DEF Launch
<1> HIDE DEF r
<1>6. WorkersOK' /\ OnlyWorker(w) /\ worker'[w] = r /\ Alive(w)' BY <1>1, <1>3, <1>5, WorkerBecomes
<1>7. Taken(j) BY <1>1, ContendsTakes DEF Launch
<1>8. Recounts(j) BY <1>1 DEF Launch, Recounts, HistoryOK
<1> QED BY <1>4, <1>6, <1>7, <1>8 DEF Launch, Launched

\* A request writes the control column of row j, and nothing else of the row.
Signalled(j, control) ==
  /\ RowsOK' /\ OnlyRow(j) /\ KeepsCheckpoint(j)
  /\ job'[j].control = control /\ job'[j].status = job[j].status /\ job'[j].owned = job[j].owned

\* It decides on a status for row j.
Decided(c, j, target) ==
  /\ RequestsOK' /\ request'[c] # NoRequest
  /\ request'[c].job = j /\ request'[c].target = target
  /\ \A d \in Clients : d # c => request'[d] = request[d]

LEMMA SignalEffect ==
  ASSUME Sound, NEW j \in Jobs, NEW control \in Controls, Signals(j, control)
  PROVE  Signalled(j, control)
BY TypeParts, ControlWritten DEF Sound, Signals, Signalled

LEMMA DecideEffect ==
  ASSUME Sound, NEW c \in Clients, NEW j \in Jobs, NEW target \in {"RUNNING", "CANCELLED"},
         Decides(c, j, target)
  PROVE  Decided(c, j, target)
<1> DEFINE q == [target |-> target, job |-> j]
<1>1. q \in [target : {"RUNNING", "CANCELLED"}, job : Jobs] /\ q.target = target /\ q.job = j
  OBVIOUS
<1>2. RequestsOK BY TypeParts DEF Sound
<1>3. q # NoRequest BY DEF NoRequest
<1>4. request' = [request EXCEPT ![c] = q] BY DEF Decides
<1> HIDE DEF q
<1> QED BY <1>1, <1>2, <1>3, <1>4 DEF RequestsOK, Decided

\* The history but for the requests that were made.
Past == <<since, contested, recounted, cancelled, overwritten>>

LEMMA SpentOne ==
  ASSUME HistoryOK, NEW c \in Clients, Free(c), UNCHANGED Past
  PROVE  HistoryOK'
BY DEF HistoryOK, Free, Past

LEMMA PauseEffect ==
  ASSUME Sound, NEW c \in Clients, NEW j \in Jobs, RequestPause(c, j)
  PROVE  /\ job[j].status = "RUNNING" /\ Signalled(j, "pause") /\ HistoryOK'
         /\ UNCHANGED <<worker, request, up, stores, Past>>
<1>1. HistoryOK BY TypeParts DEF Sound
<1>2. UNCHANGED <<worker, request, up, stores, Past>> /\ Free(c) BY DEF RequestPause, Past
<1> QED BY <1>1, <1>2, SpentOne, SignalEffect DEF RequestPause, Controls, Past

LEMMA ResumeEffect ==
  ASSUME Sound, NEW c \in Clients, NEW j \in Jobs, RequestResume(c, j)
  PROVE  /\ job[j].status \in {"PAUSED", "FAILED"} /\ Signalled(j, "none") /\ HistoryOK'
         /\ Decided(c, j, "RUNNING") /\ UNCHANGED <<worker, up, stores, Past>>
<1>1. HistoryOK BY TypeParts DEF Sound
<1>2. UNCHANGED <<worker, up, stores, Past>> /\ Free(c) BY DEF RequestResume, Past
<1> QED BY <1>1, <1>2, SpentOne, SignalEffect, DecideEffect DEF RequestResume, Controls, Past

LEMMA CancelEffect ==
  ASSUME Sound, NEW c \in Clients, NEW j \in Jobs, RequestCancel(c, j)
  PROVE  /\ Exists(j) /\ Signalled(j, "cancel") /\ HistoryOK'
         /\ Decided(c, j, "CANCELLED") \/ UNCHANGED request
         /\ UNCHANGED <<worker, up, stores, Past>>
<1>1. HistoryOK BY TypeParts DEF Sound
<1>2. UNCHANGED <<worker, up, stores, Past>> /\ Free(c) BY DEF RequestCancel, Past
<1> QED BY <1>1, <1>2, SpentOne, SignalEffect, DecideEffect DEF RequestCancel, Controls, Past

LEMMA RespondEffect ==
  ASSUME Sound, NEW c \in Clients, Respond(c)
  PROVE  \E j \in Jobs :
           /\ request[c] # NoRequest /\ request[c].job = j
           /\ RowsOK' /\ OnlyRow(j) /\ KeepsCheckpoint(j) /\ job'[j].status = request[c].target
           /\ job'[j].control = job[j].control /\ job'[j].owned = job[j].owned
           /\ RequestsOK' /\ request'[c] = NoRequest
           /\ \A d \in Clients : d # c => request'[d] = request[d]
           /\ HistoryOK' /\ UNCHANGED <<up, stores, since, overwritten, spent>>
           /\ \/ /\ request[c].target = "RUNNING" /\ cancelled' = cancelled \ {j}
                 /\ Taken(j) /\ Recounts(j)
                 /\ \E w \in Workers : Launched(w, j)
              \/ /\ request[c].target = "CANCELLED" /\ cancelled' = cancelled \cup {j}
                 /\ UNCHANGED <<worker, contested, recounted>>
<1> DEFINE j == request[c].job
           target == request[c].target
<1>1. RowsOK /\ RequestsOK /\ HistoryOK BY TypeParts DEF Sound
<1>2. request[c] # NoRequest BY DEF Respond
<1>3. j \in Jobs /\ target \in {"RUNNING", "CANCELLED"} BY <1>1, <1>2 DEF RequestsOK
<1>4. /\ WriteStatus(j, target) /\ request' = [request EXCEPT ![c] = NoRequest]
      /\ UNCHANGED <<up, stores, since, overwritten, spent>>
  BY DEF Respond
<1>5. /\ RowsOK' /\ OnlyRow(j) /\ KeepsCheckpoint(j) /\ job'[j].status = target
      /\ job'[j].control = job[j].control /\ job'[j].owned = job[j].owned
  BY <1>1, <1>3, <1>4, StatusWritten DEF Statuses
<1>6. RequestsOK' /\ request'[c] = NoRequest /\ \A d \in Clients : d # c => request'[d] = request[d]
  BY <1>1, <1>4 DEF RequestsOK
<1>7. CASE /\ target = "RUNNING" /\ \E w \in Workers : Launch(w, j)
           /\ cancelled' = cancelled \ {j}
  <2>1. PICK w \in Workers : Launch(w, j) BY <1>7
  <2>2. Launched(w, j) /\ Taken(j) /\ Recounts(j) BY <1>3, <2>1, LaunchEffect
  <2>3. HistoryOK' BY <1>1, <1>4, <1>7, <2>2 DEF HistoryOK, Taken, Recounts
  <2> QED BY <1>2, <1>3, <1>4, <1>5, <1>6, <1>7, <2>2, <2>3
<1>8. CASE /\ target = "CANCELLED" /\ cancelled' = cancelled \cup {j}
           /\ UNCHANGED <<worker, contested, recounted>>
  <2>1. HistoryOK' BY <1>1, <1>3, <1>4, <1>8 DEF HistoryOK
  <2> QED BY <1>2, <1>3, <1>4, <1>5, <1>6, <1>8, <2>1
<1> QED BY <1>7, <1>8 DEF Respond

LEMMA StartEffect ==
  ASSUME Sound, NEW j \in Jobs, Start(j)
  PROVE  /\ ~Exists(j)
         /\ RowsOK' /\ OnlyRow(j) /\ KeepsCheckpoint(j) /\ job'[j].status = "PENDING"
         /\ job'[j].control = job[j].control /\ job'[j].owned = job[j].owned
         /\ HistoryOK' /\ since'[j] = source
         /\ \A i \in Jobs : i # j => since'[i] = since[i]
         /\ Taken(j) /\ Recounts(j) /\ \E w \in Workers : Launched(w, j)
         /\ UNCHANGED <<request, up, stores, cancelled, overwritten, spent>>
<1>1. RowsOK /\ HistoryOK /\ StoresOK BY TypeParts DEF Sound
<1>2. PICK w \in Workers : Launch(w, j) BY DEF Start
<1>3. Launched(w, j) /\ Taken(j) /\ Recounts(j) BY <1>2, LaunchEffect
<1>4. WriteStatus(j, "PENDING") BY DEF Start, WriteStatus
<1>5. /\ RowsOK' /\ OnlyRow(j) /\ KeepsCheckpoint(j) /\ job'[j].status = "PENDING"
      /\ job'[j].control = job[j].control /\ job'[j].owned = job[j].owned
  BY <1>1, <1>4, StatusWritten DEF Statuses
<1>6. since' \in [Jobs -> SUBSET Records] /\ since'[j] = source
      /\ \A i \in Jobs : i # j => since'[i] = since[i]
  BY <1>1 DEF Start, HistoryOK, StoresOK
<1>7. HistoryOK' BY <1>1, <1>3, <1>6 DEF Start, HistoryOK, Taken, Recounts
<1> QED BY <1>3, <1>5, <1>6, <1>7 DEF Start

LEMMA RecoverEffect ==
  ASSUME Sound, NEW j \in Jobs, Recover(j)
  PROVE  /\ Orphaned(j) /\ Taken(j) /\ HistoryOK'
         /\ RowsOK' /\ OnlyRow(j) /\ KeepsCheckpoint(j) /\ job'[j].owned
         /\ \/ /\ job'[j].status \in {"CANCELLED", "PAUSED"} /\ job'[j].control = "none"
               /\ UNCHANGED worker
            \/ /\ job[j].status = "RUNNING" => job[j].control = "none"
               /\ job'[j].status = job[j].status /\ job'[j].control = job[j].control
               /\ Recounts(j) /\ \E w \in Workers : Launched(w, j)
         /\ UNCHANGED <<request, up, stores, since, cancelled, overwritten, spent>>
<1>1. RowsOK /\ HistoryOK BY TypeParts DEF Sound
<1>2. Orphaned(j) /\ UNCHANGED <<request, up, stores, since, cancelled, overwritten, spent>>
  BY DEF Recover
<1>3. CASE /\ job' = [job EXCEPT ![j].owned = TRUE, ![j].status = "CANCELLED", ![j].control = "none"]
           /\ Contends(j) /\ UNCHANGED <<worker, recounted>>
  <2>1. Taken(j) BY <1>1, <1>3, ContendsTakes
  <2>2. HistoryOK' BY <1>1, <1>2, <1>3, <2>1 DEF HistoryOK, Taken
  <2> QED BY <1>1, <1>2, <1>3, <2>1, <2>2, Honoured DEF Statuses
<1>4. CASE /\ job' = [job EXCEPT ![j].owned = TRUE, ![j].status = "PAUSED", ![j].control = "none"]
           /\ Contends(j) /\ UNCHANGED <<worker, recounted>>
  <2>1. Taken(j) BY <1>1, <1>4, ContendsTakes
  <2>2. HistoryOK' BY <1>1, <1>2, <1>4, <2>1 DEF HistoryOK, Taken
  <2> QED BY <1>1, <1>2, <1>4, <2>1, <2>2, Honoured DEF Statuses
<1>5. CASE /\ job[j].control = "none" \/ (job[j].control = "pause" /\ job[j].status = "PENDING")
           /\ job' = [job EXCEPT ![j].owned = TRUE]
           /\ \E w \in Workers : Launch(w, j)
  <2>1. PICK w \in Workers : Launch(w, j) BY <1>5
  <2>2. Launched(w, j) /\ Taken(j) /\ Recounts(j) BY <2>1, LaunchEffect
  <2>3. HistoryOK' BY <1>1, <1>2, <2>2 DEF HistoryOK, Taken, Recounts
  <2>4. job[j].status = "RUNNING" => job[j].control = "none" BY <1>5
  <2>5. /\ RowsOK' /\ OnlyRow(j) /\ KeepsCheckpoint(j) /\ job'[j].owned
        /\ job'[j].status = job[j].status /\ job'[j].control = job[j].control
    BY <1>1, <1>5, OwnerWritten
  <2> QED BY <1>2, <2>2, <2>3, <2>4, <2>5
<1> QED BY <1>3, <1>4, <1>5 DEF Recover

LEMMA CrashEffect ==
  ASSUME Sound, Crash
  PROVE  /\ WorkersOK' /\ \A w \in Workers : ~Alive(w)'
         /\ RequestsOK' /\ \A c \in Clients : request'[c] = NoRequest
         /\ RowsOK' /\ HistoryOK' /\ UNCHANGED <<stores, Past>> /\ ~up'
         /\ \A j \in Jobs : /\ job'[j].status = job[j].status /\ job'[j].control = job[j].control
                            /\ KeepsCheckpoint(j) /\ ~job'[j].owned
<1>1. RowsOK /\ HistoryOK BY TypeParts DEF Sound
<1>2. WorkersOK' /\ \A w \in Workers : ~Alive(w)' BY DEF Crash, WorkersOK, WorkerStates, Alive
<1>3. RequestsOK' /\ \A c \in Clients : request'[c] = NoRequest BY DEF Crash, RequestsOK
<1>4. HistoryOK' BY <1>1 DEF Crash, HistoryOK
<1>5. job' = [j \in Jobs |-> [job[j] EXCEPT !.owned = FALSE]] BY DEF Crash
<1>6. \A j \in Jobs : /\ job'[j] \in Rows
                      /\ job'[j].status = job[j].status /\ job'[j].control = job[j].control
                      /\ KeepsCheckpoint(j) /\ ~job'[j].owned
  BY <1>1, <1>5 DEF RowsOK, Rows, KeepsCheckpoint
<1>7. RowsOK' BY <1>5, <1>6 DEF RowsOK
<1> QED BY <1>2, <1>3, <1>4, <1>6, <1>7 DEF Crash, Past

-----------------------------------------------------------------------------
(***************************************************************************)
(* Type correctness.                                                       *)
(***************************************************************************)

\* A step of worker w writes its own record and its own job's row, and none of
\* the history that decides what the properties ask.
Framed(w) ==
  /\ Alive(w) /\ WorkersOK' /\ OnlyWorker(w)
  /\ Alive(w)' => /\ worker'[w].job = worker[w].job
                  /\ worker'[w].then \in {"auth", "poll", "results", "sink"}
  /\ RowsOK' /\ OnlyRow(Of(w)) /\ job'[Of(w)].status \in Statuses /\ StoresOK'
  /\ overwritten' \in SUBSET Jobs /\ overwritten \subseteq overwritten'
  /\ UNCHANGED <<request, up, source, since, contested, recounted, cancelled, spent>>

LEMMA BoundaryFramed ==
  ASSUME Sound, NEW w \in Workers, Alive(w), HandleException(w)
  PROVE  Framed(w)
<1>1. StoresOK /\ HistoryOK BY TypeParts DEF Sound
<1>2. /\ Leaves(w) /\ UNCHANGED Elsewhere /\ job'[Of(w)].status \in Statuses
  BY BoundaryEffect, WorkerFacts DEF Statuses
<1> QED BY <1>1, <1>2 DEF Framed, Leaves, Elsewhere, stores, history, StoresOK, HistoryOK

LEMMA StepFramed ==
  ASSUME Sound, NEW w \in Workers, Step(w)
  PROVE  Framed(w)
<1>1. StoresOK /\ HistoryOK /\ RowsOK BY TypeParts DEF Sound
<1>2. Alive(w) => /\ worker[w].then \in {"auth", "poll", "results", "sink"}
                  /\ Of(w) \in Jobs /\ Row(w).status \in Statuses
  BY WorkerFacts
<1>h. ASSUME Alive(w), HandleException(w) PROVE Framed(w) BY <1>h, BoundaryFramed
<1>u. UNCHANGED Elsewhere =>
        /\ StoresOK' /\ overwritten' \in SUBSET Jobs /\ overwritten \subseteq overwritten'
        /\ UNCHANGED <<request, up, source, since, contested, recounted, cancelled, spent>>
  BY <1>1 DEF Elsewhere, stores, history, StoresOK, HistoryOK
<1>j. UNCHANGED job => RowsOK' /\ OnlyRow(Of(w)) /\ job'[Of(w)].status = Row(w).status
  BY <1>1 DEF RowsOK, OnlyRow, Row
<1>k. RowsKeepStatus /\ Of(w) \in Jobs => job'[Of(w)].status = Row(w).status
  BY DEF RowsKeepStatus, Row
<1>3. ASSUME Load(w) PROVE Framed(w)
  BY <1>3, <1>2, <1>j, <1>u, LoadEffect DEF Framed, Becomes, Leaves
<1>4. ASSUME Claim(w) PROVE Framed(w)
  BY <1>4, <1>2, <1>u, ClaimEffect DEF Framed, Becomes, Leaves
<1>5. ASSUME CheckStop(w) PROVE Framed(w)
  BY <1>5, <1>2, <1>j, <1>u, CheckEffect DEF Framed, Becomes, Leaves
<1>6. ASSUME Authenticate(w) PROVE Framed(w)
  BY <1>6, <1>2, <1>j, <1>u, AuthenticateEffect DEF Framed, Becomes, Leaves
<1>7. ASSUME CreateBulkJob(w) PROVE Framed(w)
  BY <1>7, <1>2, <1>k, <1>u, CreateEffect DEF Framed, Becomes, Leaves
<1>8. ASSUME Poll(w) PROVE Framed(w)
  BY <1>8, <1>2, <1>k, <1>u, PollEffect DEF Framed, Becomes, Leaves
<1>9. ASSUME GetResults(w) PROVE Framed(w)
  BY <1>9, <1>2, <1>j, <1>u, ResultsEffect DEF Framed, Becomes, Leaves
<1>10. ASSUME RetryCall(w) PROVE Framed(w)
  BY <1>10, <1>2, <1>j, <1>u, RetryEffect DEF Framed, Becomes, Leaves
<1>11. ASSUME CheckpointLoaded(w) PROVE Framed(w)
  BY <1>11, <1>2, <1>k, <1>u, LoadedEffect DEF Framed, Becomes, Leaves
<1>12. ASSUME ClearControl(w) PROVE Framed(w)
  BY <1>12, <1>2, <1>u, ClearEffect DEF Framed, Becomes, Leaves
<1>13. ASSUME Begin(w) PROVE Framed(w)
  BY <1>13, <1>2, <1>h, <1>j, <1>u, BeginEffect DEF Framed, Becomes, Statuses
<1>14. ASSUME Halt(w, "pause", "PAUSED") PROVE Framed(w)
  BY <1>14, <1>2, <1>h, <1>u, HaltEffect DEF Framed, Becomes, Statuses
<1>15. ASSUME Halt(w, "cancel", "CANCELLED") PROVE Framed(w)
  BY <1>15, <1>2, <1>h, <1>u, HaltEffect DEF Framed, Becomes, Statuses
<1>16. ASSUME Complete(w) PROVE Framed(w)
  BY <1>16, <1>2, <1>h, <1>u, CompleteEffect DEF Framed, Leaves, Statuses
<1>17. ASSUME CallRaises(w) \/ Fail(w) PROVE Framed(w)
  BY <1>17, <1>h DEF CallRaises, Fail, At
<1>18. ASSUME SendToDeadLetter(w) PROVE Framed(w)
  <2>1. StoresOK' BY <1>1, <1>18, LettersEffect DEF StoresOK
  <2> QED BY <1>18, <1>1, <1>2, <1>j, <2>1, LettersEffect DEF Framed, Becomes, history, HistoryOK
<1>19. ASSUME Land(w) PROVE Framed(w)
  <2>1. StoresOK' BY <1>1, <1>19, LandEffect DEF StoresOK
  <2> QED BY <1>19, <1>2, <1>k, <2>1, LandEffect DEF Framed, Becomes
<1>20. ASSUME LoadFromStorage(w) PROVE Framed(w)
  <2>1. StoresOK' BY <1>1, <1>20, SinkEffect DEF StoresOK
  <2> QED BY <1>20, <1>1, <1>2, <1>j, <2>1, SinkEffect DEF Framed, Becomes, history, HistoryOK
<1> QED BY <1>3, <1>4, <1>5, <1>6, <1>7, <1>8, <1>9, <1>10, <1>11, <1>12, <1>13, <1>14, <1>15, <1>16, <1>17, <1>18, <1>19, <1>20 DEF Step

LEMMA FramedSound ==
  ASSUME Sound, NEW w \in Workers, Framed(w)
  PROVE  Sound'
<1>1. RequestsOK /\ HistoryOK /\ up \in BOOLEAN /\ WorkersOK /\ RowsOK BY TypeParts DEF Sound
<1>2. TypeOK' BY <1>1, TypePartsNext DEF Framed, RequestsOK, HistoryOK
<1>3. Of(w) \in Jobs /\ WorkersOK BY <1>1, WorkerIsRecord DEF Framed
<1>4. \A j \in Jobs : Exists(j) => Exists(j)' BY DEF Framed, OnlyRow, Exists
<1>5. ASSUME NEW v \in Workers, Alive(v)'
      PROVE  Exists(Of(v))' /\ worker'[v].then \in {"auth", "poll", "results", "sink"}
  <2>1. CASE v = w BY <1>3, <1>5, <2>1 DEF Framed, Exists, Of
  <2>2. CASE v # w
    <3>1. worker'[v] = worker[v] /\ Alive(v) BY <1>5, <2>2 DEF Framed, OnlyWorker, Alive
    <3>2. Of(v) \in Jobs /\ Of(v)' = Of(v) BY <1>3, <3>1, WorkerIsRecord DEF Of
    <3>3. Exists(Of(v)) /\ worker[v].then \in {"auth", "poll", "results", "sink"}
      BY <3>1 DEF Sound, RowsExist
    <3> QED BY <1>4, <3>1, <3>2, <3>3 DEF Exists, Of
  <2> QED BY <2>1, <2>2
<1>6. \A c \in Clients : request'[c] # NoRequest => Exists(request[c].job)'
  BY <1>1, <1>4 DEF Framed, Sound, RowsExist, RequestsOK, Exists
<1>7. \A j \in cancelled' : Exists(j)'
  BY <1>1, <1>4 DEF Framed, Sound, RowsExist, HistoryOK
<1> QED BY <1>2, <1>5, <1>6, <1>7 DEF Sound, RowsExist, Framed

\* The row of every worker and request is still there when no row is emptied, and
\* a worker that was launched has one.
LEMMA LaunchSound ==
  ASSUME Sound, NEW j \in Jobs, job[j].status \in Statuses \/ ~Exists(j),
         OnlyRow(j), job'[j].status \in Statuses,
         (\E w \in Workers : Launched(w, j)) \/ UNCHANGED worker,
         \A c \in Clients : request'[c] # NoRequest =>
           request'[c] = request[c] \/ request'[c].job = j,
         \A i \in cancelled' : i \in Jobs /\ (i \in cancelled \/ i = j)
  PROVE  RowsExist'
<1>1. RequestsOK /\ WorkersOK BY TypeParts DEF Sound
<1>2. \A i \in Jobs : Exists(i) => job'[i].status \in Statuses BY DEF OnlyRow, Exists
<1>3. ASSUME NEW v \in Workers, Alive(v)'
      PROVE  Exists(Of(v))' /\ worker'[v].then \in {"auth", "poll", "results", "sink"}
  <2>1. CASE worker'[v] = worker[v]
    <3>1. Alive(v) BY <1>3, <2>1 DEF Alive
    <3>2. Of(v) \in Jobs /\ Of(v)' = Of(v) BY <1>1, <2>1, <3>1, WorkerIsRecord DEF Of
    <3>3. Exists(Of(v)) /\ worker[v].then \in {"auth", "poll", "results", "sink"}
      BY <3>1 DEF Sound, RowsExist
    <3> QED BY <1>2, <2>1, <3>2, <3>3 DEF Exists, Of
  <2>2. CASE worker'[v] # worker[v]
    <3>1. PICK w \in Workers : Launched(w, j) BY <2>2
    <3>2. v = w BY <2>2, <3>1 DEF Launched, OnlyWorker
    <3> QED BY <3>1, <3>2 DEF Launched, Exists, Of
  <2> QED BY <2>1, <2>2
<1>4. ASSUME NEW c \in Clients, request'[c] # NoRequest PROVE Exists(request[c].job)'
  <2>1. CASE request'[c] = request[c]
    <3>1. request[c].job \in Jobs /\ Exists(request[c].job)
      BY <1>1, <1>4, <2>1 DEF RequestsOK, Sound, RowsExist
    <3> QED BY <1>2, <2>1, <3>1 DEF Exists
  <2>2. CASE request'[c].job = j BY <2>2 DEF Exists
  <2> QED BY <1>4, <2>1, <2>2
<1>5. \A i \in cancelled' : Exists(i)' BY <1>2 DEF Sound, RowsExist, Exists
<1> QED BY <1>3, <1>4, <1>5 DEF RowsExist

LEMMA ServeSound ==
  ASSUME Sound, NEW c \in Clients, Serve(c)
  PROVE  Sound'
<1>1. /\ WorkersOK /\ RowsOK /\ RequestsOK /\ StoresOK /\ HistoryOK /\ up \in BOOLEAN
  BY TypeParts DEF Sound
<1>2. \A i \in cancelled : i \in Jobs BY <1>1 DEF HistoryOK
<1>s. UNCHANGED stores => StoresOK' BY <1>1 DEF stores, StoresOK
<1>r. UNCHANGED request => RequestsOK' BY <1>1 DEF RequestsOK
<1>w. UNCHANGED worker => WorkersOK' BY <1>1 DEF WorkersOK
<1>3. ASSUME NEW j \in Jobs, RequestPause(c, j) PROVE Sound'
  <2>1. /\ job[j].status = "RUNNING" /\ Signalled(j, "pause") /\ HistoryOK'
        /\ UNCHANGED <<worker, request, up, stores, Past>>
    BY <1>3, PauseEffect
  <2>2. TypeOK' BY <1>1, <1>s, <1>r, <1>w, <2>1, TypePartsNext DEF Signalled
  <2>3. RowsExist' BY <1>2, <2>1, LaunchSound DEF Signalled, Statuses, Past
  <2> QED BY <2>2, <2>3 DEF Sound
<1>4. ASSUME NEW j \in Jobs, RequestResume(c, j) PROVE Sound'
  <2>1. /\ job[j].status \in {"PAUSED", "FAILED"} /\ Signalled(j, "none") /\ HistoryOK'
        /\ Decided(c, j, "RUNNING") /\ UNCHANGED <<worker, up, stores, Past>>
    BY <1>4, ResumeEffect
  <2>2. TypeOK' BY <1>1, <1>s, <1>w, <2>1, TypePartsNext DEF Signalled, Decided
  <2>3. RowsExist' BY <1>2, <2>1, LaunchSound DEF Signalled, Decided, Statuses, Past
  <2> QED BY <2>2, <2>3 DEF Sound
<1>5. ASSUME NEW j \in Jobs, RequestCancel(c, j) PROVE Sound'
  <2>1. /\ Exists(j) /\ Signalled(j, "cancel") /\ HistoryOK'
        /\ Decided(c, j, "CANCELLED") \/ UNCHANGED request
        /\ UNCHANGED <<worker, up, stores, Past>>
    BY <1>5, CancelEffect
  <2>2. TypeOK' BY <1>1, <1>s, <1>r, <1>w, <2>1, TypePartsNext DEF Signalled, Decided
  <2>3. \A d \in Clients : request'[d] # NoRequest =>
           request'[d] = request[d] \/ request'[d].job = j
    BY <2>1 DEF Decided
  <2>4. RowsExist' BY <1>2, <2>1, <2>3, LaunchSound DEF Signalled, Exists, Past
  <2> QED BY <2>2, <2>4 DEF Sound
<1>6. ASSUME Respond(c) PROVE Sound'
  <2>1. PICK j \in Jobs :
           /\ request[c] # NoRequest /\ request[c].job = j
           /\ RowsOK' /\ OnlyRow(j) /\ KeepsCheckpoint(j) /\ job'[j].status = request[c].target
           /\ RequestsOK' /\ request'[c] = NoRequest
           /\ \A d \in Clients : d # c => request'[d] = request[d]
           /\ HistoryOK' /\ UNCHANGED <<up, stores, since, overwritten, spent>>
           /\ \/ /\ request[c].target = "RUNNING" /\ cancelled' = cancelled \ {j}
                 /\ \E w \in Workers : Launched(w, j)
              \/ /\ request[c].target = "CANCELLED" /\ cancelled' = cancelled \cup {j}
                 /\ UNCHANGED <<worker, contested, recounted>>
    BY <1>6, RespondEffect
  <2>2. WorkersOK' BY <1>w, <2>1 DEF Launched
  <2>3. TypeOK' BY <1>1, <1>s, <2>1, <2>2, TypePartsNext
  <2>4. job'[j].status \in Statuses BY <2>1 DEF Statuses
  <2>5. \A i \in cancelled' : i \in Jobs /\ (i \in cancelled \/ i = j) BY <1>2, <2>1
  <2>6. job[j].status \in Statuses \/ ~Exists(j) BY DEF Exists
  <2>7. (\E w \in Workers : Launched(w, j)) \/ UNCHANGED worker BY <2>1
  <2>8. \A d \in Clients : request'[d] # NoRequest =>
           request'[d] = request[d] \/ request'[d].job = j
    BY <2>1
  <2>9. RowsExist' BY <2>1, <2>4, <2>5, <2>6, <2>7, <2>8, LaunchSound
  <2> QED BY <2>3, <2>9 DEF Sound
<1> QED BY <1>3, <1>4, <1>5, <1>6 DEF Serve

LEMMA ProcessSound ==
  ASSUME Sound,
         (\E j \in Jobs : Start(j) \/ Recover(j)) \/ Crash \/ Restart
           \/ (\E r \in Records : SourceGrows(r))
  PROVE  Sound'
<1>1. /\ WorkersOK /\ RowsOK /\ RequestsOK /\ StoresOK /\ HistoryOK /\ up \in BOOLEAN
  BY TypeParts DEF Sound
<1>2. \A i \in cancelled : i \in Jobs BY <1>1 DEF HistoryOK
<1>s. UNCHANGED stores => StoresOK' BY <1>1 DEF stores, StoresOK
<1>r. UNCHANGED request => RequestsOK' BY <1>1 DEF RequestsOK
<1>w. UNCHANGED worker => WorkersOK' BY <1>1 DEF WorkersOK
<1>3. ASSUME NEW j \in Jobs, Start(j) PROVE Sound'
  <2>1. /\ ~Exists(j) /\ RowsOK' /\ OnlyRow(j) /\ job'[j].status = "PENDING" /\ HistoryOK'
        /\ \E w \in Workers : Launched(w, j)
        /\ UNCHANGED <<request, up, stores, cancelled, overwritten, spent>>
    BY <1>3, StartEffect
  <2>2. WorkersOK' BY <2>1 DEF Launched
  <2>3. TypeOK' BY <1>1, <1>s, <1>r, <2>1, <2>2, TypePartsNext
  <2>4. RowsExist' BY <1>2, <2>1, LaunchSound DEF Statuses
  <2> QED BY <2>3, <2>4 DEF Sound
<1>4. ASSUME NEW j \in Jobs, Recover(j) PROVE Sound'
  <2>1. /\ Orphaned(j) /\ HistoryOK' /\ RowsOK' /\ OnlyRow(j)
        /\ \/ /\ job'[j].status \in {"CANCELLED", "PAUSED"} /\ UNCHANGED worker
           \/ /\ job'[j].status = job[j].status /\ \E w \in Workers : Launched(w, j)
        /\ UNCHANGED <<request, up, stores, since, cancelled, overwritten, spent>>
    BY <1>4, RecoverEffect
  <2>2. WorkersOK' BY <1>w, <2>1 DEF Launched
  <2>3. TypeOK' BY <1>1, <1>s, <1>r, <2>1, <2>2, TypePartsNext
  <2>4. job[j].status \in Statuses /\ job'[j].status \in Statuses BY <2>1 DEF Orphaned, Statuses
  <2>5. RowsExist' BY <1>2, <2>1, <2>4, LaunchSound
  <2> QED BY <2>3, <2>5 DEF Sound
<1>5. ASSUME Crash PROVE Sound'
  <2>1. /\ WorkersOK' /\ \A w \in Workers : ~Alive(w)'
        /\ RequestsOK' /\ \A c \in Clients : request'[c] = NoRequest
        /\ RowsOK' /\ HistoryOK' /\ UNCHANGED <<stores, Past>> /\ ~up'
        /\ \A j \in Jobs : job'[j].status = job[j].status
    BY <1>5, CrashEffect
  <2>2. up' \in BOOLEAN BY <1>5 DEF Crash
  <2>3. TypeOK' BY <1>s, <2>1, <2>2, TypePartsNext
  <2>4. RowsExist' BY <1>2, <2>1 DEF Sound, RowsExist, Exists, Past
  <2> QED BY <2>3, <2>4 DEF Sound
<1>6. ASSUME Restart PROVE Sound'
  <2>1. UNCHANGED <<job, worker, request, stores, history>> /\ up' \in BOOLEAN
    BY <1>6 DEF Restart
  <2>2. TypeOK' BY <1>1, <1>s, <1>r, <1>w, <2>1, TypePartsNext DEF RowsOK, HistoryOK, history
  <2>3. RowsExist' BY <2>1 DEF Sound, RowsExist, Exists, Alive, Of, history
  <2> QED BY <2>2, <2>3 DEF Sound
<1>7. ASSUME NEW r \in Records, SourceGrows(r) PROVE Sound'
  <2>1. UNCHANGED <<job, worker, request, up, file, table, letters, history>>
        /\ source' \in SUBSET Records
    BY <1>1, <1>7 DEF SourceGrows, StoresOK
  <2>2. StoresOK' BY <1>1, <2>1 DEF StoresOK
  <2>3. TypeOK' BY <1>1, <1>r, <1>w, <2>1, <2>2, TypePartsNext DEF RowsOK, HistoryOK, history
  <2>4. RowsExist' BY <2>1 DEF Sound, RowsExist, Exists, Alive, Of, history
  <2> QED BY <2>3, <2>4 DEF Sound
<1> QED BY <1>3, <1>4, <1>5, <1>6, <1>7

LEMMA SoundInit == Init => Sound
<1> SUFFICES ASSUME Init PROVE Sound
  OBVIOUS
<1>1. WorkersOK /\ RequestsOK BY DEF Init, WorkersOK, WorkerStates, RequestsOK
<1>2. NoRow \in Rows BY DEF NoRow, Rows, Controls, Stages, Counts
<1>3. RowsOK BY <1>2 DEF Init, RowsOK
<1>4. StoresOK /\ HistoryOK /\ up \in BOOLEAN BY RecordsAssumption DEF Init, StoresOK, HistoryOK
<1>5. RowsExist BY DEF Init, RowsExist, Alive
<1> QED BY <1>1, <1>3, <1>4, <1>5, TypeParts DEF Sound

LEMMA SoundStutter == Sound /\ UNCHANGED vars => Sound'
<1> SUFFICES ASSUME Sound, UNCHANGED vars PROVE Sound'
  OBVIOUS
<1>1. TypeOK' BY DEF vars, Sound, TypeOK
<1>2. RowsExist' BY DEF vars, Sound, RowsExist, Alive, Of, Exists
<1> QED BY <1>1, <1>2 DEF Sound

LEMMA SoundNext == Sound /\ [Next]_vars => Sound'
<1> SUFFICES ASSUME Sound, [Next]_vars PROVE Sound'
  OBVIOUS
<1>1. ASSUME NEW w \in Workers, Step(w) PROVE Sound' BY <1>1, StepFramed, FramedSound
<1> QED BY <1>1, ServeSound, ProcessSound, SoundStutter DEF Next

\* Every reachable state is well typed, and what a worker, a pending request or
\* an answered cancel is about is a row of the jobs table: no step of a run,
\* request, sweep or crash leaves a thread without its job.
THEOREM TypeCorrect == Spec => [](TypeOK /\ RowsExist)
<1>1. Spec => []Sound BY SoundInit, SoundNext, PTL DEF Spec
<1>2. Sound => TypeOK /\ RowsExist BY DEF Sound
<1> QED BY <1>1, <1>2, PTL

-----------------------------------------------------------------------------
(***************************************************************************)
(* Retries.                                                                *)
(***************************************************************************)

\* A worker's call stays within its bounds through any step of the worker.
LEMMA StepCall ==
  ASSUME Sound, NEW w \in Workers, Step(w), Alive(w)', CallInv(worker[w].call)
  PROVE  CallInv(worker'[w].call)
<1>h. ASSUME Alive(w), HandleException(w) PROVE FALSE
  BY <1>h, BoundaryEffect DEF Leaves
<1>1. ASSUME Load(w) PROVE CallInv(worker'[w].call) BY <1>1, LoadEffect DEF Becomes
<1>2. ASSUME Begin(w) PROVE CallInv(worker'[w].call) BY <1>2, <1>h, BeginEffect DEF Becomes
<1>3. ASSUME Claim(w) PROVE CallInv(worker'[w].call) BY <1>3, ClaimEffect DEF Becomes
<1>4. ASSUME CheckStop(w) PROVE CallInv(worker'[w].call) BY <1>4, CheckEffect DEF Becomes
<1>5. ASSUME Halt(w, "pause", "PAUSED") \/ Halt(w, "cancel", "CANCELLED")
      PROVE  CallInv(worker'[w].call)
  BY <1>5, <1>h, HaltEffect DEF Becomes
<1>6. ASSUME ClearControl(w) \/ Complete(w) \/ CallRaises(w) \/ Fail(w) PROVE FALSE
  BY <1>6, <1>h, ClearEffect, CompleteEffect DEF Leaves, CallRaises, Fail, At
<1>7. ASSUME Authenticate(w) \/ CreateBulkJob(w) \/ Poll(w) \/ GetResults(w)
      PROVE  CallInv(worker'[w].call)
  BY <1>7, AuthenticateEffect, CreateEffect, PollEffect, ResultsEffect, FreshCallKept DEF Becomes
<1>8. ASSUME RetryCall(w) PROVE CallInv(worker'[w].call) BY <1>8, RetryEffect DEF Becomes
<1>9. ASSUME SendToDeadLetter(w) \/ Land(w) \/ LoadFromStorage(w) \/ CheckpointLoaded(w)
      PROVE  CallInv(worker'[w].call)
  BY <1>9, LettersEffect, LandEffect, SinkEffect, LoadedEffect DEF Becomes
<1> QED BY <1>1, <1>2, <1>3, <1>4, <1>5, <1>6, <1>7, <1>8, <1>9 DEF Step

\* What every other step does to the workers: nothing, a launch, or their end.
LEMMA OtherStepsWorkers ==
  ASSUME Sound,
         \/ \E c \in Clients : Serve(c)
         \/ \E j \in Jobs : Start(j) \/ Recover(j)
         \/ Crash \/ Restart
         \/ \E r \in Records : SourceGrows(r)
  PROVE  \/ UNCHANGED worker
         \/ \E w \in Workers : \E j \in Jobs : Launched(w, j)
         \/ \A w \in Workers : ~Alive(w)'
<1>1. ASSUME NEW c \in Clients, NEW j \in Jobs, RequestPause(c, j) \/ RequestResume(c, j) \/ RequestCancel(c, j)
      PROVE  UNCHANGED worker
  BY <1>1 DEF RequestPause, RequestResume, RequestCancel
<1>2. ASSUME NEW c \in Clients, Respond(c)
      PROVE  UNCHANGED worker \/ \E w \in Workers : \E j \in Jobs : Launched(w, j)
  BY <1>2, RespondEffect
<1>3. ASSUME NEW j \in Jobs, Start(j) \/ Recover(j)
      PROVE  UNCHANGED worker \/ \E w \in Workers : Launched(w, j)
  BY <1>3, StartEffect, RecoverEffect
<1>4. ASSUME Crash PROVE \A w \in Workers : ~Alive(w)' BY <1>4, CrashEffect
<1>5. ASSUME Restart \/ \E r \in Records : SourceGrows(r) PROVE UNCHANGED worker
  BY <1>5 DEF Restart, SourceGrows
<1> QED BY <1>1, <1>2, <1>3, <1>4, <1>5 DEF Serve

LEMMA RetryNext == Sound /\ RetryInv /\ [Next]_vars => RetryInv'
<1> SUFFICES ASSUME Sound, RetryInv, [Next]_vars, NEW v \in Workers, Alive(v)'
             PROVE  CallInv(worker'[v].call)
  BY DEF RetryInv, CallInv
<1>1. worker'[v] = worker[v] => CallInv(worker'[v].call) BY DEF RetryInv, Alive
<1>2. ASSUME NEW w \in Workers, Step(w) PROVE CallInv(worker'[v].call)
  <2>1. Framed(w) BY <1>2, StepFramed
  <2>2. v = w => CallInv(worker'[v].call) BY <1>2, <2>1, StepCall DEF RetryInv, Framed
  <2> QED BY <1>1, <2>1, <2>2 DEF Framed, OnlyWorker
<1>3. ASSUME \/ \E c \in Clients : Serve(c)
             \/ \E j \in Jobs : Start(j) \/ Recover(j)
             \/ Crash \/ Restart
             \/ \E r \in Records : SourceGrows(r)
      PROVE  CallInv(worker'[v].call)
  <2>1. \/ UNCHANGED worker
        \/ \E w \in Workers : \E j \in Jobs : Launched(w, j)
        \/ \A w \in Workers : ~Alive(w)'
    BY <1>3, OtherStepsWorkers
  <2> QED BY <1>1, <2>1, FreshCallKept DEF Launched, OnlyWorker
<1>4. ASSUME UNCHANGED vars PROVE CallInv(worker'[v].call) BY <1>1, <1>4 DEF vars
<1> QED BY <1>2, <1>3, <1>4 DEF Next

\* Whatever the service answers, and in whatever order, no call makes more
\* attempts, puts up with more 429s, or keeps its thread asleep for longer than
\* the policy allows it.
THEOREM RetriesBounded == Spec => []RetriesAreBounded
<1>1. Init => Sound /\ RetryInv BY SoundInit DEF Init, RetryInv, Alive
<1>2. (Sound /\ RetryInv) /\ [Next]_vars => (Sound /\ RetryInv)' BY SoundNext, RetryNext
<1>3. Sound /\ RetryInv => RetriesAreBounded
  BY WorkerFacts, BoundsAreBudget DEF RetryInv, RetriesAreBounded, WorkerRecords
<1> QED BY <1>1, <1>2, <1>3, PTL DEF Spec

-----------------------------------------------------------------------------
(***************************************************************************)
(* Statuses, signals and the thread behind a row.                          *)
(***************************************************************************)

\* The stages between the first stop check and COMPLETED.
Working == CallSteps \cup {"letters", "land", "sink", "loaded"}

\* What a step of worker w means to its row's status and control column.
Loads(w) ==
  /\ worker[w].pc = "load" /\ Alive(w)' /\ worker'[w].pc = "begin" /\ worker'[w].seen = Row(w).status
  /\ RowsKeepStatus
Begins(w) ==
  /\ worker[w].pc = "begin" /\ Alive(w)' /\ worker'[w].pc = "claim"
  /\ \/ RowsKeepStatus
     \/ /\ worker[w].seen \in {"PENDING", "PAUSED", "FAILED"}
        /\ job'[Of(w)].status = "RUNNING" /\ job'[Of(w)].control = Row(w).control
Claims(w) ==
  /\ worker[w].pc = "claim" /\ Alive(w)' /\ worker'[w].pc = "check"
  /\ job'[Of(w)].status = Row(w).status /\ job'[Of(w)].control = Row(w).control
Stops(w) ==
  /\ worker[w].pc = "check" /\ RowsKeepStatus
  /\ \/ Row(w).status \in {"CANCELLED", "PAUSED"} /\ ~Alive(w)'
     \/ /\ Row(w).control # "none" /\ Alive(w)' /\ worker'[w].pc \in {"pause", "cancel"}
     \/ /\ Row(w).control = "none" /\ Alive(w)' /\ worker'[w].pc \in {"auth", "poll", "results", "sink"}
Halts(w) ==
  /\ worker[w].pc \in {"pause", "cancel"} /\ Alive(w)' /\ worker'[w].pc = "clear"
  /\ job'[Of(w)].status \in {"PAUSED", "CANCELLED"} /\ job'[Of(w)].control = Row(w).control
Clears(w) ==
  /\ worker[w].pc = "clear" /\ ~Alive(w)'
  /\ job'[Of(w)].status = Row(w).status /\ job'[Of(w)].owned = Row(w).owned
Fails(w) ==
  /\ ~Alive(w)' /\ job'[Of(w)].control = Row(w).control
  /\ \/ Row(w).status \in {"PENDING", "RUNNING"} /\ job'[Of(w)].status = "FAILED"
     \/ Row(w).status \notin {"PENDING", "RUNNING"} /\ job'[Of(w)].status = Row(w).status
Completes(w) ==
  /\ worker[w].pc = "complete" /\ ~Alive(w)' /\ Row(w).status = "RUNNING"
  /\ job'[Of(w)].status = "COMPLETED" /\ job'[Of(w)].control = Row(w).control
Works(w) ==
  /\ worker[w].pc \in Working /\ Alive(w)' /\ worker'[w].pc \in Working \cup {"check", "complete"}
  /\ RowsKeepStatus

LEMMA StepKinds ==
  ASSUME Sound, NEW w \in Workers, Step(w)
  PROVE  \/ Loads(w) \/ Begins(w) \/ Claims(w) \/ Stops(w) \/ Halts(w)
         \/ Clears(w) \/ Fails(w) \/ Completes(w) \/ Works(w)
<1>j. UNCHANGED job => RowsKeepStatus BY DEF RowsKeepStatus
<1>h. ASSUME Alive(w), HandleException(w) PROVE Fails(w)
  BY <1>h, BoundaryEffect DEF Leaves, Fails
<1>1. Load(w) => Loads(w) BY <1>j, LoadEffect DEF Becomes, Loads
<1>2. Begin(w) => Begins(w) \/ Fails(w) BY <1>j, <1>h, BeginEffect DEF Becomes, Begins
<1>3. Claim(w) => Claims(w) BY ClaimEffect DEF Becomes, Claims
<1>4. CheckStop(w) => Stops(w) BY <1>j, CheckEffect, WorkerFacts DEF Becomes, Stops
<1>5. Halt(w, "pause", "PAUSED") \/ Halt(w, "cancel", "CANCELLED") => Halts(w) \/ Fails(w)
  BY <1>h, HaltEffect DEF Becomes, Halts
<1>6. ClearControl(w) => Clears(w) BY ClearEffect DEF Leaves, Clears
<1>7. CallRaises(w) \/ Fail(w) => Fails(w) BY <1>h DEF CallRaises, Fail, At
<1>8. Complete(w) => Completes(w) \/ Fails(w) BY <1>h, CompleteEffect DEF Leaves, Completes
<1>9. Authenticate(w) \/ GetResults(w) \/ RetryCall(w) => Works(w)
  BY <1>j, AuthenticateEffect, ResultsEffect, RetryEffect DEF Becomes, Works, Working, CallSteps
<1>10. CreateBulkJob(w) \/ Poll(w) \/ CheckpointLoaded(w) \/ Land(w) => Works(w)
  BY CreateEffect, PollEffect, LoadedEffect, LandEffect DEF Becomes, Works, Working, CallSteps
<1>11. SendToDeadLetter(w) \/ LoadFromStorage(w) => Works(w)
  BY <1>j, LettersEffect, SinkEffect DEF Becomes, Works, Working
<1> QED BY <1>1, <1>2, <1>3, <1>4, <1>5, <1>6, <1>7, <1>8, <1>9, <1>10, <1>11 DEF Step

\* A launch is of a worker that is at its start, and the others go on.
LEMMA LaunchWorks ==
  ASSUME WorkedOn, NEW j \in Jobs, OnlyRow(j), NEW w \in Workers, Launched(w, j)
  PROVE  WorkedOn'
<1> SUFFICES ASSUME NEW i \in Jobs, job'[i].status = "RUNNING", job'[i].owned
             PROVE  \E v \in Workers : Alive(v)' /\ worker'[v].job = i /\ worker'[v].pc # "clear"
  BY DEF WorkedOn, Of
<1>1. CASE i = j BY <1>1 DEF Launched
<1>2. CASE i # j
  <2>1. job[i].status = "RUNNING" /\ job[i].owned BY <1>2 DEF OnlyRow
  <2>2. PICK v \in Workers : Alive(v) /\ Of(v) = i /\ worker[v].pc # "clear" BY <2>1 DEF WorkedOn
  <2>3. v # w BY <2>2 DEF Launched
  <2> QED BY <2>2, <2>3 DEF Launched, OnlyWorker, Alive, Of
<1> QED BY <1>1, <1>2

\* Nothing moves that a RUNNING row depends on.
LEMMA NothingLost ==
  ASSUME WorkedOn, NEW j \in Jobs, OnlyRow(j), UNCHANGED worker,
         \/ job'[j].status # "RUNNING"
         \/ job'[j].status = job[j].status /\ job'[j].owned = job[j].owned
  PROVE  WorkedOn'
BY DEF WorkedOn, OnlyRow, Alive, Of

LEMMA WorkedStep ==
  ASSUME Sound, WorkedOn, NEW w \in Workers, Step(w)
  PROVE  WorkedOn'
<1>1. Framed(w) BY StepFramed
<1>2. Of(w) \in Jobs BY <1>1, WorkerFacts DEF Framed
<1>3. \/ Alive(w)' /\ worker'[w].pc # "clear"
      \/ job'[Of(w)].status # "RUNNING"
      \/ worker[w].pc = "clear" /\ job'[Of(w)].status = Row(w).status /\ job'[Of(w)].owned = Row(w).owned
  <2>1. \/ Loads(w) \/ Begins(w) \/ Claims(w) \/ Stops(w) \/ Halts(w)
        \/ Clears(w) \/ Fails(w) \/ Completes(w) \/ Works(w)
    BY StepKinds
  <2>2. Loads(w) \/ Begins(w) \/ Claims(w) \/ Works(w) => Alive(w)' /\ worker'[w].pc # "clear"
    BY DEF Loads, Begins, Claims, Works, Working, CallSteps
  <2>3. Stops(w) => (Alive(w)' /\ worker'[w].pc # "clear") \/ job'[Of(w)].status # "RUNNING"
    BY <1>2 DEF Stops, RowsKeepStatus, Row
  <2>4. Halts(w) \/ Fails(w) \/ Completes(w) => job'[Of(w)].status # "RUNNING"
    BY DEF Halts, Fails, Completes
  <2> QED BY <2>1, <2>2, <2>3, <2>4 DEF Clears
<1> SUFFICES ASSUME NEW i \in Jobs, job'[i].status = "RUNNING", job'[i].owned
             PROVE  \E v \in Workers : Alive(v)' /\ worker'[v].job = i /\ worker'[v].pc # "clear"
  BY DEF WorkedOn, Of
<1>4. ASSUME NEW v \in Workers, v # w, Alive(v), Of(v) = i, worker[v].pc # "clear"
      PROVE  Alive(v)' /\ worker'[v].job = i /\ worker'[v].pc # "clear"
  BY <1>1, <1>4 DEF Framed, OnlyWorker, Alive, Of
<1>5. CASE i # Of(w)
  <2>1. job[i].status = "RUNNING" /\ job[i].owned BY <1>1, <1>5 DEF Framed, OnlyRow
  <2>2. PICK v \in Workers : Alive(v) /\ Of(v) = i /\ worker[v].pc # "clear" BY <2>1 DEF WorkedOn
  <2> QED BY <1>4, <1>5, <2>2
<1>6. CASE i = Of(w) /\ Alive(w)' /\ worker'[w].pc # "clear"
  BY <1>1, <1>6 DEF Framed, Of
<1>7. CASE i = Of(w) /\ worker[w].pc = "clear" /\ job'[Of(w)].status = Row(w).status
           /\ job'[Of(w)].owned = Row(w).owned
  <2>1. job[i].status = "RUNNING" /\ job[i].owned BY <1>7 DEF Row
  <2>2. PICK v \in Workers : Alive(v) /\ Of(v) = i /\ worker[v].pc # "clear" BY <2>1 DEF WorkedOn
  <2> QED BY <1>4, <1>7, <2>2
<1> QED BY <1>3, <1>5, <1>6, <1>7

LEMMA WorkedNext == Sound /\ WorkedOn /\ [Next]_vars => WorkedOn'
<1> SUFFICES ASSUME Sound, WorkedOn, [Next]_vars PROVE WorkedOn'
  OBVIOUS
<1>1. ASSUME NEW w \in Workers, Step(w) PROVE WorkedOn' BY <1>1, WorkedStep
<1>2. ASSUME NEW c \in Clients, NEW j \in Jobs, RequestPause(c, j) \/ RequestResume(c, j) \/ RequestCancel(c, j)
      PROVE  WorkedOn'
  <2>1. UNCHANGED worker /\ \E control \in Controls : Signalled(j, control)
    BY <1>2, PauseEffect, ResumeEffect, CancelEffect DEF Controls
  <2> QED BY <2>1, NothingLost DEF Signalled
<1>3. ASSUME NEW c \in Clients, Respond(c) PROVE WorkedOn'
  <2>1. PICK j \in Jobs :
          /\ OnlyRow(j)
          /\ \/ \E w \in Workers : Launched(w, j)
             \/ job'[j].status = "CANCELLED" /\ UNCHANGED worker
    BY <1>3, RespondEffect
  <2> QED BY <2>1, LaunchWorks, NothingLost
<1>4. ASSUME NEW j \in Jobs, Start(j) PROVE WorkedOn' BY <1>4, StartEffect, LaunchWorks
<1>5. ASSUME NEW j \in Jobs, Recover(j) PROVE WorkedOn'
  <2>1. /\ OnlyRow(j)
        /\ \/ \E w \in Workers : Launched(w, j)
           \/ job'[j].status # "RUNNING" /\ UNCHANGED worker
    BY <1>5, RecoverEffect
  <2> QED BY <2>1, LaunchWorks, NothingLost
<1>6. ASSUME Crash PROVE WorkedOn' BY <1>6, CrashEffect DEF WorkedOn
<1>7. ASSUME Restart \/ (\E r \in Records : SourceGrows(r)) \/ UNCHANGED vars PROVE WorkedOn'
  BY <1>7 DEF Restart, SourceGrows, vars, WorkedOn, Alive, Of
<1> QED BY <1>1, <1>2, <1>3, <1>4, <1>5, <1>6, <1>7 DEF Next, Serve

\* No failure, signal, crash or second worker leaves a row RUNNING under this
\* process with no thread at work on it.
THEOREM RunningRuns == Spec => []RunningIsRun
<1>1. Init => Sound /\ WorkedOn BY SoundInit DEF Init, WorkedOn, NoRow
<1>2. (Sound /\ WorkedOn) /\ [Next]_vars => (Sound /\ WorkedOn)' BY SoundNext, WorkedNext
<1>3. WorkedOn => RunningIsRun BY DEF WorkedOn, RunningIsRun
<1> QED BY <1>1, <1>2, <1>3, PTL DEF Spec

-----------------------------------------------------------------------------
(***************************************************************************)
(* Cancels and the signals behind them.                                    *)
(***************************************************************************)

\* What SignalInv says of one job.
SignalOK(j) == Solo(j) /\ StartsOrStops(j) /\ SignalAhead(j)

\* Job j keeps what SignalInv says of it: its row's status and control column,
\* its workers but for those that ended, and no new cancel.
Unmoved(j) ==
  /\ job'[j].status = job[j].status /\ job'[j].control = job[j].control
  /\ \A v \in Workers : Alive(v)' /\ worker'[v].job = j => worker'[v] = worker[v]
  /\ j \in cancelled' => j \in cancelled
  /\ Cancelling(j)' => Cancelling(j)

LEMMA UnmovedSignal ==
  ASSUME NEW j \in Jobs, SignalOK(j), Unmoved(j)
  PROVE  SignalOK(j)'
<1>1. \A v \in Workers : Alive(v)' /\ Of(v)' = j =>
        Alive(v) /\ Of(v) = j /\ worker'[v] = worker[v]
  BY DEF Unmoved, Alive, Of
<1>2. Solo(j)' BY <1>1 DEF SignalOK, Solo
<1>3. StartsOrStops(j)' BY <1>1 DEF SignalOK, StartsOrStops, Unmoved
<1>4. Starting(j)' => Starting(j) BY <1>1 DEF Starting, Unmoved, At
<1>5. SignalAhead(j)' BY <1>1, <1>4 DEF SignalOK, SignalAhead, Unmoved
<1> QED BY <1>2, <1>3, <1>5 DEF SignalOK

\* A step of the job's only worker.
LEMMA OwnStepSignal ==
  ASSUME Sound, NEW w \in Workers, Step(w), SignalOK(Of(w)), NEW j \in Jobs, j = Of(w)
  PROVE  SignalOK(j)'
<1>1. Framed(w) /\ Alive(w) BY StepFramed DEF Framed
<1>2. /\ Row(w).status \in Statuses /\ Row(w) = job[j] /\ worker[w].job = j
      /\ Row(w).control \in Controls
  BY <1>1, WorkerFacts DEF Row, Of
<1>3. \A v \in Workers : Alive(v) /\ Of(v) = j => v = w BY <1>1 DEF SignalOK, Solo
<1>4. \A v \in Workers : Alive(v)' /\ Of(v)' = j => v = w
  BY <1>1, <1>3 DEF Framed, OnlyWorker, Alive, Of
<1>5. Solo(j)' BY <1>4 DEF Solo
<1>6. /\ worker[w].pc \in {"load", "begin"} => job[j].status \in {"PENDING", "RUNNING", "CANCELLED"}
      /\ worker[w].pc = "begin" => worker[w].seen \in {"PENDING", "RUNNING", "CANCELLED"}
      /\ worker[w].pc = "clear" => job[j].status \in {"PAUSED", "CANCELLED"}
  BY <1>1 DEF SignalOK, StartsOrStops
<1>7. Cancelling(j)' <=> Cancelling(j) BY <1>1 DEF Framed, Cancelling
<1>8. cancelled' = cancelled BY <1>1 DEF Framed
<1>9. /\ job[j].status = "PENDING" /\ Cancelling(j) => job[j].control # "none"
      /\ worker[w].pc = "begin" /\ worker[w].seen = "PENDING" /\ Cancelling(j) =>
           job[j].control # "none"
      /\ j \in cancelled /\ job[j].status = "RUNNING" =>
           /\ job[j].control # "none"
           /\ worker[w].pc \in {"claim", "check", "pause", "cancel"}
      /\ j \in cancelled => job[j].status # "COMPLETED"
  BY <1>1 DEF SignalOK, SignalAhead, Starting, At
<1>c. j \in cancelled => Cancelling(j) BY DEF Cancelling
<1> SUFFICES /\ Alive(w)' =>
                  /\ worker'[w].pc \in {"load", "begin"} =>
                       job'[j].status \in {"PENDING", "RUNNING", "CANCELLED"}
                  /\ worker'[w].pc = "begin" => worker'[w].seen \in {"PENDING", "RUNNING", "CANCELLED"}
                  /\ worker'[w].pc = "clear" => job'[j].status \in {"PAUSED", "CANCELLED"}
             /\ (job'[j].status = "PENDING" \/ (Alive(w)' /\ worker'[w].pc = "begin" /\ worker'[w].seen = "PENDING"))
                  /\ Cancelling(j) => job'[j].control # "none"
             /\ j \in cancelled /\ job'[j].status = "RUNNING" =>
                  /\ job'[j].control # "none"
                  /\ Alive(w)' => worker'[w].pc \in {"claim", "check", "pause", "cancel"}
             /\ j \in cancelled => job'[j].status # "COMPLETED"
  <2>1. StartsOrStops(j)' BY <1>4 DEF StartsOrStops
  <2>2. Starting(j)' => job'[j].status = "PENDING"
                          \/ (Alive(w)' /\ worker'[w].pc = "begin" /\ worker'[w].seen = "PENDING")
    BY <1>4 DEF Starting, At
  <2>3. SignalAhead(j)' BY <1>4, <1>7, <1>8, <2>2 DEF SignalAhead
  <2> QED BY <1>5, <2>1, <2>3 DEF SignalOK
<1>k. RowsKeepStatus => job'[j].status = job[j].status /\ job'[j].control = job[j].control
  BY DEF RowsKeepStatus
<1> USE <1>2, <1>6, <1>9, <1>c, <1>k
<1>10. CASE Loads(w) BY <1>10 DEF Loads
<1>11. CASE Begins(w) BY <1>11 DEF Begins
<1>12. CASE Claims(w) BY <1>12 DEF Claims
<1>13. CASE Stops(w) BY <1>13 DEF Stops
<1>14. CASE Halts(w) BY <1>14 DEF Halts
<1>15. CASE Clears(w) BY <1>15 DEF Clears
<1>16. CASE Fails(w) BY <1>16 DEF Fails
<1>17. CASE Completes(w) BY <1>17 DEF Completes
<1>18. CASE Works(w) BY <1>18 DEF Works, Working, CallSteps
<1> QED BY <1>10, <1>11, <1>12, <1>13, <1>14, <1>15, <1>16, <1>17, <1>18, StepKinds

LEMMA StepSignal ==
  ASSUME Sound, NEW w \in Workers, Step(w), NEW j \in Jobs, SignalOK(j)
  PROVE  SignalOK(j)'
<1>1. Framed(w) BY StepFramed
<1>2. CASE j = Of(w) BY <1>2, OwnStepSignal
<1>3. CASE j # Of(w)
  <2>1. Unmoved(j)
    BY <1>1, <1>3 DEF Framed, OnlyRow, OnlyWorker, Unmoved, Cancelling, Of
  <2> QED BY <2>1, UnmovedSignal
<1> QED BY <1>2, <1>3

\* A request that stores a signal leaves it ahead of every worker.
LEMMA SignalledSignal ==
  ASSUME NEW j \in Jobs, SignalOK(j), Signalled(j, "pause") \/ Signalled(j, "cancel"),
         UNCHANGED <<worker, cancelled>>
  PROVE  SignalOK(j)'
<1>1. job'[j].status = job[j].status /\ job'[j].control # "none" BY DEF Signalled
<1> QED BY <1>1 DEF SignalOK, Solo, StartsOrStops, SignalAhead, Alive, Of

\* The job that worker w was just launched for has no other.
LEMMA LaunchedSolo ==
  ASSUME NEW j \in Jobs, NEW w \in Workers, Launched(w, j), Taken(j), j \notin contested'
  PROVE  \A v \in Workers : Alive(v)' /\ Of(v)' = j => v = w /\ worker'[v].pc = "load"
BY DEF Launched, Taken, OnlyWorker, Alive, Of

\* Another job than the one a launch is for.
LEMMA LaunchedOthers ==
  ASSUME NEW j \in Jobs, NEW i \in Jobs, i # j,
         (\E w \in Workers : Launched(w, j)) \/ UNCHANGED worker
  PROVE  \A v \in Workers : Alive(v)' /\ worker'[v].job = i => worker'[v] = worker[v]
BY DEF Launched, OnlyWorker

\* The new row's launch.
LEMMA LaunchSignal ==
  ASSUME NEW j \in Jobs, NEW w \in Workers, Launched(w, j), Taken(j), j \notin contested',
         job'[j].status \in {"PENDING", "RUNNING"},
         j \in cancelled' => job'[j].status = "PENDING",
         job'[j].status = "PENDING" /\ Cancelling(j)' => job'[j].control # "none"
  PROVE  SignalOK(j)'
<1>1. \A v \in Workers : Alive(v)' /\ Of(v)' = j => v = w /\ worker'[v].pc = "load"
  BY LaunchedSolo
<1>2. Solo(j)' BY <1>1 DEF Solo
<1>3. StartsOrStops(j)' BY <1>1 DEF StartsOrStops
<1>4. Starting(j)' => job'[j].status = "PENDING" BY <1>1 DEF Starting, At
<1>5. SignalAhead(j)' BY <1>4 DEF SignalAhead
<1> QED BY <1>2, <1>3, <1>5 DEF SignalOK

LEMMA ServeSignal ==
  ASSUME Sound, SignalInv, NEW c \in Clients, Serve(c), NEW i \in Jobs \ contested'
  PROVE  SignalOK(i)'
<1>1. ASSUME NEW j \in Jobs, RequestPause(c, j) \/ RequestResume(c, j) \/ RequestCancel(c, j)
      PROVE  SignalOK(i)'
  <2>1. /\ UNCHANGED <<worker, contested, cancelled>> /\ OnlyRow(j)
        /\ UNCHANGED request \/ Decided(c, j, "RUNNING") \/ Decided(c, j, "CANCELLED")
    BY <1>1, PauseEffect, ResumeEffect, CancelEffect DEF Signalled, Past
  <2>2. SignalOK(i) BY <2>1 DEF SignalInv, SignalOK
  <2>3. CASE i # j
    <3>1. Cancelling(i)' => Cancelling(i) BY <2>1, <2>3 DEF Cancelling, Decided
    <3>2. Unmoved(i) BY <2>1, <2>3, <3>1 DEF OnlyRow, Unmoved
    <3> QED BY <2>2, <3>2, UnmovedSignal
  <2>4. CASE i = j /\ (RequestPause(c, j) \/ RequestCancel(c, j))
    BY <2>1, <2>2, <2>4, PauseEffect, CancelEffect, SignalledSignal
  <2>5. CASE i = j /\ RequestResume(c, j)
    <3>1. job[i].status \in {"PAUSED", "FAILED"} /\ job'[i].status = job[i].status
      BY <2>5, ResumeEffect DEF Signalled
    <3>2. Solo(i)' /\ StartsOrStops(i)'
      BY <2>1, <2>2, <3>1 DEF SignalOK, Solo, StartsOrStops, Alive, Of
    <3>3. ~Starting(i)' BY <2>1, <2>2, <3>1 DEF SignalOK, StartsOrStops, Starting, At, Alive, Of
    <3>4. SignalAhead(i)' BY <3>1, <3>3 DEF SignalAhead
    <3> QED BY <3>2, <3>4 DEF SignalOK
  <2> QED BY <1>1, <2>3, <2>4, <2>5
<1>2. ASSUME Respond(c) PROVE SignalOK(i)'
  <2>1. PICK j \in Jobs :
           /\ request[c] # NoRequest /\ request[c].job = j
           /\ OnlyRow(j) /\ job'[j].status = request[c].target
           /\ job'[j].control = job[j].control
           /\ request'[c] = NoRequest /\ \A d \in Clients : d # c => request'[d] = request[d]
           /\ \/ /\ request[c].target = "RUNNING" /\ cancelled' = cancelled \ {j}
                 /\ Taken(j) /\ \E w \in Workers : Launched(w, j)
              \/ /\ request[c].target = "CANCELLED" /\ cancelled' = cancelled \cup {j}
                 /\ UNCHANGED <<worker, contested>>
    BY <1>2, RespondEffect
  <2>2. SignalOK(i) BY <2>1 DEF SignalInv, SignalOK, Taken
  <2>3. CASE i # j
    <3>1. Cancelling(i)' => Cancelling(i) BY <2>1, <2>3 DEF Cancelling
    <3>2. \A v \in Workers : Alive(v)' /\ worker'[v].job = i => worker'[v] = worker[v]
      BY <2>1, <2>3, LaunchedOthers
    <3>3. Unmoved(i) BY <2>1, <2>3, <3>1, <3>2 DEF OnlyRow, Unmoved
    <3> QED BY <2>2, <3>3, UnmovedSignal
  <2>4. CASE i = j /\ request[c].target = "RUNNING"
    <3>1. PICK w \in Workers : Launched(w, j) BY <2>1, <2>4
    <3> QED BY <2>1, <2>4, <3>1, LaunchSignal
  <2>5. CASE i = j /\ request[c].target = "CANCELLED"
    <3>1. Cancelling(i) BY <2>1, <2>5 DEF Cancelling
    <3>2. job'[i].status = "CANCELLED" /\ UNCHANGED worker BY <2>1, <2>5
    <3>3. Solo(i)' /\ StartsOrStops(i)' BY <2>2, <3>2 DEF SignalOK, Solo, StartsOrStops, Alive, Of
    <3>4. Starting(i)' => Starting(i) BY <3>2 DEF Starting, At, Alive, Of
    <3>5. SignalAhead(i)' BY <2>1, <2>2, <2>5, <3>1, <3>2, <3>4 DEF SignalOK, SignalAhead
    <3> QED BY <3>3, <3>5 DEF SignalOK
  <2> QED BY <2>1, <2>3, <2>4, <2>5
<1> QED BY <1>1, <1>2 DEF Serve

LEMMA ProcessSignal ==
  ASSUME Sound, SignalInv, NEW i \in Jobs \ contested',
         (\E j \in Jobs : Start(j) \/ Recover(j)) \/ Crash \/ Restart
           \/ (\E r \in Records : SourceGrows(r)) \/ UNCHANGED vars
  PROVE  SignalOK(i)'
<1>c. \A j \in Jobs : j \in cancelled => Cancelling(j) BY DEF Cancelling
<1>1. ASSUME NEW j \in Jobs, Start(j) PROVE SignalOK(i)'
  <2>1. /\ ~Exists(j) /\ OnlyRow(j) /\ job'[j].status = "PENDING" /\ Taken(j)
        /\ UNCHANGED <<request, cancelled>>
    BY <1>1, StartEffect
  <2>2. PICK w \in Workers : Launched(w, j) BY <1>1, StartEffect
  <2>3. SignalOK(i) BY <2>1 DEF SignalInv, SignalOK, Taken
  <2>4. CASE i # j
    <3>1. Unmoved(i) BY <2>1, <2>2, <2>4, LaunchedOthers DEF OnlyRow, Unmoved, Cancelling
    <3> QED BY <2>3, <3>1, UnmovedSignal
  <2>5. CASE i = j
    <3>1. j \notin cancelled BY <2>1 DEF Sound, RowsExist
    <3>2. ~Cancelling(j)' BY <2>1, <3>1 DEF Cancelling, Sound, RowsExist
    <3> QED BY <2>1, <2>2, <2>5, <3>1, <3>2, LaunchSignal
  <2> QED BY <2>4, <2>5
<1>2. ASSUME NEW j \in Jobs, Recover(j) PROVE SignalOK(i)'
  <2>1. /\ Orphaned(j) /\ Taken(j) /\ OnlyRow(j)
        /\ \/ /\ job'[j].status \in {"CANCELLED", "PAUSED"} /\ UNCHANGED worker
           \/ /\ job[j].status = "RUNNING" => job[j].control = "none"
              /\ job'[j].status = job[j].status /\ job'[j].control = job[j].control
              /\ \E w \in Workers : Launched(w, j)
        /\ UNCHANGED <<request, cancelled>>
    BY <1>2, RecoverEffect
  <2>2. SignalOK(i) BY <2>1 DEF SignalInv, SignalOK, Taken
  <2>3. Cancelling(j)' <=> Cancelling(j) BY <2>1 DEF Cancelling
  <2>4. CASE i # j
    <3>1. Unmoved(i) BY <2>1, <2>4, LaunchedOthers DEF OnlyRow, Unmoved, Cancelling
    <3> QED BY <2>2, <3>1, UnmovedSignal
  <2>5. CASE i = j /\ job'[j].status \in {"CANCELLED", "PAUSED"} /\ UNCHANGED worker
    <3>1. \A v \in Workers : Alive(v)' => Of(v)' # j BY <2>1, <2>5 DEF Taken, Alive, Of
    <3> QED BY <2>5, <3>1 DEF SignalOK, Solo, StartsOrStops, SignalAhead, Starting, At
  <2>6. CASE i = j /\ \E w \in Workers : Launched(w, j)
    <3>1. PICK w \in Workers : Launched(w, j) BY <2>6
    <3>2. CASE job'[j].status \in {"CANCELLED", "PAUSED"} /\ UNCHANGED worker
      BY <2>5, <2>6, <3>2
    <3>3. CASE /\ job[j].status = "RUNNING" => job[j].control = "none"
               /\ job'[j].status = job[j].status /\ job'[j].control = job[j].control
      <4>1. job[j].status \in {"PENDING", "RUNNING"} BY <2>1 DEF Orphaned
      <4>2. j \in cancelled => job[j].status = "PENDING"
        BY <2>2, <2>6, <3>3, <4>1 DEF SignalOK, SignalAhead
      <4>3. job[j].status = "PENDING" /\ Cancelling(j) => job[j].control # "none"
        BY <2>2, <2>6 DEF SignalOK, SignalAhead, Starting
      <4> QED BY <2>1, <2>3, <2>6, <3>1, <3>3, <4>1, <4>2, <4>3, LaunchSignal
    <3> QED BY <2>1, <3>2, <3>3
  <2> QED BY <2>1, <2>4, <2>5, <2>6
<1>3. ASSUME Crash PROVE SignalOK(i)'
  <2>1. /\ \A w \in Workers : ~Alive(w)'
        /\ \A c \in Clients : request'[c] = NoRequest
        /\ UNCHANGED <<contested, cancelled>>
        /\ job'[i].status = job[i].status /\ job'[i].control = job[i].control
    BY <1>3, CrashEffect DEF Past
  <2>2. SignalOK(i) BY <2>1 DEF SignalInv, SignalOK
  <2>3. Cancelling(i)' => Cancelling(i) BY <2>1 DEF Cancelling
  <2>4. Unmoved(i) BY <2>1, <2>3 DEF Unmoved
  <2> QED BY <2>2, <2>4, UnmovedSignal
<1>4. ASSUME Restart \/ (\E r \in Records : SourceGrows(r)) \/ UNCHANGED vars
      PROVE  SignalOK(i)'
  <2>1. UNCHANGED <<job, worker, request, contested, cancelled>>
    BY <1>4 DEF Restart, SourceGrows, vars, history
  <2>2. SignalOK(i) BY <2>1 DEF SignalInv, SignalOK
  <2>3. Unmoved(i) BY <2>1 DEF Unmoved, Cancelling
  <2> QED BY <2>2, <2>3, UnmovedSignal
<1> QED BY <1>1, <1>2, <1>3, <1>4

LEMMA SignalNext == Sound /\ SignalInv /\ [Next]_vars => SignalInv'
<1> SUFFICES ASSUME Sound, SignalInv, [Next]_vars, NEW i \in Jobs \ contested'
             PROVE  SignalOK(i)'
  BY DEF SignalInv, SignalOK
<1>1. ASSUME NEW w \in Workers, Step(w) PROVE SignalOK(i)'
  <2>1. SignalOK(i) BY <1>1, StepFramed DEF Framed, SignalInv, SignalOK
  <2> QED BY <1>1, <2>1, StepSignal
<1>2. ASSUME NEW c \in Clients, Serve(c) PROVE SignalOK(i)' BY <1>2, ServeSignal
<1> QED BY <1>1, <1>2, ProcessSignal DEF Next

LEMMA SignalInit == Init => SignalInv
BY DEF Init, SignalInv, Solo, StartsOrStops, SignalAhead, Starting, Cancelling, At, Alive, NoRow

\* A cancel that was answered holds for every job whose launches do not overlap:
\* wherever the worker was, starting, waiting for Salesforce or loading, the job
\* does not complete behind the answer.
THEOREM CancelsHold == Spec => []CancelHolds
<1>1. Init => Sound /\ SignalInv BY SoundInit, SignalInit
<1>2. (Sound /\ SignalInv) /\ [Next]_vars => (Sound /\ SignalInv)' BY SoundNext, SignalNext
<1>3. SignalInv => CancelHolds BY DEF SignalInv, SignalAhead, CancelHolds
<1> QED BY <1>1, <1>2, <1>3, PTL DEF Spec

\* The step of SignalIsKept.
KeepsSignals ==
  \A j \in Jobs \ contested' :
    job[j].control # "none" /\ job'[j].control = "none" => job'[j].status # "RUNNING"

LEMMA SignalsKept == Sound /\ SignalInv /\ [Next]_vars => [KeepsSignals]_vars
<1> SUFFICES ASSUME Sound, SignalInv, Next, NEW j \in Jobs \ contested',
                    job[j].control # "none", job'[j].control = "none"
             PROVE  job'[j].status # "RUNNING"
  BY DEF KeepsSignals
<1>1. ASSUME NEW w \in Workers, Step(w) PROVE job'[j].status # "RUNNING"
  <2>1. Framed(w) BY <1>1, StepFramed
  <2>2. CASE j # Of(w) BY <2>1, <2>2 DEF Framed, OnlyRow
  <2>3. CASE j = Of(w)
    <3>1. Clears(w) \/ (job'[j].control = job[j].control)
      BY <1>1, <2>3, StepKinds
      DEF Loads, Begins, Claims, Stops, Halts, Fails, Completes, Works, RowsKeepStatus, Row
    <3>2. worker[w].pc = "clear" /\ Alive(w) /\ job'[j].status = job[j].status
      BY <2>1, <2>3, <3>1 DEF Clears, Row, Framed
    <3>3. job[j].status \in {"PAUSED", "CANCELLED"}
      BY <2>1, <2>3, <3>2 DEF SignalInv, StartsOrStops, Framed
    <3> QED BY <3>2, <3>3
  <2> QED BY <2>2, <2>3
<1>2. ASSUME NEW c \in Clients, NEW i \in Jobs, RequestPause(c, i) \/ RequestResume(c, i) \/ RequestCancel(c, i)
      PROVE  job'[j].status # "RUNNING"
  BY <1>2, PauseEffect, ResumeEffect, CancelEffect DEF Signalled, OnlyRow
<1>3. ASSUME NEW c \in Clients, Respond(c) PROVE job'[j].status # "RUNNING"
  BY <1>3, RespondEffect DEF OnlyRow
<1>4. ASSUME NEW i \in Jobs, Start(i) \/ Recover(i) PROVE job'[j].status # "RUNNING"
  BY <1>4, StartEffect, RecoverEffect DEF OnlyRow
<1>5. ASSUME Crash \/ Restart \/ \E r \in Records : SourceGrows(r)
      PROVE  job'[j].status # "RUNNING"
  BY <1>5, CrashEffect DEF Restart, SourceGrows
<1> QED BY <1>1, <1>2, <1>3, <1>4, <1>5 DEF Next, Serve

\* A signal is erased only behind the status that answers it: no step of a run,
\* request, sweep or crash forgets a pause or a cancel of a RUNNING job.
THEOREM SignalsAreKept == Spec => SignalIsKept
<1>1. Init => Sound /\ SignalInv BY SoundInit, SignalInit
<1>2. (Sound /\ SignalInv) /\ [Next]_vars => (Sound /\ SignalInv)' BY SoundNext, SignalNext
<1>3. (Sound /\ SignalInv) /\ [Next]_vars => [KeepsSignals]_vars BY SignalsKept
<1>4. Spec => [][KeepsSignals]_vars BY <1>1, <1>2, <1>3, PTL DEF Spec
<1> QED BY <1>4 DEF SignalIsKept, KeepsSignals

-----------------------------------------------------------------------------
(***************************************************************************)
(* From the source to ClickHouse.                                          *)
(***************************************************************************)

\* The dead letters and the table only grow, and a worker's step stores a file
\* only when it lands.
LEMMA StoresGrow ==
  ASSUME Sound, NEW w \in Workers, Step(w)
  PROVE  /\ table \subseteq table' /\ \A j \in Jobs : letters[j] \subseteq letters'[j]
         /\ file' = file \/ Land(w)
<1>h. HandleException(w) => UNCHANGED stores BY DEF HandleException
<1>1. SendToDeadLetter(w) => /\ table' = table /\ file' = file
                             /\ \A j \in Jobs : letters[j] \subseteq letters'[j]
  BY LettersEffect
<1>2. LoadFromStorage(w) => table \subseteq table' /\ letters' = letters /\ file' = file
  BY DEF LoadFromStorage
<1>3. Land(w) => table' = table /\ letters' = letters BY DEF Land
<1>4. Load(w) \/ Begin(w) \/ Claim(w) \/ CheckStop(w) \/ ClearControl(w) \/ Authenticate(w)
        \/ CreateBulkJob(w) \/ Poll(w) \/ GetResults(w) \/ RetryCall(w) \/ CallRaises(w)
        \/ CheckpointLoaded(w) \/ Complete(w) \/ Fail(w)
        \/ Halt(w, "pause", "PAUSED") \/ Halt(w, "cancel", "CANCELLED")
      => UNCHANGED stores
  BY <1>h DEF Load, Begin, Claim, CheckStop, ClearControl, Authenticate, CreateBulkJob, Poll,
              GetResults, RetryCall, CallRaises, CheckpointLoaded, Complete, Fail, Halt
<1> QED BY <1>1, <1>2, <1>3, <1>4 DEF Step, stores

\* What another step leaves of a worker that it does not touch.
LEMMA StillCarried ==
  ASSUME NEW v \in Workers, Alive(v), Carried(v), worker'[v] = worker[v], Of(v) \in Jobs,
         since'[Of(v)] = since[Of(v)], letters[Of(v)] \subseteq letters'[Of(v)],
         table \subseteq table', overwritten \subseteq overwritten',
         \/ file'[PathOf[Of(v)]] = file[PathOf[Of(v)]]
         \/ HasLanded(v) /\ Of(v) \notin overwritten' =>
              since[Of(v)] \ Invalid \subseteq file'[PathOf[Of(v)]]
  PROVE  Carried(v)'
<1>1. Of(v)' = Of(v) BY DEF Of
<1>2. /\ (HasBatch(v)' <=> HasBatch(v)) /\ (HasLetters(v)' <=> HasLetters(v))
      /\ (HasLanded(v)' <=> HasLanded(v)) /\ (HasLoaded(v)' <=> HasLoaded(v))
  BY DEF HasBatch, HasLetters, HasLanded, HasLoaded
<1> QED BY <1>1, <1>2 DEF Carried

\* The worker's own record carries on what the step before left.
LEMMA OwnCarried ==
  ASSUME Sound, CarryInv, NEW w \in Workers, Step(w), Alive(w)'
  PROVE  Carried(w)'
<1>1. Framed(w) /\ Alive(w) BY StepFramed DEF Framed
<1>2. Carried(w) /\ Of(w) \in Jobs /\ since[Of(w)] \subseteq source
  BY <1>1, WorkerFacts DEF CarryInv
<1>3. Of(w)' = Of(w) /\ since' = since BY <1>1 DEF Framed, Of
<1>h. ~HandleException(w) BY <1>1, BoundaryEffect DEF Leaves
<1>4. ASSUME Load(w) \/ Begin(w) \/ Claim(w) \/ Authenticate(w)
               \/ Halt(w, "pause", "PAUSED") \/ Halt(w, "cancel", "CANCELLED")
      PROVE  Carried(w)'
  <2>1. worker'[w].pc \in {"begin", "claim", "create", "clear"}
          \/ (worker'[w].pc = "check" /\ worker'[w].then = "auth")
    BY <1>4, <1>h, LoadEffect, BeginEffect, ClaimEffect, AuthenticateEffect, HaltEffect DEF Becomes
  <2> QED BY <2>1 DEF Carried, HasBatch, HasLetters, HasLanded, HasLoaded, Reading
<1>5. ASSUME CheckStop(w) PROVE Carried(w)'
  <2>1. /\ worker[w].pc = "check" /\ worker'[w].batch = worker[w].batch
        /\ worker'[w].pc \in {"pause", "cancel"} \/ worker'[w].pc = worker[w].then
        /\ worker[w].then \in {"auth", "poll", "results", "sink"}
        /\ UNCHANGED Elsewhere
    BY <1>1, <1>5, CheckEffect, WorkerFacts DEF Becomes
  <2>2. HasBatch(w)' => HasBatch(w) BY <2>1 DEF HasBatch, Reading
  <2>3. HasLanded(w)' => HasLanded(w) BY <2>1 DEF HasLanded
  <2>4. ~HasLetters(w)' /\ ~HasLoaded(w)' BY <2>1 DEF HasLetters, HasLoaded
  <2> QED BY <1>2, <1>3, <2>1, <2>2, <2>3, <2>4 DEF Carried, Elsewhere, stores, history
<1>6. ASSUME CreateBulkJob(w) PROVE Carried(w)'
  <2>1. worker'[w].pc = "poll" /\ worker'[w].batch = source BY <1>6, CreateEffect DEF Becomes
  <2> QED BY <1>2, <1>3, <2>1 DEF Carried, HasLetters, HasLanded, HasLoaded
<1>7. ASSUME Poll(w) \/ GetResults(w) \/ RetryCall(w) PROVE Carried(w)'
  <2>1. /\ worker'[w].batch = worker[w].batch
        /\ \/ worker[w].pc = "poll" /\ worker'[w].pc = "check" /\ worker'[w].then \in {"poll", "results"}
           \/ worker[w].pc = "results" /\ worker'[w].pc = "letters"
           \/ worker[w].pc \in CallSteps /\ worker'[w].pc = worker[w].pc
    BY <1>7, PollEffect, ResultsEffect, RetryEffect DEF Becomes
  <2>2. HasBatch(w)' => HasBatch(w) BY <2>1 DEF HasBatch, Reading, CallSteps
  <2>3. ~HasLetters(w)' /\ ~HasLoaded(w)' /\ ~HasLanded(w)'
    BY <2>1 DEF HasLetters, HasLoaded, HasLanded, CallSteps
  <2> QED BY <1>2, <1>3, <2>1, <2>2, <2>3 DEF Carried
<1>8. ASSUME SendToDeadLetter(w) PROVE Carried(w)'
  <2>1. /\ worker[w].pc = "letters" /\ worker'[w].pc = "land" /\ worker'[w].batch = worker[w].batch
        /\ letters'[Of(w)] = letters[Of(w)] \cup (worker[w].batch \cap Invalid)
    BY <1>8, LettersEffect DEF Becomes
  <2>2. since[Of(w)] \subseteq worker[w].batch BY <1>2, <2>1 DEF Carried, HasBatch, Reading
  <2> QED BY <1>2, <1>3, <2>1, <2>2 DEF Carried, HasLanded, HasLoaded
<1>9. ASSUME Land(w) PROVE Carried(w)'
  <2>1. /\ worker[w].pc = "land" /\ worker'[w].pc = "check" /\ worker'[w].then = "sink"
        /\ worker'[w].batch = worker[w].batch /\ letters' = letters
        /\ file'[PathOf[Of(w)]] = ValidBatch(w)
    BY <1>9, LandEffect DEF Becomes
  <2>2. since[Of(w)] \subseteq worker[w].batch /\ since[Of(w)] \cap Invalid \subseteq letters[Of(w)]
    BY <1>2, <2>1 DEF Carried, HasBatch, HasLetters, Reading
  <2>3. since[Of(w)] \ Invalid \subseteq file'[PathOf[Of(w)]] BY <2>1, <2>2 DEF ValidBatch
  <2> QED BY <1>2, <1>3, <2>1, <2>2, <2>3 DEF Carried, HasLetters, HasLoaded
<1>10. ASSUME LoadFromStorage(w) PROVE Carried(w)'
  <2>1. /\ worker[w].pc = "sink" /\ worker'[w].pc = "loaded" /\ worker'[w].batch = worker[w].batch
        /\ letters' = letters /\ table' = table \cup file[PathOf[Of(w)]] /\ overwritten' = overwritten
    BY <1>10, SinkEffect DEF Becomes, history
  <2>2. /\ since[Of(w)] \subseteq worker[w].batch /\ since[Of(w)] \cap Invalid \subseteq letters[Of(w)]
        /\ Of(w) \notin overwritten => since[Of(w)] \ Invalid \subseteq file[PathOf[Of(w)]]
    BY <1>2, <2>1 DEF Carried, HasBatch, HasLanded, Reading
  <2> QED BY <1>2, <1>3, <2>1, <2>2 DEF Carried, HasLanded
<1>11. ASSUME CheckpointLoaded(w) PROVE Carried(w)'
  <2>1. /\ worker[w].pc = "loaded" /\ worker'[w].pc = "complete" /\ worker'[w].batch = worker[w].batch
        /\ UNCHANGED Elsewhere
    BY <1>11, LoadedEffect DEF Becomes
  <2>2. /\ since[Of(w)] \subseteq worker[w].batch /\ since[Of(w)] \cap Invalid \subseteq letters[Of(w)]
        /\ Of(w) \notin overwritten => since[Of(w)] \ Invalid \subseteq table
    BY <1>2, <2>1 DEF Carried, HasBatch, HasLoaded, Reading
  <2> QED BY <1>2, <1>3, <2>1, <2>2 DEF Carried, HasLanded, Elsewhere, stores, history
<1>12. ~(ClearControl(w) \/ Complete(w) \/ CallRaises(w) \/ Fail(w))
  BY <1>h, ClearEffect, CompleteEffect DEF Leaves, CallRaises, Fail
<1> QED BY <1>4, <1>5, <1>6, <1>7, <1>8, <1>9, <1>10, <1>11, <1>12 DEF Step

LEMMA StepCarry ==
  ASSUME Sound, CarryInv, NEW w \in Workers, Step(w)
  PROVE  CarryInv'
<1>1. Framed(w) /\ Alive(w) BY StepFramed DEF Framed
<1>2. /\ table \subseteq table' /\ \A j \in Jobs : letters[j] \subseteq letters'[j]
      /\ file' = file \/ Land(w)
  BY StoresGrow
<1>3. since' = since /\ source' = source /\ overwritten \subseteq overwritten' BY <1>1 DEF Framed
<1>4. Of(w) \in Jobs BY <1>1, WorkerFacts
<1>5. ASSUME NEW v \in Workers, Alive(v)' PROVE Carried(v)'
  <2>1. CASE v = w BY <1>5, <2>1, OwnCarried
  <2>2. CASE v # w
    <3>1. worker'[v] = worker[v] /\ Alive(v) BY <1>1, <1>5, <2>2 DEF Framed, OnlyWorker, Alive
    <3>2. Carried(v) /\ Of(v) \in Jobs BY <3>1, WorkerFacts DEF CarryInv
    <3>3. CASE file' = file BY <1>2, <1>3, <3>1, <3>2, <3>3, StillCarried
    <3>4. CASE Land(w)
      <4>1. /\ worker[w].pc = "land" /\ file'[PathOf[Of(w)]] = ValidBatch(w)
            /\ \A p \in Paths : p # PathOf[Of(w)] => file'[p] = file[p]
            /\ HasLanded(v) /\ Of(v) # Of(w) /\ PathOf[Of(v)] = PathOf[Of(w)] => Of(v) \in overwritten'
        BY <3>1, <3>4, LandEffect
      <4>2. CASE PathOf[Of(v)] # PathOf[Of(w)]
        <5>1. file'[PathOf[Of(v)]] = file[PathOf[Of(v)]]
          BY <3>2, <4>1, <4>2, PathsAssumption
        <5> QED BY <1>2, <1>3, <3>1, <3>2, <5>1, StillCarried
      <4>3. CASE PathOf[Of(v)] = PathOf[Of(w)]
        <5>1. since[Of(w)] \subseteq worker[w].batch
          BY <1>1, <4>1 DEF CarryInv, Carried, HasBatch, Reading
        <5>2. since[Of(w)] \ Invalid \subseteq file'[PathOf[Of(w)]] BY <4>1, <5>1 DEF ValidBatch
        <5>3. HasLanded(v) /\ Of(v) \notin overwritten' => Of(v) = Of(w) BY <4>1, <4>3
        <5>4. HasLanded(v) /\ Of(v) \notin overwritten' =>
                since[Of(v)] \ Invalid \subseteq file'[PathOf[Of(v)]]
          BY <5>2, <5>3
        <5> QED BY <1>2, <1>3, <3>1, <3>2, <5>4, StillCarried
      <4> QED BY <4>2, <4>3
    <3> QED BY <1>2, <3>3, <3>4
  <2> QED BY <2>1, <2>2
<1>6. ASSUME NEW j \in Jobs \ overwritten', job'[j].status = "COMPLETED"
      PROVE  since[j] \ Invalid \subseteq table' /\ since[j] \cap Invalid \subseteq letters'[j]
  <2>1. CASE job[j].status = "COMPLETED" BY <1>2, <1>3, <1>6, <2>1 DEF CarryInv, CompletedIsLoaded
  <2>2. CASE job[j].status # "COMPLETED"
    <3>1. j = Of(w) BY <1>1, <1>6, <2>2 DEF Framed, OnlyRow
    <3>2. Completes(w)
      BY <1>6, <2>2, <3>1, StepKinds
      DEF Loads, Begins, Claims, Stops, Halts, Clears, Fails, Works, RowsKeepStatus, Row
    <3>3. HasLoaded(w) /\ j \notin overwritten BY <1>3, <1>6, <3>2 DEF Completes, HasLoaded
    <3>4. since[j] \ Invalid \subseteq table /\ since[j] \cap Invalid \subseteq letters[j]
      BY <1>1, <3>1, <3>3 DEF CarryInv, Carried
    <3> QED BY <1>2, <1>6, <3>4
  <2> QED BY <2>1, <2>2
<1>7. \A j \in Jobs : since'[j] \subseteq source' BY <1>3 DEF CarryInv
<1>8. CompletedIsLoaded' BY <1>3, <1>6 DEF CompletedIsLoaded
<1> QED BY <1>5, <1>7, <1>8 DEF CarryInv

\* A step that launches at most a worker, and completes no job.
LEMMA LaunchCarry ==
  ASSUME Sound, CarryInv, NEW j \in Jobs, OnlyRow(j),
         job'[j].status = job[j].status \/ job'[j].status # "COMPLETED",
         (\E w \in Workers : Launched(w, j)) \/ UNCHANGED worker,
         \/ UNCHANGED since
         \/ /\ ~Exists(j) /\ since'[j] = source /\ job'[j].status # "COMPLETED"
            /\ \A i \in Jobs : i # j => since'[i] = since[i],
         UNCHANGED <<stores, overwritten>>
  PROVE  CarryInv'
<1>1. ASSUME NEW v \in Workers, Alive(v)' PROVE Carried(v)'
  <2>1. CASE worker'[v] = worker[v]
    <3>1. Alive(v) BY <1>1, <2>1 DEF Alive
    <3>2. Carried(v) /\ Of(v) \in Jobs /\ Exists(Of(v))
      BY <3>1, WorkerFacts DEF CarryInv, Sound, RowsExist
    <3>3. since'[Of(v)] = since[Of(v)] BY <3>2
    <3> QED BY <2>1, <3>1, <3>2, <3>3, StillCarried DEF stores
  <2>2. CASE worker'[v] # worker[v]
    <3>1. worker'[v].pc = "load" BY <2>2 DEF Launched, OnlyWorker
    <3> QED BY <3>1 DEF Carried, HasBatch, HasLetters, HasLanded, HasLoaded, Reading
  <2> QED BY <2>1, <2>2
<1>2. \A i \in Jobs : since'[i] \subseteq source' BY DEF CarryInv, stores
<1>3. CompletedIsLoaded'
  BY DEF CarryInv, CompletedIsLoaded, OnlyRow, stores
<1> QED BY <1>1, <1>2, <1>3 DEF CarryInv

LEMMA CarryNext == Sound /\ CarryInv /\ [Next]_vars => CarryInv'
<1> SUFFICES ASSUME Sound, CarryInv, [Next]_vars PROVE CarryInv'
  OBVIOUS
<1>1. ASSUME NEW w \in Workers, Step(w) PROVE CarryInv' BY <1>1, StepCarry
<1>2. ASSUME NEW c \in Clients, NEW j \in Jobs, RequestPause(c, j) \/ RequestResume(c, j) \/ RequestCancel(c, j)
      PROVE  CarryInv'
  BY <1>2, PauseEffect, ResumeEffect, CancelEffect, LaunchCarry DEF Signalled, Past
<1>3. ASSUME NEW c \in Clients, Respond(c) PROVE CarryInv'
  <2>1. PICK j \in Jobs :
          /\ request[c] # NoRequest /\ OnlyRow(j) /\ job'[j].status = request[c].target
          /\ UNCHANGED <<up, stores, since, overwritten, spent>>
          /\ \/ request[c].target = "RUNNING" /\ \E w \in Workers : Launched(w, j)
             \/ request[c].target = "CANCELLED" /\ UNCHANGED worker
    BY <1>3, RespondEffect
  <2> QED BY <2>1, LaunchCarry
<1>4. ASSUME NEW j \in Jobs, Start(j) PROVE CarryInv' BY <1>4, StartEffect, LaunchCarry
<1>5. ASSUME NEW j \in Jobs, Recover(j) PROVE CarryInv' BY <1>5, RecoverEffect, LaunchCarry
<1>6. ASSUME Crash PROVE CarryInv'
  BY <1>6, CrashEffect DEF CarryInv, CompletedIsLoaded, stores, Past
<1>7. ASSUME Restart \/ UNCHANGED vars PROVE CarryInv'
  <2>1. UNCHANGED <<job, worker, stores, since, overwritten>> BY <1>7 DEF Restart, vars, stores, history
  <2>2. ASSUME NEW v \in Workers, Alive(v)' PROVE Carried(v)'
    <3>1. Alive(v) /\ Carried(v) /\ Of(v) \in Jobs
      BY <2>1, <2>2, WorkerFacts DEF Alive, CarryInv
    <3> QED BY <2>1, <3>1, StillCarried DEF stores
  <2> QED BY <2>1, <2>2 DEF CarryInv, CompletedIsLoaded, stores
<1>8. ASSUME NEW r \in Records, SourceGrows(r) PROVE CarryInv'
  <2>1. UNCHANGED <<job, worker, file, table, letters, since, overwritten>> /\ source \subseteq source'
    BY <1>8 DEF SourceGrows, history
  <2>2. ASSUME NEW v \in Workers, Alive(v)' PROVE Carried(v)'
    <3>1. Alive(v) /\ Carried(v) /\ Of(v) \in Jobs
      BY <2>1, <2>2, WorkerFacts DEF Alive, CarryInv
    <3> QED BY <2>1, <3>1, StillCarried
  <2>3. \A j \in Jobs : since'[j] \subseteq source' BY <2>1 DEF CarryInv
  <2>4. CompletedIsLoaded' BY <2>1 DEF CarryInv, CompletedIsLoaded
  <2> QED BY <2>2, <2>3, <2>4 DEF CarryInv
<1> QED BY <1>1, <1>2, <1>3, <1>4, <1>5, <1>6, <1>7, <1>8 DEF Next, Serve

LEMMA CarryInit == Init => CarryInv
BY DEF Init, CarryInv, CompletedIsLoaded, Alive, NoRow

\* COMPLETED means loaded: whatever failed, was retried, stopped or taken over on
\* the way, every record that Salesforce held when the job was created is in
\* ClickHouse or, if it is invalid, among the job's dead letters. The one thing
\* that can come between is another job landing under the same name.
THEOREM CompletedLoaded == Spec => []CompletedIsLoaded
<1>1. Init => Sound /\ CarryInv BY SoundInit, CarryInit
<1>2. (Sound /\ CarryInv) /\ [Next]_vars => (Sound /\ CarryInv)' BY SoundNext, CarryNext
<1>3. CarryInv => CompletedIsLoaded BY DEF CarryInv
<1> QED BY <1>1, <1>2, <1>3, PTL DEF Spec

-----------------------------------------------------------------------------
(***************************************************************************)
(* Counting once.                                                          *)
(***************************************************************************)

\* What CountInv says of one job.
WorkersUncounted(j) ==
  \A w \in Workers : Alive(w) /\ Of(w) = j =>
    /\ worker[w].read = NoRow.counted
    /\ worker[w].pc # "complete" => job[j].stage # "loaded"

CountIsExact(j) ==
  /\ job[j].stage # "loaded" => job[j].counted = NoRow.counted
  /\ job[j].stage = "loaded" =>
       \A r \in Records : /\ job[j].counted[r] <= 1
                          /\ r \in since[j] \ Invalid => job[j].counted[r] = 1

LEMMA CountParts ==
  CountInv <=> \A j \in Jobs \ (contested \cup recounted) : WorkersUncounted(j) /\ CountIsExact(j)
BY DEF CountInv, WorkersUncounted, CountIsExact

LEMMA CountPartsNext ==
  (\A j \in Jobs \ (contested' \cup recounted') : WorkersUncounted(j)' /\ CountIsExact(j)') => CountInv'
BY DEF CountInv, WorkersUncounted, CountIsExact

\* A step that keeps the job's checkpoint and its workers but for those that end
\* or make progress with nothing counted.
LEMMA CountKept ==
  ASSUME NEW j \in Jobs, WorkersUncounted(j), CountIsExact(j), KeepsCheckpoint(j),
         since'[j] = since[j] \/ job[j].stage # "loaded",
         \A v \in Workers : Alive(v)' /\ worker'[v].job = j =>
           \/ worker'[v] = worker[v]
           \/ worker'[v].read = NoRow.counted /\ job[j].stage # "loaded"
  PROVE  WorkersUncounted(j)' /\ CountIsExact(j)'
<1>1. ASSUME NEW v \in Workers, Alive(v)', Of(v)' = j
      PROVE  /\ worker'[v].read = NoRow.counted
             /\ worker'[v].pc # "complete" => job'[j].stage # "loaded"
  BY <1>1 DEF WorkersUncounted, KeepsCheckpoint, Alive, Of
<1>2. CountIsExact(j)' BY DEF CountIsExact, KeepsCheckpoint
<1>3. NoRow.counted' = NoRow.counted BY DEF NoRow
<1> QED BY <1>1, <1>2, <1>3 DEF WorkersUncounted

\* A step of the job's only worker.
LEMMA OwnCount ==
  ASSUME Sound, CarryInv, NEW w \in Workers, Step(w), NEW j \in Jobs, j = Of(w), Solo(j),
         WorkersUncounted(j), CountIsExact(j)
  PROVE  WorkersUncounted(j)' /\ CountIsExact(j)'
<1>1. Framed(w) /\ Alive(w) BY StepFramed DEF Framed
<1>2. /\ \A v \in Workers : Alive(v)' /\ Of(v)' = j => v = w
      /\ \A v \in Workers : Alive(v)' /\ worker'[v].job = j => v = w
  BY <1>1 DEF Framed, OnlyWorker, Alive, Of, Solo
<1>3. worker[w].read = NoRow.counted /\ (worker[w].pc # "complete" => job[j].stage # "loaded")
  BY <1>1 DEF WorkersUncounted
<1>4. since' = since /\ Row(w) = job[j] BY <1>1 DEF Framed, Row
<1>5. NoRow.counted = [r \in Records |-> 0] BY DEF NoRow
<1>k. UNCHANGED job => KeepsCheckpoint(j) BY DEF KeepsCheckpoint
<1>h. ASSUME HandleException(w) PROVE WorkersUncounted(j)' /\ CountIsExact(j)'
  BY <1>1, <1>2, <1>4, <1>h, BoundaryEffect, CountKept DEF Leaves
<1>6. ASSUME KeepsCheckpoint(j), worker[w].pc # "complete", Alive(w)' => worker'[w].read = NoRow.counted
      PROVE  WorkersUncounted(j)' /\ CountIsExact(j)'
  BY <1>2, <1>3, <1>4, <1>6, CountKept
<1>7. ASSUME Load(w) \/ Claim(w) \/ Authenticate(w) \/ GetResults(w) \/ RetryCall(w)
               \/ SendToDeadLetter(w) \/ LoadFromStorage(w) \/ ClearControl(w)
      PROVE  WorkersUncounted(j)' /\ CountIsExact(j)'
  <2>1. KeepsCheckpoint(j) /\ worker[w].pc # "complete" /\ (Alive(w)' => worker'[w].read = worker[w].read)
    BY <1>7, <1>k, LoadEffect, ClaimEffect, AuthenticateEffect, ResultsEffect, RetryEffect,
       LettersEffect, SinkEffect, ClearEffect DEF Becomes, Leaves, CallSteps
  <2> QED BY <1>3, <1>6, <2>1
<1>8. ASSUME Begin(w) \/ Halt(w, "pause", "PAUSED") \/ Halt(w, "cancel", "CANCELLED")
      PROVE  WorkersUncounted(j)' /\ CountIsExact(j)'
  <2>1. \/ HandleException(w)
        \/ KeepsCheckpoint(j) /\ worker[w].pc # "complete" /\ worker'[w].read = worker[w].read
    BY <1>8, <1>k, BeginEffect, HaltEffect DEF Becomes
  <2> QED BY <1>3, <1>6, <1>h, <2>1
<1>9. ASSUME CheckStop(w) PROVE WorkersUncounted(j)' /\ CountIsExact(j)'
  <2>1. worker[w].pc = "check" /\ KeepsCheckpoint(j) BY <1>9, <1>k, CheckEffect
  <2>2. job[j].counted = NoRow.counted BY <1>3, <2>1 DEF CountIsExact
  <2>3. Alive(w)' => worker'[w].read \in {worker[w].read, job[j].counted}
    BY <1>4, <1>9, CheckEffect DEF Becomes
  <2> QED BY <1>3, <1>6, <2>1, <2>2, <2>3
<1>10. ASSUME CreateBulkJob(w) \/ Poll(w) \/ Land(w)
       PROVE  WorkersUncounted(j)' /\ CountIsExact(j)'
  <2>1. /\ worker[w].pc # "complete" /\ worker'[w].read = worker[w].read
        /\ job'[j].stage # "loaded" /\ job'[j].counted = job[j].counted
    BY <1>4, <1>10, CreateEffect, PollEffect, LandEffect DEF Becomes
  <2>2. job[j].counted = NoRow.counted BY <1>3, <2>1 DEF CountIsExact
  <2>3. NoRow.counted' = NoRow.counted BY DEF NoRow
  <2> QED BY <1>2, <1>3, <2>1, <2>2, <2>3 DEF WorkersUncounted, CountIsExact
<1>11. ASSUME CheckpointLoaded(w) PROVE WorkersUncounted(j)' /\ CountIsExact(j)'
  <2>1. /\ worker[w].pc = "loaded" /\ worker'[w].pc = "complete" /\ worker'[w].read = worker[w].read
        /\ job'[j].stage = "loaded"
        /\ \A r \in Records : job'[j].counted[r] =
             worker[w].read[r] + IF r \in ValidBatch(w) THEN 1 ELSE 0
    BY <1>11, LoadedEffect DEF Becomes
  <2>2. \A r \in Records : job'[j].counted[r] = IF r \in ValidBatch(w) THEN 1 ELSE 0
    BY <1>3, <1>5, <2>1
  <2>3. since[j] \ Invalid \subseteq ValidBatch(w)
    BY <1>1, <2>1 DEF CarryInv, Carried, HasBatch, Reading, ValidBatch
  <2>4. NoRow.counted' = NoRow.counted BY DEF NoRow
  <2> QED BY <1>2, <1>3, <1>4, <2>1, <2>2, <2>3, <2>4 DEF WorkersUncounted, CountIsExact
<1>12. ASSUME Complete(w) PROVE WorkersUncounted(j)' /\ CountIsExact(j)'
  <2>1. HandleException(w) \/ (KeepsCheckpoint(j) /\ ~Alive(w)') BY <1>12, CompleteEffect DEF Leaves
  <2> QED BY <1>2, <1>4, <1>h, <2>1, CountKept
<1>13. ASSUME CallRaises(w) \/ Fail(w) PROVE WorkersUncounted(j)' /\ CountIsExact(j)'
  BY <1>13, <1>h DEF CallRaises, Fail
<1> QED BY <1>7, <1>8, <1>9, <1>10, <1>11, <1>12, <1>13 DEF Step

\* A launch of the job, at which nothing was counted, or nothing for it.
LEMMA LaunchCount ==
  ASSUME NEW j \in Jobs, NEW i \in Jobs, WorkersUncounted(i), CountIsExact(i), 
         KeepsCheckpoint(j), OnlyRow(j),
         UNCHANGED worker \/ (Recounts(j) /\ \E w \in Workers : Launched(w, j)),
         i \notin recounted',
         \/ since'[i] = since[i]
         \/ Recounts(j) /\ i = j
  PROVE  WorkersUncounted(i)' /\ CountIsExact(i)'
<1>1. KeepsCheckpoint(i) BY DEF OnlyRow, KeepsCheckpoint
<1>2. Recounts(j) /\ i = j => job[i].stage # "loaded" BY DEF Recounts
<1>3. ASSUME NEW v \in Workers, Alive(v)', worker'[v].job = i
      PROVE  \/ worker'[v] = worker[v]
             \/ worker'[v].read = NoRow.counted /\ job[i].stage # "loaded"
  BY <1>2, <1>3 DEF Launched, OnlyWorker
<1> QED BY <1>1, <1>2, <1>3, CountKept

LEMMA CountNext == Sound /\ SignalInv /\ CarryInv /\ CountInv /\ [Next]_vars => CountInv'
<1> SUFFICES ASSUME Sound, SignalInv, CarryInv, CountInv, [Next]_vars,
                    NEW i \in Jobs \ (contested' \cup recounted')
             PROVE  WorkersUncounted(i)' /\ CountIsExact(i)'
  BY CountPartsNext
<1>0. i \notin contested \cup recounted => WorkersUncounted(i) /\ CountIsExact(i) /\ Solo(i)
  BY CountParts DEF SignalInv
<1>1. ASSUME NEW w \in Workers, Step(w) PROVE WorkersUncounted(i)' /\ CountIsExact(i)'
  <2>1. Framed(w) BY <1>1, StepFramed
  <2>2. WorkersUncounted(i) /\ CountIsExact(i) /\ Solo(i) BY <1>0, <2>1 DEF Framed
  <2>3. CASE i = Of(w) BY <1>1, <2>2, <2>3, OwnCount
  <2>4. CASE i # Of(w)
    <3>1. KeepsCheckpoint(i) /\ since' = since BY <2>1, <2>4 DEF Framed, OnlyRow, KeepsCheckpoint
    <3>2. \A v \in Workers : Alive(v)' /\ worker'[v].job = i => worker'[v] = worker[v]
      BY <2>1, <2>4 DEF Framed, OnlyWorker, Of
    <3> QED BY <2>2, <3>1, <3>2, CountKept
  <2> QED BY <2>3, <2>4
<1>2. ASSUME NEW c \in Clients, NEW j \in Jobs, RequestPause(c, j) \/ RequestResume(c, j) \/ RequestCancel(c, j)
      PROVE  WorkersUncounted(i)' /\ CountIsExact(i)'
  <2>1. /\ UNCHANGED <<worker, since, contested, recounted>> /\ OnlyRow(j) /\ KeepsCheckpoint(j)
    BY <1>2, PauseEffect, ResumeEffect, CancelEffect DEF Signalled, Past
  <2> QED BY <1>0, <2>1, LaunchCount
<1>3. ASSUME NEW c \in Clients, Respond(c) PROVE WorkersUncounted(i)' /\ CountIsExact(i)'
  <2>1. PICK j \in Jobs :
          /\ OnlyRow(j) /\ KeepsCheckpoint(j) /\ since' = since
          /\ \/ Taken(j) /\ Recounts(j) /\ \E w \in Workers : Launched(w, j)
             \/ UNCHANGED <<worker, contested, recounted>>
    BY <1>3, RespondEffect
  <2>2. i \notin contested \cup recounted BY <2>1 DEF Taken, Recounts
  <2> QED BY <1>0, <2>1, <2>2, LaunchCount
<1>4. ASSUME NEW j \in Jobs, Start(j) PROVE WorkersUncounted(i)' /\ CountIsExact(i)'
  <2>1. /\ OnlyRow(j) /\ KeepsCheckpoint(j) /\ Taken(j) /\ Recounts(j)
        /\ \A k \in Jobs : k # j => since'[k] = since[k]
        /\ \E w \in Workers : Launched(w, j)
    BY <1>4, StartEffect
  <2>2. i \notin contested \cup recounted BY <2>1 DEF Taken, Recounts
  <2> QED BY <1>0, <2>1, <2>2, LaunchCount
<1>5. ASSUME NEW j \in Jobs, Recover(j) PROVE WorkersUncounted(i)' /\ CountIsExact(i)'
  <2>1. /\ OnlyRow(j) /\ KeepsCheckpoint(j) /\ Taken(j) /\ since' = since
        /\ UNCHANGED worker \/ (Recounts(j) /\ \E w \in Workers : Launched(w, j))
    BY <1>5, RecoverEffect
  <2>2. recounted \subseteq recounted'
    <3>1. HistoryOK BY TypeParts DEF Sound
    <3> QED BY <1>5, <3>1 DEF Recover, Launch, HistoryOK
  <2>3. i \notin contested \cup recounted BY <2>1, <2>2 DEF Taken
  <2> QED BY <1>0, <2>1, <2>3, LaunchCount
<1>6. ASSUME Crash PROVE WorkersUncounted(i)' /\ CountIsExact(i)'
  <2>1. /\ \A w \in Workers : ~Alive(w)'
        /\ UNCHANGED <<since, contested, recounted>> /\ KeepsCheckpoint(i)
    BY <1>6, CrashEffect DEF Past
  <2> QED BY <1>0, <2>1, CountKept
<1>7. ASSUME Restart \/ (\E r \in Records : SourceGrows(r)) \/ UNCHANGED vars
      PROVE  WorkersUncounted(i)' /\ CountIsExact(i)'
  <2>1. UNCHANGED <<job, worker, since, contested, recounted>>
    BY <1>7 DEF Restart, SourceGrows, vars, history
  <2> QED BY <1>0, <2>1, CountKept DEF KeepsCheckpoint
<1> QED BY <1>1, <1>2, <1>3, <1>4, <1>5, <1>6, <1>7 DEF Next, Serve

LEMMA CountInit == Init => CountInv
BY DEF Init, CountInv, Alive, NoRow

\* row_count has every valid record that Salesforce held at the job's creation
\* exactly once when the batch is loaded, and nothing before: of all the stops,
\* failures, crashes and retries only overlapping launches, and a launch after
\* the count, can make it differ.
THEOREM RowsCountedOnce == Spec => []CountedOnce
<1>1. Init => Sound /\ SignalInv /\ CarryInv /\ CountInv
  BY SoundInit, SignalInit, CarryInit, CountInit
<1>2. (Sound /\ SignalInv /\ CarryInv /\ CountInv) /\ [Next]_vars
        => (Sound /\ SignalInv /\ CarryInv /\ CountInv)'
  BY SoundNext, SignalNext, CarryNext, CountNext
<1>3. Sound /\ CountInv => CountedOnce
  <2> SUFFICES ASSUME Sound, CountInv, NEW j \in Jobs \ (contested \cup recounted)
               PROVE  /\ \A r \in Records : job[j].counted[r] <= 1
                      /\ job[j].stage # "loaded" => job[j].counted = NoRow.counted
                      /\ job[j].stage = "loaded" => \A r \in since[j] \ Invalid : job[j].counted[r] = 1
    BY DEF CountedOnce
  <2>1. CountIsExact(j) BY CountParts
  <2>2. since[j] \subseteq Records BY TypeParts DEF Sound, HistoryOK
  <2> QED BY <2>1, <2>2 DEF CountIsExact, NoRow
<1> QED BY <1>1, <1>2, <1>3, PTL DEF Spec
=============================================================================
