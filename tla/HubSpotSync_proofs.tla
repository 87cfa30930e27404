------------------------- MODULE HubSpotSync_proofs -------------------------
(***************************************************************************)
(* Theorems about HubSpotSync, for every number of processes, threads,     *)
(* requests and pages and every value of the bounds.                       *)
(***************************************************************************)
EXTENDS HubSpotSync, TLAPS

\* What a worker that exists is: a record, never the idle marker.
WorkerRecords ==
  {r \in [pc : Steps, proc : Procs, seen : Statuses, start : Pages,
          copy : Copies \cup {Expired}, page : Pages, paused : BOOLEAN] :
     r.pc \in Holding => r.copy # Expired}

\* A thread that is alive is one of the worker records.
LEMMA WorkerIsRecord ==
  ASSUME TypeOK, NEW w \in Workers, Alive(w)
  PROVE  worker[w] \in WorkerRecords
BY DEF TypeOK, Alive, WorkerStates, WorkerRecords

\* A launch starts from a page, whatever the cursor is.
LEMMA StartAfterIsPage ==
  ASSUME NEW c \in Cursors PROVE StartAfter(c) \in Pages
BY PagesAssumption DEF Cursors, Pages, StartAfter

\* The table only names statuses.
LEMMA TransitionTargets ==
  ASSUME NEW s \in Statuses, NEW t, CanTransition(s, t) PROVE t \in Statuses
BY DEF Statuses, CanTransition, AllowedTransitions

\* A thread that goes on keeps the worker array in its type.
LEMMA GoesType ==
  ASSUME TypeOK, NEW w \in Workers, Alive(w), NEW s \in Steps,
         s \in Holding => worker[w].copy # Expired, Goes(w, s)
  PROVE  worker' \in [Workers -> WorkerStates]
<1>1. worker[w] \in WorkerRecords BY WorkerIsRecord
<1>2. [worker[w] EXCEPT !.pc = s] \in WorkerStates
  BY <1>1 DEF WorkerRecords, WorkerStates
<1> QED BY <1>2 DEF TypeOK, Goes

\* A thread that ends keeps the worker array in its type.
LEMMA EndsType ==
  ASSUME TypeOK, NEW w \in Workers, Ends(w)
  PROVE  worker' \in [Workers -> WorkerStates]
BY DEF TypeOK, Ends, WorkerStates

\* A launch keeps the worker array in its type.
LEMMA LaunchType ==
  ASSUME TypeOK, NEW w \in Workers, NEW p \in Procs, NEW s \in Pages, Launch(w, p, s)
  PROVE  worker' \in [Workers -> WorkerStates] /\ contested' \in BOOLEAN
<1>1. [pc |-> "load", proc |-> p, seen |-> "PENDING", start |-> s,
        copy |-> Expired, page |-> 1, paused |-> FALSE] \in WorkerStates
  BY PagesAssumption DEF WorkerStates, Holding, Steps, Statuses, Pages
<1>2. contested' \in BOOLEAN BY DEF Launch, TypeOK
<1> QED BY <1>1, <1>2 DEF TypeOK, Launch

Jobs == [status : Statuses, control : {"none", "pause"}, owner : Procs \cup {Nobody},
         cursor : Cursors, counted : [Pages -> Nat], retries : Nat]

\* An expired copy is told from any that was read.
LEMMA ExpiredIsNoCopy == Expired \notin Copies
<1>1. \A c \in Copies : "cursor" \in DOMAIN c BY DEF Copies
<1>2. "cursor" \notin DOMAIN Expired BY DEF Expired
<1> QED BY <1>1, <1>2

\* What a session reads of the row is a copy of it.
LEMMA RowNowIsCopy == TypeOK => RowNow \in Copies
BY DEF TypeOK, RowNow, Copies

\* A status write keeps the row in its type.
LEMMA StatusType ==
  ASSUME TypeOK, NEW s \in Statuses, WriteStatus(s)
  PROVE  job' \in Jobs
BY DEF TypeOK, WriteStatus, Jobs

\* The error boundary keeps every variable in its type.
LEMMA ExceptionType ==
  ASSUME TypeOK, NEW w \in Workers, HandleException(w)
  PROVE  TypeOK'
<1>1. worker' \in [Workers -> WorkerStates] BY EndsType DEF HandleException
<1>2. job' \in Jobs
  <2>1. job \in Jobs BY DEF TypeOK, Jobs
  <2>2. job.retries + 1 \in Nat BY <2>1 DEF Jobs
  <2>3. CASE CanTransition(job.status, "FAILED")
    <3>1. job' = [job EXCEPT !.retries = job.retries + 1, !.status = "FAILED"]
      BY <2>3 DEF HandleException
    <3> QED BY <2>1, <2>2, <3>1 DEF Jobs, Statuses
  <2>4. CASE ~CanTransition(job.status, "FAILED")
    <3>1. job' = [job EXCEPT !.retries = job.retries + 1, !.status = job.status]
      BY <2>4 DEF HandleException
    <3> QED BY <2>1, <2>2, <3>1 DEF Jobs
  <2> QED BY <2>3, <2>4
<1> QED BY <1>1, <1>2 DEF HandleException, TypeOK, Jobs, world, stores

\* The row start_ingestion creates has its type.
LEMMA TypeInit == Init => TypeOK
<1> SUFFICES ASSUME Init PROVE TypeOK
  OBVIOUS
<1>1. job \in Jobs BY PagesAssumption DEF Init, Jobs, Statuses, Cursors, NotStarted
<1>2. worker \in [Workers -> WorkerStates]
  BY PagesAssumption DEF Init, WorkerStates, Holding, Steps, Statuses, Pages
<1> QED BY <1>1, <1>2 DEF Init, TypeOK, Jobs

\* A worker step that changes the row, the heartbeat and the stores at most.
LEMMA WorkType ==
  ASSUME TypeOK, NEW w \in Workers, Work(w) PROVE TypeOK'
<1> USE DEF world, stores
<1> DEFINE r == worker[w]
<1>0. TypeOK /\ job \in Jobs BY DEF TypeOK, Jobs
<1>1. Alive(w) /\ r \in WorkerRecords
  BY WorkerIsRecord DEF Work, At, Load, Authenticate, Begin, Claim, ClearSignal, ChooseMode,
    CheckSignal, LandPage, LoadPage, Checkpoint, Refresh, PauseJob, AdvanceMark, CompleteJob,
    ReadCursor
<1>2. CASE Load(w)
  <2>1. [r EXCEPT !.pc = "auth", !.seen = job.status, !.copy = RowNow] \in WorkerStates
    BY <1>0, <1>1, RowNowIsCopy DEF WorkerRecords, WorkerStates, Holding, Jobs, Steps
  <2> QED BY <2>1, <1>2 DEF Load, TypeOK
<1>3. CASE Authenticate(w)
  <2>1. worker' \in [Workers -> WorkerStates] BY <1>1, <1>3, GoesType DEF Authenticate, Steps, Holding
  <2> QED BY <2>1, <1>3 DEF Authenticate, TypeOK
<1>4. CASE Begin(w)
  <2>1. CASE r.seen = "RUNNING" /\ Goes(w, "claim") /\ UNCHANGED <<job, world, stores, contested>>
    <3>1. worker' \in [Workers -> WorkerStates] BY <1>1, <2>1, GoesType DEF Steps, Holding
    <3> QED BY <3>1, <2>1 DEF TypeOK
  <2>2. CASE /\ WriteStatus("RUNNING")
             /\ worker' = [worker EXCEPT ![w].pc = "claim", ![w].copy = Expired]
             /\ UNCHANGED <<world, stores, contested>>
    <3>1. job' \in Jobs BY <2>2, StatusType DEF Statuses
    <3>2. [r EXCEPT !.pc = "claim", !.copy = Expired] \in WorkerStates
      BY <1>0, <1>1 DEF WorkerRecords, WorkerStates, Holding, Jobs, Steps
    <3> QED BY <3>1, <3>2, <2>2 DEF TypeOK, Jobs
  <2>3. CASE HandleException(w) BY <2>3, ExceptionType
  <2> QED BY <1>4, <2>1, <2>2, <2>3 DEF Begin
<1>5. CASE Claim(w)
  <2>1. worker' \in [Workers -> WorkerStates] BY <1>1, <1>5, GoesType DEF Claim, Steps, Holding
  <2>2. job' \in Jobs BY <1>0, <1>1, <1>5 DEF Claim, Jobs, WorkerRecords
  <2> QED BY <2>1, <2>2, <1>5 DEF Claim, TypeOK, Jobs
<1>6. CASE ClearSignal(w)
  <2>1. worker' \in [Workers -> WorkerStates] BY <1>1, <1>6, GoesType DEF ClearSignal, Steps, Holding
  <2>2. job' \in Jobs BY <1>0, <1>6 DEF ClearSignal, Jobs
  <2> QED BY <2>1, <2>2, <1>6 DEF ClearSignal, TypeOK, Jobs
<1>7. CASE ChooseMode(w)
  <2>1. r.start \in Cursors
    BY <1>1, PagesAssumption DEF WorkerRecords, Pages, Cursors
  <2>2. ASSUME NEW s \in Steps \ Holding, NEW g \in Pages, SaveMode(w, s, g)
        PROVE  job' \in Jobs /\ worker' \in [Workers -> WorkerStates]
    <3>1. job' \in {job, [job EXCEPT !.cursor = r.start]} BY <2>2 DEF SaveMode
    <3>2. [job EXCEPT !.cursor = r.start] \in Jobs BY <1>0, <2>1 DEF Jobs
    <3> DEFINE c == IF r.copy.cursor = NotStarted THEN Expired ELSE r.copy
               n == [r EXCEPT !.pc = s, !.page = g, !.copy = c]
    <3>3. worker' = [worker EXCEPT ![w] = n] BY <2>2 DEF SaveMode, TypeOK
    <3>4. c \in Copies \cup {Expired} BY <1>1 DEF WorkerRecords
    <3> HIDE DEF c
    <3>5. n \in WorkerStates BY <1>1, <3>4 DEF WorkerRecords, WorkerStates
    <3> HIDE DEF n
    <3> QED BY <1>0, <3>1, <3>2, <3>3, <3>5 DEF TypeOK
  <2>3. r.page \in Pages /\ r.start \in Pages BY <1>1 DEF WorkerRecords
  <2>4. job' \in Jobs /\ worker' \in [Workers -> WorkerStates]
    BY <1>7, <2>2, <2>3 DEF ChooseMode, Steps, Holding
  <2> QED BY <2>4, <1>7 DEF ChooseMode, TypeOK, Jobs
<1>8. CASE CheckSignal(w)
  <2> DEFINE c == IF r.copy = Expired THEN RowNow ELSE r.copy
             s == IF job.control = "none" THEN "land" ELSE "refresh"
             b == job.control # "none"
             n == [r EXCEPT !.copy = c, !.pc = s, !.paused = b]
  <2>1. worker' = [worker EXCEPT ![w] = n] BY <1>8 DEF CheckSignal, TypeOK
  <2>2. c \in Copies BY <1>0, <1>1, RowNowIsCopy DEF WorkerRecords
  <2>3. s \in Steps /\ b \in BOOLEAN BY DEF Steps
  <2> HIDE DEF c, s, b
  <2>4. n \in WorkerStates
    BY <1>1, <2>2, <2>3, ExpiredIsNoCopy DEF WorkerRecords, WorkerStates
  <2> HIDE DEF n
  <2>5. worker' \in [Workers -> WorkerStates] BY <2>1, <2>4 DEF TypeOK
  <2> QED BY <2>5, <1>8 DEF CheckSignal, TypeOK
<1>9. CASE LandPage(w)
  <2>0. r.copy # Expired BY <1>1, <1>9 DEF LandPage, At, WorkerRecords, Holding
  <2>1. worker' \in [Workers -> WorkerStates] BY <1>1, <1>9, <2>0, GoesType DEF LandPage, Steps
  <2>2. landed' \in SUBSET Pages BY <1>0, <1>1, <1>9 DEF LandPage, WorkerRecords, TypeOK
  <2> QED BY <2>1, <2>2, <1>9 DEF LandPage, TypeOK
<1>10. CASE LoadPage(w)
  <2>1. worker' \in [Workers -> WorkerStates]
    <3>0. r.copy # Expired BY <1>1, <1>10 DEF LoadPage, At, WorkerRecords, Holding
    <3>1. PICK c \in {r.copy, RowNow} :
            worker' = [worker EXCEPT ![w].pc = "checkpoint", ![w].copy = c]
      BY <1>10 DEF LoadPage
    <3>2. c \in Copies BY <1>0, <1>1, <3>0, <3>1, RowNowIsCopy DEF WorkerRecords
    <3>3. [r EXCEPT !.pc = "checkpoint", !.copy = c] \in WorkerStates
      BY <1>1, <3>2, ExpiredIsNoCopy DEF WorkerRecords, WorkerStates, Steps
    <3> QED BY <3>1, <3>3 DEF TypeOK
  <2>2. table' \in SUBSET Pages BY <1>0, <1>1, <1>10 DEF LoadPage, WorkerRecords, TypeOK
  <2> QED BY <2>1, <2>2, <1>10 DEF LoadPage, TypeOK
<1>11. CASE Checkpoint(w)
  <2>1. r.page \in Pages /\ r.page + 1 \in Cursors /\ (r.page # N => r.page + 1 \in Pages)
    BY <1>1, PagesAssumption DEF WorkerRecords, Pages, Cursors
  <2>2. worker' \in [Workers -> WorkerStates]
    <3>1. CASE r.page = N
      <4>1. [r EXCEPT !.pc = "refresh", !.copy = Expired] \in WorkerStates
        BY <1>1 DEF WorkerRecords, WorkerStates, Holding, Steps
      <4> QED BY <4>1, <3>1, <1>11 DEF Checkpoint, TypeOK
    <3>2. CASE r.page # N
      <4>1. [r EXCEPT !.pc = "check", !.copy = Expired, !.page = r.page + 1] \in WorkerStates
        BY <1>1, <2>1, <3>2 DEF WorkerRecords, WorkerStates, Holding, Steps
      <4> QED BY <4>1, <3>2, <1>11 DEF Checkpoint, TypeOK
    <3> QED BY <3>1, <3>2
  <2>3. r.copy \in Copies BY <1>1, <1>11 DEF Checkpoint, At, WorkerRecords, Holding
  <2>4. [r.copy.counted EXCEPT ![r.page] = @ + 1] \in [Pages -> Nat]
    BY <2>1, <2>3 DEF Copies
  <2>5. job' \in Jobs BY <1>0, <1>11, <2>1, <2>4 DEF Checkpoint, Counting, Jobs
  <2> QED BY <2>2, <2>5, <1>11 DEF Checkpoint, TypeOK, Jobs
<1>12. CASE Refresh(w)
  <2>1. worker' \in [Workers -> WorkerStates]
    <3>1. CASE job.status = "CANCELLED"
      <4>1. Ends(w) BY <1>12, <3>1 DEF Refresh
      <4> QED BY <4>1, EndsType
    <3>2. CASE job.status # "CANCELLED"
      <4>1. [r EXCEPT !.pc = "settle", !.seen = job.status, !.copy = Expired] \in WorkerStates
        BY <1>0, <1>1 DEF WorkerRecords, WorkerStates, Holding, Steps, Jobs
      <4> QED BY <4>1, <3>2, <1>12 DEF Refresh, TypeOK
    <3> QED BY <3>1, <3>2
  <2> QED BY <2>1, <1>12 DEF Refresh, TypeOK
<1>13. CASE PauseJob(w)
  <2>1. CASE HandleException(w) BY <2>1, ExceptionType
  <2>2. CASE WriteStatus("PAUSED") /\ Ends(w) /\ UNCHANGED <<world, stores, contested>>
    <3>1. job' \in Jobs BY <2>2, StatusType DEF Statuses
    <3>2. worker' \in [Workers -> WorkerStates] BY <2>2, EndsType
    <3> QED BY <3>1, <3>2, <2>2 DEF TypeOK, Jobs
  <2> QED BY <1>13, <2>1, <2>2 DEF PauseJob
<1>14. CASE AdvanceMark(w)
  <2>1. worker' \in [Workers -> WorkerStates] BY <1>1, <1>14, GoesType DEF AdvanceMark, Steps, Holding
  <2> QED BY <2>1, <1>14 DEF AdvanceMark, TypeOK
<1>15. CASE CompleteJob(w)
  <2>1. CASE HandleException(w) BY <2>1, ExceptionType
  <2>2. CASE WriteStatus("COMPLETED") /\ Ends(w) /\ UNCHANGED <<world, stores, contested>>
    <3>1. job' \in Jobs BY <2>2, StatusType DEF Statuses
    <3>2. worker' \in [Workers -> WorkerStates] BY <2>2, EndsType
    <3> QED BY <3>1, <3>2, <2>2 DEF TypeOK, Jobs
  <2> QED BY <1>15, <2>1, <2>2 DEF CompleteJob
<1>16. CASE ReadCursor(w)
  <2>1. CASE r.copy = Expired
    <3>1. [r EXCEPT !.pc = "mode", !.copy = RowNow] \in WorkerStates
      BY <1>0, <1>1, RowNowIsCopy, ExpiredIsNoCopy DEF WorkerRecords, WorkerStates, Holding, Steps
    <3> QED BY <3>1, <2>1, <1>16 DEF ReadCursor, TypeOK
  <2>2. CASE r.copy # Expired
    <3>1. worker' \in [Workers -> WorkerStates]
      BY <1>1, <1>16, <2>2, GoesType DEF ReadCursor, Steps
    <3> QED BY <3>1, <1>16 DEF ReadCursor, TypeOK
  <2> QED BY <2>1, <2>2
<1> QED
  BY <1>2, <1>3, <1>4, <1>5, <1>6, <1>7, <1>8, <1>9, <1>10, <1>11, <1>12, <1>13, <1>14, <1>15,
    <1>16 DEF Work

Requests == {NoRequest} \cup
  [proc : Procs, target : Targets, launches : BOOLEAN, start : Pages]

\* A request in flight is one of the request records.
LEMMA RequestIsRecord ==
  ASSUME TypeOK, NEW c \in Clients, request[c] # NoRequest
  PROVE  request[c] \in [proc : Procs, target : Targets, launches : BOOLEAN, start : Pages]
BY DEF TypeOK

\* A request that decided on a status keeps the requests in their type.
LEMMA DecidesType ==
  ASSUME TypeOK, NEW c \in Clients, NEW p \in Procs, NEW s \in Targets,
         NEW b \in BOOLEAN, Decides(c, p, s, b)
  PROVE  request' \in [Clients -> Requests]
<1>1. StartAfter(job.cursor) \in Pages BY StartAfterIsPage DEF TypeOK
<1> QED BY <1>1 DEF TypeOK, Decides, Requests

\* The steps of the API keep every variable in its type.
LEMMA ServeType ==
  ASSUME TypeOK, NEW c \in Clients, Serve(c) PROVE TypeOK'
<1> USE DEF stores
<1>0. job \in Jobs BY DEF TypeOK, Jobs
<1>1. ASSUME NEW p \in Procs, RequestPause(c, p) PROVE TypeOK'
  <2>1. job' \in Jobs BY <1>0, <1>1 DEF RequestPause, Jobs
  <2>2. requests' \in Nat BY <1>1 DEF RequestPause, Free, TypeOK
  <2> QED BY <1>1, <2>1, <2>2 DEF RequestPause, TypeOK, Jobs
<1>2. ASSUME NEW p \in Procs, RequestResume(c, p) PROVE TypeOK'
  <2>1. request' \in [Clients -> Requests]
    BY <1>2, DecidesType DEF RequestResume, Targets
  <2>2. requests' \in Nat BY <1>2 DEF RequestResume, Free, TypeOK
  <2> QED BY <1>2, <2>1, <2>2 DEF RequestResume, TypeOK, Requests
<1>3. ASSUME NEW p \in Procs, RequestCancel(c, p) PROVE TypeOK'
  <2>1. request' \in [Clients -> Requests]
    <3>1. CASE CanTransition(job.status, "CANCELLED")
      <4>1. Decides(c, p, "CANCELLED", FALSE) BY <1>3, <3>1 DEF RequestCancel
      <4> QED BY <4>1, DecidesType DEF Targets
    <3>2. CASE ~CanTransition(job.status, "CANCELLED")
      BY <1>3, <3>2 DEF RequestCancel, TypeOK, Requests
    <3> QED BY <3>1, <3>2
  <2>2. job' \in Jobs BY <1>0, <1>3 DEF RequestCancel, Jobs
  <2>3. requests' \in Nat BY <1>3 DEF RequestCancel, Free, TypeOK
  <2> QED BY <1>3, <2>1, <2>2, <2>3 DEF RequestCancel, TypeOK, Requests, Jobs
<1>4. ASSUME NEW p \in Procs, NEW s \in Targets, RequestStatus(c, p, s) PROVE TypeOK'
  <2>1. request' \in [Clients -> Requests] BY <1>4, DecidesType DEF RequestStatus
  <2>2. requests' \in Nat BY <1>4 DEF RequestStatus, Free, TypeOK
  <2> QED BY <1>4, <2>1, <2>2 DEF RequestStatus, TypeOK, Requests
<1>5. CASE Respond(c)
  <2> DEFINE q == request[c]
  <2>1. q \in [proc : Procs, target : Targets, launches : BOOLEAN, start : Pages]
    BY <1>5, RequestIsRecord DEF Respond
  <2>2. job' \in Jobs BY <1>5, <2>1, StatusType DEF Respond, Targets, Statuses
  <2>3. worker' \in [Workers -> WorkerStates] /\ contested' \in BOOLEAN
    <3>1. CASE q.launches BY <1>5, <2>1, <3>1, LaunchType DEF Respond
    <3>2. CASE ~q.launches BY <1>5, <3>2 DEF Respond, TypeOK
    <3> QED BY <3>1, <3>2
  <2>4. request' \in [Clients -> Requests] BY <1>5 DEF Respond, TypeOK, Requests
  <2> QED BY <1>5, <2>2, <2>3, <2>4 DEF Respond, TypeOK, Jobs, Requests
<1> QED BY <1>1, <1>2, <1>3, <1>4, <1>5 DEF Serve

\* The steps of the processes keep every variable in its type.
LEMMA RunType ==
  ASSUME TypeOK, NEW p \in Procs, Run(p) PROVE TypeOK'
<1> USE DEF stores
<1>0. job \in Jobs BY DEF TypeOK, Jobs
<1>1. CASE Heartbeat(p) BY <1>1 DEF Heartbeat, TypeOK
<1>2. CASE TakeOver(p)
  <2>1. job' \in Jobs BY <1>0, <1>2 DEF TakeOver, Jobs
  <2> QED BY <1>2, <2>1 DEF TakeOver, TypeOK, Jobs
<1>3. CASE Recover(p)
  <2>1. CASE job.control = "pause" /\ job.status = "RUNNING"
    <3>1. job' \in Jobs BY <1>0, <1>3, <2>1 DEF Recover, Jobs, Statuses
    <3> QED BY <1>3, <2>1, <3>1 DEF Recover, TypeOK, Jobs
  <2>2. CASE ~(job.control = "pause" /\ job.status = "RUNNING")
    <3>1. PICK w \in Workers : Launch(w, p, StartAfter(job.cursor))
      BY <1>3, <2>2 DEF Recover
    <3>2. StartAfter(job.cursor) \in Pages BY StartAfterIsPage DEF TypeOK
    <3>3. worker' \in [Workers -> WorkerStates] /\ contested' \in BOOLEAN
      BY <3>1, <3>2, LaunchType
    <3> QED BY <1>3, <2>2, <3>3 DEF Recover, TypeOK
  <2> QED BY <2>1, <2>2
<1>4. CASE SweepFails(p) BY <1>4 DEF SweepFails, TypeOK
<1>5. CASE Crash(p)
  <2>1. job' \in Jobs BY <1>0, <1>5 DEF Crash, Jobs
  <2>2. worker' \in [Workers -> WorkerStates] BY <1>5 DEF Crash, TypeOK, WorkerStates
  <2>3. request' \in [Clients -> Requests] BY <1>5 DEF Crash, TypeOK, Requests
  <2>4. crashes' \in Nat BY <1>5 DEF Crash, TypeOK
  <2>5. live' \in SUBSET Procs /\ taken' \in SUBSET live' BY <1>5 DEF Crash, TypeOK
  <2> QED BY <1>5, <2>1, <2>2, <2>3, <2>4, <2>5 DEF Crash, TypeOK, Jobs, Requests
<1>6. CASE Restart(p) BY <1>6 DEF Restart, TypeOK
<1> QED BY <1>1, <1>2, <1>3, <1>4, <1>5, <1>6 DEF Run

\* TypeOK is kept by every step.
LEMMA TypeNext == TypeOK /\ [Next]_vars => TypeOK'
<1> SUFFICES ASSUME TypeOK, [Next]_vars PROVE TypeOK'
  OBVIOUS
<1>1. ASSUME NEW w \in Workers, Work(w) PROVE TypeOK' BY <1>1, WorkType
<1>2. ASSUME NEW w \in Workers, Fail(w) PROVE TypeOK' BY <1>2, ExceptionType DEF Fail
<1>3. ASSUME NEW w \in Workers, LoseWorker(w) PROVE TypeOK'
  <2>1. worker' \in [Workers -> WorkerStates] BY <1>3, EndsType DEF LoseWorker
  <2> QED BY <1>3, <2>1 DEF LoseWorker, TypeOK, world, stores
<1>4. ASSUME NEW c \in Clients, Serve(c) PROVE TypeOK' BY <1>4, ServeType
<1>5. CASE TimeoutElapses BY <1>5 DEF TimeoutElapses, TypeOK, stores
<1>6. ASSUME NEW p \in Procs, Run(p) PROVE TypeOK' BY <1>6, RunType
<1>7. CASE UNCHANGED vars BY <1>7 DEF vars, TypeOK
<1> QED BY <1>1, <1>2, <1>3, <1>4, <1>5, <1>6, <1>7 DEF Next

\* Every variable of a HubSpot job's life holds a value of its kind.
THEOREM TypeCorrect == Spec => []TypeOK
<1>1. Init => TypeOK BY TypeInit
<1>2. TypeOK /\ [Next]_vars => TypeOK' BY TypeNext
<1> QED BY <1>1, <1>2, PTL DEF Spec

-----------------------------------------------------------------------------
(***************************************************************************)
(* Every cursor is backed by the stores.  Nothing is ever taken out of the *)
(* stores, so what is backed stays backed; a step then only has to show    *)
(* what it does to the cursor, the status and the locals of one thread.    *)
(***************************************************************************)
Grows == landed \subseteq landed' /\ table \subseteq table'

\* The stores of the next state back the cursor value c of this one.
StoredNext(c) == \A p \in Pages : p < c => p \in landed' /\ p \in table'

\* What is stored stays stored.
LEMMA StoredStays ==
  ASSUME Grows, NEW c, Stored(c) PROVE StoredNext(c)
BY DEF Grows, Stored, StoredNext

\* A copy that a session still holds has a backed cursor after the step.
CopyNext(c) == c # Expired => StoredNext(c.cursor)

\* What a session holds stays backed.
LEMMA CopyStays ==
  ASSUME Grows, NEW w \in Workers, Backed(w) PROVE CopyNext(worker[w].copy)
BY StoredStays DEF Backed, CopyNext

\* A cursor is backed by all that backs a later one.
LEMMA StoredPrefix ==
  ASSUME NEW c \in Cursors, Stored(Done) PROVE Stored(c)
BY PagesAssumption DEF Stored, Done, Cursors, Pages

\* Page 1 and no page at all are backed by nothing.
LEMMA StoredStart == Stored(1) /\ Stored(NotStarted)
BY DEF Stored, Pages, NotStarted

\* A launch from a backed cursor starts from a backed page.
LEMMA StoredLaunch ==
  ASSUME NEW c \in Cursors, Stored(c) PROVE Stored(StartAfter(c))
BY StoredStart DEF StartAfter

\* A thread that does not move stays backed.
LEMMA BackedStays ==
  ASSUME Grows, NEW w \in Workers, Backed(w), worker'[w] = worker[w] PROVE Backed(w)'
<1> DEFINE r == worker[w]
<1>1. StoredNext(r.start) /\ CopyNext(r.copy) BY StoredStays, CopyStays DEF Backed
<1>2. r.pc \in PageSteps => StoredNext(r.page) BY StoredStays DEF Backed
<1>3. Stored(Done) => StoredNext(Done) BY StoredStays
<1> QED BY <1>1, <1>2, <1>3 DEF Backed, Grows, Stored, StoredNext, CopyNext

\* The frame of a step of one thread.
LEMMA BackingFrame ==
  ASSUME BackingInv, Grows, NEW w \in Workers,
         \A v \in Workers \ {w} : worker'[v] = worker[v],
         Alive(w)' => Backed(w)',
         request' = request,
         Stored(job.cursor)',
         FinishedIsLoaded'
  PROVE  BackingInv'
<1>1. ASSUME NEW v \in Workers, Alive(v)' PROVE Backed(v)'
  <2>1. CASE v = w BY <1>1, <2>1
  <2>2. CASE v # w
    <3>1. worker'[v] = worker[v] BY <2>2
    <3>2. Alive(v) /\ Backed(v) BY <1>1, <3>1 DEF BackingInv, Alive
    <3> QED BY <3>1, <3>2, BackedStays
  <2> QED BY <2>1, <2>2
<1>2. ASSUME NEW c \in Clients, request'[c] # NoRequest PROVE Stored(request[c].start)'
  <2>1. StoredNext(request[c].start) BY <1>2, StoredStays DEF BackingInv
  <2> QED BY <2>1 DEF Stored, StoredNext, CopyNext
<1> QED BY <1>1, <1>2 DEF BackingInv, CheckpointIsBacked

\* Neither the cursor, nor the mark, nor the status COMPLETED is new.
LEMMA FinishedStays ==
  ASSUME BackingInv, Grows, marked' = marked,
         job'.status = "COMPLETED" => job.status = "COMPLETED"
  PROVE  FinishedIsLoaded'
<1>1. Stored(Done) => StoredNext(Done) BY StoredStays
<1> QED BY <1>1 DEF BackingInv, FinishedIsLoaded, Stored, StoredNext, Done

\* A cursor that does not move stays backed.
LEMMA CheckpointStays ==
  ASSUME BackingInv, Grows, job'.cursor = job.cursor PROVE Stored(job.cursor)'
<1>1. StoredNext(job.cursor) BY StoredStays DEF BackingInv, CheckpointIsBacked
<1> QED BY <1>1 DEF Stored, StoredNext, CopyNext

\* A thread's end disturbs nothing, whatever status it leaves.
LEMMA BackingEnds ==
  ASSUME TypeOK, BackingInv, NEW w \in Workers, Ends(w),
         UNCHANGED <<landed, table, marked, request>>, job'.cursor = job.cursor,
         job'.status = "COMPLETED" => job.status = "COMPLETED"
  PROVE  BackingInv'
<1>1. Grows BY DEF Grows
<1>2. ~Alive(w)' /\ \A v \in Workers \ {w} : worker'[v] = worker[v]
  BY DEF TypeOK, Ends, Alive
<1> QED BY <1>1, <1>2, BackingFrame, FinishedStays, CheckpointStays

\* The error boundary disturbs nothing.
LEMMA BackingException ==
  ASSUME TypeOK, BackingInv, NEW w \in Workers, HandleException(w) PROVE BackingInv'
<1>1. job'.cursor = job.cursor BY DEF HandleException, TypeOK
<1>2. job'.status = "COMPLETED" => job.status = "COMPLETED" BY DEF HandleException, TypeOK
<1> QED BY <1>1, <1>2, BackingEnds DEF HandleException, world, stores

\* A thread that only moves on, between steps whose facts are the same.
LEMMA BackingGoes ==
  ASSUME TypeOK, BackingInv, NEW w \in Workers, NEW s \in Opening, Alive(w), Goes(w, s),
         UNCHANGED <<landed, table, marked, request>>, job'.cursor = job.cursor,
         job'.status = job.status
  PROVE  BackingInv'
<1>1. Grows BY DEF Grows
<1>2. \A v \in Workers \ {w} : worker'[v] = worker[v] BY DEF TypeOK, Goes
<1>3. worker'[w] = [worker[w] EXCEPT !.pc = s] /\ Backed(w)
  BY DEF TypeOK, Goes, BackingInv
<1>4. worker[w] \in WorkerRecords BY WorkerIsRecord
<1>5. StoredNext(worker[w].start) /\ CopyNext(worker[w].copy)
  BY <1>1, <1>3, StoredStays, CopyStays DEF Backed
<1>6. worker'[w].start = worker[w].start /\ worker'[w].copy = worker[w].copy /\ worker'[w].pc = s
  BY <1>3, <1>4 DEF WorkerRecords
<1>7. Backed(w)' BY <1>5, <1>6 DEF Backed, Stored, StoredNext, CopyNext, PageSteps, Opening
<1> QED BY <1>1, <1>2, <1>7, BackingFrame, FinishedStays, CheckpointStays

\* The steps of run_hubspot_ingestion keep the backing invariant.
LEMMA BackingWork ==
  ASSUME TypeOK, BackingInv, NEW w \in Workers, Work(w) PROVE BackingInv'
<1> USE DEF world, stores
<1> DEFINE r == worker[w]
<1>0. Alive(w) /\ r \in WorkerRecords /\ Backed(w)
  BY WorkerIsRecord DEF BackingInv, Work, At, Load, Authenticate, Begin, Claim, ClearSignal,
    ChooseMode, CheckSignal, LandPage, LoadPage, Checkpoint, Refresh, PauseJob, AdvanceMark,
    CompleteJob, ReadCursor
<1>a. ASSUME UNCHANGED <<landed, table>> PROVE Grows
  BY <1>a DEF Grows
<1>b. ASSUME NEW e, worker' = [worker EXCEPT ![w] = e]
      PROVE  worker'[w] = e /\ \A v \in Workers \ {w} : worker'[v] = worker[v]
  BY <1>b DEF TypeOK
<1>c. job \in Jobs BY DEF TypeOK, Jobs
<1>1. CASE Load(w)
  <2>1. worker'[w] = [r EXCEPT !.pc = "auth", !.seen = job.status, !.copy = RowNow]
    BY <1>1 DEF Load, TypeOK
  <2>2. Grows /\ StoredNext(r.start) /\ StoredNext(job.cursor)
    BY <1>0, <1>1, <1>a, StoredStays, CopyStays DEF Load, Backed, BackingInv, CheckpointIsBacked
  <2>3. /\ worker'[w].pc = "auth" /\ worker'[w].start = r.start
        /\ worker'[w].copy.cursor = job.cursor
    BY <1>0, <2>1 DEF WorkerRecords, RowNow
  <2>4. Backed(w)'
    BY <2>2, <2>3 DEF Backed, Stored, StoredNext, CopyNext, PageSteps
  <2> QED BY <1>1, <2>2, <2>4, BackingFrame, FinishedStays, CheckpointStays DEF Load, TypeOK
<1>2. CASE Authenticate(w)
  BY <1>0, <1>2, BackingGoes DEF Authenticate, Opening
<1>3. CASE Begin(w)
  <2>1. CASE Goes(w, "claim") /\ UNCHANGED <<job, world, stores, contested>>
    BY <1>0, <2>1, BackingGoes DEF Opening
  <2>2. CASE /\ WriteStatus("RUNNING")
             /\ worker' = [worker EXCEPT ![w].pc = "claim", ![w].copy = Expired]
             /\ UNCHANGED <<world, stores, contested>>
    <3>1. worker'[w] = [r EXCEPT !.pc = "claim", !.copy = Expired]
      BY <2>2 DEF TypeOK
    <3>2. job'.cursor = job.cursor /\ job'.status = "RUNNING"
      BY <1>c, <2>2 DEF WriteStatus, Jobs
    <3>3. Grows /\ StoredNext(r.start) /\ StoredNext(job.cursor)
      BY <1>0, <1>a, <2>2, StoredStays, CopyStays DEF Backed, BackingInv, CheckpointIsBacked
    <3>4. Backed(w)'
      BY <1>0, <3>1, <3>2, <3>3 DEF Backed, Stored, StoredNext, CopyNext, PageSteps, WorkerRecords
    <3> QED BY <2>2, <3>2, <3>3, <3>4, BackingFrame, FinishedStays, CheckpointStays DEF TypeOK
  <2>3. CASE HandleException(w) BY <2>3, BackingException
  <2> QED BY <1>3, <2>1, <2>2, <2>3 DEF Begin
<1>4. CASE Claim(w)
  <2>1. job'.cursor = job.cursor /\ job'.status = job.status BY <1>c, <1>4 DEF Claim, Jobs
  <2> QED BY <1>0, <1>4, <2>1, BackingGoes DEF Claim, Opening
<1>5. CASE ClearSignal(w)
  <2>1. job'.cursor = job.cursor /\ job'.status = job.status
    BY <1>c, <1>5 DEF ClearSignal, Jobs
  <2> QED BY <1>0, <1>5, <2>1, BackingGoes DEF ClearSignal, Opening
<1>6. CASE ChooseMode(w)
  <2> DEFINE c == IF r.copy.cursor = NotStarted THEN Expired ELSE r.copy
  <2>1. Grows BY <1>6, <1>a DEF ChooseMode
  <2>2. StoredNext(r.start) /\ CopyNext(r.copy) BY <1>0, <2>1, StoredStays, CopyStays DEF Backed
  <2>3. job'.status = job.status BY <1>c, <1>6 DEF ChooseMode, SaveMode, Jobs
  <2>4. Stored(job.cursor)'
    <3>1. CASE r.copy.cursor = NotStarted
      <4>1. job'.cursor = r.start BY <1>c, <1>6, <3>1 DEF ChooseMode, SaveMode, Jobs
      <4> QED BY <2>2, <4>1 DEF Stored, StoredNext
    <3>2. CASE r.copy.cursor # NotStarted
      BY <1>6, <2>1, <3>2, CheckpointStays DEF ChooseMode, SaveMode
    <3> QED BY <3>1, <3>2
  <2>5. CopyNext(c) BY <2>2 DEF CopyNext
  <2>6. Backed(w)' /\ \A v \in Workers \ {w} : worker'[v] = worker[v]
    <3>1. CASE r.copy.cursor = Done
      <4>1. worker'[w] = [r EXCEPT !.pc = "refresh", !.page = r.page, !.copy = c]
            /\ \A v \in Workers \ {w} : worker'[v] = worker[v]
        BY <1>6, <3>1 DEF ChooseMode, SaveMode, TypeOK
      <4>2. StoredNext(Done)
        BY <1>0, <1>6, <2>2, <3>1 DEF ChooseMode, At, WorkerRecords, Holding, CopyNext
      <4> HIDE DEF c
      <4>3. /\ worker'[w].pc = "refresh" /\ worker'[w].start = r.start /\ worker'[w].copy = c
        BY <1>0, <4>1 DEF WorkerRecords
      <4> QED BY <2>2, <2>5, <4>1, <4>2, <4>3 DEF Backed, Stored, StoredNext, CopyNext, PageSteps
    <3>2. CASE r.copy.cursor # Done
      <4>1. worker'[w] = [r EXCEPT !.pc = "check", !.page = r.start, !.copy = c]
            /\ \A v \in Workers \ {w} : worker'[v] = worker[v]
        BY <1>6, <3>2 DEF ChooseMode, SaveMode, TypeOK
      <4> HIDE DEF c
      <4>2. /\ worker'[w].pc = "check" /\ worker'[w].start = r.start
            /\ worker'[w].copy = c /\ worker'[w].page = r.start
        BY <1>0, <4>1 DEF WorkerRecords
      <4> QED BY <2>2, <2>5, <4>1, <4>2 DEF Backed, Stored, StoredNext, CopyNext, PageSteps
    <3> QED BY <3>1, <3>2
  <2> HIDE DEF c
  <2> QED BY <1>6, <2>1, <2>3, <2>4, <2>6, BackingFrame, FinishedStays
       DEF ChooseMode, SaveMode
<1>7. CASE CheckSignal(w)
  <2> DEFINE c == IF r.copy = Expired THEN RowNow ELSE r.copy
             s == IF job.control = "none" THEN "land" ELSE "refresh"
             b == job.control # "none"
  <2>1. Grows BY <1>7, <1>a DEF CheckSignal
  <2>2. StoredNext(r.start) /\ CopyNext(r.copy) /\ StoredNext(r.page) /\ StoredNext(job.cursor)
    BY <1>0, <1>7, <2>1, StoredStays, CopyStays
      DEF Backed, CheckSignal, At, PageSteps, BackingInv, CheckpointIsBacked
  <2>3. worker'[w] = [r EXCEPT !.copy = c, !.pc = s, !.paused = b]
        /\ \A v \in Workers \ {w} : worker'[v] = worker[v]
    BY <1>7 DEF CheckSignal, TypeOK
  <2>4. CopyNext(c) BY <2>2 DEF CopyNext, RowNow
  <2>5. s = "land" \/ (s = "refresh" /\ b) OBVIOUS
  <2> HIDE DEF c, s, b
  <2>6. /\ worker'[w].pc = s /\ worker'[w].start = r.start /\ worker'[w].copy = c
        /\ worker'[w].page = r.page /\ worker'[w].paused = b
    BY <1>0, <2>3 DEF WorkerRecords
  <2>7. Backed(w)'
    BY <2>2, <2>4, <2>5, <2>6 DEF Backed, Stored, StoredNext, CopyNext, PageSteps
  <2> QED BY <1>7, <2>1, <2>3, <2>7, BackingFrame, FinishedStays, CheckpointStays DEF CheckSignal
<1>8. CASE LandPage(w)
  <2>1. Grows BY <1>8 DEF LandPage, Grows
  <2>2. StoredNext(r.start) /\ CopyNext(r.copy) /\ StoredNext(r.page)
    BY <1>0, <1>8, <2>1, StoredStays, CopyStays DEF Backed, LandPage, At, PageSteps
  <2>3. worker'[w] = [r EXCEPT !.pc = "sink"] BY <1>8 DEF LandPage, Goes, TypeOK
  <2>4. Backed(w)'
    BY <1>0, <1>8, <2>2, <2>3 DEF Backed, Stored, StoredNext, CopyNext, PageSteps, WorkerRecords, LandPage
  <2> QED BY <1>8, <2>1, <2>4, BackingFrame, FinishedStays, CheckpointStays
       DEF LandPage, Goes, TypeOK
<1>9. CASE LoadPage(w)
  <2>1. Grows BY <1>9 DEF LoadPage, Grows
  <2>2. StoredNext(r.start) /\ CopyNext(r.copy) /\ StoredNext(r.page) /\ r.page \in landed
    BY <1>0, <1>9, <2>1, StoredStays, CopyStays DEF Backed, LoadPage, At, PageSteps
  <2>3. PICK c \in {r.copy, RowNow} :
          worker' = [worker EXCEPT ![w].pc = "checkpoint", ![w].copy = c]
    BY <1>9 DEF LoadPage
  <2>4. worker'[w] = [r EXCEPT !.pc = "checkpoint", !.copy = c]
        /\ \A v \in Workers \ {w} : worker'[v] = worker[v]
    BY <2>3 DEF TypeOK
  <2>5. StoredNext(job.cursor) BY <2>1, StoredStays DEF BackingInv, CheckpointIsBacked
  <2>6. CopyNext(c) BY <2>2, <2>3, <2>5 DEF CopyNext, RowNow
  <2>7. /\ worker'[w].pc = "checkpoint" /\ worker'[w].start = r.start /\ worker'[w].copy = c
        /\ worker'[w].page = r.page
    BY <1>0, <2>4 DEF WorkerRecords
  <2>8. r.page \in landed' /\ r.page \in table' BY <1>9, <2>2 DEF LoadPage
  <2>9. Backed(w)'
    BY <2>2, <2>6, <2>7, <2>8 DEF Backed, Stored, StoredNext, CopyNext, PageSteps
  <2> QED BY <1>9, <2>1, <2>4, <2>9, BackingFrame, FinishedStays, CheckpointStays DEF LoadPage
<1>10. CASE Checkpoint(w)
  <2>1. Grows BY <1>10, <1>a DEF Checkpoint
  <2>2. StoredNext(r.start) /\ CopyNext(r.copy) /\ Stored(r.page)
        /\ r.page \in landed /\ r.page \in table
    BY <1>0, <1>10, <2>1, StoredStays, CopyStays DEF Backed, Checkpoint, At, PageSteps
  <2>3. Stored(r.page + 1)
    BY <1>0, <2>2, PagesAssumption DEF Stored, Pages, WorkerRecords
  <2>4. StoredNext(r.page + 1) BY <2>1, <2>3, StoredStays, CopyStays
  <2>5. job'.cursor = r.page + 1 /\ job'.status = job.status
    BY <1>c, <1>10 DEF Checkpoint, Counting, Jobs
  <2>6. Backed(w)' /\ \A v \in Workers \ {w} : worker'[v] = worker[v]
    <3>1. CASE r.page = N
      <4>1. worker'[w] = [r EXCEPT !.pc = "refresh", !.copy = Expired]
        BY <1>10, <3>1 DEF Checkpoint, TypeOK
      <4>2. StoredNext(Done) BY <2>4, <3>1 DEF Done
      <4> QED BY <1>0, <1>10, <2>2, <3>1, <4>1, <4>2
           DEF Backed, Stored, StoredNext, CopyNext, PageSteps, WorkerRecords, Checkpoint, TypeOK
    <3>2. CASE r.page # N
      <4>1. worker'[w] = [r EXCEPT !.pc = "check", !.copy = Expired, !.page = r.page + 1]
        BY <1>10, <3>2 DEF Checkpoint, TypeOK
      <4> QED BY <1>0, <1>10, <2>2, <2>4, <3>2, <4>1
           DEF Backed, Stored, StoredNext, CopyNext, PageSteps, WorkerRecords, Checkpoint, TypeOK
    <3> QED BY <3>1, <3>2
  <2>7. Stored(job.cursor)' BY <2>4, <2>5 DEF Stored, StoredNext, CopyNext
  <2> QED BY <1>10, <2>1, <2>5, <2>6, <2>7, BackingFrame, FinishedStays DEF Checkpoint
<1>11. CASE Refresh(w)
  <2>1. CASE job.status = "CANCELLED"
    BY <1>11, <2>1, BackingEnds DEF Refresh
  <2>2. CASE job.status # "CANCELLED"
    <3>1. Grows BY <1>11, <1>a DEF Refresh
    <3>2. StoredNext(r.start) /\ CopyNext(r.copy) /\ (~r.paused => StoredNext(Done))
      BY <1>0, <1>11, <3>1, StoredStays, CopyStays DEF Backed, Refresh, At
    <3>3. worker'[w] = [r EXCEPT !.pc = "settle", !.seen = job.status, !.copy = Expired]
      BY <1>11, <2>2 DEF Refresh, TypeOK
    <3>4. Backed(w)'
      BY <1>0, <1>11, <3>2, <3>3 DEF Backed, Stored, StoredNext, CopyNext, PageSteps, WorkerRecords, Refresh
    <3> QED BY <1>11, <2>2, <3>1, <3>4, BackingFrame, FinishedStays, CheckpointStays
         DEF Refresh, TypeOK
  <2> QED BY <2>1, <2>2
<1>12. CASE PauseJob(w)
  <2>1. CASE HandleException(w) BY <2>1, BackingException
  <2>2. CASE WriteStatus("PAUSED") /\ Ends(w) /\ UNCHANGED <<world, stores, contested>>
    <3>1. job'.cursor = job.cursor /\ job'.status = "PAUSED"
      BY <1>c, <2>2 DEF WriteStatus, Jobs
    <3> QED BY <2>2, <3>1, BackingEnds
  <2> QED BY <1>12, <2>1, <2>2 DEF PauseJob
<1>13. CASE AdvanceMark(w)
  <2>1. Grows BY <1>13, <1>a DEF AdvanceMark
  <2>2. StoredNext(r.start) /\ CopyNext(r.copy) /\ StoredNext(Done)
    BY <1>0, <1>13, <2>1, StoredStays, CopyStays DEF Backed, AdvanceMark, At
  <2>3. worker'[w] = [r EXCEPT !.pc = "complete"] BY <1>13 DEF AdvanceMark, Goes, TypeOK
  <2>4. Backed(w)'
    BY <1>0, <1>13, <2>2, <2>3 DEF Backed, Stored, StoredNext, CopyNext, PageSteps, WorkerRecords, AdvanceMark
  <2>5. FinishedIsLoaded' BY <2>2 DEF FinishedIsLoaded, Stored, StoredNext, CopyNext, Done
  <2> QED BY <1>13, <2>1, <2>4, <2>5, BackingFrame, CheckpointStays DEF AdvanceMark, Goes, TypeOK
<1>14. CASE CompleteJob(w)
  <2>1. CASE HandleException(w) BY <2>1, BackingException
  <2>2. CASE WriteStatus("COMPLETED") /\ Ends(w) /\ UNCHANGED <<world, stores, contested>>
    <3>1. Grows BY <2>2, <1>a
    <3>2. FinishedIsLoaded'
      BY <1>0, <1>14, <3>1, StoredStays, CopyStays
        DEF FinishedIsLoaded, CompleteJob, At, Backed, Stored, StoredNext, CopyNext, Done
    <3>3. job'.cursor = job.cursor BY <1>c, <2>2 DEF WriteStatus, Jobs
    <3>4. ~Alive(w)' /\ \A v \in Workers \ {w} : worker'[v] = worker[v]
      BY <2>2 DEF TypeOK, Ends, Alive
    <3> QED BY <2>2, <3>1, <3>2, <3>3, <3>4, BackingFrame, CheckpointStays
  <2> QED BY <1>14, <2>1, <2>2 DEF CompleteJob
<1>15. CASE ReadCursor(w)
  <2>1. CASE r.copy = Expired
    <3>1. worker'[w] = [r EXCEPT !.pc = "mode", !.copy = RowNow]
          /\ \A v \in Workers \ {w} : worker'[v] = worker[v]
      BY <1>15, <2>1 DEF ReadCursor, TypeOK
    <3>2. Grows /\ StoredNext(r.start) /\ StoredNext(job.cursor)
      BY <1>0, <1>15, <1>a, StoredStays DEF ReadCursor, Backed, BackingInv, CheckpointIsBacked
    <3>3. /\ worker'[w].pc = "mode" /\ worker'[w].start = r.start
          /\ worker'[w].copy.cursor = job.cursor
      BY <1>0, <3>1 DEF WorkerRecords, RowNow
    <3>4. Backed(w)'
      BY <3>2, <3>3 DEF Backed, Stored, StoredNext, PageSteps
    <3> QED BY <1>15, <3>1, <3>2, <3>4, BackingFrame, FinishedStays, CheckpointStays DEF ReadCursor
  <2>2. CASE r.copy # Expired
    BY <1>0, <1>15, <2>2, BackingGoes DEF ReadCursor, Opening
  <2> QED BY <2>1, <2>2
<1> QED
  BY <1>1, <1>2, <1>3, <1>4, <1>5, <1>6, <1>7, <1>8, <1>9, <1>10, <1>11, <1>12, <1>13, <1>14,
    <1>15 DEF Work

\* The frame of a step outside the threads: it may end threads and requests,
\* launch a thread from a backed page, or record a request with one.
LEMMA BackingOutside ==
  ASSUME BackingInv, UNCHANGED <<landed, table, marked>>,
         job'.cursor = job.cursor,
         job'.status = "COMPLETED" => job.status = "COMPLETED",
         \A w \in Workers : \/ worker'[w] \in {worker[w], Idle}
                            \/ /\ worker'[w].pc = "load" /\ worker'[w].copy = Expired
                               /\ Stored(worker'[w].start),
         \A c \in Clients : \/ request'[c] \in {request[c], NoRequest}
                            \/ Stored(request'[c].start)
  PROVE  BackingInv'
<1>1. Grows BY DEF Grows
<1>2. Stored(job.cursor)' /\ FinishedIsLoaded' BY <1>1, CheckpointStays, FinishedStays
<1>3. ASSUME NEW w \in Workers, Alive(w)' PROVE Backed(w)'
  <2>1. CASE worker'[w] = worker[w]
    <3>1. Backed(w) BY <1>3, <2>1 DEF BackingInv, Alive
    <3> QED BY <1>1, <2>1, <3>1, BackedStays
  <2>2. CASE worker'[w] = Idle BY <1>3, <2>2 DEF Alive
  <2>3. CASE /\ worker'[w].pc = "load" /\ worker'[w].copy = Expired
             /\ Stored(worker'[w].start)
    BY <2>3, StoredStart DEF Backed, Stored, PageSteps
  <2> QED BY <2>1, <2>2, <2>3
<1>4. ASSUME NEW c \in Clients, request'[c] # NoRequest PROVE Stored(request[c].start)'
  BY <1>4 DEF BackingInv, Stored
<1> QED BY <1>2, <1>3, <1>4 DEF BackingInv, CheckpointIsBacked

\* The steps of the API keep the backing invariant.
LEMMA BackingServe ==
  ASSUME TypeOK, BackingInv, NEW c \in Clients, Serve(c) PROVE BackingInv'
<1> USE DEF stores
<1>0. job \in Jobs /\ Stored(StartAfter(job.cursor))
  BY StoredLaunch DEF TypeOK, Jobs, BackingInv, CheckpointIsBacked
<1>a. ASSUME NEW p, NEW t, NEW b, Decides(c, p, t, b)
      PROVE  \A d \in Clients : request'[d] = request[d] \/ Stored(request'[d].start)
  BY <1>0, <1>a DEF Decides, TypeOK
<1>1. ASSUME NEW p \in Procs, RequestPause(c, p) PROVE BackingInv'
  <2>1. job'.cursor = job.cursor /\ job'.status = job.status BY <1>0, <1>1 DEF RequestPause, Jobs
  <2> QED BY <1>1, <2>1, BackingOutside DEF RequestPause
<1>2. ASSUME NEW p \in Procs, RequestResume(c, p) PROVE BackingInv'
  BY <1>2, <1>a, BackingOutside DEF RequestResume
<1>3. ASSUME NEW p \in Procs, RequestCancel(c, p) PROVE BackingInv'
  <2>1. job'.cursor = job.cursor /\ job'.status = job.status
    BY <1>0, <1>3 DEF RequestCancel, Jobs
  <2>2. \A d \in Clients : request'[d] = request[d] \/ Stored(request'[d].start)
    BY <1>3, <1>a DEF RequestCancel
  <2> QED BY <1>3, <2>1, <2>2, BackingOutside DEF RequestCancel
<1>4. ASSUME NEW p \in Procs, NEW s \in Targets, RequestStatus(c, p, s) PROVE BackingInv'
  BY <1>4, <1>a, BackingOutside DEF RequestStatus
<1>5. CASE Respond(c)
  <2> DEFINE q == request[c]
  <2>1. q.target # "COMPLETED" /\ Stored(q.start)
    BY <1>5, RequestIsRecord DEF Respond, BackingInv, Targets
  <2>2. job'.cursor = job.cursor /\ job'.status = q.target
    BY <1>0, <1>5 DEF Respond, WriteStatus, Jobs
  <2>3. \A w \in Workers : \/ worker'[w] = worker[w]
                           \/ /\ worker'[w].pc = "load" /\ worker'[w].copy = Expired
                              /\ Stored(worker'[w].start)
    <3>1. CASE q.launches
      <4>1. PICK w \in Workers : Launch(w, q.proc, q.start) BY <1>5, <3>1 DEF Respond
      <4> QED BY <2>1, <4>1 DEF Launch, TypeOK
    <3>2. CASE ~q.launches BY <1>5, <3>2 DEF Respond
    <3> QED BY <3>1, <3>2
  <2>4. \A d \in Clients : request'[d] \in {request[d], NoRequest}
    BY <1>5 DEF Respond, TypeOK
  <2> QED BY <1>5, <2>1, <2>2, <2>3, <2>4, BackingOutside DEF Respond
<1> QED BY <1>1, <1>2, <1>3, <1>4, <1>5 DEF Serve

\* The steps of the processes keep the backing invariant.
LEMMA BackingRun ==
  ASSUME TypeOK, BackingInv, NEW p \in Procs, Run(p) PROVE BackingInv'
<1> USE DEF stores
<1>0. job \in Jobs /\ Stored(StartAfter(job.cursor))
  BY StoredLaunch DEF TypeOK, Jobs, BackingInv, CheckpointIsBacked
<1>1. CASE Heartbeat(p) BY <1>1, BackingOutside DEF Heartbeat
<1>2. CASE TakeOver(p)
  <2>1. job'.cursor = job.cursor /\ job'.status = job.status BY <1>0, <1>2 DEF TakeOver, Jobs
  <2> QED BY <1>2, <2>1, BackingOutside DEF TakeOver
<1>3. CASE Recover(p)
  <2>1. CASE job.control = "pause" /\ job.status = "RUNNING"
    <3>1. job'.cursor = job.cursor /\ job'.status = "PAUSED"
      BY <1>0, <1>3, <2>1 DEF Recover, Jobs
    <3> QED BY <1>3, <2>1, <3>1, BackingOutside DEF Recover
  <2>2. CASE ~(job.control = "pause" /\ job.status = "RUNNING")
    <3>1. PICK w \in Workers : Launch(w, p, StartAfter(job.cursor))
      BY <1>3, <2>2 DEF Recover
    <3>2. \A v \in Workers : \/ worker'[v] = worker[v]
                             \/ /\ worker'[v].pc = "load" /\ worker'[v].copy = Expired
                                /\ Stored(worker'[v].start)
      BY <1>0, <3>1 DEF Launch, TypeOK
    <3> QED BY <1>3, <2>2, <3>2, BackingOutside DEF Recover
  <2> QED BY <2>1, <2>2
<1>4. CASE SweepFails(p) BY <1>4, BackingOutside DEF SweepFails
<1>5. CASE Crash(p)
  <2>1. job'.cursor = job.cursor /\ job'.status = job.status BY <1>0, <1>5 DEF Crash, Jobs
  <2>2. \A w \in Workers : worker'[w] \in {worker[w], Idle} BY <1>5 DEF Crash
  <2>3. \A c \in Clients : request'[c] \in {request[c], NoRequest} BY <1>5 DEF Crash
  <2> QED BY <1>5, <2>1, <2>2, <2>3, BackingOutside DEF Crash
<1>6. CASE Restart(p) BY <1>6, BackingOutside DEF Restart
<1> QED BY <1>1, <1>2, <1>3, <1>4, <1>5, <1>6 DEF Run

\* A job that was just created is backed.
LEMMA BackingInit == Init => BackingInv
<1> SUFFICES ASSUME Init PROVE BackingInv
  OBVIOUS
<1>1. CheckpointIsBacked /\ FinishedIsLoaded
  BY StoredStart DEF Init, CheckpointIsBacked, FinishedIsLoaded
<1>2. ASSUME NEW w \in Workers, Alive(w) PROVE Backed(w)
  <2>1. worker[w].pc = "load" /\ worker[w].start = 1 /\ worker[w].copy = Expired
    BY <1>2 DEF Init, Alive
  <2> QED BY <2>1, StoredStart DEF Backed, PageSteps
<1>3. \A c \in Clients : request[c] = NoRequest BY DEF Init
<1> QED BY <1>1, <1>2, <1>3 DEF BackingInv

\* The backing invariant is kept by every step.
LEMMA BackingNext == TypeOK /\ BackingInv /\ [Next]_vars => BackingInv'
<1> SUFFICES ASSUME TypeOK, BackingInv, [Next]_vars PROVE BackingInv'
  OBVIOUS
<1>1. ASSUME NEW w \in Workers, Work(w) PROVE BackingInv' BY <1>1, BackingWork
<1>2. ASSUME NEW w \in Workers, Fail(w) PROVE BackingInv' BY <1>2, BackingException DEF Fail
<1>3. ASSUME NEW w \in Workers, LoseWorker(w) PROVE BackingInv'
  BY <1>3, BackingEnds DEF LoseWorker, world, stores
<1>4. ASSUME NEW c \in Clients, Serve(c) PROVE BackingInv' BY <1>4, BackingServe
<1>5. CASE TimeoutElapses BY <1>5, BackingOutside DEF TimeoutElapses, stores
<1>6. ASSUME NEW p \in Procs, Run(p) PROVE BackingInv' BY <1>6, BackingRun
<1>7. CASE UNCHANGED vars BY <1>7, BackingOutside DEF vars
<1> QED BY <1>1, <1>2, <1>3, <1>4, <1>5, <1>6, <1>7 DEF Next

\* Every cursor a row, a thread or a request holds is backed by the stores.
THEOREM BackingCorrect == Spec => []BackingInv
<1>1. Init => BackingInv BY BackingInit
<1>2. TypeOK /\ BackingInv /\ [Next]_vars => BackingInv' BY BackingNext
<1> QED BY <1>1, <1>2, TypeCorrect, PTL DEF Spec

\* A checkpoint never runs ahead of the data: every page before the saved
\* cursor is in object storage and in ClickHouse, whatever crashes and however
\* many workers race for the job.
THEOREM CheckpointBacked == Spec => []CheckpointIsBacked
<1>1. BackingInv => CheckpointIsBacked BY DEF BackingInv
<1> QED BY <1>1, BackingCorrect, PTL

\* A COMPLETED job, and a high-water mark that moved, have every page loaded.
THEOREM FinishedLoaded == Spec => []FinishedIsLoaded
<1>1. BackingInv => FinishedIsLoaded BY DEF BackingInv
<1> QED BY <1>1, BackingCorrect, PTL

-----------------------------------------------------------------------------
(***************************************************************************)
(* row_count is exact as long as no two launches overlap: there is then    *)
(* one thread at most, its page is the row's own checkpoint, and counting  *)
(* the page and moving the checkpoint past it are one commit.              *)
(***************************************************************************)

\* A step that leaves cursor and counts alone, ends threads, or moves threads
\* on that stay in step with the row.
LEMMA CountFrame ==
  ASSUME CountInv, contested' = contested,
         job'.cursor = job.cursor, job'.counted = job.counted,
         \A v \in Workers : \/ worker'[v] \in {worker[v], Idle}
                            \/ Alive(v) /\ (~contested => InStep(v)')
  PROVE  CountInv'
<1> SUFFICES ASSUME ~contested
             PROVE  /\ \A p \in Pages : job'.counted[p] = IF p < job'.cursor THEN 1 ELSE 0
                    /\ \A v, w \in Workers : Alive(v)' /\ Alive(w)' => v = w
                    /\ \A w \in Workers : Alive(w)' => InStep(w)'
  BY DEF CountInv
<1>1. \A v \in Workers : Alive(v)' => Alive(v) BY DEF Alive
<1>2. ASSUME NEW w \in Workers, Alive(w)' PROVE InStep(w)'
  <2>1. CASE worker'[w] = worker[w]
    <3>1. InStep(w) BY <1>1, <1>2 DEF CountInv
    <3> QED BY <2>1, <3>1 DEF InStep, RowNow
  <2>2. CASE InStep(w)' BY <2>2
  <2> QED BY <1>2, <2>1, <2>2 DEF Alive
<1> QED BY <1>1, <1>2 DEF CountInv

\* A launch that leaves the job uncontested is of its only thread.
LEMMA CountLaunch ==
  ASSUME TypeOK, CountInv, NEW w \in Workers, NEW p, NEW s, Launch(w, p, s),
         job'.cursor = job.cursor, job'.counted = job.counted
  PROVE  CountInv'
<1> SUFFICES ASSUME ~contested'
             PROVE  /\ \A q \in Pages : job'.counted[q] = IF q < job'.cursor THEN 1 ELSE 0
                    /\ \A u, v \in Workers : Alive(u)' /\ Alive(v)' => u = v
                    /\ \A v \in Workers : Alive(v)' => InStep(v)'
  BY DEF CountInv
<1>1. ~contested /\ s = StartAfter(job.cursor) /\ \A v \in Workers : ~Alive(v)
  BY DEF Launch
<1>2. worker'[w].pc = "load" /\ worker'[w].start = s /\ worker'[w].copy = Expired
  BY DEF Launch, TypeOK
<1>3. \A v \in Workers \ {w} : ~Alive(v)' BY <1>1 DEF Launch, TypeOK, Alive
<1>4. InStep(w)' BY <1>1, <1>2 DEF InStep, PageSteps, StartAfter
<1> QED BY <1>1, <1>3, <1>4 DEF CountInv

\* The error boundary counts nothing.
LEMMA CountException ==
  ASSUME TypeOK, CountInv, NEW w \in Workers, HandleException(w) PROVE CountInv'
<1>1. job'.cursor = job.cursor /\ job'.counted = job.counted BY DEF HandleException, TypeOK
<1>2. \A v \in Workers : worker'[v] \in {worker[v], Idle} BY DEF HandleException, Ends, TypeOK
<1> QED BY <1>1, <1>2, CountFrame DEF HandleException

\* The opening steps after the row was loaded only move on.
LEMMA CountGoes ==
  ASSUME TypeOK, CountInv, NEW w \in Workers, Alive(w), worker[w].pc \in Opening \ {"load"},
         NEW s \in Opening, Goes(w, s),
         contested' = contested, job'.cursor = job.cursor, job'.counted = job.counted
  PROVE  CountInv'
<1>1. worker'[w] = [worker[w] EXCEPT !.pc = s] /\ \A v \in Workers \ {w} : worker'[v] = worker[v]
  BY DEF TypeOK, Goes
<1>2. worker[w] \in WorkerRecords BY WorkerIsRecord
<1>3. worker'[w].pc = s /\ worker'[w].start = worker[w].start /\ worker'[w].copy = worker[w].copy
  BY <1>1, <1>2 DEF WorkerRecords
<1>4. ASSUME ~contested PROVE InStep(w)'
  <2>1. InStep(w) BY <1>4 DEF CountInv
  <2> QED BY <1>3, <2>1 DEF InStep, RowNow, Opening, PageSteps, StartAfter
<1> QED BY <1>1, <1>4, CountFrame

\* The steps after the page loop, and the end of a thread, have no page.
LEMMA CountLeaves ==
  ASSUME TypeOK, CountInv, NEW w \in Workers, Alive(w),
         \A v \in Workers \ {w} : worker'[v] = worker[v],
         \/ worker'[w] = Idle
         \/ /\ worker'[w].pc \in {"refresh", "settle", "complete"}
            /\ worker'[w].copy \in {Expired, RowNow, worker[w].copy},
         contested' = contested, job'.cursor = job.cursor, job'.counted = job.counted
  PROVE  CountInv'
<1>1. ~contested => worker'[w] = Idle \/ InStep(w)'
  BY DEF CountInv, InStep, RowNow, Opening, PageSteps
<1> QED BY <1>1, CountFrame

\* The steps of run_hubspot_ingestion keep the count.
LEMMA CountWork ==
  ASSUME TypeOK, CountInv, NEW w \in Workers, Work(w) PROVE CountInv'
<1> USE DEF world, stores
<1> DEFINE r == worker[w]
<1>0. Alive(w) /\ r \in WorkerRecords
  BY WorkerIsRecord DEF Work, At, Load, Authenticate, Begin, Claim, ClearSignal,
    ChooseMode, CheckSignal, LandPage, LoadPage, Checkpoint, Refresh, PauseJob, AdvanceMark,
    CompleteJob, ReadCursor
<1>a. job \in Jobs BY DEF TypeOK, Jobs
<1>b. ASSUME NEW e, worker' = [worker EXCEPT ![w] = e]
      PROVE  worker'[w] = e /\ \A v \in Workers \ {w} : worker'[v] = worker[v]
  BY <1>b DEF TypeOK
<1>c. ~contested => InStep(w) /\ \A v \in Workers \ {w} : ~Alive(v)
  BY <1>0 DEF CountInv
<1>1. CASE Load(w)
  <2>1. worker'[w] = [r EXCEPT !.pc = "auth", !.seen = job.status, !.copy = RowNow]
        /\ \A v \in Workers \ {w} : worker'[v] = worker[v]
    BY <1>1 DEF Load, TypeOK
  <2>2. worker'[w].pc = "auth" /\ worker'[w].start = r.start /\ worker'[w].copy = RowNow
    BY <1>0, <2>1 DEF WorkerRecords
  <2>3. ~contested => r.start = StartAfter(job.cursor)
    BY <1>1, <1>c DEF Load, At, InStep, Opening
  <2>4. ~contested => InStep(w)'
    BY <1>1, <2>2, <2>3 DEF Load, InStep, RowNow, Opening, PageSteps, StartAfter
  <2> QED BY <1>0, <1>1, <2>1, <2>4, CountFrame DEF Load
<1>2. CASE Authenticate(w)
  BY <1>0, <1>2, CountGoes DEF Authenticate, At, Opening
<1>3. CASE Begin(w)
  <2>0. r.pc = "begin" BY <1>3 DEF Begin, At
  <2>1. CASE Goes(w, "claim") /\ UNCHANGED <<job, world, stores, contested>>
    BY <1>0, <2>0, <2>1, CountGoes DEF Opening
  <2>2. CASE /\ WriteStatus("RUNNING")
             /\ worker' = [worker EXCEPT ![w].pc = "claim", ![w].copy = Expired]
             /\ UNCHANGED <<world, stores, contested>>
    <3>1. worker'[w] = [r EXCEPT !.pc = "claim", !.copy = Expired]
          /\ \A v \in Workers \ {w} : worker'[v] = worker[v]
      BY <2>2 DEF TypeOK
    <3>2. worker'[w].pc = "claim" /\ worker'[w].start = r.start /\ worker'[w].copy = Expired
      BY <1>0, <3>1 DEF WorkerRecords
    <3>3. job'.cursor = job.cursor /\ job'.counted = job.counted
      BY <1>a, <2>2 DEF WriteStatus, Jobs
    <3>4. ~contested => r.start = StartAfter(job.cursor) BY <1>c, <2>0 DEF InStep, Opening
    <3>5. ~contested => InStep(w)'
      BY <3>2, <3>3, <3>4 DEF InStep, Opening, PageSteps, StartAfter
    <3> QED BY <1>0, <2>2, <3>1, <3>3, <3>5, CountFrame
  <2>3. CASE HandleException(w) BY <2>3, CountException
  <2> QED BY <1>3, <2>1, <2>2, <2>3 DEF Begin
<1>4. CASE Claim(w)
  <2>1. job'.cursor = job.cursor /\ job'.counted = job.counted BY <1>a, <1>4 DEF Claim, Jobs
  <2> QED BY <1>0, <1>4, <2>1, CountGoes DEF Claim, At, Opening
<1>5. CASE ClearSignal(w)
  <2>1. job'.cursor = job.cursor /\ job'.counted = job.counted
    BY <1>a, <1>5 DEF ClearSignal, Jobs
  <2> QED BY <1>0, <1>5, <2>1, CountGoes DEF ClearSignal, At, Opening
<1>6. CASE ChooseMode(w)
  <2>0. r.pc = "mode" /\ contested' = contested BY <1>6 DEF ChooseMode, At
  <2>1. ~contested => r.start = StartAfter(job.cursor) /\ r.copy = RowNow
    BY <1>0, <1>c, <2>0 DEF InStep, Opening, WorkerRecords, Holding
  <2>2. CASE r.copy.cursor = Done
    <3>0. r.copy.cursor # NotStarted BY <2>2, PagesAssumption DEF Done, NotStarted
    <3>1. /\ worker'[w] = [r EXCEPT !.pc = "refresh", !.page = r.page, !.copy = r.copy]
          /\ \A v \in Workers \ {w} : worker'[v] = worker[v]
      BY <1>6, <2>2, <3>0 DEF ChooseMode, SaveMode, TypeOK
    <3>2. job' = job BY <1>6, <2>2, PagesAssumption DEF ChooseMode, SaveMode, Done, NotStarted
    <3>3. worker'[w].pc = "refresh" /\ worker'[w].copy = r.copy BY <1>0, <3>1 DEF WorkerRecords
    <3> QED BY <1>0, <2>0, <3>1, <3>2, <3>3, CountLeaves
  <2>3. CASE r.copy.cursor # Done
    <3> DEFINE c == IF r.copy.cursor = NotStarted THEN Expired ELSE r.copy
    <3>1. worker'[w] = [r EXCEPT !.pc = "check", !.page = r.start, !.copy = c]
          /\ \A v \in Workers \ {w} : worker'[v] = worker[v]
      BY <1>6, <2>3 DEF ChooseMode, SaveMode, TypeOK
    <3>2. worker'[w].pc = "check" /\ worker'[w].page = r.start /\ worker'[w].copy = c
      BY <1>0, <3>1 DEF WorkerRecords
    <3>3. job'.counted = job.counted
          /\ job'.cursor = IF r.copy.cursor = NotStarted THEN r.start ELSE job.cursor
      BY <1>6, <1>a DEF ChooseMode, SaveMode, Jobs
    <3> SUFFICES ASSUME ~contested PROVE CountInv'
      BY <2>0 DEF CountInv
    <3>9. r.copy.cursor = job.cursor BY <2>1 DEF RowNow
    <3>0. job.cursor = NotStarted \/ (job.cursor # NotStarted /\ job.cursor \in Pages)
      BY <1>a, <2>3, <3>9, PagesAssumption DEF Jobs, Cursors, Pages, Done, NotStarted
    <3>4. job'.cursor = r.start
      BY <2>1, <3>9, <3>0, <3>3 DEF StartAfter
    <3>5. \A p \in Pages : job.counted[p] = IF p < job.cursor THEN 1 ELSE 0
      BY DEF CountInv
    <3>6. \A p \in Pages : p < r.start <=> p < job.cursor
      BY <2>1, <3>0, PagesAssumption DEF StartAfter, Pages, NotStarted
    <3>10. c \in {Expired, RowNow'} BY <2>1, <3>3, <3>9 DEF RowNow
    <3> HIDE DEF c
    <3>7. InStep(w)' BY <3>2, <3>4, <3>10 DEF InStep, Opening
    <3>8. \A v \in Workers \ {w} : ~Alive(v)' BY <1>c, <3>1 DEF Alive
    <3> QED BY <3>3, <3>4, <3>5, <3>6, <3>7, <3>8 DEF CountInv
  <2> QED BY <2>2, <2>3
<1>7. CASE CheckSignal(w)
  <2> DEFINE c == IF r.copy = Expired THEN RowNow ELSE r.copy
             s == IF job.control = "none" THEN "land" ELSE "refresh"
             b == job.control # "none"
  <2>1. worker'[w] = [r EXCEPT !.copy = c, !.pc = s, !.paused = b]
        /\ \A v \in Workers \ {w} : worker'[v] = worker[v]
    BY <1>7 DEF CheckSignal, TypeOK
  <2>2. c \in {RowNow, r.copy} /\ s \in {"land", "refresh"} OBVIOUS
  <2> HIDE DEF c, s, b
  <2>3. /\ worker'[w].pc = s /\ worker'[w].page = r.page /\ worker'[w].copy = c
    BY <1>0, <2>1 DEF WorkerRecords
  <2>4. job' = job /\ contested' = contested BY <1>7 DEF CheckSignal
  <2>5. CASE s = "land"
    <3>1. ~contested => r.page = job.cursor /\ r.copy \in {Expired, RowNow}
      BY <1>7, <1>c DEF CheckSignal, At, InStep, PageSteps
    <3>2. ~contested => InStep(w)'
      BY <2>2, <2>3, <2>4, <2>5, <3>1 DEF InStep, RowNow, Opening
    <3> QED BY <1>0, <2>1, <2>4, <3>2, CountFrame
  <2>6. CASE s = "refresh"
    BY <1>0, <2>1, <2>2, <2>3, <2>4, <2>6, CountLeaves
  <2> QED BY <2>2, <2>5, <2>6
<1>8. ASSUME LandPage(w) \/ LoadPage(w) PROVE CountInv'
  <2>1. /\ \A v \in Workers \ {w} : worker'[v] = worker[v]
        /\ worker'[w].pc \in {"sink", "checkpoint"} /\ worker'[w].page = r.page
        /\ worker'[w].copy \in {r.copy, RowNow}
    <3>1. CASE LandPage(w)
      <4>1. worker'[w] = [r EXCEPT !.pc = "sink"]
            /\ \A v \in Workers \ {w} : worker'[v] = worker[v]
        BY <3>1 DEF LandPage, Goes, TypeOK
      <4> QED BY <1>0, <4>1 DEF WorkerRecords
    <3>2. CASE LoadPage(w)
      <4>1. PICK c \in {r.copy, RowNow} :
              worker' = [worker EXCEPT ![w].pc = "checkpoint", ![w].copy = c]
        BY <3>2 DEF LoadPage
      <4>2. worker'[w] = [r EXCEPT !.pc = "checkpoint", !.copy = c]
            /\ \A v \in Workers \ {w} : worker'[v] = worker[v]
        BY <4>1 DEF TypeOK
      <4> QED BY <1>0, <4>2 DEF WorkerRecords
    <3> QED BY <1>8, <3>1, <3>2
  <2>2. r.pc \in PageSteps /\ job' = job /\ contested' = contested
    BY <1>8 DEF LandPage, LoadPage, At, PageSteps
  <2>3. ~contested => r.page = job.cursor /\ r.copy \in {Expired, RowNow}
    BY <1>c, <2>2 DEF InStep
  <2>4. ~contested => InStep(w)'
    BY <2>1, <2>2, <2>3 DEF InStep, RowNow, Opening
  <2> QED BY <1>0, <2>1, <2>2, <2>4, CountFrame
<1>9. CASE Checkpoint(w)
  <2>0. r.pc = "checkpoint" /\ r.page \in Pages /\ contested' = contested
    BY <1>0, <1>9 DEF Checkpoint, At, WorkerRecords
  <2>1. \A v \in Workers \ {w} : worker'[v] = worker[v]
    BY <1>9 DEF Checkpoint, TypeOK
  <2> SUFFICES ASSUME ~contested PROVE CountInv'
    BY <2>0 DEF CountInv
  <2>2. r.page = job.cursor /\ r.copy = RowNow
    BY <1>0, <1>c, <2>0 DEF InStep, PageSteps, WorkerRecords, Holding
  <2>3. job'.cursor = r.page + 1 /\ job'.counted = [job.counted EXCEPT ![r.page] = @ + 1]
    BY <1>a, <1>9, <2>2 DEF Checkpoint, Counting, RowNow, Jobs
  <2>4. \A p \in Pages : job.counted[p] = IF p < job.cursor THEN 1 ELSE 0
    BY DEF CountInv
  <2>5. \A p \in Pages : job'.counted[p] = IF p < job'.cursor THEN 1 ELSE 0
    BY <1>a, <2>0, <2>2, <2>3, <2>4, PagesAssumption DEF Jobs, Pages
  <2>6. InStep(w)'
    <3>1. CASE r.page = N
      <4>1. worker'[w] = [r EXCEPT !.pc = "refresh", !.copy = Expired]
        BY <1>9, <3>1 DEF Checkpoint, TypeOK
      <4>2. worker'[w].pc = "refresh" /\ worker'[w].copy = Expired
        BY <1>0, <4>1 DEF WorkerRecords
      <4> QED BY <4>2 DEF InStep, Opening, PageSteps
    <3>2. CASE r.page # N
      <4>1. worker'[w] = [r EXCEPT !.pc = "check", !.copy = Expired, !.page = r.page + 1]
        BY <1>9, <3>2 DEF Checkpoint, TypeOK
      <4>2. worker'[w].pc = "check" /\ worker'[w].page = r.page + 1 /\ worker'[w].copy = Expired
        BY <1>0, <4>1 DEF WorkerRecords
      <4> QED BY <2>3, <4>2 DEF InStep, Opening
    <3> QED BY <3>1, <3>2
  <2>7. \A v \in Workers \ {w} : ~Alive(v)' BY <1>c, <2>1 DEF Alive
  <2> QED BY <2>5, <2>6, <2>7 DEF CountInv
<1>10. CASE Refresh(w)
  <2>1. \A v \in Workers \ {w} : worker'[v] = worker[v]
    BY <1>10 DEF Refresh, Ends, TypeOK
  <2>2. worker'[w] \in {Idle, [r EXCEPT !.pc = "settle", !.seen = job.status, !.copy = Expired]}
    BY <1>10 DEF Refresh, Ends, TypeOK
  <2>3. worker'[w] = Idle \/ (worker'[w].pc = "settle" /\ worker'[w].copy = Expired)
    BY <1>0, <2>2 DEF WorkerRecords
  <2> QED BY <1>0, <1>10, <2>1, <2>3, CountLeaves DEF Refresh
<1>11. CASE PauseJob(w)
  <2>1. CASE HandleException(w) BY <2>1, CountException
  <2>2. CASE WriteStatus("PAUSED") /\ Ends(w) /\ UNCHANGED <<world, stores, contested>>
    <3>1. job'.cursor = job.cursor /\ job'.counted = job.counted
      BY <1>a, <2>2 DEF WriteStatus, Jobs
    <3> QED BY <1>0, <2>2, <3>1, CountLeaves DEF Ends, TypeOK
  <2> QED BY <1>11, <2>1, <2>2 DEF PauseJob
<1>12. CASE AdvanceMark(w)
  <2>1. worker'[w] = [r EXCEPT !.pc = "complete"]
        /\ \A v \in Workers \ {w} : worker'[v] = worker[v]
    BY <1>12 DEF AdvanceMark, Goes, TypeOK
  <2>2. worker'[w].pc = "complete" /\ worker'[w].copy = r.copy BY <1>0, <2>1 DEF WorkerRecords
  <2> QED BY <1>0, <1>12, <2>1, <2>2, CountLeaves DEF AdvanceMark
<1>13. CASE CompleteJob(w)
  <2>1. CASE HandleException(w) BY <2>1, CountException
  <2>2. CASE WriteStatus("COMPLETED") /\ Ends(w) /\ UNCHANGED <<world, stores, contested>>
    <3>1. job'.cursor = job.cursor /\ job'.counted = job.counted
      BY <1>a, <2>2 DEF WriteStatus, Jobs
    <3> QED BY <1>0, <2>2, <3>1, CountLeaves DEF Ends, TypeOK
  <2> QED BY <1>13, <2>1, <2>2 DEF CompleteJob
<1>14. CASE ReadCursor(w)
  <2>0. r.pc = "read" /\ job' = job /\ contested' = contested BY <1>14 DEF ReadCursor, At
  <2>1. CASE r.copy = Expired
    <3>1. worker'[w] = [r EXCEPT !.pc = "mode", !.copy = RowNow]
          /\ \A v \in Workers \ {w} : worker'[v] = worker[v]
      BY <1>14, <2>1 DEF ReadCursor, TypeOK
    <3>2. worker'[w].pc = "mode" /\ worker'[w].start = r.start /\ worker'[w].copy = RowNow
      BY <1>0, <3>1 DEF WorkerRecords
    <3>3. ~contested => InStep(w)'
      BY <1>c, <2>0, <3>2 DEF InStep, RowNow, Opening, PageSteps, StartAfter
    <3> QED BY <1>0, <2>0, <3>1, <3>3, CountFrame
  <2>2. CASE r.copy # Expired
    BY <1>0, <1>14, <2>0, <2>2, CountGoes DEF ReadCursor, Opening
  <2> QED BY <2>1, <2>2
<1> QED
  BY <1>1, <1>2, <1>3, <1>4, <1>5, <1>6, <1>7, <1>8, <1>9, <1>10, <1>11, <1>12, <1>13, <1>14
    DEF Work

\* Steps outside the threads touch neither the cursor nor the counts.
LEMMA CountServe ==
  ASSUME TypeOK, CountInv, NEW c \in Clients, Serve(c) PROVE CountInv'
<1>a. job \in Jobs BY DEF TypeOK, Jobs
<1>1. job'.cursor = job.cursor /\ job'.counted = job.counted
  BY <1>a DEF Serve, RequestPause, RequestResume, RequestCancel, RequestStatus, Respond,
    WriteStatus, Jobs
<1>2. CASE UNCHANGED <<worker, contested>> BY <1>1, <1>2, CountFrame
<1>3. ASSUME NEW w \in Workers, NEW p, NEW s, Launch(w, p, s) PROVE CountInv'
  BY <1>1, <1>3, CountLaunch
<1> QED BY <1>2, <1>3
     DEF Serve, RequestPause, RequestResume, RequestCancel, RequestStatus, Respond, stores

\* The steps of the processes keep the count.
LEMMA CountRun ==
  ASSUME TypeOK, CountInv, NEW p \in Procs, Run(p) PROVE CountInv'
<1>a. job \in Jobs BY DEF TypeOK, Jobs
<1>1. job'.cursor = job.cursor /\ job'.counted = job.counted
  BY <1>a DEF Run, Heartbeat, TakeOver, Recover, SweepFails, Crash, Restart, Jobs
<1>2. ASSUME contested' = contested, \A v \in Workers : worker'[v] \in {worker[v], Idle}
      PROVE  CountInv'
  BY <1>1, <1>2, CountFrame
<1>3. ASSUME NEW w \in Workers, NEW s, Launch(w, p, s) PROVE CountInv'
  BY <1>1, <1>3, CountLaunch
<1>4. CASE Recover(p) BY <1>2, <1>3, <1>4 DEF Recover
<1>5. CASE Crash(p) BY <1>2, <1>5 DEF Crash
<1>6. CASE Heartbeat(p) \/ TakeOver(p) \/ SweepFails(p) \/ Restart(p)
  BY <1>2, <1>6 DEF Heartbeat, TakeOver, SweepFails, Restart
<1> QED BY <1>4, <1>5, <1>6 DEF Run

\* A job that was just created has counted nothing.
LEMMA CountInit == Init => CountInv
<1> SUFFICES ASSUME Init PROVE CountInv
  OBVIOUS
<1>1. \A p \in Pages : job.counted[p] = 0 /\ ~(p < job.cursor)
  BY DEF Init, Pages, NotStarted
<1>2. PICK w \in Workers : /\ \A v \in Workers : Alive(v) => v = w
                           /\ worker[w].pc = "load" /\ worker[w].start = 1
                           /\ worker[w].copy = Expired
  BY DEF Init, Alive
<1>3. InStep(w) BY <1>2 DEF Init, InStep, PageSteps, StartAfter, NotStarted, Pages
<1> QED BY <1>1, <1>2, <1>3 DEF CountInv

\* The count invariant is kept by every step.
LEMMA CountNext == TypeOK /\ CountInv /\ [Next]_vars => CountInv'
<1> SUFFICES ASSUME TypeOK, CountInv, [Next]_vars PROVE CountInv'
  OBVIOUS
<1>1. ASSUME NEW w \in Workers, Work(w) PROVE CountInv' BY <1>1, CountWork
<1>2. ASSUME NEW w \in Workers, Fail(w) PROVE CountInv' BY <1>2, CountException DEF Fail
<1>3. ASSUME NEW w \in Workers, LoseWorker(w) PROVE CountInv'
  BY <1>3, CountFrame DEF LoseWorker, Ends, TypeOK
<1>4. ASSUME NEW c \in Clients, Serve(c) PROVE CountInv' BY <1>4, CountServe
<1>5. CASE TimeoutElapses BY <1>5, CountFrame DEF TimeoutElapses
<1>6. ASSUME NEW p \in Procs, Run(p) PROVE CountInv' BY <1>6, CountRun
<1>7. CASE UNCHANGED vars BY <1>7, CountFrame DEF vars
<1> QED BY <1>1, <1>2, <1>3, <1>4, <1>5, <1>6, <1>7 DEF Next

\* row_count of a job whose launches never overlapped is the rows of the pages
\* before its checkpoint, each once, after any crashes, resumes and failures.
THEOREM CountExact == Spec => []RowCountExact
<1>1. Init => CountInv BY CountInit
<1>2. TypeOK /\ CountInv /\ [Next]_vars => CountInv' BY CountNext
<1>3. CountInv => RowCountExact BY DEF CountInv, RowCountExact
<1> QED BY <1>1, <1>2, <1>3, TypeCorrect, PTL DEF Spec

-----------------------------------------------------------------------------
(***************************************************************************)
(* A claimed job is not taken over.  PlaceInv keeps threads and requests   *)
(* with processes that are up; with CountInv there is one thread, and      *)
(* OwnInv says that the row names its process and is fresh.                *)
(***************************************************************************)

\* The step a thread ends with, at an error or at the end of its run.
LEMMA EndsEffect ==
  ASSUME TypeOK, NEW w \in Workers, Ends(w)
  PROVE  ~Alive(w)' /\ \A v \in Workers \ {w} : worker'[v] = worker[v]
BY DEF TypeOK, Ends, Alive

\* The error boundary writes FAILED or nothing, and ends the thread.
LEMMA ExceptionEffect ==
  ASSUME TypeOK, NEW w \in Workers, HandleException(w)
  PROVE  /\ ~Alive(w)' /\ \A v \in Workers \ {w} : worker'[v] = worker[v]
         /\ job'.owner = job.owner
         /\ job'.status \in {job.status, "FAILED"}
         /\ UNCHANGED <<fresh, live, request, contested>>
<1>1. job \in Jobs BY DEF TypeOK, Jobs
<1> QED BY <1>1, EndsEffect DEF HandleException, world, Jobs

\* What a step of a thread leaves of itself: it keeps its process, and a row
\* that is PENDING afterwards was so before, and the thread has seen it so.
LEMMA WorkEffect ==
  ASSUME TypeOK, PlaceInv, NEW w \in Workers, Work(w) \/ Fail(w) \/ LoseWorker(w)
  PROVE  /\ Alive(w) /\ \A v \in Workers \ {w} : worker'[v] = worker[v]
         /\ UNCHANGED <<live, request, contested>>
         /\ job'.owner \in {job.owner, worker[w].proc}
         /\ job'.status = "PENDING" => job.status = "PENDING"
         /\ Alive(w)' =>
              /\ worker'[w].proc = worker[w].proc
              /\ job'.status = "PENDING" =>
                   worker'[w].pc \in {"auth", "begin"} /\ worker'[w].seen = "PENDING"
              /\ worker'[w].pc \in {"clear", "read", "mode"} \cup PageSteps =>
                   \/ /\ Claimed(w)
                      /\ job'.owner = job.owner /\ job'.status = job.status /\ fresh' = fresh
                   \/ job'.owner = worker[w].proc /\ fresh' = TRUE
<1> DEFINE r == worker[w]
           Effect == /\ \A v \in Workers \ {w} : worker'[v] = worker[v]
                     /\ UNCHANGED <<live, request, contested>>
                     /\ job'.owner \in {job.owner, worker[w].proc}
                     /\ job'.status = "PENDING" => job.status = "PENDING"
                     /\ Alive(w)' =>
                          /\ worker'[w].proc = worker[w].proc
                          /\ job'.status = "PENDING" =>
                               worker'[w].pc \in {"auth", "begin"} /\ worker'[w].seen = "PENDING"
                          /\ worker'[w].pc \in {"clear", "read", "mode"} \cup PageSteps =>
                               \/ /\ Claimed(w)
                                  /\ job'.owner = job.owner /\ job'.status = job.status
                                  /\ fresh' = fresh
                               \/ job'.owner = worker[w].proc /\ fresh' = TRUE
<1>a. job \in Jobs BY DEF TypeOK, Jobs
<1>b. Alive(w)
  BY DEF Work, Load, Authenticate, Begin, Claim, ClearSignal, ChooseMode, CheckSignal, LandPage,
    LoadPage, Checkpoint, Refresh, PauseJob, AdvanceMark, CompleteJob, Fail, LoseWorker, At,
    ReadCursor
<1> SUFFICES Effect
  BY <1>b
<1>c. r \in WorkerRecords BY <1>b, WorkerIsRecord
<1>d. ASSUME NEW s \in Steps, Goes(w, s)
      PROVE  /\ \A v \in Workers \ {w} : worker'[v] = worker[v]
             /\ worker'[w].pc = s /\ worker'[w].proc = r.proc /\ worker'[w].seen = r.seen
  BY <1>c, <1>d DEF Goes, TypeOK, WorkerRecords
<1>e. job.status = "PENDING" =>
        r.pc = "load" \/ (r.pc \in {"auth", "begin"} /\ r.seen = "PENDING")
  BY <1>b DEF PlaceInv
<1>f. ASSUME HandleException(w) PROVE Effect BY <1>f, ExceptionEffect
<1>1. CASE Load(w)
  <2>1. worker'[w] = [r EXCEPT !.pc = "auth", !.seen = job.status, !.copy = RowNow]
        /\ \A v \in Workers \ {w} : worker'[v] = worker[v]
    BY <1>1 DEF Load, TypeOK
  <2>2. worker'[w].pc = "auth" /\ worker'[w].seen = job.status /\ worker'[w].proc = r.proc
    BY <1>c, <2>1 DEF WorkerRecords
  <2> QED BY <1>1, <2>1, <2>2 DEF Load, world, PageSteps
<1>2. CASE Authenticate(w)
  BY <1>2, <1>d, <1>e DEF Authenticate, At, world, Steps, PageSteps
<1>3. CASE Begin(w)
  <2>1. CASE r.seen = "RUNNING" /\ Goes(w, "claim") /\ UNCHANGED <<job, world, stores, contested>>
    BY <1>3, <2>1, <1>d, <1>e DEF Begin, At, world, Steps, PageSteps
  <2>2. CASE /\ WriteStatus("RUNNING")
             /\ worker' = [worker EXCEPT ![w].pc = "claim", ![w].copy = Expired]
             /\ UNCHANGED <<world, stores, contested>>
    <3>1. worker'[w] = [r EXCEPT !.pc = "claim", !.copy = Expired]
          /\ \A v \in Workers \ {w} : worker'[v] = worker[v]
      BY <2>2 DEF TypeOK
    <3>2. worker'[w].pc = "claim" /\ worker'[w].proc = r.proc BY <1>c, <3>1 DEF WorkerRecords
    <3>3. job'.status = "RUNNING" /\ job'.owner = job.owner BY <1>a, <2>2 DEF WriteStatus, Jobs
    <3> QED BY <2>2, <3>1, <3>2, <3>3 DEF world, PageSteps
  <2> HIDE DEF Effect
  <2> QED BY <1>3, <1>f, <2>1, <2>2 DEF Begin
<1>4. CASE Claim(w)
  <2>1. job'.owner = r.proc /\ job'.status = job.status BY <1>a, <1>4 DEF Claim, Jobs
  <2> QED BY <1>4, <1>d, <1>e, <2>1 DEF Claim, At, Steps
<1>5. CASE ClearSignal(w)
  <2>1. job'.owner = job.owner /\ job'.status = job.status BY <1>a, <1>5 DEF ClearSignal, Jobs
  <2> QED BY <1>5, <1>d, <1>e, <2>1 DEF ClearSignal, At, Steps, world, Claimed
<1>6. CASE ChooseMode(w)
  <2>1. job'.owner = job.owner /\ job'.status = job.status
    BY <1>a, <1>6 DEF ChooseMode, SaveMode, Jobs
  <2>2. ASSUME NEW s \in {"refresh", "check"}, NEW g, SaveMode(w, s, g)
        PROVE  /\ worker'[w].pc = s /\ worker'[w].proc = r.proc
               /\ \A v \in Workers \ {w} : worker'[v] = worker[v]
    <3> DEFINE c == IF r.copy.cursor = NotStarted THEN Expired ELSE r.copy
    <3>1. worker'[w] = [r EXCEPT !.pc = s, !.page = g, !.copy = c]
          /\ \A v \in Workers \ {w} : worker'[v] = worker[v]
      BY <2>2 DEF SaveMode, TypeOK
    <3> HIDE DEF c
    <3> QED BY <1>c, <3>1 DEF WorkerRecords
  <2>3. PICK s \in {"refresh", "check"} :
          /\ worker'[w].pc = s /\ worker'[w].proc = r.proc
          /\ \A v \in Workers \ {w} : worker'[v] = worker[v]
    BY <1>6, <2>2 DEF ChooseMode
  <2> QED BY <1>6, <1>b, <1>e, <2>1, <2>3 DEF ChooseMode, At, world, Claimed, PageSteps
<1>7. CASE CheckSignal(w)
  <2> DEFINE c == IF r.copy = Expired THEN RowNow ELSE r.copy
             s == IF job.control = "none" THEN "land" ELSE "refresh"
             b == job.control # "none"
  <2>1. worker'[w] = [r EXCEPT !.copy = c, !.pc = s, !.paused = b]
        /\ \A v \in Workers \ {w} : worker'[v] = worker[v]
    BY <1>7 DEF CheckSignal, TypeOK
  <2>2. s \in {"land", "refresh"} OBVIOUS
  <2> HIDE DEF c, s, b
  <2>3. worker'[w].pc = s /\ worker'[w].proc = r.proc BY <1>c, <2>1 DEF WorkerRecords
  <2> QED BY <1>7, <1>b, <1>e, <2>1, <2>2, <2>3 DEF CheckSignal, At, world, Claimed, PageSteps
<1>8. CASE LandPage(w)
  BY <1>8, <1>d, <1>e DEF LandPage, At, Steps, world, Claimed, PageSteps
<1>16. CASE LoadPage(w)
  <2>1. PICK c \in {r.copy, RowNow} :
          worker' = [worker EXCEPT ![w].pc = "checkpoint", ![w].copy = c]
    BY <1>16 DEF LoadPage
  <2>2. worker'[w] = [r EXCEPT !.pc = "checkpoint", !.copy = c]
        /\ \A v \in Workers \ {w} : worker'[v] = worker[v]
    BY <2>1 DEF TypeOK
  <2>3. worker'[w].pc = "checkpoint" /\ worker'[w].proc = r.proc BY <1>c, <2>2 DEF WorkerRecords
  <2> QED BY <1>16, <1>b, <1>e, <2>2, <2>3 DEF LoadPage, At, world, Claimed, PageSteps
<1>17. CASE ReadCursor(w)
  <2>1. /\ worker'[w].pc = "mode" /\ worker'[w].proc = r.proc
        /\ \A v \in Workers \ {w} : worker'[v] = worker[v]
    <3>1. CASE r.copy = Expired
      <4>1. worker'[w] = [r EXCEPT !.pc = "mode", !.copy = RowNow]
            /\ \A v \in Workers \ {w} : worker'[v] = worker[v]
        BY <1>17, <3>1 DEF ReadCursor, TypeOK
      <4> QED BY <1>c, <4>1 DEF WorkerRecords
    <3>2. CASE r.copy # Expired BY <1>17, <1>d, <3>2 DEF ReadCursor, Steps
    <3> QED BY <3>1, <3>2
  <2> QED BY <1>17, <1>b, <1>e, <2>1 DEF ReadCursor, At, world, Claimed
<1>9. CASE Checkpoint(w)
  <2>1. job'.owner = job.owner /\ job'.status = job.status
    BY <1>a, <1>9 DEF Checkpoint, Counting, Jobs
  <2>2. r.page \in Pages /\ r.pc = "checkpoint" BY <1>c, <1>9 DEF WorkerRecords, Checkpoint, At
  <2>3. CASE r.page = N
    <3>1. worker'[w] = [r EXCEPT !.pc = "refresh", !.copy = Expired]
          /\ \A v \in Workers \ {w} : worker'[v] = worker[v]
      BY <1>9, <2>3 DEF Checkpoint, TypeOK
    <3>2. worker'[w].pc = "refresh" /\ worker'[w].proc = r.proc BY <1>c, <3>1 DEF WorkerRecords
    <3> QED BY <1>9, <1>b, <1>e, <2>1, <2>2, <3>1, <3>2 DEF Checkpoint, world, PageSteps
  <2>4. CASE r.page # N
    <3>1. worker'[w] = [r EXCEPT !.pc = "check", !.copy = Expired, !.page = r.page + 1]
          /\ \A v \in Workers \ {w} : worker'[v] = worker[v]
      BY <1>9, <2>4 DEF Checkpoint, TypeOK
    <3>2. worker'[w].pc = "check" /\ worker'[w].proc = r.proc BY <1>c, <3>1 DEF WorkerRecords
    <3> QED BY <1>9, <1>b, <1>e, <2>1, <2>2, <3>1, <3>2 DEF Checkpoint, world, Claimed, PageSteps
  <2> QED BY <2>3, <2>4
<1>10. CASE Refresh(w)
  <2>1. CASE job.status = "CANCELLED"
    BY <1>10, <2>1, EndsEffect DEF Refresh, world
  <2>2. CASE job.status # "CANCELLED"
    <3>1. worker'[w] = [r EXCEPT !.pc = "settle", !.seen = job.status, !.copy = Expired]
          /\ \A v \in Workers \ {w} : worker'[v] = worker[v]
      BY <1>10, <2>2 DEF Refresh, TypeOK
    <3>2. worker'[w].pc = "settle" /\ worker'[w].proc = r.proc BY <1>c, <3>1 DEF WorkerRecords
    <3> QED BY <1>10, <1>e, <3>1, <3>2 DEF Refresh, At, world, PageSteps
  <2> QED BY <2>1, <2>2
<1>11. CASE PauseJob(w)
  <2>1. CASE WriteStatus("PAUSED") /\ Ends(w) /\ UNCHANGED <<world, stores, contested>>
    <3>1. job'.status = "PAUSED" /\ job'.owner = job.owner BY <1>a, <2>1 DEF WriteStatus, Jobs
    <3> QED BY <2>1, <3>1, EndsEffect DEF world
  <2> HIDE DEF Effect
  <2> QED BY <1>11, <1>f, <2>1 DEF PauseJob
<1>12. CASE AdvanceMark(w)
  BY <1>12, <1>d, <1>e DEF AdvanceMark, At, Steps, world, PageSteps
<1>13. CASE CompleteJob(w)
  <2>1. CASE WriteStatus("COMPLETED") /\ Ends(w) /\ UNCHANGED <<world, stores, contested>>
    <3>1. job'.status = "COMPLETED" /\ job'.owner = job.owner BY <1>a, <2>1 DEF WriteStatus, Jobs
    <3> QED BY <2>1, <3>1, EndsEffect DEF world
  <2> HIDE DEF Effect
  <2> QED BY <1>13, <1>f, <2>1 DEF CompleteJob
<1>14. CASE Fail(w)
  <2> HIDE DEF Effect
  <2> QED BY <1>14, <1>f DEF Fail
<1>15. CASE LoseWorker(w) BY <1>15, EndsEffect DEF LoseWorker, world
<1> HIDE DEF Effect
<1> QED
  BY <1>1, <1>2, <1>3, <1>4, <1>5, <1>6, <1>7, <1>8, <1>9, <1>10, <1>11, <1>12, <1>13, <1>14,
    <1>15, <1>16, <1>17 DEF Work

\* A thread that is launched is at its first step.
LEMMA LaunchEffect ==
  ASSUME TypeOK, NEW w \in Workers, NEW p, NEW s, Launch(w, p, s)
  PROVE  /\ \A v \in Workers \ {w} : worker'[v] = worker[v]
         /\ worker'[w].pc = "load" /\ worker'[w].proc = p
         /\ ~contested' => ~contested /\ \A v \in Workers : ~Alive(v)
BY DEF Launch, TypeOK

\* A request that has read the row and is going to write it.
LEMMA DecidesEffect ==
  ASSUME TypeOK, PlaceInv, NEW c \in Clients, NEW p \in live, NEW s \in Targets,
         NEW b \in BOOLEAN, Decides(c, p, s, b), b \/ s # "RUNNING" \/ GenericApi,
         UNCHANGED <<live, worker>>, job'.status = job.status, job'.owner = job.owner
  PROVE  PlaceInv'
<1>1. request'[c].proc = p /\ request'[c].target = s /\ request'[c].launches = b
      /\ \A d \in Clients \ {c} : request'[d] = request[d]
  BY DEF Decides, TypeOK
<1> QED BY <1>1 DEF PlaceInv, Alive

\* Threads and requests stay with processes that are up.
LEMMA PlaceNext == TypeOK /\ PlaceInv /\ [Next]_vars => PlaceInv'
<1> SUFFICES ASSUME TypeOK, PlaceInv, [Next]_vars PROVE PlaceInv'
  OBVIOUS
<1> USE DEF stores
<1>a. job \in Jobs BY DEF TypeOK, Jobs
<1>1. ASSUME NEW w \in Workers, Work(w) \/ Fail(w) \/ LoseWorker(w) PROVE PlaceInv'
  <2>1. /\ Alive(w) /\ \A v \in Workers \ {w} : worker'[v] = worker[v]
        /\ live' = live /\ request' = request
        /\ job'.owner \in {job.owner, worker[w].proc}
        /\ job'.status = "PENDING" => job.status = "PENDING"
        /\ Alive(w)' =>
             /\ worker'[w].proc = worker[w].proc
             /\ job'.status = "PENDING" =>
                  worker'[w].pc \in {"auth", "begin"} /\ worker'[w].seen = "PENDING"
    BY <1>1, WorkEffect
  <2> QED BY <2>1 DEF PlaceInv, Alive
<1>2. ASSUME NEW c \in Clients, NEW p \in Procs, RequestPause(c, p) PROVE PlaceInv'
  <2>1. job'.status = job.status /\ job'.owner = job.owner BY <1>a, <1>2 DEF RequestPause, Jobs
  <2> QED BY <1>2, <2>1 DEF RequestPause, PlaceInv, Alive
<1>3. ASSUME NEW c \in Clients, NEW p \in Procs, RequestResume(c, p) PROVE PlaceInv'
  BY <1>3, DecidesEffect DEF RequestResume, Free, Targets
<1>4. ASSUME NEW c \in Clients, NEW p \in Procs, RequestCancel(c, p) PROVE PlaceInv'
  <2>1. job'.status = job.status /\ job'.owner = job.owner BY <1>a, <1>4 DEF RequestCancel, Jobs
  <2>2. p \in live /\ UNCHANGED <<live, worker>> BY <1>4 DEF RequestCancel, Free
  <2>3. CASE UNCHANGED request BY <2>1, <2>2, <2>3 DEF PlaceInv, Alive
  <2>4. CASE Decides(c, p, "CANCELLED", FALSE)
    BY <2>1, <2>2, <2>4, DecidesEffect DEF Targets
  <2> QED BY <1>4, <2>3, <2>4 DEF RequestCancel
<1>5. ASSUME NEW c \in Clients, NEW p \in Procs, NEW s \in Targets, RequestStatus(c, p, s)
      PROVE  PlaceInv'
  BY <1>5, DecidesEffect DEF RequestStatus, Free
<1>6. ASSUME NEW c \in Clients, Respond(c) PROVE PlaceInv'
  <2>1. request[c].proc \in live BY <1>6 DEF Respond, PlaceInv
  <2>2. job'.status = request[c].target /\ request[c].target # "PENDING"
        /\ job'.owner = job.owner
    BY <1>a, <1>6, RequestIsRecord DEF Respond, WriteStatus, Jobs, Targets
  <2>3. live' = live /\ \A d \in Clients : request'[d] \in {request[d], NoRequest}
    BY <1>6 DEF Respond, TypeOK
  <2>4. \A v \in Workers : Alive(v)' => worker'[v].proc \in live
    BY <1>6, <2>1, LaunchEffect DEF Respond, PlaceInv, Alive
  <2> QED BY <2>2, <2>3, <2>4 DEF PlaceInv
<1>7. CASE TimeoutElapses BY <1>7 DEF TimeoutElapses, PlaceInv, Alive
<1>8. ASSUME NEW p \in Procs, Heartbeat(p) \/ TakeOver(p) \/ SweepFails(p) PROVE PlaceInv'
  <2>1. job'.status = job.status /\ job'.owner \in {job.owner} \cup live
    BY <1>a, <1>8 DEF Heartbeat, TakeOver, SweepFails, Jobs
  <2> QED BY <1>8, <2>1 DEF Heartbeat, TakeOver, SweepFails, PlaceInv, Alive
<1>9. ASSUME NEW p \in Procs, Recover(p) PROVE PlaceInv'
  <2>1. CASE job.control = "pause" /\ job.status = "RUNNING"
    <3>1. job'.status = "PAUSED" /\ job'.owner = job.owner
      BY <1>a, <1>9, <2>1 DEF Recover, Jobs
    <3> QED BY <1>9, <2>1, <3>1 DEF Recover, PlaceInv, Alive
  <2>2. CASE ~(job.control = "pause" /\ job.status = "RUNNING")
    <3>1. PICK w \in Workers : Launch(w, p, StartAfter(job.cursor))
      BY <1>9, <2>2 DEF Recover
    <3>2. UNCHANGED <<job, live, request>> /\ p \in live
      BY <1>9, <2>2 DEF Recover, TypeOK
    <3> QED BY <3>1, <3>2, LaunchEffect DEF PlaceInv, Alive
  <2> QED BY <2>1, <2>2
<1>10. ASSUME NEW p \in Procs, Crash(p) PROVE PlaceInv'
  <2>1. job'.status = job.status /\ (job.owner # p => job'.owner = job.owner)
        /\ (job.owner = p => job'.owner = Nobody)
    BY <1>a, <1>10 DEF Crash, Jobs
  <2>2. \A v \in Workers : Alive(v)' => /\ worker'[v] = worker[v] /\ Alive(v)
                                       /\ worker[v].proc # p
    BY <1>10 DEF Crash, Alive
  <2>3. \A d \in Clients : request'[d] # NoRequest =>
          request'[d] = request[d] /\ request[d].proc # p
    BY <1>10 DEF Crash
  <2>4. live' = live \ {p} BY <1>10 DEF Crash
  <2> QED BY <2>1, <2>2, <2>3, <2>4 DEF PlaceInv
<1>11. ASSUME NEW p \in Procs, Restart(p) PROVE PlaceInv'
  BY <1>11 DEF Restart, PlaceInv, Alive
<1>12. CASE UNCHANGED vars BY <1>12 DEF vars, PlaceInv, Alive
<1>13. ASSUME NEW c \in Clients, Serve(c) PROVE PlaceInv'
  BY <1>13, <1>2, <1>3, <1>4, <1>5, <1>6 DEF Serve
<1>14. ASSUME NEW p \in Procs, Run(p) PROVE PlaceInv'
  BY <1>14, <1>8, <1>9, <1>10, <1>11 DEF Run
<1> QED BY <1>1, <1>7, <1>12, <1>13, <1>14 DEF Next

\* The owner and the freshness of a claimed row stay while its worker works.
LEMMA OwnNext == TypeOK /\ CountInv /\ PlaceInv /\ OwnInv /\ [Next]_vars => OwnInv'
<1> SUFFICES ASSUME TypeOK, CountInv, PlaceInv, OwnInv, [Next]_vars,
                    ~contested', ~Stalls, ~GenericApi,
                    NEW w \in Workers, Claimed(w)'
             PROVE  job'.owner = worker'[w].proc /\ (job'.status = "RUNNING" => fresh')
  BY DEF OwnInv
<1> USE DEF stores
<1>a. job \in Jobs BY DEF TypeOK, Jobs
<1>b. ~contested => \A v \in Workers : Alive(v) /\ Alive(w) => v = w BY DEF CountInv
<1>c. ~contested /\ Claimed(w) =>
        /\ job.owner = worker[w].proc /\ worker[w].proc \in live
        /\ job.status = "RUNNING" => fresh
        /\ job.status # "PENDING"
  BY DEF OwnInv, PlaceInv, Claimed, PageSteps
<1> DEFINE Goal == job'.owner = worker'[w].proc /\ (job'.status = "RUNNING" => fresh')
<1>d. ASSUME worker'[w] = worker[w], contested' = contested, job'.owner = job.owner,
             job'.status \in {job.status, "CANCELLED", "PAUSED"}, fresh' = fresh \/ fresh' = TRUE
      PROVE  Goal
  BY <1>c, <1>d DEF Claimed, Alive
<1>e. ASSUME NEW v \in Workers, NEW p, NEW s, Launch(v, p, s) PROVE FALSE
  <2>1. /\ \A u \in Workers \ {v} : worker'[u] = worker[u]
        /\ worker'[v].pc = "load" /\ \A u \in Workers : ~Alive(u)
    BY <1>e, LaunchEffect
  <2> QED BY <2>1 DEF Claimed, PageSteps, Alive
<1>1. ASSUME NEW v \in Workers, Work(v) \/ Fail(v) \/ LoseWorker(v) PROVE Goal
  <2>1. /\ Alive(v) /\ \A u \in Workers \ {v} : worker'[u] = worker[u]
        /\ contested' = contested
        /\ Alive(v)' =>
             /\ worker'[v].proc = worker[v].proc
             /\ worker'[v].pc \in {"clear", "read", "mode"} \cup PageSteps =>
                  \/ /\ Claimed(v)
                     /\ job'.owner = job.owner /\ job'.status = job.status /\ fresh' = fresh
                  \/ job'.owner = worker[v].proc /\ fresh' = TRUE
    BY <1>1, WorkEffect
  <2>2. v = w BY <1>b, <2>1 DEF Claimed, Alive, CountInv
  <2> QED BY <1>c, <2>1, <2>2 DEF Claimed
<1>2. ASSUME NEW c \in Clients, NEW p \in Procs, RequestPause(c, p) \/ RequestCancel(c, p)
      PROVE  Goal
  <2>1. job'.owner = job.owner /\ job'.status = job.status
    BY <1>a, <1>2 DEF RequestPause, RequestCancel, Jobs
  <2> QED BY <1>2, <1>d, <2>1 DEF RequestPause, RequestCancel
<1>3. ASSUME NEW c \in Clients, NEW p \in Procs,
             RequestResume(c, p) \/ \E s \in Targets : RequestStatus(c, p, s)
      PROVE  Goal
  BY <1>3, <1>d DEF RequestResume, RequestStatus
<1>4. ASSUME NEW c \in Clients, Respond(c) PROVE Goal
  <2>1. ~request[c].launches BY <1>4, <1>e DEF Respond
  <2>2. request[c].target \in {"CANCELLED", "PAUSED"}
    BY <1>4, <2>1, RequestIsRecord DEF Respond, PlaceInv, Targets
  <2>3. job'.owner = job.owner /\ job'.status = request[c].target
    BY <1>a, <1>4 DEF Respond, WriteStatus, Jobs
  <2> QED BY <1>4, <1>d, <2>1, <2>2, <2>3 DEF Respond
<1>5. CASE TimeoutElapses
  <2>1. UNCHANGED <<job, worker, contested>> /\ fresh' = (fresh /\ Stamped)
    BY <1>5 DEF TimeoutElapses
  <2>2. ~contested /\ Claimed(w) BY <2>1 DEF Claimed, Alive
  <2>3. job.status = "RUNNING" => Stamped BY <1>c, <2>2 DEF Stamped
  <2> QED BY <1>c, <2>1, <2>2, <2>3
<1>6. ASSUME NEW p \in Procs, Heartbeat(p) PROVE Goal BY <1>6, <1>d DEF Heartbeat
<1>7. ASSUME NEW p \in Procs, TakeOver(p) PROVE FALSE
  <2>1. ~contested /\ Claimed(w) BY <1>7 DEF TakeOver, Claimed, Alive
  <2> QED BY <1>c, <1>7, <2>1 DEF TakeOver, Orphaned
<1>8. ASSUME NEW p \in Procs, Recover(p) PROVE Goal
  <2>1. job.control = "pause" /\ job.status = "RUNNING" BY <1>8, <1>e DEF Recover
  <2>2. job'.owner = job.owner /\ job'.status = "PAUSED" BY <1>a, <1>8, <2>1 DEF Recover, Jobs
  <2> QED BY <1>8, <1>d, <2>1, <2>2 DEF Recover
<1>9. ASSUME NEW p \in Procs, SweepFails(p) \/ Restart(p) PROVE Goal
  BY <1>9, <1>d DEF SweepFails, Restart
<1>10. ASSUME NEW p \in Procs, Crash(p) PROVE Goal
  <2>1. worker'[w] = worker[w] /\ worker[w].proc # p /\ contested' = contested /\ fresh' = fresh
    BY <1>10 DEF Crash, Claimed, Alive
  <2>2. ~contested /\ Claimed(w) BY <2>1 DEF Claimed, Alive
  <2>3. job' = job BY <1>c, <1>10, <2>1, <2>2 DEF Crash
  <2> QED BY <1>d, <2>1, <2>3
<1>11. CASE UNCHANGED vars BY <1>11, <1>d DEF vars
<1>12. ASSUME NEW c \in Clients, Serve(c) PROVE Goal
  BY <1>12, <1>2, <1>3, <1>4 DEF Serve
<1>13. ASSUME NEW p \in Procs, Run(p) PROVE Goal
  BY <1>13, <1>6, <1>7, <1>8, <1>9, <1>10 DEF Run
<1> QED BY <1>1, <1>5, <1>11, <1>12, <1>13 DEF Next

\* A job that was just created has no owner and its worker has read nothing.
LEMMA OwnInit == Init => PlaceInv /\ OwnInv
<1> SUFFICES ASSUME Init PROVE PlaceInv /\ OwnInv
  OBVIOUS
<1>1. \A v \in Workers : Alive(v) => worker[v].pc = "load" /\ worker[v].proc \in Procs
  BY DEF Init, Alive
<1>2. live = Procs /\ job.owner = Nobody /\ \A c \in Clients : request[c] = NoRequest BY DEF Init
<1> QED BY <1>1, <1>2 DEF PlaceInv, OwnInv, Claimed, PageSteps

\* A sweep takes no job away from the worker that has claimed it and is at work
\* on its pages: while heartbeats do not stall and the status-only endpoints are
\* not used, the row keeps naming that worker's process and stays fresh.
THEOREM ClaimRespected == Spec => ClaimIsRespected
<1>1. Init => PlaceInv /\ OwnInv BY OwnInit
<1>2. TypeOK /\ PlaceInv /\ [Next]_vars => PlaceInv' BY PlaceNext
<1>3. TypeOK /\ CountInv /\ PlaceInv /\ OwnInv /\ [Next]_vars => OwnInv' BY OwnNext
<1>4. Init => CountInv BY CountInit
<1>5. TypeOK /\ CountInv /\ [Next]_vars => CountInv' BY CountNext
<1>6. TypeOK /\ PlaceInv /\ OwnInv /\ [Next]_vars =>
        [\A p \in Procs, w \in Workers :
           (~contested /\ ~Stalls /\ ~GenericApi /\ TakeOver(p)) => ~Claimed(w)]_vars
  <2> SUFFICES ASSUME PlaceInv, OwnInv, NEW p \in Procs, NEW w \in Workers,
                      ~contested, ~Stalls, ~GenericApi, TakeOver(p), Claimed(w)
               PROVE  FALSE
    OBVIOUS
  <2>1. job.owner = worker[w].proc /\ (job.status = "RUNNING" => fresh) BY DEF OwnInv
  <2>2. job.status # "PENDING" BY DEF PlaceInv, Claimed, PageSteps
  <2> QED BY <2>1, <2>2 DEF TakeOver, Orphaned
<1> QED
  BY <1>1, <1>2, <1>3, <1>4, <1>5, <1>6, TypeCorrect, PTL DEF Spec, ClaimIsRespected
-----------------------------------------------------------------------------
(***************************************************************************)
(* A RUNNING job is stranded under a living owner by the death of another  *)
(* process only.                                                           *)
(***************************************************************************)

\* A thread that ends by itself leaves no row RUNNING.
LEMMA EndsSettled ==
  ASSUME TypeOK, NEW w \in Workers, Work(w) \/ Fail(w), ~Alive(w)'
  PROVE  job'.status # "RUNNING"
<1> DEFINE r == worker[w]
<1>a. job \in Jobs BY DEF TypeOK, Jobs
<1>b. Alive(w) /\ r \in WorkerRecords
  BY WorkerIsRecord DEF Work, At, Load, Authenticate, Begin, Claim, ClearSignal, ReadCursor,
    ChooseMode, CheckSignal, LandPage, LoadPage, Checkpoint, Refresh, PauseJob, AdvanceMark,
    CompleteJob, Fail
<1>c. worker'[w].pc = "idle" BY DEF Alive, Idle
<1>d. ASSUME NEW e, worker' = [worker EXCEPT ![w] = e] PROVE worker'[w] = e
  BY <1>d DEF TypeOK
<1>e. ASSUME NEW s \in Steps, Goes(w, s) PROVE FALSE
  <2>1. worker'[w] = [r EXCEPT !.pc = s] BY <1>e DEF Goes, TypeOK
  <2>2. worker'[w].pc = s BY <1>b, <2>1 DEF WorkerRecords
  <2> QED BY <1>c, <2>2 DEF Steps
<1>f. ASSUME HandleException(w) PROVE job'.status # "RUNNING"
  <2>1. CASE job.status = "RUNNING"
    <3>1. CanTransition(job.status, "FAILED")
      BY <2>1 DEF CanTransition, AllowedTransitions, Statuses
    <3> QED BY <1>a, <1>f, <3>1 DEF HandleException, Jobs
  <2>2. CASE job.status # "RUNNING"
    BY <1>a, <1>f, <2>2 DEF HandleException, Jobs
  <2> QED BY <2>1, <2>2
<1>g. ASSUME NEW s \in Statuses \ {"RUNNING"}, WriteStatus(s) PROVE job'.status # "RUNNING"
  BY <1>a, <1>g DEF WriteStatus, Jobs
<1>1. ASSUME NEW s \in Steps, NEW g, SaveMode(w, s, g) PROVE FALSE
  <2> DEFINE c == IF r.copy.cursor = NotStarted THEN Expired ELSE r.copy
  <2>1. worker'[w] = [r EXCEPT !.pc = s, !.page = g, !.copy = c] BY <1>1 DEF SaveMode, TypeOK
  <2> HIDE DEF c
  <2>2. worker'[w].pc = s BY <1>b, <2>1 DEF WorkerRecords
  <2> QED BY <1>c, <2>2 DEF Steps
<1>2. ~Load(w)
  <2>1. ASSUME Load(w) PROVE FALSE
    <3>1. worker'[w] = [r EXCEPT !.pc = "auth", !.seen = job.status, !.copy = RowNow]
      BY <2>1 DEF Load, TypeOK
    <3>2. worker'[w].pc = "auth" BY <1>b, <3>1 DEF WorkerRecords
    <3> QED BY <1>c, <3>2
  <2> QED BY <2>1
<1>3. ASSUME Begin(w) PROVE job'.status # "RUNNING"
  <2>1. ASSUME worker' = [worker EXCEPT ![w].pc = "claim", ![w].copy = Expired] PROVE FALSE
    <3>1. worker'[w] = [r EXCEPT !.pc = "claim", !.copy = Expired] BY <2>1 DEF TypeOK
    <3>2. worker'[w].pc = "claim" BY <1>b, <3>1 DEF WorkerRecords
    <3> QED BY <1>c, <3>2
  <2>2. ~Goes(w, "claim") BY <1>e DEF Steps
  <2> QED BY <1>3, <1>f, <2>1, <2>2 DEF Begin
<1>4. ~ReadCursor(w)
  <2>1. ASSUME worker' = [worker EXCEPT ![w].pc = "mode", ![w].copy = RowNow] PROVE FALSE
    <3>1. worker'[w] = [r EXCEPT !.pc = "mode", !.copy = RowNow] BY <2>1 DEF TypeOK
    <3>2. worker'[w].pc = "mode" BY <1>b, <3>1 DEF WorkerRecords
    <3> QED BY <1>c, <3>2
  <2>2. ~Goes(w, "mode") BY <1>e DEF Steps
  <2> QED BY <2>1, <2>2 DEF ReadCursor
<1>5. ~ChooseMode(w) BY <1>1 DEF ChooseMode, Steps
<1>6. ASSUME CheckSignal(w) PROVE FALSE
  <2> DEFINE c == IF r.copy = Expired THEN RowNow ELSE r.copy
             s == IF job.control = "none" THEN "land" ELSE "refresh"
             b == job.control # "none"
  <2>1. worker'[w] = [r EXCEPT !.copy = c, !.pc = s, !.paused = b]
    BY <1>6 DEF CheckSignal, TypeOK
  <2>2. s # "idle" OBVIOUS
  <2> HIDE DEF c, s, b
  <2>3. worker'[w].pc = s BY <1>b, <2>1 DEF WorkerRecords
  <2> QED BY <1>c, <2>2, <2>3
<1>7. ASSUME LoadPage(w) PROVE FALSE
  <2>1. PICK c \in {r.copy, RowNow} :
          worker' = [worker EXCEPT ![w].pc = "checkpoint", ![w].copy = c]
    BY <1>7 DEF LoadPage
  <2>2. worker'[w] = [r EXCEPT !.pc = "checkpoint", !.copy = c] BY <2>1 DEF TypeOK
  <2>3. worker'[w].pc = "checkpoint" BY <1>b, <2>2 DEF WorkerRecords
  <2> QED BY <1>c, <2>3
<1>8. ASSUME Checkpoint(w) PROVE FALSE
  <2>1. CASE r.page = N
    <3>1. worker'[w] = [r EXCEPT !.pc = "refresh", !.copy = Expired]
      BY <1>8, <2>1 DEF Checkpoint, TypeOK
    <3>2. worker'[w].pc = "refresh" BY <1>b, <3>1 DEF WorkerRecords
    <3> QED BY <1>c, <3>2
  <2>2. CASE r.page # N
    <3>1. worker'[w] = [r EXCEPT !.pc = "check", !.copy = Expired, !.page = r.page + 1]
      BY <1>8, <2>2 DEF Checkpoint, TypeOK
    <3>2. worker'[w].pc = "check" BY <1>b, <3>1 DEF WorkerRecords
    <3> QED BY <1>c, <3>2
  <2> QED BY <2>1, <2>2
<1>9. ASSUME Refresh(w) PROVE job'.status # "RUNNING"
  <2>1. CASE job.status = "CANCELLED" BY <1>9, <2>1 DEF Refresh
  <2>2. CASE job.status # "CANCELLED"
    <3>1. worker'[w] = [r EXCEPT !.pc = "settle", !.seen = job.status, !.copy = Expired]
      BY <1>9, <2>2 DEF Refresh, TypeOK
    <3>2. worker'[w].pc = "settle" BY <1>b, <3>1 DEF WorkerRecords
    <3> QED BY <1>c, <3>2
  <2> QED BY <2>1, <2>2
<1>10. ASSUME PauseJob(w) PROVE job'.status # "RUNNING"
  BY <1>10, <1>f, <1>g DEF PauseJob, Statuses
<1>11. ASSUME CompleteJob(w) PROVE job'.status # "RUNNING"
  BY <1>11, <1>f, <1>g DEF CompleteJob, Statuses
<1>12. ASSUME Fail(w) PROVE job'.status # "RUNNING" BY <1>12, <1>f DEF Fail
<1>13. ~Authenticate(w) /\ ~Claim(w) /\ ~ClearSignal(w) /\ ~LandPage(w) /\ ~AdvanceMark(w)
  BY <1>e DEF Authenticate, Claim, ClearSignal, LandPage, AdvanceMark, Steps
<1> QED
  BY <1>2, <1>3, <1>4, <1>5, <1>6, <1>7, <1>8, <1>9, <1>10, <1>11, <1>12, <1>13 DEF Work

\* The step that strands a job is the death of a process that does not own it.
LEMMA StrandingStep ==
  ASSUME TypeOK, TypeOK', PlaceInv, OwnInv, Next, ~DbOutage, ~GenericApi, ~Stranded, Stranded'
  PROVE  \E p \in live \ live' :
           /\ p # job.owner
           /\ ~contested /\ ~Stalls => \A w \in Workers : ~Claimed(w)
<1> DEFINE Goal == \E p \in live \ live' :
                     /\ p # job.owner
                     /\ ~contested /\ ~Stalls => \A w \in Workers : ~Claimed(w)
<1>a. job \in Jobs BY DEF TypeOK, Jobs
<1>b. /\ job'.status = "RUNNING" /\ job'.owner \in live'
      /\ \A w \in Workers : ~Alive(w)'
      /\ \A c \in Clients : ~request'[c].launches
      /\ taken' = {}
  BY DEF Stranded
<1>c. ASSUME worker' = worker, taken \subseteq taken', job'.status = job.status, job.owner \in live,
             \A c \in Clients : request[c].launches => request'[c].launches
      PROVE  FALSE
  <2>1. \A w \in Workers : ~Alive(w) BY <1>b, <1>c DEF Alive
  <2>2. taken = {} BY <1>b, <1>c
  <2> QED BY <1>b, <1>c, <2>1, <2>2 DEF Stranded
<1>d. ASSUME NEW w \in Workers, NEW p, NEW s, Launch(w, p, s) PROVE FALSE
  <2>1. worker'[w].pc = "load" BY <1>d, LaunchEffect
  <2> QED BY <1>b, <2>1 DEF Alive, Idle
<1>1. ASSUME NEW w \in Workers, Work(w) \/ Fail(w) \/ LoseWorker(w) PROVE Goal
  <2>1. ~LoseWorker(w) BY DEF LoseWorker
  <2> QED BY <1>1, <1>b, <2>1, EndsSettled
<1>2. ASSUME NEW c \in Clients, NEW p \in Procs,
             RequestPause(c, p) \/ RequestResume(c, p) \/ RequestCancel(c, p)
      PROVE  Goal
  <2>1. job'.status = job.status /\ job'.owner = job.owner
    BY <1>a, <1>2 DEF RequestPause, RequestResume, RequestCancel, Jobs
  <2>2. /\ worker' = worker /\ taken' = taken /\ live' = live /\ request[c] = NoRequest
        /\ \A d \in Clients \ {c} : request'[d] = request[d]
    BY <1>2 DEF RequestPause, RequestResume, RequestCancel, Decides, Free, TypeOK
  <2>3. ~request[c].launches BY <2>2 DEF NoRequest
  <2> QED BY <1>b, <1>c, <2>1, <2>2, <2>3
<1>3. ASSUME NEW c \in Clients, Respond(c) PROVE Goal
  <2>1. ~request[c].launches BY <1>3, <1>d DEF Respond
  <2>2. request[c].target # "RUNNING" BY <1>3, <2>1 DEF Respond, PlaceInv
  <2>3. job'.status = request[c].target BY <1>a, <1>3 DEF Respond, WriteStatus, Jobs
  <2> QED BY <1>b, <2>2, <2>3
<1>4. CASE TimeoutElapses
  BY <1>4, <1>b, <1>c DEF TimeoutElapses
<1>5. ASSUME NEW p \in Procs, Heartbeat(p) \/ TakeOver(p) \/ SweepFails(p) PROVE Goal
  <2>1. ~TakeOver(p) BY <1>b DEF TakeOver
  <2>2. Heartbeat(p) BY <1>5, <2>1 DEF SweepFails
  <2> QED BY <1>b, <1>c, <2>2 DEF Heartbeat
<1>6. ASSUME NEW p \in Procs, Recover(p) PROVE Goal
  <2>1. job' = [job EXCEPT !.status = "PAUSED", !.control = "none"] BY <1>6, <1>d DEF Recover
  <2> QED BY <1>a, <1>b, <2>1 DEF Jobs
<1>7. ASSUME NEW p \in Procs, Restart(p) PROVE Goal
  <2>1. job' = job /\ worker' = worker /\ request' = request /\ taken' = taken
    BY <1>7 DEF Restart
  <2>2. job.owner # Nobody BY <1>b, <2>1, OwnerAssumption DEF TypeOK
  <2> QED BY <1>c, <2>1, <2>2 DEF PlaceInv
<1>8. ASSUME NEW p \in Procs, Crash(p) PROVE Goal
  <2>1. p \in live \ live' BY <1>8 DEF Crash
  <2>2. job.owner # p
    <3>1. job.owner = p => job'.owner = Nobody BY <1>a, <1>8 DEF Crash, Jobs
    <3> QED BY <1>b, <3>1, OwnerAssumption DEF TypeOK
  <2>3. ASSUME ~contested, ~Stalls, NEW w \in Workers, Claimed(w) PROVE FALSE
    <3>1. job.owner = worker[w].proc BY <2>3 DEF OwnInv
    <3>2. worker'[w] = worker[w] BY <1>8, <2>2, <3>1 DEF Crash
    <3> QED BY <1>b, <2>3, <3>2 DEF Claimed, Alive
  <2> QED BY <2>1, <2>2, <2>3
<1>9. ASSUME NEW c \in Clients, Serve(c) PROVE Goal
  BY <1>9, <1>2, <1>3 DEF Serve, RequestStatus
<1>10. ASSUME NEW p \in Procs, Run(p) PROVE Goal
  BY <1>10, <1>5, <1>6, <1>7, <1>8 DEF Run
<1> QED BY <1>1, <1>4, <1>9, <1>10 DEF Next

\* A job is left RUNNING with nothing at work on it, under an owner that is up
\* and keeps it fresh, only by the death of another process whose worker had
\* not claimed it: no failure, pause, cancel, resume or sweep strands a job,
\* for any numbers of processes, threads and requests.
THEOREM StrandedByCrash == Spec => OnlyACrashStrands
<1>1. Init => PlaceInv /\ OwnInv BY OwnInit
<1>2. TypeOK /\ PlaceInv /\ [Next]_vars => PlaceInv' BY PlaceNext
<1>3. TypeOK /\ CountInv /\ PlaceInv /\ OwnInv /\ [Next]_vars => OwnInv' BY OwnNext
<1>4. Init => CountInv BY CountInit
<1>5. TypeOK /\ CountInv /\ [Next]_vars => CountInv' BY CountNext
<1>6. TypeOK /\ TypeOK' /\ PlaceInv /\ OwnInv /\ [Next]_vars =>
        [(~DbOutage /\ ~GenericApi /\ ~Stranded /\ Stranded') =>
           \E p \in live \ live' :
             /\ p # job.owner
             /\ ~contested /\ ~Stalls => \A w \in Workers : ~Claimed(w)]_vars
  BY StrandingStep
<1> QED
  BY <1>1, <1>2, <1>3, <1>4, <1>5, <1>6, TypeCorrect, PTL DEF Spec, OnlyACrashStrands
=============================================================================
