----------------------- MODULE SlackRealtime_proofs -----------------------
(***************************************************************************)
(* Theorems about SlackRealtime, for every number of threads, requests and *)
(* messages, every page size and every value of the bounds.                *)
(***************************************************************************)
EXTENDS SlackRealtime, FiniteSetTheorems, TLAPS

\* What a thread that exists is: a record, never the idle marker.
ThreadRecords ==
  [pc : Steps, kind : {"event", "api", "sync"}, msg : 0..N, row : Nat,
   oldest : 0..N, before : 1..N+1, top : 0..N, todo : SUBSET Messages]

HoldSteps == Ingesting \cup {"buffer", "delete"}
ThreadsOK ==
  /\ thread \in [Threads -> ThreadStates]
  /\ \A t \in Threads : Holding(t) => thread[t].msg \in Messages

\* A thread that is alive is one of the records.
LEMMA ThreadIsRecord ==
  ASSUME TypeOK, NEW t \in Threads, Alive(t)
  PROVE  thread[t] \in ThreadRecords
BY DEF TypeOK, Alive, ThreadStates, ThreadRecords

\* A step of a thread that ends in a well-formed record keeps the array.
LEMMA PutType ==
  ASSUME TypeOK, NEW t \in Threads, NEW r \in ThreadRecords,
         r.pc \in HoldSteps => r.msg \in Messages,
         thread' = [thread EXCEPT ![t] = r]
  PROVE  ThreadsOK'
<1>1. thread \in [Threads -> ThreadStates] BY DEF TypeOK
<1>2. r \in ThreadStates BY DEF ThreadStates, ThreadRecords
<1>3. thread' \in [Threads -> ThreadStates] BY <1>1, <1>2
<1>4. ASSUME NEW u \in Threads, Holding(u)' PROVE thread'[u].msg \in Messages
  <2>1. CASE u = t
    BY <1>1, <2>1, <1>4 DEF Holding, HoldSteps
  <2>2. CASE u # t
    <3>1. thread'[u] = thread[u] BY <1>1, <2>2
    <3> QED BY <3>1, <1>4 DEF Holding, Alive, TypeOK
  <2> QED BY <2>1, <2>2
<1> QED BY <1>3, <1>4 DEF ThreadsOK

\* A thread that ends keeps the array.
LEMMA EndsType ==
  ASSUME TypeOK, NEW t \in Threads, Ends(t)
  PROVE  ThreadsOK'
<1>1. thread \in [Threads -> ThreadStates] BY DEF TypeOK
<1>2. thread' \in [Threads -> ThreadStates] BY <1>1 DEF Ends, ThreadStates
<1>3. ASSUME NEW u \in Threads, Holding(u)' PROVE thread'[u].msg \in Messages
  <2>1. u # t BY <1>1, <1>3 DEF Ends, Holding, Alive
  <2>2. thread'[u] = thread[u] BY <1>1, <2>1 DEF Ends
  <2> QED BY <2>2, <1>3 DEF Holding, Alive, TypeOK
<1> QED BY <1>2, <1>3 DEF ThreadsOK

\* A thread that goes on to another step keeps the array, when the step is
\* one that needs no message or the thread has one.
LEMMA GoesType ==
  ASSUME TypeOK, NEW t \in Threads, Alive(t), NEW s \in Steps, Goes(t, s),
         s \in HoldSteps => thread[t].msg \in Messages
  PROVE  ThreadsOK'
<1>1. thread[t] \in ThreadRecords BY ThreadIsRecord
<1> DEFINE r == [thread[t] EXCEPT !.pc = s]
<1>2. r \in ThreadRecords BY <1>1 DEF ThreadRecords
<1>3. r.pc = s /\ r.msg = thread[t].msg BY <1>1 DEF ThreadRecords
<1>4. thread' = [thread EXCEPT ![t] = r] BY DEF Goes
<1> QED
  <2> HIDE DEF r
  <2> QED BY <1>2, <1>3, <1>4, PutType

\* A fresh thread keeps the array.
LEMMA FreshType ==
  ASSUME TypeOK, NEW t \in Threads, NEW k \in {"event", "api", "sync"},
         NEW s \in Steps, NEW m \in 0..N, s \in HoldSteps => m \in Messages,
         thread' = [thread EXCEPT ![t] = Fresh(k, s, m)]
  PROVE  ThreadsOK'
<1>1. Fresh(k, s, m) \in ThreadRecords BY SizesAssumption DEF Fresh, ThreadRecords
<1>2. Fresh(k, s, m).pc = s /\ Fresh(k, s, m).msg = m BY DEF Fresh
<1> QED BY <1>1, <1>2, PutType

\* What follows an ingestion keeps the array.
LEMMA IngestedType ==
  ASSUME TypeOK, NEW t \in Threads, At(t, "mark"), Ingested(t)
  PROVE  ThreadsOK'
<1>1. CASE ~Sync(t) BY <1>1, EndsType DEF Ingested
<1>2. CASE Sync(t)
  <2>1. thread[t].msg \in Messages BY DEF TypeOK, At, Holding, Ingesting
  <2>2. CASE thread[t].row # 0
    BY <1>2, <2>1, <2>2, GoesType DEF Ingested, At, Steps
  <2>3. CASE ~(thread[t].row # 0)
    BY <1>2, <2>1, <2>3, GoesType DEF Ingested, At, Steps
  <2> QED BY <2>2, <2>3
<1> QED BY <1>1, <1>2

\* The launch of a sync thread keeps the array.
LEMMA LaunchType ==
  ASSUME TypeOK, NEW t \in Threads, LaunchSync(t)
  PROVE  ThreadsOK' /\ overlapped' \in BOOLEAN
<1>1. ThreadsOK'
  <2>1. "begin" \in Steps /\ "begin" \notin HoldSteps BY DEF Steps, HoldSteps, Ingesting
  <2>2. thread' = [thread EXCEPT ![t] = Fresh("sync", "begin", 0)] BY DEF LaunchSync
  <2>3. "sync" \in {"event", "api", "sync"} /\ 0 \in 0..N BY SizesAssumption
  <2> QED BY <2>1, <2>2, <2>3, FreshType
<1>2. overlapped' \in BOOLEAN BY DEF LaunchSync, TypeOK
<1> QED BY <1>1, <1>2

\* A bounded event keeps its counter a number.
LEMMA SpendType ==
  ASSUME TypeOK, NEW what \in {"crashes", "failures", "requests", "deliveries"},
         Spend(what)
  PROVE  spent' \in [crashes : Nat, failures : Nat, requests : Nat, deliveries : Nat]
BY DEF TypeOK, Spend

\* The types of the variables that the steps of a thread leave alone.
RestOK ==
  /\ job \in [status : Statuses, control : {"none", "cancel"}]
  /\ owned \in BOOLEAN /\ up \in BOOLEAN /\ overlapped \in BOOLEAN
  /\ request \in [Clients -> {"none", "PAUSED", "RUNNING", "CANCELLED"}]
  /\ posted \in 0..N /\ lost \in SUBSET (0..N)
StoresOK ==
  /\ mark \in 0..N
  /\ table \in SUBSET Messages /\ seen \in SUBSET Messages
  /\ counted \in [Messages -> Nat]
TailOK ==
  /\ backlog \in SUBSET [id : Nat, msg : Messages]
  /\ acked \in SUBSET Messages
  /\ spent \in [crashes : Nat, failures : Nat, requests : Nat, deliveries : Nat]

\* The type invariant, in the parts that the actions change together.
LEMMA TypeParts == TypeOK <=> ThreadsOK /\ RestOK /\ StoresOK /\ TailOK
BY DEF TypeOK, ThreadsOK, RestOK, StoresOK, TailOK

\* And after a step.
LEMMA TypePartsNext ==
  ASSUME ThreadsOK', RestOK', StoresOK', TailOK' PROVE TypeOK'
BY DEF TypeOK, ThreadsOK, RestOK, StoresOK, TailOK

\* Steps that stay within a thread keep every variable in its type.
LEMMA WorkType ==
  ASSUME TypeOK, NEW t \in Threads, Work(t)
  PROVE  TypeOK'
<1> USE DEF At
<1>t. TypeOK /\ RestOK /\ StoresOK /\ TailOK BY TypeParts
<1>r. Alive(t) => thread[t] \in ThreadRecords BY ThreadIsRecord
<1>m. Holding(t) => thread[t].msg \in Messages BY DEF TypeOK
<1>1. CASE BufferEvent(t)
  <2>1. ThreadsOK' BY <1>1, EndsType DEF BufferEvent
  <2>2. thread[t].msg \in Messages BY <1>1, <1>m DEF BufferEvent, Holding, Ingesting
  <2>3. backlog' \in SUBSET [id : Nat, msg : Messages]
    <3>1. CASE Buffered(thread[t].msg) BY <1>1, <1>t, <3>1 DEF BufferEvent, TailOK
    <3>2. CASE ~Buffered(thread[t].msg)
      <4>1. PICK i \in 1..MaxDeliveries :
              backlog' = backlog \cup {[id |-> i, msg |-> thread[t].msg]}
        BY <1>1, <3>2 DEF BufferEvent
      <4>2. i \in Nat BY BoundsAssumption
      <4> QED BY <1>t, <2>2, <4>1, <4>2 DEF TailOK
    <3> QED BY <3>1, <3>2
  <2>4. TailOK' BY <1>1, <1>t, <2>2, <2>3 DEF BufferEvent, TailOK
  <2>5. RestOK' /\ StoresOK' BY <1>1, <1>t DEF BufferEvent, RestOK, StoresOK, row, rest, stores
  <2> QED BY <2>1, <2>4, <2>5, TypePartsNext
<1>2. CASE Land(t)
  <2>1. thread[t].msg \in Messages BY <1>2, <1>m DEF Land, Holding, Ingesting
  <2>2. ThreadsOK' BY <1>2, <2>1, GoesType DEF Land, Steps, Ingesting
  <2>3. StoresOK' BY <1>2, <1>t, <2>1 DEF Land, StoresOK
  <2>4. RestOK' /\ TailOK' BY <1>2, <1>t DEF Land, RestOK, TailOK, row, rest
  <2> QED BY <2>2, <2>3, <2>4, TypePartsNext
<1>3. CASE Count(t)
  <2>1. thread[t].msg \in Messages BY <1>3, <1>m DEF Count, Holding, Ingesting
  <2>2. ThreadsOK' BY <1>3, <2>1, GoesType DEF Count, Steps, Ingesting
  <2>3. StoresOK' BY <1>3, <1>t, <2>1 DEF Count, StoresOK
  <2>4. RestOK' /\ TailOK' BY <1>3, <1>t DEF Count, RestOK, TailOK, row, rest
  <2> QED BY <2>2, <2>3, <2>4, TypePartsNext
<1>4. CASE AdvanceMark(t)
  <2>1. thread[t].msg \in Messages BY <1>4, <1>m DEF AdvanceMark, Holding, Ingesting
  <2>2. ThreadsOK' BY <1>4, IngestedType DEF AdvanceMark
  <2>3. mark' \in 0..N BY <1>4, <1>t, <2>1, SizesAssumption DEF AdvanceMark, StoresOK, Messages
  <2>4. StoresOK' BY <1>4, <1>t, <2>3 DEF AdvanceMark, StoresOK
  <2>5. RestOK' /\ TailOK' BY <1>4, <1>t DEF AdvanceMark, RestOK, TailOK, row, rest
  <2> QED BY <2>2, <2>4, <2>5, TypePartsNext
<1>5. CASE Begin(t)
  <2>1. ThreadsOK' BY <1>5, GoesType DEF Begin, Steps, HoldSteps, Ingesting
  <2>2. job' \in [status : Statuses, control : {"none", "cancel"}]
    BY <1>5, <1>t DEF Begin, RestOK, Statuses
  <2>3. RestOK' BY <1>5, <1>t, <2>2 DEF Begin, RestOK, rest
  <2>4. StoresOK' /\ TailOK' BY <1>5, <1>t DEF Begin, StoresOK, TailOK, stores
  <2> QED BY <2>1, <2>3, <2>4, TypePartsNext
<1>6. CASE Claim(t)
  <2>1. ThreadsOK' BY <1>6, GoesType DEF Claim, Steps, HoldSteps, Ingesting
  <2>2. RestOK' /\ StoresOK' /\ TailOK'
    BY <1>6, <1>t DEF Claim, RestOK, StoresOK, TailOK, rest, stores
  <2> QED BY <2>1, <2>2, TypePartsNext
<1>7. CASE DrainNext(t)
  <2>1. ThreadsOK'
    <3>1. CASE Goes(t, "marks") BY <1>7, <3>1, GoesType DEF DrainNext, Steps, HoldSteps, Ingesting
    <3>2. ASSUME NEW r \in backlog,
                 thread' = [thread EXCEPT ![t].pc = "land", ![t].row = r.id, ![t].msg = r.msg]
          PROVE  ThreadsOK'
      <4> DEFINE v == [thread[t] EXCEPT !.pc = "land", !.row = r.id, !.msg = r.msg]
      <4>1. r.id \in Nat /\ r.msg \in Messages BY <1>t DEF TailOK
      <4>a. r.msg \in 0..N BY <4>1, SizesAssumption DEF Messages
      <4>b. thread[t] \in ThreadRecords BY <1>7, <1>r DEF DrainNext
      <4>c. v \in ThreadRecords BY <4>1, <4>a, <4>b DEF ThreadRecords, Steps, Ingesting
      <4>d. v.msg = r.msg BY <4>b DEF ThreadRecords
      <4>2. v \in ThreadRecords /\ v.msg \in Messages BY <4>1, <4>c, <4>d
      <4>3. thread' = [thread EXCEPT ![t] = v] BY <3>2
      <4> HIDE DEF v
      <4> QED BY <4>2, <4>3, PutType
    <3> QED BY <1>7, <3>1, <3>2 DEF DrainNext
  <2>2. RestOK' /\ StoresOK' /\ TailOK'
    BY <1>7, <1>t DEF DrainNext, RestOK, StoresOK, TailOK, row, rest, stores
  <2> QED BY <2>1, <2>2, TypePartsNext
<1>8. CASE DeleteRow(t)
  <2>1. ThreadsOK'
    <3> DEFINE v == [thread[t] EXCEPT !.pc = "drain", !.row = 0]
    <3>1. v \in ThreadRecords /\ v.pc = "drain"
      BY <1>8, <1>r DEF DeleteRow, ThreadRecords, Steps
    <3>2. thread' = [thread EXCEPT ![t] = v] BY <1>8 DEF DeleteRow
    <3> HIDE DEF v
    <3> QED BY <3>1, <3>2, PutType DEF HoldSteps, Ingesting
  <2>2. TailOK' BY <1>8, <1>t DEF DeleteRow, TailOK
  <2>3. RestOK' /\ StoresOK' BY <1>8, <1>t DEF DeleteRow, RestOK, StoresOK, row, rest, stores
  <2> QED BY <2>1, <2>2, <2>3, TypePartsNext
<1>9. CASE ReadMarks(t)
  <2>1. ThreadsOK'
    <3>1. CASE mark = 0 BY <1>9, <3>1, EndsType DEF ReadMarks
    <3>2. CASE mark # 0
      <4> DEFINE v == [thread[t] EXCEPT !.pc = "fetch", !.oldest = mark, !.top = posted]
      <4>1. v \in ThreadRecords /\ v.pc = "fetch"
        BY <1>9, <1>r, <1>t DEF ReadMarks, ThreadRecords, Steps, RestOK, StoresOK
      <4>2. thread' = [thread EXCEPT ![t] = v] BY <1>9, <3>2 DEF ReadMarks
      <4> HIDE DEF v
      <4> QED BY <4>1, <4>2, PutType DEF HoldSteps, Ingesting
    <3> QED BY <3>1, <3>2
  <2>2. RestOK' /\ StoresOK' /\ TailOK'
    BY <1>9, <1>t DEF ReadMarks, RestOK, StoresOK, TailOK, row, rest, stores
  <2> QED BY <2>1, <2>2, TypePartsNext
<1>10. CASE FetchPage(t)
  <2>1. ThreadsOK'
    <3>1. CASE Ends(t) BY <3>1, EndsType
    <3>2. ASSUME NEW b \in PageOf(Unread(t)),
                 thread' = [thread EXCEPT ![t].pc = "next", ![t].todo = PageOf(Unread(t)),
                                          ![t].before = b]
          PROVE  ThreadsOK'
      <4> DEFINE page == PageOf(Unread(t))
                 v == [thread[t] EXCEPT !.pc = "next", !.todo = page, !.before = b]
      <4>1. page \in SUBSET Messages
        BY <1>t, SizesAssumption DEF PageOf, Unread, RestOK, Messages
      <4>2. b \in 1..N+1 BY <4>1, SizesAssumption DEF Messages
      <4> HIDE DEF page
      <4>3. v \in ThreadRecords /\ v.pc = "next"
        BY <1>10, <1>r, <4>1, <4>2 DEF FetchPage, ThreadRecords, Steps
      <4>4. thread' = [thread EXCEPT ![t] = v] BY <3>2 DEF page
      <4> HIDE DEF v
      <4> QED BY <4>3, <4>4, PutType DEF HoldSteps, Ingesting
    <3> QED BY <1>10, <3>1, <3>2 DEF FetchPage
  <2>2. RestOK' /\ StoresOK' /\ TailOK'
    BY <1>10, <1>t DEF FetchPage, RestOK, StoresOK, TailOK, row, rest, stores
  <2> QED BY <2>1, <2>2, TypePartsNext
<1>11. CASE NextMessage(t)
  <2>1. ThreadsOK'
    <3>1. CASE Ends(t) BY <3>1, EndsType
    <3>2. CASE Goes(t, "fetch")
      BY <1>11, <3>2, GoesType DEF NextMessage, Steps, HoldSteps, Ingesting
    <3>3. ASSUME NEW m \in thread[t].todo,
                 thread' = [thread EXCEPT ![t].pc = "land", ![t].msg = m, ![t].todo = @ \ {m}]
          PROVE  ThreadsOK'
      <4> DEFINE v == [thread[t] EXCEPT !.pc = "land", !.msg = m, !.todo = @ \ {m}]
      <4>1. thread[t] \in ThreadRecords BY <1>11, <1>r DEF NextMessage
      <4>2. m \in Messages BY <4>1 DEF ThreadRecords
      <4>a. m \in 0..N BY <4>2, SizesAssumption DEF Messages
      <4>b. thread[t].todo \ {m} \in SUBSET Messages BY <4>1 DEF ThreadRecords
      <4>c. v \in ThreadRecords BY <4>1, <4>a, <4>b DEF ThreadRecords, Steps, Ingesting
      <4>d. v.msg = m BY <4>1 DEF ThreadRecords
      <4>3. v \in ThreadRecords /\ v.msg \in Messages BY <4>2, <4>c, <4>d
      <4>4. thread' = [thread EXCEPT ![t] = v] BY <3>3
      <4> HIDE DEF v
      <4> QED BY <4>3, <4>4, PutType
    <3> QED BY <1>11, <3>1, <3>2, <3>3 DEF NextMessage
  <2>2. RestOK' /\ StoresOK' /\ TailOK'
    BY <1>11, <1>t DEF NextMessage, RestOK, StoresOK, TailOK, row, rest, stores
  <2> QED BY <2>1, <2>2, TypePartsNext
<1>12. CASE FailJob(t)
  <2>1. ThreadsOK' BY <1>12, EndsType DEF FailJob
  <2>2. job' \in [status : Statuses, control : {"none", "cancel"}]
    BY <1>12, <1>t DEF FailJob, RestOK, Statuses
  <2>3. RestOK' BY <1>12, <1>t, <2>2 DEF FailJob, RestOK, rest
  <2>4. StoresOK' /\ TailOK' BY <1>12, <1>t DEF FailJob, StoresOK, TailOK, stores
  <2> QED BY <2>1, <2>3, <2>4, TypePartsNext
<1> QED
  BY <1>1, <1>2, <1>3, <1>4, <1>5, <1>6, <1>7, <1>8, <1>9, <1>10, <1>11, <1>12 DEF Work

\* A failure keeps every variable in its type.
LEMMA FailsType ==
  ASSUME TypeOK, NEW t \in Threads, Fails(t)
  PROVE  TypeOK'
<1>t. TypeOK /\ RestOK /\ StoresOK /\ TailOK BY TypeParts
<1>1. CASE LandFails(t)
  <2>1. thread[t] \in ThreadRecords BY <1>1, ThreadIsRecord DEF LandFails, At
  <2>2. thread[t].msg \in Messages BY <1>1 DEF TypeOK, LandFails, At, Holding, Ingesting
  <2>3. Alive(t) BY <1>1 DEF LandFails, At
  <2>4. thread[t].kind \in {"event", "api", "sync"} BY <2>1 DEF ThreadRecords
  <2>5. Goes(t, "buffer") \/ Ends(t) \/ Goes(t, "fail") BY <1>1, <2>4 DEF LandFails
  <2>6. "buffer" \in Steps /\ "fail" \in Steps /\ "fail" \notin HoldSteps
    BY DEF Steps, HoldSteps, Ingesting
  <2>7. ThreadsOK' BY <2>2, <2>3, <2>5, <2>6, GoesType, EndsType
  <2>8. TailOK' BY <1>1, <1>t, SpendType DEF LandFails, CanFail, TailOK
  <2>9. RestOK' /\ StoresOK' BY <1>1, <1>t DEF LandFails, RestOK, StoresOK, row, rest, stores
  <2> QED BY <2>7, <2>8, <2>9, TypePartsNext
<1>2. CASE MarkFails(t)
  <2>1. ThreadsOK' BY <1>2, IngestedType DEF MarkFails
  <2>2. TailOK' BY <1>2, <1>t, SpendType DEF MarkFails, CanFail, TailOK
  <2>3. RestOK' /\ StoresOK' BY <1>2, <1>t DEF MarkFails, RestOK, StoresOK, row, rest, stores
  <2> QED BY <2>1, <2>2, <2>3, TypePartsNext
<1>3. CASE FetchFails(t)
  <2>1. ThreadsOK' BY <1>3, GoesType DEF FetchFails, At, Steps, HoldSteps, Ingesting
  <2>2. TailOK' BY <1>3, <1>t, SpendType DEF FetchFails, CanFail, TailOK
  <2>3. RestOK' /\ StoresOK' BY <1>3, <1>t DEF FetchFails, RestOK, StoresOK, row, rest, stores
  <2> QED BY <2>1, <2>2, <2>3, TypePartsNext
<1> QED BY <1>1, <1>2, <1>3 DEF Fails

\* A delivery keeps every variable in its type.
LEMMA DeliveryType ==
  ASSUME TypeOK, NEW t \in Threads, NEW m \in Messages, Webhook(t, m) \/ Inject(t, m)
  PROVE  TypeOK'
<1>t. TypeOK /\ RestOK /\ StoresOK /\ TailOK BY TypeParts
<1>m. m \in 0..N BY SizesAssumption DEF Messages
<1>s. "land" \in Steps /\ "buffer" \in Steps BY DEF Steps, Ingesting
<1>1. CASE Webhook(t, m)
  <2>1. PICK s \in {"land", "buffer"} : thread' = [thread EXCEPT ![t] = Fresh("event", s, m)]
    BY <1>1 DEF Webhook
  <2>2. ThreadsOK' BY <2>1, <1>m, <1>s, FreshType
  <2>3. TailOK' BY <1>1, <1>t, SpendType DEF Webhook, Delivers, TailOK
  <2>4. RestOK' /\ StoresOK' BY <1>1, <1>t DEF Webhook, RestOK, StoresOK, row, rest, stores
  <2> QED BY <2>2, <2>3, <2>4, TypePartsNext
<1>2. CASE Inject(t, m)
  <2>1. PICK s \in {"land", "buffer"} : thread' = [thread EXCEPT ![t] = Fresh("api", s, m)]
    BY <1>2 DEF Inject
  <2>2. ThreadsOK' BY <2>1, <1>m, <1>s, FreshType
  <2>3. TailOK' BY <1>2, <1>t, SpendType DEF Inject, Delivers, TailOK
  <2>4. RestOK' /\ StoresOK' BY <1>2, <1>t DEF Inject, RestOK, StoresOK, row, rest, stores
  <2> QED BY <2>2, <2>3, <2>4, TypePartsNext
<1> QED BY <1>1, <1>2

\* A request keeps every variable in its type.
LEMMA RequestType ==
  ASSUME TypeOK, NEW c \in Clients,
         RequestPause(c) \/ RequestResume(c) \/ RequestCancel(c) \/ Respond(c)
  PROVE  TypeOK'
<1>t. ThreadsOK /\ RestOK /\ StoresOK /\ TailOK BY TypeParts
<1>1. ASSUME NEW s \in {"none", "PAUSED", "RUNNING", "CANCELLED"},
             NEW k \in {"none", "cancel"}, Decides(c, s, k)
      PROVE  TypeOK'
  <2>1. RestOK' BY <1>1, <1>t DEF Decides, RestOK
  <2>2. TailOK' BY <1>1, <1>t, SpendType DEF Decides, TailOK
  <2>3. StoresOK' /\ ThreadsOK'
    BY <1>1, <1>t DEF Decides, StoresOK, ThreadsOK, stores, Holding, Alive
  <2> QED BY <2>1, <2>2, <2>3, TypePartsNext
<1>2. CASE Respond(c)
  <2>1. request[c] \in {"PAUSED", "RUNNING", "CANCELLED"} BY <1>2, <1>t DEF Respond, RestOK
  <2>2. job' \in [status : Statuses, control : {"none", "cancel"}]
    BY <1>2, <1>t, <2>1 DEF Respond, RestOK, Statuses
  <2>3. ThreadsOK' /\ overlapped' \in BOOLEAN
    <3>1. CASE request[c] = "RUNNING"
      <4>1. PICK t \in Threads : LaunchSync(t) BY <1>2, <3>1 DEF Respond
      <4> QED BY <4>1, LaunchType
    <3>2. CASE request[c] # "RUNNING"
      BY <1>2, <1>t, <3>2 DEF Respond, RestOK, ThreadsOK, Holding, Alive
    <3> QED BY <3>1, <3>2
  <2>4. RestOK' BY <1>2, <1>t, <2>2, <2>3 DEF Respond, RestOK
  <2>5. StoresOK' /\ TailOK' BY <1>2, <1>t DEF Respond, StoresOK, TailOK, stores
  <2> QED BY <2>3, <2>4, <2>5, TypePartsNext
<1> QED BY <1>1, <1>2 DEF RequestPause, RequestResume, RequestCancel

\* A crash, a restart, a sweep and a post keep every variable in its type.
LEMMA ProcessType ==
  ASSUME TypeOK, Post \/ Crash \/ Restart \/ \E t \in Threads : Recover(t)
  PROVE  TypeOK'
<1>t. ThreadsOK /\ RestOK /\ StoresOK /\ TailOK BY TypeParts
<1>1. CASE Post
  <2>1. posted' \in 0..N BY <1>1, <1>t, SizesAssumption DEF Post, RestOK
  <2>2. RestOK' BY <1>1, <1>t, <2>1 DEF Post, RestOK, row
  <2>3. ThreadsOK' /\ StoresOK' /\ TailOK'
    BY <1>1, <1>t DEF Post, ThreadsOK, StoresOK, TailOK, stores, Holding, Alive
  <2> QED BY <2>2, <2>3, TypePartsNext
<1>2. CASE Crash
  <2>1. ThreadsOK'
    BY <1>2 DEF Crash, ThreadsOK, ThreadStates, Holding, Alive
  <2>2. InHand \subseteq 0..N
    <3>1. ASSUME NEW t \in Threads, Alive(t) PROVE thread[t].msg \in 0..N
      BY <3>1, ThreadIsRecord DEF ThreadRecords
    <3> QED BY <3>1 DEF InHand
  <2>3. RestOK'
    BY <1>2, <1>t, <2>2 DEF Crash, RestOK
  <2>4. TailOK' BY <1>2, <1>t, SpendType DEF Crash, TailOK
  <2>5. StoresOK' BY <1>2, <1>t DEF Crash, StoresOK, stores
  <2> QED BY <2>1, <2>3, <2>4, <2>5, TypePartsNext
<1>3. CASE Restart
  <2>1. RestOK' BY <1>3, <1>t DEF Restart, RestOK, row
  <2>2. ThreadsOK' /\ StoresOK' /\ TailOK'
    BY <1>3, <1>t DEF Restart, ThreadsOK, StoresOK, TailOK, stores, Holding, Alive
  <2> QED BY <2>1, <2>2, TypePartsNext
<1>4. ASSUME NEW t \in Threads, Recover(t) PROVE TypeOK'
  <2>1. job' \in [status : Statuses, control : {"none", "cancel"}]
    BY <1>4, <1>t DEF Recover, RestOK, Statuses
  <2>2. ThreadsOK' /\ overlapped' \in BOOLEAN
    <3>1. CASE LaunchSync(t) BY <3>1, LaunchType
    <3>2. CASE UNCHANGED <<thread, overlapped>>
      BY <1>t, <3>2 DEF RestOK, ThreadsOK, Holding, Alive
    <3> QED BY <1>4, <3>1, <3>2 DEF Recover
  <2>3. RestOK' BY <1>4, <1>t, <2>1, <2>2 DEF Recover, RestOK
  <2>4. StoresOK' /\ TailOK' BY <1>4, <1>t DEF Recover, StoresOK, TailOK, stores
  <2> QED BY <2>2, <2>3, <2>4, TypePartsNext
<1> QED BY <1>1, <1>2, <1>3, <1>4

\* The stream starts in its type.
LEMMA InitType == Init => TypeOK
<1> SUFFICES ASSUME Init PROVE TypeOK OBVIOUS
<1>1. ThreadsOK
  <2>1. PICK t \in Threads :
          thread = [u \in Threads |-> IF u = t THEN Fresh("sync", "begin", 0) ELSE Idle]
    BY DEF Init
  <2>2. Fresh("sync", "begin", 0) \in ThreadStates
    BY SizesAssumption DEF Fresh, ThreadStates, Steps
  <2>3. thread \in [Threads -> ThreadStates] BY <2>1, <2>2 DEF ThreadStates
  <2>4. \A u \in Threads : ~Holding(u)
    BY <2>1 DEF Holding, Alive, Ingesting, Fresh, Idle
  <2> QED BY <2>3, <2>4 DEF ThreadsOK
<1>2. RestOK
  <2>1. job \in [status : Statuses, control : {"none", "cancel"}] BY DEF Init, Statuses
  <2>2. owned \in BOOLEAN /\ up \in BOOLEAN /\ overlapped \in BOOLEAN BY DEF Init
  <2>3. request \in [Clients -> {"none", "PAUSED", "RUNNING", "CANCELLED"}] BY DEF Init
  <2>4. posted \in 0..N /\ lost \in SUBSET (0..N) BY SizesAssumption DEF Init
  <2> QED BY <2>1, <2>2, <2>3, <2>4 DEF RestOK
<1>3. StoresOK BY SizesAssumption DEF Init, StoresOK
<1>4. TailOK BY DEF Init, TailOK
<1> QED BY <1>1, <1>2, <1>3, <1>4, TypeParts

\* Every step keeps every variable in its type.
LEMMA NextType == TypeOK /\ [Next]_vars => TypeOK'
<1> SUFFICES ASSUME TypeOK, [Next]_vars PROVE TypeOK' OBVIOUS
<1>1. CASE UNCHANGED vars BY <1>1 DEF vars, TypeOK, Holding, Alive
<1>2. CASE Next
  BY <1>2, WorkType, FailsType, DeliveryType, RequestType, ProcessType DEF Next
<1> QED BY <1>1, <1>2

\* Every variable of the stream always holds a value of its kind.
THEOREM TypeCorrect == Spec => []TypeOK
<1>1. Init => TypeOK BY InitType
<1>2. TypeOK /\ [Next]_vars => TypeOK' BY NextType
<1> QED BY <1>1, <1>2, PTL DEF Spec

-----------------------------------------------------------------------------
(***************************************************************************)
(* What a step leaves of the threads.                                      *)
(***************************************************************************)

Others(t) == \A u \in Threads : u # t => thread'[u] = thread[u]

\* Everything of thread t but its program counter.
SameHands(t) ==
  /\ thread'[t].kind = thread[t].kind /\ thread'[t].msg = thread[t].msg
  /\ thread'[t].row = thread[t].row   /\ thread'[t].todo = thread[t].todo
  /\ thread'[t].before = thread[t].before /\ thread'[t].top = thread[t].top

\* A thread that goes on is alive, at its new step, with what it had in hand.
LEMMA GoesRecord ==
  ASSUME TypeOK, NEW t \in Threads, Alive(t), NEW s \in Steps, Goes(t, s)
  PROVE  Alive(t)' /\ thread'[t].pc = s /\ SameHands(t) /\ Others(t)
<1>1. thread[t] \in ThreadRecords BY ThreadIsRecord
<1> DEFINE r == [thread[t] EXCEPT !.pc = s]
<1>2. /\ r.pc = s /\ r.msg = thread[t].msg /\ r.kind = thread[t].kind /\ r.row = thread[t].row
      /\ r.todo = thread[t].todo /\ r.before = thread[t].before /\ r.top = thread[t].top
  BY <1>1 DEF ThreadRecords
<1>3. thread' = [thread EXCEPT ![t] = r] BY DEF Goes
<1>4. thread'[t] = r /\ Others(t) BY <1>3 DEF TypeOK, Others
<1>5. r # Idle BY <1>2 DEF Idle, Steps, Ingesting
<1> QED BY <1>2, <1>4, <1>5 DEF Alive, SameHands

\* A thread that ends is not alive.
LEMMA EndsRecord ==
  ASSUME TypeOK, NEW t \in Threads, Ends(t)
  PROVE  ~Alive(t)' /\ Others(t)
BY DEF TypeOK, Ends, Alive, Others

\* A fresh thread is alive, at its first step, with a message and no row.
LEMMA FreshRecord ==
  ASSUME TypeOK, NEW t \in Threads, NEW k, NEW s \in Steps, NEW m,
         thread' = [thread EXCEPT ![t] = Fresh(k, s, m)]
  PROVE  /\ Alive(t)' /\ thread'[t].pc = s /\ thread'[t].kind = k /\ thread'[t].msg = m
         /\ thread'[t].row = 0 /\ thread'[t].todo = {} /\ thread'[t].before = N + 1
         /\ thread'[t].top = 0 /\ Others(t)
<1>1. thread'[t] = Fresh(k, s, m) /\ Others(t) BY DEF TypeOK, Others
<1>2. Fresh(k, s, m) # Idle BY DEF Fresh, Idle, Steps, Ingesting
<1> QED BY <1>1, <1>2 DEF Alive, Fresh

\* A drained row is in the hands of the thread that drains it.
LEMMA DrainRecord ==
  ASSUME TypeOK, NEW t \in Threads, Alive(t), NEW r \in backlog,
         thread' = [thread EXCEPT ![t].pc = "land", ![t].row = r.id, ![t].msg = r.msg]
  PROVE  /\ Alive(t)' /\ thread'[t].pc = "land" /\ thread'[t].kind = thread[t].kind
         /\ thread'[t].msg = r.msg /\ thread'[t].row = r.id /\ thread'[t].todo = thread[t].todo
         /\ thread'[t].before = thread[t].before /\ thread'[t].top = thread[t].top /\ Others(t)
<1>1. thread[t] \in ThreadRecords BY ThreadIsRecord
<1> DEFINE v == [thread[t] EXCEPT !.pc = "land", !.row = r.id, !.msg = r.msg]
<1>2. /\ v.pc = "land" /\ v.msg = r.msg /\ v.kind = thread[t].kind /\ v.row = r.id
      /\ v.todo = thread[t].todo /\ v.before = thread[t].before /\ v.top = thread[t].top
  BY <1>1 DEF ThreadRecords
<1>3. thread' = [thread EXCEPT ![t] = v] OBVIOUS
<1> HIDE DEF v
<1>4. thread'[t] = v /\ Others(t) BY <1>3 DEF TypeOK, Others
<1>5. v # Idle BY <1>2 DEF Idle
<1> QED BY <1>2, <1>4, <1>5 DEF Alive

\* A row that was deleted is out of the hands of its thread.
LEMMA DeleteRecord ==
  ASSUME TypeOK, NEW t \in Threads, Alive(t),
         thread' = [thread EXCEPT ![t].pc = "drain", ![t].row = 0]
  PROVE  /\ Alive(t)' /\ thread'[t].pc = "drain" /\ thread'[t].kind = thread[t].kind
         /\ thread'[t].msg = thread[t].msg /\ thread'[t].row = 0
         /\ thread'[t].todo = thread[t].todo
         /\ thread'[t].before = thread[t].before /\ thread'[t].top = thread[t].top /\ Others(t)
<1>1. thread[t] \in ThreadRecords BY ThreadIsRecord
<1> DEFINE v == [thread[t] EXCEPT !.pc = "drain", !.row = 0]
<1>2. /\ v.pc = "drain" /\ v.msg = thread[t].msg /\ v.kind = thread[t].kind /\ v.row = 0
      /\ v.todo = thread[t].todo /\ v.before = thread[t].before /\ v.top = thread[t].top
  BY <1>1 DEF ThreadRecords
<1>3. thread' = [thread EXCEPT ![t] = v] OBVIOUS
<1> HIDE DEF v
<1>4. thread'[t] = v /\ Others(t) BY <1>3 DEF TypeOK, Others
<1>5. v # Idle BY <1>2 DEF Idle
<1> QED BY <1>2, <1>4, <1>5 DEF Alive

\* Catch-up starts from the mark, below what is posted.
LEMMA MarksRecord ==
  ASSUME TypeOK, NEW t \in Threads, Alive(t),
         thread' = [thread EXCEPT ![t].pc = "fetch", ![t].oldest = mark, ![t].top = posted]
  PROVE  /\ Alive(t)' /\ thread'[t].pc = "fetch" /\ thread'[t].kind = thread[t].kind
         /\ thread'[t].msg = thread[t].msg /\ thread'[t].row = thread[t].row
         /\ thread'[t].todo = thread[t].todo
         /\ thread'[t].before = thread[t].before /\ thread'[t].top = posted /\ Others(t)
<1>1. thread[t] \in ThreadRecords BY ThreadIsRecord
<1> DEFINE v == [thread[t] EXCEPT !.pc = "fetch", !.oldest = mark, !.top = posted]
<1>2. /\ v.pc = "fetch" /\ v.msg = thread[t].msg /\ v.kind = thread[t].kind
      /\ v.row = thread[t].row /\ v.todo = thread[t].todo
      /\ v.before = thread[t].before /\ v.top = posted
  BY <1>1 DEF ThreadRecords
<1>3. thread' = [thread EXCEPT ![t] = v] OBVIOUS
<1> HIDE DEF v
<1>4. thread'[t] = v /\ Others(t) BY <1>3 DEF TypeOK, Others
<1>5. v # Idle BY <1>2 DEF Idle
<1> QED BY <1>2, <1>4, <1>5 DEF Alive

\* A page of the history is in the hands of the thread that fetched it.
LEMMA FetchRecord ==
  ASSUME TypeOK, NEW t \in Threads, Alive(t), NEW page, NEW b,
         thread' = [thread EXCEPT ![t].pc = "next", ![t].todo = page, ![t].before = b]
  PROVE  /\ Alive(t)' /\ thread'[t].pc = "next" /\ thread'[t].kind = thread[t].kind
         /\ thread'[t].msg = thread[t].msg /\ thread'[t].row = thread[t].row
         /\ thread'[t].todo = page /\ thread'[t].before = b
         /\ thread'[t].top = thread[t].top /\ Others(t)
<1>1. thread[t] \in ThreadRecords BY ThreadIsRecord
<1> DEFINE v == [thread[t] EXCEPT !.pc = "next", !.todo = page, !.before = b]
<1>2. /\ v.pc = "next" /\ v.msg = thread[t].msg /\ v.kind = thread[t].kind
      /\ v.row = thread[t].row /\ v.todo = page
      /\ v.before = b /\ v.top = thread[t].top
  BY <1>1 DEF ThreadRecords
<1>3. thread' = [thread EXCEPT ![t] = v] OBVIOUS
<1> HIDE DEF v
<1>4. thread'[t] = v /\ Others(t) BY <1>3 DEF TypeOK, Others
<1>5. v # Idle BY <1>2 DEF Idle
<1> QED BY <1>2, <1>4, <1>5 DEF Alive

\* A message of the page is in the hands of the thread that ingests it.
LEMMA TakeRecord ==
  ASSUME TypeOK, NEW t \in Threads, Alive(t), NEW m,
         thread' = [thread EXCEPT ![t].pc = "land", ![t].msg = m, ![t].todo = @ \ {m}]
  PROVE  /\ Alive(t)' /\ thread'[t].pc = "land" /\ thread'[t].kind = thread[t].kind
         /\ thread'[t].msg = m /\ thread'[t].row = thread[t].row
         /\ thread'[t].todo = thread[t].todo \ {m} /\ thread'[t].before = thread[t].before
         /\ thread'[t].top = thread[t].top /\ Others(t)
<1>1. thread[t] \in ThreadRecords BY ThreadIsRecord
<1> DEFINE v == [thread[t] EXCEPT !.pc = "land", !.msg = m, !.todo = @ \ {m}]
<1>2. /\ v.pc = "land" /\ v.msg = m /\ v.kind = thread[t].kind
      /\ v.row = thread[t].row /\ v.todo = thread[t].todo \ {m}
      /\ v.before = thread[t].before /\ v.top = thread[t].top
  BY <1>1 DEF ThreadRecords
<1>3. thread' = [thread EXCEPT ![t] = v] OBVIOUS
<1> HIDE DEF v
<1>4. thread'[t] = v /\ Others(t) BY <1>3 DEF TypeOK, Others
<1>5. v # Idle BY <1>2 DEF Idle
<1> QED BY <1>2, <1>4, <1>5 DEF Alive

-----------------------------------------------------------------------------
(***************************************************************************)
(* Counted messages are loaded, and counted once.                          *)
(***************************************************************************)

\* Thread u claims nothing of its message that was not true before the step.
Quiet(u) ==
  \/ thread'[u] = thread[u]
  \/ ~Alive(u)'
  \/ thread'[u].pc \notin {"count", "mark", "delete"}
  \/ Alive(u) /\ thread[u].pc = "mark" /\ thread'[u].pc = "delete"
                /\ thread'[u].msg = thread[u].msg

\* A step that leaves the stores alone, and whose threads claim nothing new,
\* keeps the invariant.
LEMMA LoadFrame ==
  ASSUME LoadInv, UNCHANGED stores, \A u \in Threads : Quiet(u)
  PROVE  LoadInv'
<1>1. CountedIsLoaded' BY DEF LoadInv, CountedIsLoaded, stores
<1>2. (\A m \in Messages : counted[m] = IF m \in seen THEN 1 ELSE 0)' BY DEF LoadInv, stores
<1>3. ASSUME NEW u \in Threads, Alive(u)'
      PROVE  /\ thread'[u].pc = "count" => thread'[u].msg \in table'
             /\ thread'[u].pc \in {"mark", "delete"} => thread'[u].msg \in seen'
  BY <1>3 DEF LoadInv, Quiet, Alive, stores
<1> QED BY <1>1, <1>2, <1>3 DEF LoadInv

\* A thread that goes to a step that claims nothing is quiet, and so are a
\* thread that ends, a fresh one and all the others.
LEMMA QuietMoves ==
  ASSUME TypeOK, NEW t \in Threads, Others(t),
         ~Alive(t)' \/ thread'[t].pc \notin {"count", "mark", "delete"}
  PROVE  \A u \in Threads : Quiet(u)
BY DEF Others, Quiet

\* The end of an ingestion claims nothing new.
LEMMA QuietIngested ==
  ASSUME TypeOK, NEW t \in Threads, At(t, "mark"), Ingested(t)
  PROVE  \A u \in Threads : Quiet(u)
<1>1. CASE ~Sync(t) BY <1>1, EndsRecord, QuietMoves DEF Ingested
<1>2. CASE Sync(t)
  <2>1. CASE Goes(t, "delete")
    <3>1. "delete" \in Steps BY DEF Steps
    <3>2. thread'[t].pc = "delete" /\ thread'[t].msg = thread[t].msg /\ Others(t)
      BY <2>1, <3>1, GoesRecord DEF At, SameHands
    <3> QED BY <3>2 DEF Quiet, Others, At
  <2>2. CASE Goes(t, "next")
    <3>1. "next" \in Steps BY DEF Steps
    <3> QED BY <2>2, <3>1, GoesRecord, QuietMoves DEF At
  <2> QED BY <1>2, <2>1, <2>2 DEF Ingested
<1> QED BY <1>1, <1>2

\* Every step keeps what is counted loaded, and counted once.
LEMMA LoadWork ==
  ASSUME TypeOK, LoadInv, NEW t \in Threads, Work(t)
  PROVE  LoadInv'
<1> USE DEF At
<1>1. CASE BufferEvent(t)
  BY <1>1, EndsRecord, QuietMoves, LoadFrame DEF BufferEvent
<1>2. CASE Land(t)
  <2>1. "count" \in Steps BY DEF Steps, Ingesting
  <2>2. thread'[t].pc = "count" /\ thread'[t].msg = thread[t].msg /\ Others(t)
    BY <1>2, <2>1, GoesRecord DEF Land, SameHands
  <2>3. CountedIsLoaded' BY <1>2 DEF Land, LoadInv, CountedIsLoaded
  <2>4. (\A m \in Messages : counted[m] = IF m \in seen THEN 1 ELSE 0)' BY <1>2 DEF Land, LoadInv
  <2>5. ASSUME NEW u \in Threads, Alive(u)'
        PROVE  /\ thread'[u].pc = "count" => thread'[u].msg \in table'
               /\ thread'[u].pc \in {"mark", "delete"} => thread'[u].msg \in seen'
    <3>1. CASE u = t BY <1>2, <2>2, <3>1 DEF Land
    <3>2. CASE u # t BY <1>2, <2>2, <2>5, <3>2 DEF Land, LoadInv, Others, Alive
    <3> QED BY <3>1, <3>2
  <2> QED BY <2>3, <2>4, <2>5 DEF LoadInv
<1>3. CASE Count(t)
  <2> DEFINE m == thread[t].msg
  <2>1. "mark" \in Steps BY DEF Steps, Ingesting
  <2>2. thread'[t].pc = "mark" /\ thread'[t].msg = m /\ Others(t)
    BY <1>3, <2>1, GoesRecord DEF Count, SameHands
  <2>3. m \in Messages BY <1>3 DEF Count, TypeOK, Holding, Ingesting
  <2>4. m \in table BY <1>3 DEF Count, LoadInv
  <2>5. seen' = seen \cup {m} BY <1>3 DEF Count
  <2>6. CountedIsLoaded' BY <1>3, <2>4, <2>5 DEF Count, LoadInv, CountedIsLoaded
  <2>7. (\A k \in Messages : counted[k] = IF k \in seen THEN 1 ELSE 0)'
    <3>1. CASE m \in seen BY <1>3, <3>1 DEF Count, LoadInv
    <3>2. CASE m \notin seen
      <4>1. counted \in [Messages -> Nat] BY DEF TypeOK
      <4>2. counted' = [counted EXCEPT ![m] = @ + 1] BY <1>3, <3>2 DEF Count
      <4>3. counted[m] = 0 BY <2>3, <3>2 DEF LoadInv
      <4> QED BY <2>3, <2>5, <4>1, <4>2, <4>3 DEF LoadInv
    <3> QED BY <3>1, <3>2
  <2>8. ASSUME NEW u \in Threads, Alive(u)'
        PROVE  /\ thread'[u].pc = "count" => thread'[u].msg \in table'
               /\ thread'[u].pc \in {"mark", "delete"} => thread'[u].msg \in seen'
    <3>1. CASE u = t BY <2>2, <2>5, <3>1
    <3>2. CASE u # t BY <1>3, <2>2, <2>5, <2>8, <3>2 DEF Count, LoadInv, Others, Alive
    <3> QED BY <3>1, <3>2
  <2> QED BY <2>6, <2>7, <2>8 DEF LoadInv
<1>4. CASE AdvanceMark(t)
  <2>1. thread[t].msg \in seen BY <1>4 DEF AdvanceMark, LoadInv
  <2>2. mark' = thread[t].msg \/ mark' = mark BY <1>4 DEF AdvanceMark
  <2>3. CountedIsLoaded' BY <1>4, <2>1, <2>2 DEF AdvanceMark, LoadInv, CountedIsLoaded
  <2>4. (\A m \in Messages : counted[m] = IF m \in seen THEN 1 ELSE 0)'
    BY <1>4 DEF AdvanceMark, LoadInv
  <2>5. \A u \in Threads : Quiet(u) BY <1>4, QuietIngested DEF AdvanceMark
  <2>6. ASSUME NEW u \in Threads, Alive(u)'
        PROVE  /\ thread'[u].pc = "count" => thread'[u].msg \in table'
               /\ thread'[u].pc \in {"mark", "delete"} => thread'[u].msg \in seen'
    BY <1>4, <2>5, <2>6 DEF AdvanceMark, LoadInv, Quiet, Alive
  <2> QED BY <2>3, <2>4, <2>6 DEF LoadInv
<1>5. CASE Begin(t)
  <2>1. "claim" \in Steps BY DEF Steps
  <2> QED BY <1>5, <2>1, GoesRecord, QuietMoves, LoadFrame DEF Begin
<1>6. CASE Claim(t)
  <2>1. "drain" \in Steps BY DEF Steps
  <2> QED BY <1>6, <2>1, GoesRecord, QuietMoves, LoadFrame DEF Claim
<1>7. CASE DrainNext(t)
  <2>1. "marks" \in Steps BY DEF Steps
  <2>2. Others(t) /\ thread'[t].pc \in {"marks", "land"}
    BY <1>7, <2>1, GoesRecord, DrainRecord DEF DrainNext
  <2> QED BY <1>7, <2>2, QuietMoves, LoadFrame DEF DrainNext
<1>8. CASE DeleteRow(t)
  BY <1>8, DeleteRecord, QuietMoves, LoadFrame DEF DeleteRow
<1>9. CASE ReadMarks(t)
  BY <1>9, EndsRecord, MarksRecord, QuietMoves, LoadFrame DEF ReadMarks
<1>10. CASE FetchPage(t)
  <2>1. CASE Ends(t) BY <1>10, <2>1, EndsRecord, QuietMoves, LoadFrame DEF FetchPage
  <2>2. ASSUME NEW b, thread' = [thread EXCEPT ![t].pc = "next", ![t].todo = PageOf(Unread(t)),
                                               ![t].before = b]
        PROVE  LoadInv'
    BY <1>10, <2>2, FetchRecord, QuietMoves, LoadFrame DEF FetchPage
  <2> QED BY <1>10, <2>1, <2>2 DEF FetchPage
<1>11. CASE NextMessage(t)
  <2>1. "fetch" \in Steps BY DEF Steps
  <2>2. CASE Ends(t) BY <1>11, <2>2, EndsRecord, QuietMoves, LoadFrame DEF NextMessage
  <2>3. CASE Goes(t, "fetch")
    BY <1>11, <2>1, <2>3, GoesRecord, QuietMoves, LoadFrame DEF NextMessage
  <2>4. ASSUME NEW m, thread' = [thread EXCEPT ![t].pc = "land", ![t].msg = m, ![t].todo = @ \ {m}]
        PROVE  LoadInv'
    BY <1>11, <2>4, TakeRecord, QuietMoves, LoadFrame DEF NextMessage
  <2> QED BY <1>11, <2>2, <2>3, <2>4 DEF NextMessage
<1>12. CASE FailJob(t)
  BY <1>12, EndsRecord, QuietMoves, LoadFrame DEF FailJob
<1> QED
  BY <1>1, <1>2, <1>3, <1>4, <1>5, <1>6, <1>7, <1>8, <1>9, <1>10, <1>11, <1>12 DEF Work

\* Failures, deliveries, requests and crashes claim nothing.
LEMMA LoadRest ==
  ASSUME TypeOK, LoadInv,
         \/ Post \/ Crash \/ Restart
         \/ \E t \in Threads : Fails(t) \/ Recover(t)
         \/ \E t \in Threads, m \in Messages : Webhook(t, m) \/ Inject(t, m)
         \/ \E c \in Clients : RequestPause(c) \/ RequestResume(c) \/ RequestCancel(c) \/ Respond(c)
  PROVE  LoadInv'
<1> USE DEF At
<1>s. {"buffer", "fail", "land", "begin"} \subseteq Steps BY DEF Steps, Ingesting
<1>1. CASE Post BY <1>1, LoadFrame DEF Post, Quiet
<1>2. CASE Crash
  <2>1. \A u \in Threads : ~Alive(u)' BY <1>2 DEF Crash, Alive
  <2> QED BY <1>2, <2>1, LoadFrame DEF Crash, Quiet
<1>3. CASE Restart BY <1>3, LoadFrame DEF Restart, Quiet
<1>4. ASSUME NEW t \in Threads, Fails(t) PROVE LoadInv'
  <2>1. CASE LandFails(t)
    <3>1. thread[t].kind \in {"event", "api", "sync"}
      BY <2>1, ThreadIsRecord DEF LandFails, ThreadRecords
    <3>2. Goes(t, "buffer") \/ Ends(t) \/ Goes(t, "fail") BY <2>1, <3>1 DEF LandFails
    <3>3. \A u \in Threads : Quiet(u)
      BY <1>s, <2>1, <3>2, GoesRecord, EndsRecord, QuietMoves DEF LandFails
    <3> QED BY <2>1, <3>3, LoadFrame DEF LandFails
  <2>2. CASE MarkFails(t) BY <2>2, QuietIngested, LoadFrame DEF MarkFails
  <2>3. CASE FetchFails(t)
    BY <1>s, <2>3, GoesRecord, QuietMoves, LoadFrame DEF FetchFails
  <2> QED BY <1>4, <2>1, <2>2, <2>3 DEF Fails
<1>5. ASSUME NEW t \in Threads, LaunchSync(t), UNCHANGED stores PROVE LoadInv'
  <2>1. "begin" \in Steps /\ thread' = [thread EXCEPT ![t] = Fresh("sync", "begin", 0)]
    BY <1>s, <1>5 DEF LaunchSync
  <2>2. thread'[t].pc = "begin" /\ Others(t) BY <2>1, FreshRecord
  <2> QED BY <1>5, <2>2, QuietMoves, LoadFrame
<1>6. ASSUME NEW t \in Threads, Recover(t) PROVE LoadInv'
  <2>1. CASE UNCHANGED thread BY <1>6, <2>1, LoadFrame DEF Recover, Quiet
  <2>2. CASE LaunchSync(t) BY <1>5, <1>6, <2>2 DEF Recover
  <2> QED BY <1>6, <2>1, <2>2 DEF Recover
<1>7. ASSUME NEW t \in Threads, NEW m \in Messages, Webhook(t, m) \/ Inject(t, m) PROVE LoadInv'
  <2>1. PICK k \in {"event", "api"}, s \in {"land", "buffer"} :
          thread' = [thread EXCEPT ![t] = Fresh(k, s, m)]
    BY <1>7 DEF Webhook, Inject
  <2>2. thread'[t].pc = s /\ Others(t) BY <1>s, <2>1, FreshRecord
  <2> QED BY <1>7, <2>2, QuietMoves, LoadFrame DEF Webhook, Inject
<1>8. ASSUME NEW c \in Clients,
             RequestPause(c) \/ RequestResume(c) \/ RequestCancel(c) \/ Respond(c)
      PROVE  LoadInv'
  <2>1. CASE UNCHANGED <<thread, stores>> BY <2>1, LoadFrame DEF Quiet
  <2>2. CASE Respond(c)
    BY <1>5, <2>1, <2>2 DEF Respond
  <2> QED BY <1>8, <2>1, <2>2 DEF RequestPause, RequestResume, RequestCancel, Decides
<1> QED BY <1>1, <1>2, <1>3, <1>4, <1>6, <1>7, <1>8

\* What is counted is loaded and counted once: it holds at the start.
LEMMA LoadInit == Init => LoadInv
BY DEF Init, LoadInv, CountedIsLoaded, Alive, Fresh, Idle

\* Every step keeps it.
LEMMA LoadNext == TypeOK /\ LoadInv /\ [Next]_vars => LoadInv'
<1> SUFFICES ASSUME TypeOK, LoadInv, [Next]_vars PROVE LoadInv' OBVIOUS
<1>1. CASE UNCHANGED vars BY <1>1, LoadFrame DEF vars, stores, Quiet
<1>2. CASE Next BY <1>2, LoadWork, LoadRest DEF Next
<1> QED BY <1>1, <1>2

\* A message that is counted, and one the mark tells catch-up to skip, is in
\* ClickHouse, whatever fails or crashes and however many threads ingest it.
THEOREM CountedLoaded == Spec => []CountedIsLoaded
<1>1. Init => TypeOK /\ LoadInv BY InitType, LoadInit
<1>2. TypeOK /\ LoadInv /\ [Next]_vars => TypeOK' /\ LoadInv' BY NextType, LoadNext
<1>3. LoadInv => CountedIsLoaded BY DEF LoadInv
<1> QED BY <1>1, <1>2, <1>3, PTL DEF Spec

\* Counting is the only step that changes row_count, and it adds one for a
\* message that had none.
LEMMA StepCountsOnce ==
  ASSUME TypeOK, LoadInv, [Next]_vars
  PROVE  [Once!Next]_counted
<1>1. ASSUME NEW t \in Threads, Count(t) PROVE [Once!Next]_counted
  <2> DEFINE m == thread[t].msg
  <2>1. CASE m \in seen BY <1>1, <2>1 DEF Count
  <2>2. CASE m \notin seen
    <3>1. m \in Messages BY <1>1 DEF Count, TypeOK, Holding, At, Ingesting
    <3>2. counted[m] = 0 BY <2>2, <3>1 DEF LoadInv
    <3>3. counted' = [counted EXCEPT ![m] = @ + 1] BY <1>1, <2>2 DEF Count
    <3>4. counted' = [counted EXCEPT ![m] = 1] BY <3>2, <3>3
    <3>5. Once!TakeEffect(m) BY <3>2, <3>4 DEF Once!TakeEffect
    <3> QED BY <3>1, <3>5 DEF Once!Next
  <2> QED BY <2>1, <2>2
<1>2. ASSUME NEW t \in Threads, Work(t) PROVE [Once!Next]_counted
  BY <1>1, <1>2 DEF Work, BufferEvent, Land, AdvanceMark, Begin, Claim, DrainNext, DeleteRow,
                    ReadMarks, FetchPage, NextMessage, FailJob, stores
<1>3. ASSUME NEW t \in Threads, Fails(t) \/ Recover(t) PROVE UNCHANGED counted
  BY <1>3 DEF Fails, LandFails, MarkFails, FetchFails, Recover, stores
<1>4. ASSUME NEW t \in Threads, NEW m \in Messages, Webhook(t, m) \/ Inject(t, m)
      PROVE  UNCHANGED counted
  BY <1>4 DEF Webhook, Inject, stores
<1>5. ASSUME NEW c \in Clients,
             RequestPause(c) \/ RequestResume(c) \/ RequestCancel(c) \/ Respond(c)
      PROVE  UNCHANGED counted
  BY <1>5 DEF RequestPause, RequestResume, RequestCancel, Respond, Decides, stores
<1>6. CASE Post \/ Crash \/ Restart BY <1>6 DEF Post, Crash, Restart, stores
<1>7. CASE UNCHANGED vars BY <1>7 DEF vars
<1> QED BY <1>2, <1>3, <1>4, <1>5, <1>6, <1>7 DEF Next

\* "Counted exactly once": however often a message is delivered, drained and
\* caught up on, by however many threads, the stream implements OnceOnly.
THEOREM CountedAtMostOnce == Spec => CountedOnce
<1>1. Init => TypeOK /\ LoadInv /\ Once!Init BY InitType, LoadInit DEF Init, Once!Init
<1>2. TypeOK /\ LoadInv /\ [Next]_vars => TypeOK' /\ LoadInv' BY NextType, LoadNext
<1>3. TypeOK /\ LoadInv /\ [Next]_vars => [Once!Next]_counted BY StepCountsOnce
<1> QED BY <1>1, <1>2, <1>3, PTL DEF Spec, CountedOnce, Once!Spec

-----------------------------------------------------------------------------
(***************************************************************************)
(* Only sync threads drain and catch up.                                   *)
(***************************************************************************)

\* What SyncInv says of one thread.
SyncThread(t) ==
  Alive(t) =>
    /\ thread[t].pc \in {"begin", "claim", "drain", "marks", "fetch", "next"} =>
         thread[t].kind = "sync" /\ thread[t].row = 0
    /\ thread[t].pc = "delete" => thread[t].kind = "sync" /\ thread[t].row # 0
    /\ thread[t].pc = "fail" => thread[t].kind = "sync"

\* A step of thread t that keeps it of t keeps it of all.
LEMMA SyncFrame ==
  ASSUME SyncInv, NEW t \in Threads, Others(t), SyncThread(t)'
  PROVE  SyncInv'
BY DEF SyncInv, SyncThread, Others, Alive

\* The end of an ingestion leads a sync thread to the row it has, if it has one.
LEMMA SyncIngested ==
  ASSUME TypeOK, SyncInv, NEW t \in Threads, At(t, "mark"), Ingested(t)
  PROVE  SyncInv'
<1>s. "delete" \in Steps /\ "next" \in Steps BY DEF Steps
<1>1. CASE ~Sync(t) BY <1>1, EndsRecord, SyncFrame DEF Ingested, SyncThread
<1>2. CASE Sync(t) /\ thread[t].row # 0
  BY <1>s, <1>2, GoesRecord, SyncFrame DEF Ingested, SyncThread, SameHands, Sync
<1>3. CASE Sync(t) /\ ~(thread[t].row # 0)
  BY <1>s, <1>3, GoesRecord, SyncFrame DEF Ingested, SyncThread, SameHands, Sync
<1> QED BY <1>1, <1>2, <1>3

\* Every step keeps draining and catching up to sync threads.
LEMMA SyncNext == TypeOK /\ SyncInv /\ [Next]_vars => SyncInv'
<1> SUFFICES ASSUME TypeOK, SyncInv, [Next]_vars PROVE SyncInv' OBVIOUS
<1> USE DEF At
<1>s. Steps = {"land", "count", "mark", "buffer", "begin", "claim", "drain", "delete",
               "marks", "fetch", "next", "fail"}
  BY DEF Steps, Ingesting
<1>u. ASSUME UNCHANGED thread PROVE SyncInv' BY <1>u DEF SyncInv, Alive
<1>l. ASSUME NEW t \in Threads, LaunchSync(t) PROVE SyncInv'
  <2>1. "begin" \in Steps /\ thread' = [thread EXCEPT ![t] = Fresh("sync", "begin", 0)]
    BY <1>s, <1>l DEF LaunchSync
  <2>2. thread'[t].kind = "sync" /\ thread'[t].row = 0 /\ thread'[t].pc = "begin" /\ Others(t)
    BY <2>1, FreshRecord
  <2> QED BY <2>2, SyncFrame DEF SyncThread
<1>1. ASSUME NEW t \in Threads, Work(t) PROVE SyncInv'
  <2>1. CASE BufferEvent(t) BY <2>1, EndsRecord, SyncFrame DEF BufferEvent, SyncThread
  <2>2. CASE Land(t) BY <1>s, <2>2, GoesRecord, SyncFrame DEF Land, SyncThread
  <2>3. CASE Count(t) BY <1>s, <2>3, GoesRecord, SyncFrame DEF Count, SyncThread
  <2>4. CASE AdvanceMark(t) BY <2>4, SyncIngested DEF AdvanceMark
  <2>5. CASE Begin(t)
    BY <1>s, <2>5, GoesRecord, SyncFrame DEF Begin, SyncThread, SameHands, SyncInv
  <2>6. CASE Claim(t)
    BY <1>s, <2>6, GoesRecord, SyncFrame DEF Claim, SyncThread, SameHands, SyncInv
  <2>7. CASE DrainNext(t)
    <3>1. CASE Goes(t, "marks")
      BY <1>s, <2>7, <3>1, GoesRecord, SyncFrame DEF DrainNext, SyncThread, SameHands, SyncInv
    <3>2. ASSUME NEW r \in backlog,
                 thread' = [thread EXCEPT ![t].pc = "land", ![t].row = r.id, ![t].msg = r.msg]
          PROVE  SyncInv'
      BY <2>7, <3>2, DrainRecord, SyncFrame DEF DrainNext, SyncThread
    <3> QED BY <2>7, <3>1, <3>2 DEF DrainNext
  <2>8. CASE DeleteRow(t)
    BY <2>8, DeleteRecord, SyncFrame DEF DeleteRow, SyncThread, SyncInv
  <2>9. CASE ReadMarks(t)
    BY <2>9, EndsRecord, MarksRecord, SyncFrame DEF ReadMarks, SyncThread, SyncInv
  <2>10. CASE FetchPage(t)
    <3>1. CASE Ends(t) BY <3>1, EndsRecord, SyncFrame DEF SyncThread
    <3>2. ASSUME NEW b, thread' = [thread EXCEPT ![t].pc = "next", ![t].todo = PageOf(Unread(t)),
                                                 ![t].before = b]
          PROVE  SyncInv'
      <4>1. Alive(t) /\ thread[t].pc = "fetch" BY <2>10 DEF FetchPage
      <4>2. /\ thread'[t].pc = "next" /\ thread'[t].kind = thread[t].kind
            /\ thread'[t].row = thread[t].row /\ Others(t)
        BY <3>2, <4>1, FetchRecord
      <4> QED BY <4>1, <4>2, SyncFrame DEF SyncThread, SyncInv
    <3> QED BY <2>10, <3>1, <3>2 DEF FetchPage
  <2>11. CASE NextMessage(t)
    <3>1. CASE Ends(t) BY <3>1, EndsRecord, SyncFrame DEF SyncThread
    <3>2. CASE Goes(t, "fetch")
      BY <1>s, <2>11, <3>2, GoesRecord, SyncFrame DEF NextMessage, SyncThread, SameHands, SyncInv
    <3>3. ASSUME NEW m, thread' = [thread EXCEPT ![t].pc = "land", ![t].msg = m, ![t].todo = @ \ {m}]
          PROVE  SyncInv'
      BY <2>11, <3>3, TakeRecord, SyncFrame DEF NextMessage, SyncThread
    <3> QED BY <2>11, <3>1, <3>2, <3>3 DEF NextMessage
  <2>12. CASE FailJob(t) BY <2>12, EndsRecord, SyncFrame DEF FailJob, SyncThread
  <2> QED
    BY <1>1, <2>1, <2>2, <2>3, <2>4, <2>5, <2>6, <2>7, <2>8, <2>9, <2>10, <2>11, <2>12 DEF Work
<1>2. ASSUME NEW t \in Threads, Fails(t) PROVE SyncInv'
  <2>1. CASE LandFails(t)
    <3>1. thread[t].kind \in {"event", "api", "sync"}
      BY <2>1, ThreadIsRecord DEF LandFails, ThreadRecords
    <3>2. CASE Goes(t, "buffer")
      BY <1>s, <2>1, <3>2, GoesRecord, SyncFrame DEF LandFails, SyncThread
    <3>3. CASE Ends(t) BY <3>3, EndsRecord, SyncFrame DEF SyncThread
    <3>4. CASE Goes(t, "fail") /\ thread[t].kind = "sync"
      BY <1>s, <2>1, <3>4, GoesRecord, SyncFrame DEF LandFails, SyncThread, SameHands
    <3> QED BY <2>1, <3>1, <3>2, <3>3, <3>4 DEF LandFails
  <2>2. CASE MarkFails(t) BY <2>2, SyncIngested DEF MarkFails
  <2>3. CASE FetchFails(t)
    BY <1>s, <2>3, GoesRecord, SyncFrame DEF FetchFails, SyncThread, SameHands, SyncInv
  <2> QED BY <1>2, <2>1, <2>2, <2>3 DEF Fails
<1>3. ASSUME NEW t \in Threads, Recover(t) PROVE SyncInv'
  BY <1>u, <1>l, <1>3 DEF Recover
<1>4. ASSUME NEW t \in Threads, NEW m \in Messages, Webhook(t, m) \/ Inject(t, m) PROVE SyncInv'
  <2>1. PICK k \in {"event", "api"}, s \in {"land", "buffer"} :
          thread' = [thread EXCEPT ![t] = Fresh(k, s, m)]
    BY <1>4 DEF Webhook, Inject
  <2>2. thread'[t].pc = s /\ Others(t) BY <1>s, <2>1, FreshRecord
  <2> QED BY <2>2, SyncFrame DEF SyncThread
<1>5. ASSUME NEW c \in Clients,
             RequestPause(c) \/ RequestResume(c) \/ RequestCancel(c) \/ Respond(c)
      PROVE  SyncInv'
  BY <1>5, <1>u, <1>l DEF RequestPause, RequestResume, RequestCancel, Respond, Decides
<1>6. CASE Post \/ Restart BY <1>6, <1>u DEF Post, Restart
<1>7. CASE Crash BY <1>7 DEF Crash, SyncInv, Alive
<1>8. CASE UNCHANGED vars BY <1>8, <1>u DEF vars
<1> QED BY <1>1, <1>2, <1>3, <1>4, <1>5, <1>6, <1>7, <1>8 DEF Next

\* The first sync thread has nothing in hand.
LEMMA SyncInit == Init => SyncInv
BY DEF Init, SyncInv, Alive, Fresh, Idle

-----------------------------------------------------------------------------
(***************************************************************************)
(* An acknowledged message is kept.                                        *)
(***************************************************************************)

Kept(m) == m \in seen \/ Buffered(m) \/ Carried(m)
OneSync == \A t, u \in Threads : Sync(t) /\ Sync(u) => t = u
OneRow  == \A q, r \in backlog : q.id = r.id => q = r
RowInHand(t) ==
  (Sync(t) /\ thread[t].row # 0) => [id |-> thread[t].row, msg |-> thread[t].msg] \in backlog

\* What thread t carried before the step, if it carries it no more, is ingested
\* or parked.
HandsOver(t) ==
  (Alive(t) /\ thread[t].kind = "event") =>
    \/ Alive(t)' /\ thread'[t].kind = "event" /\ thread'[t].msg = thread[t].msg
    \/ thread[t].msg \in seen'
    \/ \E r \in backlog' : r.msg = thread[t].msg

\* KeepInv in its parts.
LEMMA KeepParts ==
  KeepInv <=> (~overlapped => /\ \A m \in acked \ lost : Kept(m)
                              /\ OneSync /\ OneRow
                              /\ \A t \in Threads : RowInHand(t))
BY DEF KeepInv, Kept, OneSync, OneRow, RowInHand

\* And after a step.
LEMMA KeepPartsNext ==
  KeepInv' <=> (~overlapped' => /\ \A m \in acked' \ lost' : Kept(m)'
                                /\ OneSync' /\ OneRow'
                                /\ \A t \in Threads : RowInHand(t)')
BY DEF KeepInv, Kept, OneSync, OneRow, RowInHand

\* A message that is kept stays kept when the stores and the backlog grow and
\* the one thread that moves hands its message over.
LEMMA KeptGrows ==
  ASSUME NEW t \in Threads, Others(t), HandsOver(t), seen \subseteq seen',
         backlog \subseteq backlog', NEW m, Kept(m)
  PROVE  Kept(m)'
<1>1. CASE m \in seen BY <1>1 DEF Kept
<1>2. CASE Buffered(m) BY <1>2 DEF Kept, Buffered
<1>3. CASE Carried(m)
  <2>1. PICK u \in Threads : Alive(u) /\ thread[u].kind = "event" /\ thread[u].msg = m
    BY <1>3 DEF Carried
  <2>2. CASE u = t
    <3>1. \/ Alive(t)' /\ thread'[t].kind = "event" /\ thread'[t].msg = m
          \/ m \in seen' \/ Buffered(m)'
      BY <2>1, <2>2 DEF HandsOver, Buffered
    <3>2. CASE Alive(t)' /\ thread'[t].kind = "event" /\ thread'[t].msg = m
      BY <3>2 DEF Kept, Carried
    <3> QED BY <3>1, <3>2 DEF Kept
  <2>3. CASE u # t
    <3>1. thread'[u] = thread[u] BY <2>3 DEF Others
    <3>2. Alive(u)' /\ thread'[u].kind = "event" /\ thread'[u].msg = m
      BY <2>1, <3>1 DEF Alive
    <3> QED BY <3>2 DEF Kept, Carried
  <2> QED BY <2>2, <2>3
<1> QED BY <1>1, <1>2, <1>3 DEF Kept

\* A step of one thread that launches no sync, deletes no row and loses
\* nothing keeps the invariant.
LEMMA KeepFrame ==
  ASSUME KeepInv, NEW t \in Threads, Others(t), HandsOver(t),
         UNCHANGED <<overlapped, lost>>, seen \subseteq seen', backlog \subseteq backlog',
         OneRow => OneRow',
         \A m \in acked' \ acked : Kept(m)',
         Sync(t)' => Sync(t),
         RowInHand(t) => RowInHand(t)'
  PROVE  KeepInv'
<1> SUFFICES ASSUME ~overlapped'
             PROVE  /\ \A m \in acked' \ lost' : Kept(m)'
                    /\ OneSync' /\ OneRow'
                    /\ \A u \in Threads : RowInHand(u)'
  BY KeepPartsNext
<1>0. /\ \A m \in acked \ lost : Kept(m)
      /\ OneSync /\ OneRow
      /\ \A u \in Threads : RowInHand(u)
  BY KeepParts
<1>1. ASSUME NEW m \in acked' \ lost' PROVE Kept(m)'
  <2>1. CASE m \in acked
    <3>1. m \in acked \ lost BY <1>1, <2>1
    <3>2. Kept(m) BY <1>0, <3>1
    <3> QED BY <3>2, KeptGrows
  <2>2. CASE m \notin acked BY <1>1, <2>2
  <2> QED BY <2>1, <2>2
<1>2. OneSync'
  <2>1. ASSUME NEW u \in Threads, Sync(u)' PROVE Sync(u)
    BY <2>1 DEF Others, Sync, Alive
  <2> QED BY <1>0, <2>1 DEF OneSync
<1>3. OneRow' BY <1>0
<1>4. ASSUME NEW u \in Threads PROVE RowInHand(u)'
  <2>1. CASE u = t BY <1>0, <2>1
  <2>2. CASE u # t
    <3>1. thread'[u] = thread[u] BY <2>2 DEF Others
    <3> QED BY <1>0, <3>1 DEF RowInHand, Sync, Alive
  <2> QED BY <2>1, <2>2
<1> QED BY <1>1, <1>2, <1>3, <1>4

\* A step that leaves threads, acknowledgements and stores alone.
LEMMA KeepStill ==
  ASSUME KeepInv, UNCHANGED <<thread, overlapped, lost, seen, backlog, acked>>
  PROVE  KeepInv'
BY DEF KeepInv, Buffered, Carried, Sync, Alive

\* A sync thread that is launched while there is no other.
LEMMA KeepLaunch ==
  ASSUME TypeOK, KeepInv, NEW t \in Threads, LaunchSync(t),
         UNCHANGED <<lost, seen, backlog, acked>>
  PROVE  KeepInv'
<1> SUFFICES ASSUME ~overlapped'
             PROVE  /\ \A m \in acked' \ lost' : Kept(m)'
                    /\ OneSync' /\ OneRow'
                    /\ \A u \in Threads : RowInHand(u)'
  BY KeepPartsNext
<1>1. ~overlapped /\ \A u \in Threads : ~Sync(u) BY DEF LaunchSync
<1>0. /\ \A m \in acked \ lost : Kept(m)
      /\ OneSync /\ OneRow
      /\ \A u \in Threads : RowInHand(u)
  BY <1>1, KeepParts
<1>2. thread'[t].row = 0 /\ Others(t)
  <2>1. "begin" \in Steps BY DEF Steps
  <2>2. thread' = [thread EXCEPT ![t] = Fresh("sync", "begin", 0)] BY DEF LaunchSync
  <2> QED BY <2>1, <2>2, FreshRecord
<1>3. HandsOver(t) BY DEF LaunchSync, HandsOver
<1>4. ASSUME NEW m \in acked' \ lost' PROVE Kept(m)'
  BY <1>0, <1>2, <1>3, <1>4, KeptGrows
<1>5. ASSUME NEW u \in Threads, u # t PROVE ~Sync(u)'
  BY <1>1, <1>2, <1>5 DEF Others, Sync, Alive
<1>6. OneSync' BY <1>5 DEF OneSync
<1>7. OneRow' BY <1>0 DEF OneRow
<1>8. \A u \in Threads : RowInHand(u)' BY <1>2, <1>5 DEF RowInHand
<1> QED BY <1>4, <1>6, <1>7, <1>8

\* The row that leaves the backlog is the one that was ingested.
LEMMA KeepDelete ==
  ASSUME TypeOK, LoadInv, SyncInv, KeepInv, NEW t \in Threads, DeleteRow(t)
  PROVE  KeepInv'
<1> SUFFICES ASSUME ~overlapped'
             PROVE  /\ \A m \in acked' \ lost' : Kept(m)'
                    /\ OneSync' /\ OneRow'
                    /\ \A u \in Threads : RowInHand(u)'
  BY KeepPartsNext
<1>0. /\ \A m \in acked \ lost : Kept(m)
      /\ OneSync /\ OneRow
      /\ \A u \in Threads : RowInHand(u)
  BY KeepParts DEF DeleteRow, rest
<1> DEFINE id == thread[t].row
           msg == thread[t].msg
<1>1. /\ Alive(t) /\ thread[t].pc = "delete"
      /\ UNCHANGED <<seen, acked, lost>> /\ backlog' = {r \in backlog : r.id # id}
  BY DEF DeleteRow, At, rest, stores
<1>2. Sync(t) /\ id # 0 /\ msg \in seen BY <1>1 DEF SyncInv, LoadInv, Sync
<1>3. [id |-> id, msg |-> msg] \in backlog BY <1>0, <1>2 DEF RowInHand
<1>4. thread'[t].row = 0 /\ thread'[t].kind = "sync" /\ Others(t)
  BY <1>1, <1>2, DeleteRecord DEF DeleteRow, Sync
<1>5. ASSUME NEW m \in acked' \ lost' PROVE Kept(m)'
  <2>1. Kept(m) BY <1>0, <1>1, <1>5
  <2>2. CASE m \in seen BY <1>1, <2>2 DEF Kept
  <2>3. CASE Buffered(m)
    <3>1. PICK r \in backlog : r.msg = m BY <2>3 DEF Buffered
    <3>2. CASE r.id = id
      <4>1. r = [id |-> id, msg |-> msg] BY <1>0, <1>3, <3>2 DEF OneRow
      <4> QED BY <1>1, <1>2, <3>1, <4>1 DEF Kept
    <3>3. CASE r.id # id BY <1>1, <3>1, <3>3 DEF Kept, Buffered
    <3> QED BY <3>2, <3>3
  <2>4. CASE Carried(m)
    <3>1. PICK u \in Threads : Alive(u) /\ thread[u].kind = "event" /\ thread[u].msg = m
      BY <2>4 DEF Carried
    <3>2. thread'[u] = thread[u] BY <1>2, <1>4, <3>1 DEF Others, Sync
    <3>3. Alive(u)' /\ thread'[u].kind = "event" /\ thread'[u].msg = m
      BY <3>1, <3>2 DEF Alive
    <3> QED BY <3>3 DEF Kept, Carried
  <2> QED BY <2>1, <2>2, <2>3, <2>4 DEF Kept
<1>6. ASSUME NEW u \in Threads, u # t PROVE ~Sync(u)'
  <2>1. ~Sync(u) BY <1>0, <1>2, <1>6 DEF OneSync
  <2> QED BY <1>4, <1>6, <2>1 DEF Others, Sync, Alive
<1>7. OneSync' BY <1>6 DEF OneSync
<1>8. OneRow' BY <1>0, <1>1 DEF OneRow
<1>9. \A u \in Threads : RowInHand(u)' BY <1>4, <1>6 DEF RowInHand
<1> QED BY <1>5, <1>7, <1>8, <1>9

\* A crash drops only what it records as lost.
LEMMA KeepCrash ==
  ASSUME KeepInv, Crash
  PROVE  KeepInv'
<1> SUFFICES ASSUME ~overlapped'
             PROVE  /\ \A m \in acked' \ lost' : Kept(m)'
                    /\ OneSync' /\ OneRow'
                    /\ \A u \in Threads : RowInHand(u)'
  BY KeepPartsNext
<1>0. (\A m \in acked \ lost : Kept(m)) /\ OneRow BY KeepParts DEF Crash
<1>1. \A u \in Threads : ~Alive(u)' BY DEF Crash, Alive
<1>2. UNCHANGED <<backlog, seen, acked>> /\ lost' = lost \cup InHand BY DEF Crash, stores
<1>3. ASSUME NEW m \in acked' \ lost' PROVE Kept(m)'
  <2>1. Kept(m) /\ m \notin InHand BY <1>0, <1>2, <1>3
  <2>2. ~Carried(m) BY <2>1 DEF Carried, InHand
  <2> QED BY <1>2, <2>1, <2>2 DEF Kept, Buffered
<1>4. OneSync' /\ \A u \in Threads : RowInHand(u)' BY <1>1 DEF OneSync, RowInHand, Sync
<1>5. OneRow' BY <1>0, <1>2 DEF OneRow
<1> QED BY <1>3, <1>4, <1>5

\* A thread that goes on with the same things in hand.
LEMMA KeepHands ==
  ASSUME KeepInv, NEW t \in Threads, Alive(t), Alive(t)', SameHands(t), Others(t),
         UNCHANGED <<overlapped, lost, acked, backlog>>, seen \subseteq seen'
  PROVE  KeepInv'
<1>1. HandsOver(t) BY DEF HandsOver, SameHands
<1>2. Sync(t)' => Sync(t) BY DEF Sync, SameHands
<1>3. RowInHand(t) => RowInHand(t)' BY DEF RowInHand, SameHands, Sync
<1>4. OneRow => OneRow' BY DEF OneRow
<1>5. \A m \in acked' \ acked : Kept(m)' OBVIOUS
<1> QED BY <1>1, <1>2, <1>3, <1>4, <1>5, KeepFrame

\* A thread that ends with nothing in hand that is not ingested.
LEMMA KeepEnds ==
  ASSUME KeepInv, NEW t \in Threads, ~Alive(t)', Others(t),
         (Alive(t) /\ thread[t].kind = "event") => thread[t].msg \in seen,
         UNCHANGED <<overlapped, lost, acked, backlog, seen>>
  PROVE  KeepInv'
<1>1. HandsOver(t) BY DEF HandsOver
<1>2. ~Sync(t)' BY DEF Sync
<1>3. RowInHand(t)' BY <1>2 DEF RowInHand
<1>4. OneRow => OneRow' BY DEF OneRow
<1>5. \A m \in acked' \ acked : Kept(m)' OBVIOUS
<1> QED BY <1>1, <1>2, <1>3, <1>4, <1>5, KeepFrame

\* A sync thread that takes something into its hands.
LEMMA KeepTakes ==
  ASSUME KeepInv, NEW t \in Threads, Alive(t), thread[t].kind = "sync", Others(t),
         (Alive(t)' /\ thread'[t].row # 0) =>
            [id |-> thread'[t].row, msg |-> thread'[t].msg] \in backlog,
         UNCHANGED <<overlapped, lost, acked, backlog, seen>>
  PROVE  KeepInv'
<1>1. HandsOver(t) BY DEF HandsOver
<1>2. Sync(t) BY DEF Sync
<1>3. RowInHand(t)' BY DEF RowInHand, Sync
<1>4. OneRow => OneRow' BY DEF OneRow
<1>5. \A m \in acked' \ acked : Kept(m)' OBVIOUS
<1> QED BY <1>1, <1>2, <1>3, <1>4, <1>5, KeepFrame

\* The end of an ingestion.
LEMMA KeepIngested ==
  ASSUME TypeOK, LoadInv, KeepInv, NEW t \in Threads, At(t, "mark"), Ingested(t),
         UNCHANGED <<overlapped, lost, acked, backlog, seen>>
  PROVE  KeepInv'
<1>s. "delete" \in Steps /\ "next" \in Steps BY DEF Steps
<1>1. CASE ~Sync(t)
  <2>1. thread[t].msg \in seen BY DEF At, LoadInv
  <2> QED BY <1>1, <2>1, EndsRecord, KeepEnds DEF Ingested
<1>2. CASE Sync(t) /\ thread[t].row # 0
  BY <1>s, <1>2, GoesRecord, KeepHands DEF Ingested, At
<1>3. CASE Sync(t) /\ ~(thread[t].row # 0)
  BY <1>s, <1>3, GoesRecord, KeepHands DEF Ingested, At
<1> QED BY <1>1, <1>2, <1>3

\* An event is parked under an id that no row has.
LEMMA KeepBuffer ==
  ASSUME TypeOK, KeepInv, NEW t \in Threads, BufferEvent(t)
  PROVE  KeepInv'
<1> DEFINE m == thread[t].msg
<1>1. ~Alive(t)' /\ Others(t) BY EndsRecord DEF BufferEvent
<1>2. \/ Buffered(m) /\ backlog' = backlog
      \/ \E i \in 1..MaxDeliveries :
           NewId(i) /\ backlog' = backlog \cup {[id |-> i, msg |-> m]}
  BY DEF BufferEvent
<1>3. backlog \subseteq backlog' BY <1>2
<1>4. \E r \in backlog' : r.msg = m
  <2>1. CASE Buffered(m) /\ backlog' = backlog BY <2>1 DEF Buffered
  <2>2. ASSUME NEW i, backlog' = backlog \cup {[id |-> i, msg |-> m]}
        PROVE  \E r \in backlog' : r.msg = m
    <3>1. [id |-> i, msg |-> m] \in backlog' BY <2>2
    <3> QED BY <3>1
  <2> QED BY <1>2, <2>1, <2>2
<1>5. OneRow => OneRow'
  <2> SUFFICES ASSUME OneRow PROVE OneRow' OBVIOUS
  <2>1. CASE backlog' = backlog BY <2>1 DEF OneRow
  <2>2. ASSUME NEW i \in 1..MaxDeliveries, NewId(i),
               backlog' = backlog \cup {[id |-> i, msg |-> m]}
        PROVE  OneRow'
    <3>1. \A r \in backlog : r.id # i
      <4>1. \A r \in backlog : r.id \in Nat /\ r.id < i BY <2>2 DEF TypeOK, NewId
      <4> QED BY <2>2, <4>1, BoundsAssumption
    <3> QED BY <2>2, <3>1 DEF OneRow
  <2> QED BY <1>2, <2>1, <2>2
<1>6. HandsOver(t) BY <1>4 DEF HandsOver
<1>7. acked' = acked \cup {m} /\ UNCHANGED <<overlapped, lost, seen>>
  BY DEF BufferEvent, rest, stores
<1>8. \A k \in acked' \ acked : Kept(k)' BY <1>4, <1>7 DEF Kept, Buffered
<1>9. ~Sync(t)' /\ RowInHand(t)' BY <1>1 DEF Sync, RowInHand
<1> QED BY <1>1, <1>3, <1>5, <1>6, <1>7, <1>8, <1>9, KeepFrame

\* A step of a thread keeps what was acknowledged.
LEMMA KeepWork ==
  ASSUME TypeOK, LoadInv, SyncInv, KeepInv, NEW t \in Threads, Work(t)
  PROVE  KeepInv'
<1> USE DEF At
<1>s. Steps = {"land", "count", "mark", "buffer", "begin", "claim", "drain", "delete",
               "marks", "fetch", "next", "fail"}
  BY DEF Steps, Ingesting
<1>1. CASE BufferEvent(t) BY <1>1, KeepBuffer
<1>2. CASE Land(t) BY <1>s, <1>2, GoesRecord, KeepHands DEF Land, rest
<1>3. CASE Count(t) BY <1>s, <1>3, GoesRecord, KeepHands DEF Count, rest
<1>4. CASE AdvanceMark(t) BY <1>4, KeepIngested DEF AdvanceMark, rest
<1>5. CASE Begin(t) BY <1>s, <1>5, GoesRecord, KeepHands DEF Begin, rest, stores
<1>6. CASE Claim(t) BY <1>s, <1>6, GoesRecord, KeepHands DEF Claim, rest, stores
<1>7. CASE DrainNext(t)
  <2>1. CASE Goes(t, "marks")
    BY <1>s, <1>7, <2>1, GoesRecord, KeepHands DEF DrainNext, rest, stores
  <2>2. ASSUME NEW r \in backlog,
               thread' = [thread EXCEPT ![t].pc = "land", ![t].row = r.id, ![t].msg = r.msg]
        PROVE  KeepInv'
    <3>1. Alive(t) /\ thread[t].kind = "sync" BY <1>7 DEF DrainNext, SyncInv
    <3>2. thread'[t].row = r.id /\ thread'[t].msg = r.msg /\ Others(t)
      BY <2>2, <3>1, DrainRecord
    <3>3. [id |-> r.id, msg |-> r.msg] = r BY DEF TypeOK
    <3>4. UNCHANGED <<overlapped, lost, acked, backlog, seen>> BY <1>7 DEF DrainNext, rest, stores
    <3> QED BY <3>1, <3>2, <3>3, <3>4, KeepTakes
  <2> QED BY <1>7, <2>1, <2>2 DEF DrainNext
<1>8. CASE DeleteRow(t) BY <1>8, KeepDelete
<1>9. CASE ReadMarks(t)
  <2>1. Alive(t) /\ thread[t].kind = "sync" /\ thread[t].row = 0 BY <1>9 DEF ReadMarks, SyncInv
  <2>2. UNCHANGED <<overlapped, lost, acked, backlog, seen>> BY <1>9 DEF ReadMarks, rest, stores
  <2>3. CASE Ends(t) BY <2>1, <2>2, <2>3, EndsRecord, KeepTakes
  <2>4. CASE thread' = [thread EXCEPT ![t].pc = "fetch", ![t].oldest = mark, ![t].top = posted]
    BY <2>1, <2>2, <2>4, MarksRecord, KeepTakes
  <2> QED BY <1>9, <2>3, <2>4 DEF ReadMarks
<1>10. CASE FetchPage(t)
  <2>1. Alive(t) /\ thread[t].kind = "sync" /\ thread[t].row = 0 BY <1>10 DEF FetchPage, SyncInv
  <2>2. UNCHANGED <<overlapped, lost, acked, backlog, seen>> BY <1>10 DEF FetchPage, rest, stores
  <2>3. CASE Ends(t) BY <2>1, <2>2, <2>3, EndsRecord, KeepTakes
  <2>4. ASSUME NEW b, thread' = [thread EXCEPT ![t].pc = "next", ![t].todo = PageOf(Unread(t)),
                                               ![t].before = b]
        PROVE  KeepInv'
    <3>1. thread'[t].row = thread[t].row /\ Others(t) BY <2>1, <2>4, FetchRecord
    <3> QED BY <2>1, <2>2, <3>1, KeepTakes
  <2> QED BY <1>10, <2>3, <2>4 DEF FetchPage
<1>11. CASE NextMessage(t)
  <2>1. Alive(t) /\ thread[t].kind = "sync" /\ thread[t].row = 0
    BY <1>11 DEF NextMessage, SyncInv
  <2>2. UNCHANGED <<overlapped, lost, acked, backlog, seen>> BY <1>11 DEF NextMessage, rest, stores
  <2>3. CASE Ends(t) BY <2>1, <2>2, <2>3, EndsRecord, KeepTakes
  <2>4. CASE Goes(t, "fetch") BY <1>s, <2>1, <2>2, <2>4, GoesRecord, KeepHands
  <2>5. ASSUME NEW m, thread' = [thread EXCEPT ![t].pc = "land", ![t].msg = m, ![t].todo = @ \ {m}]
        PROVE  KeepInv'
    <3>1. thread'[t].row = thread[t].row /\ Others(t) BY <2>1, <2>5, TakeRecord
    <3> QED BY <2>1, <2>2, <3>1, KeepTakes
  <2> QED BY <1>11, <2>3, <2>4, <2>5 DEF NextMessage
<1>12. CASE FailJob(t)
  <2>1. Alive(t) /\ thread[t].kind = "sync" BY <1>12 DEF FailJob, SyncInv
  <2>2. UNCHANGED <<overlapped, lost, acked, backlog, seen>> BY <1>12 DEF FailJob, rest, stores
  <2> QED BY <1>12, <2>1, <2>2, EndsRecord, KeepTakes DEF FailJob
<1> QED
  BY <1>1, <1>2, <1>3, <1>4, <1>5, <1>6, <1>7, <1>8, <1>9, <1>10, <1>11, <1>12 DEF Work

\* So do failures, deliveries, requests and crashes.
LEMMA KeepRest ==
  ASSUME TypeOK, LoadInv, SyncInv, KeepInv,
         \/ Post \/ Crash \/ Restart
         \/ \E t \in Threads : Fails(t) \/ Recover(t)
         \/ \E t \in Threads, m \in Messages : Webhook(t, m) \/ Inject(t, m)
         \/ \E c \in Clients : RequestPause(c) \/ RequestResume(c) \/ RequestCancel(c) \/ Respond(c)
  PROVE  KeepInv'
<1> USE DEF At
<1>s. {"buffer", "fail", "land"} \subseteq Steps BY DEF Steps, Ingesting
<1>1. CASE Post \/ Restart BY <1>1, KeepStill DEF Post, Restart, stores
<1>2. CASE Crash BY <1>2, KeepCrash
<1>3. ASSUME NEW t \in Threads, Fails(t) PROVE KeepInv'
  <2>1. CASE LandFails(t)
    <3>1. thread[t].kind \in {"event", "api", "sync"}
      BY <2>1, ThreadIsRecord DEF LandFails, ThreadRecords
    <3>2. UNCHANGED <<overlapped, lost, acked, backlog, seen>> BY <2>1 DEF LandFails, rest, stores
    <3>3. CASE Goes(t, "buffer") \/ Goes(t, "fail")
      BY <1>s, <2>1, <3>2, <3>3, GoesRecord, KeepHands DEF LandFails
    <3>4. CASE Ends(t) /\ thread[t].kind = "api" BY <3>2, <3>4, EndsRecord, KeepEnds
    <3> QED BY <2>1, <3>1, <3>3, <3>4 DEF LandFails
  <2>2. CASE MarkFails(t) BY <2>2, KeepIngested DEF MarkFails, rest, stores
  <2>3. CASE FetchFails(t)
    BY <1>s, <2>3, GoesRecord, KeepHands DEF FetchFails, rest, stores
  <2> QED BY <1>3, <2>1, <2>2, <2>3 DEF Fails
<1>4. ASSUME NEW t \in Threads, Recover(t) PROVE KeepInv'
  <2>1. UNCHANGED <<lost, acked, backlog, seen>> BY <1>4 DEF Recover, stores
  <2>2. CASE LaunchSync(t) BY <2>1, <2>2, KeepLaunch
  <2>3. CASE UNCHANGED <<thread, overlapped>> BY <2>1, <2>3, KeepStill
  <2> QED BY <1>4, <2>2, <2>3 DEF Recover
<1>5. ASSUME NEW t \in Threads, NEW m \in Messages, Webhook(t, m) \/ Inject(t, m) PROVE KeepInv'
  <2>1. PICK k \in {"event", "api"}, s \in {"land", "buffer"} :
          /\ thread' = [thread EXCEPT ![t] = Fresh(k, s, m)]
          /\ acked' = acked \/ (acked' = acked \cup {m} /\ k = "event")
    BY <1>5 DEF Webhook, Inject
  <2>2. /\ Alive(t)' /\ thread'[t].kind = k /\ thread'[t].msg = m /\ Others(t)
    BY <1>s, <2>1, FreshRecord
  <2>3. UNCHANGED <<overlapped, lost, backlog, seen>> /\ ~Alive(t)
    BY <1>5 DEF Webhook, Inject, Delivers, rest, stores
  <2>4. HandsOver(t) BY <2>3 DEF HandsOver
  <2>5. ~Sync(t)' BY <2>1, <2>2 DEF Sync
  <2>6. RowInHand(t)' BY <2>5 DEF RowInHand
  <2>7. OneRow => OneRow' BY <2>3 DEF OneRow
  <2>8. \A j \in acked' \ acked : Kept(j)' BY <2>1, <2>2 DEF Kept, Carried
  <2> QED BY <2>2, <2>3, <2>4, <2>5, <2>6, <2>7, <2>8, KeepFrame
<1>6. ASSUME NEW c \in Clients,
             RequestPause(c) \/ RequestResume(c) \/ RequestCancel(c) \/ Respond(c)
      PROVE  KeepInv'
  <2>1. CASE UNCHANGED <<thread, overlapped, stores, lost, backlog, acked>>
    BY <2>1, KeepStill DEF stores
  <2>2. CASE Respond(c)
    <3>1. UNCHANGED <<stores, lost, backlog, acked>> BY <2>2 DEF Respond
    <3>2. ASSUME NEW t \in Threads, LaunchSync(t) PROVE KeepInv'
      BY <3>1, <3>2, KeepLaunch DEF stores
    <3> QED BY <2>1, <2>2, <3>1, <3>2 DEF Respond
  <2> QED BY <1>6, <2>1, <2>2 DEF RequestPause, RequestResume, RequestCancel, Decides
<1> QED BY <1>1, <1>2, <1>3, <1>4, <1>5, <1>6

\* Nothing is acknowledged and one sync thread runs at the start.
LEMMA KeepInit == Init => KeepInv
BY DEF Init, KeepInv, Sync, Alive, Fresh, Idle

\* Every step keeps what was acknowledged.
LEMMA KeepNext == TypeOK /\ LoadInv /\ SyncInv /\ KeepInv /\ [Next]_vars => KeepInv'
<1> SUFFICES ASSUME TypeOK, LoadInv, SyncInv, KeepInv, [Next]_vars PROVE KeepInv' OBVIOUS
<1>1. CASE UNCHANGED vars BY <1>1, KeepStill DEF vars
<1>2. CASE Next BY <1>2, KeepWork, KeepRest DEF Next
<1> QED BY <1>1, <1>2

\* A message Slack was answered 200 for is ingested, parked or in the hands of
\* a thread, as long as no two sync threads have run at a time.
THEOREM AckedKept == Spec => []AckedIsKept
<1>1. Init => TypeOK /\ LoadInv /\ SyncInv /\ KeepInv
  BY InitType, LoadInit, SyncInit, KeepInit
<1>2. TypeOK /\ LoadInv /\ SyncInv /\ KeepInv /\ [Next]_vars
        => TypeOK' /\ LoadInv' /\ SyncInv' /\ KeepInv'
  BY NextType, LoadNext, SyncNext, KeepNext
<1>3. KeepInv => AckedIsKept BY DEF KeepInv, AckedIsKept
<1> QED BY <1>1, <1>2, <1>3, PTL DEF Spec

-----------------------------------------------------------------------------
(***************************************************************************)
(* Catch-up leaves no hole behind it.                                      *)
(***************************************************************************)

\* What PageInv says of one thread.
PageThread(t) ==
  Sync(t) =>
    /\ \A m \in thread[t].before..thread[t].top :
         m \in seen \/ m \in thread[t].todo
                    \/ (m = thread[t].msg /\ thread[t].pc \in {"land", "count", "fail"})
    /\ thread[t].top <= posted
    /\ (thread[t].pc \in {"begin", "claim", "drain", "marks"} \/ thread[t].row # 0)
         => thread[t].before = N + 1 /\ thread[t].todo = {}
    /\ thread[t].pc = "fetch" => thread[t].todo = {}

\* PageInv says it of every thread, before and after a step.
LEMMA PageParts ==
  /\ PageInv <=> \A t \in Threads : PageThread(t)
  /\ PageInv' <=> \A t \in Threads : PageThread(t)'
BY DEF PageInv, PagedOverIsIngested, PageThread

\* A step of thread t that keeps it of t keeps it of all.
LEMMA PageFrame ==
  ASSUME TypeOK, PageInv, NEW t \in Threads, Others(t), PageThread(t)',
         seen \subseteq seen', UNCHANGED posted
  PROVE  PageInv'
<1>1. ASSUME NEW u \in Threads, u # t PROVE PageThread(u)'
  <2>1. thread'[u] = thread[u] BY <1>1 DEF Others
  <2>2. PageThread(u) BY PageParts
  <2> QED BY <2>1, <2>2 DEF PageThread, Sync, Alive
<1> QED BY <1>1, PageParts

\* A step that moves no thread.
LEMMA PageStill ==
  ASSUME TypeOK, PageInv, UNCHANGED <<thread, seen>>, posted <= posted', posted' \in Nat
  PROVE  PageInv'
<1>1. ASSUME NEW u \in Threads PROVE PageThread(u)'
  <2>1. PageThread(u) BY PageParts
  <2>2. Sync(u) => thread[u].top \in Nat
    BY ThreadIsRecord, SizesAssumption DEF Sync, ThreadRecords
  <2>3. posted \in Nat BY SizesAssumption DEF TypeOK
  <2> QED BY <2>1, <2>2, <2>3 DEF PageThread, Sync, Alive
<1> QED BY <1>1, PageParts

\* A thread that ends has paged over nothing.
LEMMA PageEnds ==
  ASSUME TypeOK, PageInv, NEW t \in Threads, ~Sync(t)', Others(t),
         seen \subseteq seen', UNCHANGED posted
  PROVE  PageInv'
BY PageFrame DEF PageThread

\* A thread that goes on with the same things in hand, and leaves the message
\* it ingests only when that is ingested.
LEMMA PageHands ==
  ASSUME TypeOK, PageInv, NEW t \in Threads, Alive(t), Alive(t)', SameHands(t), Others(t),
         seen \subseteq seen', UNCHANGED posted,
         (thread[t].pc \in {"land", "count", "fail"} /\ thread'[t].pc \notin {"land", "count", "fail"})
           => thread[t].msg \in seen',
         thread'[t].pc \in {"begin", "claim", "drain", "marks"}
           => thread[t].pc \in {"begin", "claim", "drain", "marks"},
         (Sync(t) /\ thread'[t].pc = "fetch") => thread[t].todo = {}
  PROVE  PageInv'
<1>1. PageThread(t) BY PageParts
<1>2. Sync(t)' => Sync(t) BY DEF Sync, SameHands
<1>3. PageThread(t)' BY <1>1, <1>2 DEF PageThread, SameHands
<1> QED BY <1>3, PageFrame

\* Nothing lies above the newest message.
LEMMA NothingPaged ==
  ASSUME TypeOK, NEW b, b = N + 1, NEW k \in 0..N
  PROVE  b..k = {}
BY SizesAssumption

\* The newest page of a set of messages holds all of them from its oldest on.
LEMMA PageIsSuffix ==
  ASSUME NEW unread \in SUBSET Messages, NEW b \in PageOf(unread),
         NEW m \in unread, b <= m
  PROVE  m \in PageOf(unread)
<1> DEFINE above(x) == {k \in unread : k > x}
<1>1. IsFiniteSet(Messages) BY SizesAssumption, FS_Interval DEF Messages
<1>2. IsFiniteSet(above(b)) BY <1>1, FS_Subset
<1>3. b \in Nat /\ m \in Nat /\ \A k \in unread : k \in Nat
  BY SizesAssumption DEF PageOf, Messages
<1>4. above(m) \subseteq above(b)
  <2>1. ASSUME NEW k \in unread, k > m PROVE k > b BY <1>3, <2>1
  <2> QED BY <2>1
<1>5. /\ Cardinality(above(m)) <= Cardinality(above(b))
      /\ Cardinality(above(m)) \in Nat /\ Cardinality(above(b)) \in Nat
  <2>1. IsFiniteSet(above(m)) BY <1>2, <1>4, FS_Subset
  <2> QED BY <1>2, <1>4, <2>1, FS_Subset, FS_CardinalityType
<1>6. Cardinality(above(b)) < PageSize BY DEF PageOf
<1>7. Cardinality(above(m)) < PageSize BY <1>5, <1>6, SizesAssumption
<1> QED BY <1>7 DEF PageOf

Fetched(t, page, b) ==
  thread' = [thread EXCEPT ![t].pc = "next", ![t].todo = page, ![t].before = b]

\* FetchRecord, for a page that has a name.
LEMMA FetchedRecord ==
  ASSUME TypeOK, NEW t \in Threads, Alive(t), NEW page, NEW b, Fetched(t, page, b)
  PROVE  /\ thread'[t].pc = "next" /\ thread'[t].kind = thread[t].kind
         /\ thread'[t].msg = thread[t].msg /\ thread'[t].row = thread[t].row
         /\ thread'[t].todo = page /\ thread'[t].before = b
         /\ thread'[t].top = thread[t].top /\ Others(t)
<1>1. thread[t] \in ThreadRecords BY ThreadIsRecord
<1> DEFINE v == [thread[t] EXCEPT !.pc = "next", !.todo = page, !.before = b]
<1>2. /\ v.pc = "next" /\ v.msg = thread[t].msg /\ v.kind = thread[t].kind
      /\ v.row = thread[t].row /\ v.todo = page
      /\ v.before = b /\ v.top = thread[t].top
  BY <1>1 DEF ThreadRecords
<1>3. thread' = [thread EXCEPT ![t] = v] BY DEF Fetched
<1> HIDE DEF v
<1>4. thread'[t] = v /\ Others(t) BY <1>3 DEF TypeOK, Others
<1> QED BY <1>2, <1>4

\* A fetched page follows on what was paged over before.
LEMMA PageFetch ==
  ASSUME TypeOK, SyncInv, PageInv, NEW t \in Threads, At(t, "fetch"),
         UNCHANGED <<seen, posted>>,
         NEW todo, todo = PageOf(Unread(t)), NEW first \in todo, Fetched(t, todo, first)
  PROVE  PageInv'
<1> DEFINE a == thread[t].before
           k == thread[t].top
<1>1. Sync(t) /\ thread[t].row = 0 BY DEF SyncInv, Sync, At
<1>2. PageThread(t) BY PageParts
<1>3. /\ a \in Nat /\ k \in Nat /\ thread[t].oldest \in Nat /\ posted \in Nat
  BY <1>1, ThreadIsRecord, SizesAssumption DEF Sync, ThreadRecords, TypeOK
<1>u. \A m : m \in Unread(t) <=> m \in 1..posted /\ thread[t].oldest < m /\ m < a
  BY Zenon DEF Unread
<1>p. posted <= N BY SizesAssumption DEF TypeOK
<1>4. Unread(t) \in SUBSET Messages
  <2>1. ASSUME NEW m \in Unread(t) PROVE m \in 1..N
    <3>1. m \in 1..posted BY <1>u, <2>1
    <3> QED BY <1>3, <1>p, <3>1, SizesAssumption
  <2> QED BY <2>1 DEF Messages
<1>5. first \in Unread(t) BY DEF PageOf
<1>6. first \in Nat /\ thread[t].oldest < first /\ 1 <= first
  <2>1. first \in 1..posted /\ thread[t].oldest < first BY <1>u, <1>5
  <2> QED BY <1>3, <2>1
<1>7. /\ thread'[t].pc = "next" /\ thread'[t].kind = thread[t].kind
      /\ thread'[t].msg = thread[t].msg /\ thread'[t].row = thread[t].row
      /\ thread'[t].todo = todo /\ thread'[t].before = first
      /\ thread'[t].top = k /\ Others(t)
  <2>1. Alive(t) BY <1>1 DEF Sync
  <2> QED BY <2>1, FetchedRecord
<1>8. k <= posted /\ thread[t].todo = {} BY <1>1, <1>2 DEF PageThread, At
<1>9. ASSUME NEW m \in first..k PROVE m \in seen \/ m \in todo
  <2>1. m \in Nat /\ first <= m /\ m <= k BY <1>3, <1>6, <1>9
  <2>2. CASE m < a
    <3>1. m \in 1..posted /\ thread[t].oldest < m BY <1>3, <1>6, <1>8, <2>1
    <3>2. m \in Unread(t) BY <1>u, <2>2, <3>1
    <3> QED BY <1>4, <2>1, <3>2, PageIsSuffix
  <2>3. CASE ~(m < a)
    <3>1. m \in a..k BY <1>3, <2>1, <2>3
    <3>2. m \in seen \/ m \in thread[t].todo
             \/ (m = thread[t].msg /\ thread[t].pc \in {"land", "count", "fail"})
      BY <1>1, <1>2, <3>1 DEF PageThread
    <3> QED BY <1>8, <3>2 DEF At
  <2> QED BY <2>2, <2>3
<1>10. PageThread(t)'
  <2> HIDE DEF a, k
  <2>1. \A m \in (thread'[t].before)..(thread'[t].top) : m \in seen' \/ m \in thread'[t].todo
    BY <1>7, <1>9
  <2>2. thread'[t].top <= posted' BY <1>7, <1>8
  <2>3. thread'[t].row = 0 /\ thread'[t].pc = "next" BY <1>1, <1>7
  <2> QED BY <2>1, <2>2, <2>3 DEF PageThread
<1> QED BY <1>7, <1>10, PageFrame

\* The message that is taken off the page is the one in hand.
LEMMA PageTake ==
  ASSUME TypeOK, SyncInv, PageInv, NEW t \in Threads, At(t, "next"),
         UNCHANGED <<seen, posted>>, NEW m \in thread[t].todo,
         thread' = [thread EXCEPT ![t].pc = "land", ![t].msg = m, ![t].todo = @ \ {m}]
  PROVE  PageInv'
<1>1. Sync(t) /\ thread[t].row = 0 BY DEF SyncInv, Sync, At
<1>2. PageThread(t) BY PageParts
<1>3. /\ thread'[t].pc = "land" /\ thread'[t].kind = thread[t].kind
      /\ thread'[t].msg = m /\ thread'[t].row = thread[t].row
      /\ thread'[t].todo = thread[t].todo \ {m} /\ thread'[t].before = thread[t].before
      /\ thread'[t].top = thread[t].top /\ Others(t)
  BY <1>1, TakeRecord DEF Sync
<1>4. ASSUME NEW j \in (thread[t].before)..(thread[t].top)
      PROVE  j \in seen \/ j \in thread[t].todo
  BY <1>1, <1>2, <1>4 DEF PageThread, At
<1>5. thread[t].top <= posted BY <1>1, <1>2 DEF PageThread
<1>6. PageThread(t)' BY <1>1, <1>3, <1>4, <1>5 DEF PageThread
<1> QED BY <1>3, <1>6, PageFrame

\* A sync thread that has not started to catch up has paged over nothing.
LEMMA PageUnstarted ==
  ASSUME TypeOK, PageInv, NEW t \in Threads, Others(t), UNCHANGED <<seen, posted>>,
         thread'[t].before = N + 1, thread'[t].todo = {}, thread'[t].top \in 0..N,
         thread'[t].top <= posted
  PROVE  PageInv'
<1>1. (thread'[t].before)..(thread'[t].top) = {} BY NothingPaged
<1>2. PageThread(t)' BY <1>1 DEF PageThread
<1> QED BY <1>2, PageFrame

\* The end of an ingestion.
LEMMA PageIngested ==
  ASSUME TypeOK, LoadInv, SyncInv, PageInv, NEW t \in Threads, At(t, "mark"), Ingested(t),
         UNCHANGED <<seen, posted>>
  PROVE  PageInv'
<1>s. "delete" \in Steps /\ "next" \in Steps BY DEF Steps
<1>1. CASE ~Sync(t) BY <1>1, EndsRecord, PageEnds DEF Ingested, Sync
<1>2. CASE Sync(t) /\ thread[t].row # 0
  BY <1>s, <1>2, GoesRecord, PageHands DEF Ingested, At
<1>3. CASE Sync(t) /\ ~(thread[t].row # 0)
  BY <1>s, <1>3, GoesRecord, PageHands DEF Ingested, At
<1> QED BY <1>1, <1>2, <1>3

\* Every step leaves no hole behind.
LEMMA PageNext == TypeOK /\ LoadInv /\ SyncInv /\ PageInv /\ [Next]_vars => PageInv'
<1> SUFFICES ASSUME TypeOK, LoadInv, SyncInv, PageInv, [Next]_vars PROVE PageInv' OBVIOUS
<1> USE DEF At
<1>s. Steps = {"land", "count", "mark", "buffer", "begin", "claim", "drain", "delete",
               "marks", "fetch", "next", "fail"}
  BY DEF Steps, Ingesting
<1>p. posted \in Nat BY SizesAssumption DEF TypeOK
<1>u. ASSUME UNCHANGED <<thread, seen, posted>> PROVE PageInv' BY <1>p, <1>u, PageStill
<1>l. ASSUME NEW t \in Threads, LaunchSync(t), UNCHANGED <<seen, posted>> PROVE PageInv'
  <2>1. "begin" \in Steps /\ thread' = [thread EXCEPT ![t] = Fresh("sync", "begin", 0)]
    BY <1>s, <1>l DEF LaunchSync
  <2>2. thread'[t].before = N + 1 /\ thread'[t].todo = {} /\ thread'[t].top = 0 /\ Others(t)
    BY <2>1, FreshRecord
  <2>3. 0 \in 0..N /\ 0 <= posted BY <1>p, SizesAssumption
  <2> QED BY <1>l, <2>2, <2>3, PageUnstarted
<1>1. ASSUME NEW t \in Threads, Work(t) PROVE PageInv'
  <2>1. CASE BufferEvent(t)
    BY <2>1, EndsRecord, PageEnds DEF BufferEvent, Sync, rest, stores
  <2>2. CASE Land(t) BY <1>s, <2>2, GoesRecord, PageHands DEF Land, rest
  <2>3. CASE Count(t)
    <3>1. thread[t].msg \in seen' /\ seen \subseteq seen' BY <2>3 DEF Count
    <3> QED BY <1>s, <2>3, <3>1, GoesRecord, PageHands DEF Count, rest
  <2>4. CASE AdvanceMark(t) BY <2>4, PageIngested DEF AdvanceMark, rest
  <2>5. CASE Begin(t) BY <1>s, <2>5, GoesRecord, PageHands DEF Begin, rest, stores
  <2>6. CASE Claim(t) BY <1>s, <2>6, GoesRecord, PageHands DEF Claim, rest, stores
  <2>7. CASE DrainNext(t)
    <3>1. CASE Goes(t, "marks")
      BY <1>s, <2>7, <3>1, GoesRecord, PageHands DEF DrainNext, rest, stores
    <3>2. ASSUME NEW r \in backlog,
                 thread' = [thread EXCEPT ![t].pc = "land", ![t].row = r.id, ![t].msg = r.msg]
          PROVE  PageInv'
      <4>1. Sync(t) BY <2>7 DEF DrainNext, SyncInv, Sync
      <4>2. PageThread(t) BY PageParts
      <4>3. /\ thread[t].before = N + 1 /\ thread[t].todo = {} /\ thread[t].top <= posted
            /\ thread[t].top \in 0..N
        BY <2>7, <4>1, <4>2, ThreadIsRecord DEF DrainNext, PageThread, ThreadRecords
      <4>4. /\ thread'[t].todo = thread[t].todo /\ thread'[t].before = thread[t].before
            /\ thread'[t].top = thread[t].top /\ Others(t)
        BY <2>7, <3>2, DrainRecord DEF DrainNext
      <4> QED BY <2>7, <4>3, <4>4, PageUnstarted DEF DrainNext, rest, stores
    <3> QED BY <2>7, <3>1, <3>2 DEF DrainNext
  <2>8. CASE DeleteRow(t)
    <3>1. Sync(t) /\ thread[t].row # 0 BY <2>8 DEF DeleteRow, SyncInv, Sync
    <3>2. PageThread(t) BY PageParts
    <3>3. /\ thread[t].before = N + 1 /\ thread[t].todo = {} /\ thread[t].top <= posted
          /\ thread[t].top \in 0..N
      BY <2>8, <3>1, <3>2, ThreadIsRecord DEF DeleteRow, PageThread, ThreadRecords
    <3>4. /\ thread'[t].todo = thread[t].todo /\ thread'[t].before = thread[t].before
          /\ thread'[t].top = thread[t].top /\ Others(t)
      BY <2>8, DeleteRecord DEF DeleteRow
    <3> QED BY <2>8, <3>3, <3>4, PageUnstarted DEF DeleteRow, rest, stores
  <2>9. CASE ReadMarks(t)
    <3>1. UNCHANGED <<seen, posted>> BY <2>9 DEF ReadMarks, rest, stores
    <3>2. CASE Ends(t) BY <3>1, <3>2, EndsRecord, PageEnds DEF Sync
    <3>3. CASE thread' = [thread EXCEPT ![t].pc = "fetch", ![t].oldest = mark, ![t].top = posted]
      <4>1. Sync(t) BY <2>9 DEF ReadMarks, SyncInv, Sync
      <4>2. PageThread(t) BY PageParts
      <4>3. thread[t].before = N + 1 /\ thread[t].todo = {}
        BY <2>9, <4>1, <4>2 DEF ReadMarks, PageThread
      <4>4. /\ thread'[t].todo = thread[t].todo /\ thread'[t].before = thread[t].before
            /\ thread'[t].top = posted /\ Others(t)
        BY <2>9, <3>3, MarksRecord DEF ReadMarks
      <4>5. posted \in 0..N /\ posted <= posted BY <1>p DEF TypeOK
      <4> QED BY <3>1, <4>3, <4>4, <4>5, PageUnstarted
    <3> QED BY <2>9, <3>2, <3>3 DEF ReadMarks
  <2>10. CASE FetchPage(t)
    <3>1. UNCHANGED <<seen, posted>> BY <2>10 DEF FetchPage, rest, stores
    <3>2. CASE Ends(t) BY <3>1, <3>2, EndsRecord, PageEnds DEF Sync
    <3>3. ASSUME NEW b \in PageOf(Unread(t)),
                 thread' = [thread EXCEPT ![t].pc = "next", ![t].todo = PageOf(Unread(t)),
                                          ![t].before = b]
          PROVE  PageInv'
      <4>1. At(t, "fetch") BY <2>10 DEF FetchPage
      <4>2. PICK todo : todo = PageOf(Unread(t)) OBVIOUS
      <4>3. b \in todo /\ Fetched(t, todo, b) BY <3>3, <4>2 DEF Fetched
      <4> HIDE DEF At
      <4> QED BY <3>1, <4>1, <4>2, <4>3, PageFetch
    <3> QED BY <2>10, <3>2, <3>3 DEF FetchPage
  <2>11. CASE NextMessage(t)
    <3>1. UNCHANGED <<seen, posted>> BY <2>11 DEF NextMessage, rest, stores
    <3>2. CASE Ends(t) BY <3>1, <3>2, EndsRecord, PageEnds DEF Sync
    <3>3. CASE Goes(t, "fetch") /\ thread[t].todo = {}
      BY <1>s, <2>11, <3>1, <3>3, GoesRecord, PageHands DEF NextMessage
    <3>4. ASSUME NEW m \in thread[t].todo,
                 thread' = [thread EXCEPT ![t].pc = "land", ![t].msg = m, ![t].todo = @ \ {m}]
          PROVE  PageInv'
      BY <2>11, <3>1, <3>4, PageTake DEF NextMessage
    <3> QED BY <2>11, <3>2, <3>3, <3>4 DEF NextMessage
  <2>12. CASE FailJob(t) BY <2>12, EndsRecord, PageEnds DEF FailJob, Sync, rest, stores
  <2> QED
    BY <1>1, <2>1, <2>2, <2>3, <2>4, <2>5, <2>6, <2>7, <2>8, <2>9, <2>10, <2>11, <2>12 DEF Work
<1>2. ASSUME NEW t \in Threads, Fails(t) PROVE PageInv'
  <2>1. CASE LandFails(t)
    <3>1. UNCHANGED <<seen, posted>> BY <2>1 DEF LandFails, rest, stores
    <3>2. CASE Goes(t, "buffer") /\ thread[t].kind = "event"
      BY <1>s, <2>1, <3>1, <3>2, GoesRecord, PageEnds DEF LandFails, SameHands, Sync
    <3>3. CASE Ends(t) BY <3>1, <3>3, EndsRecord, PageEnds DEF Sync
    <3>4. CASE Goes(t, "fail")
      BY <1>s, <2>1, <3>1, <3>4, GoesRecord, PageHands DEF LandFails
    <3>5. thread[t].kind \in {"event", "api", "sync"}
      BY <2>1, ThreadIsRecord DEF LandFails, ThreadRecords
    <3> QED BY <2>1, <3>2, <3>3, <3>4, <3>5 DEF LandFails
  <2>2. CASE MarkFails(t) BY <2>2, PageIngested DEF MarkFails, rest, stores
  <2>3. CASE FetchFails(t)
    BY <1>s, <2>3, GoesRecord, PageHands DEF FetchFails, rest, stores
  <2> QED BY <1>2, <2>1, <2>2, <2>3 DEF Fails
<1>3. ASSUME NEW t \in Threads, Recover(t) PROVE PageInv'
  BY <1>u, <1>l, <1>3 DEF Recover, stores
<1>4. ASSUME NEW t \in Threads, NEW m \in Messages, Webhook(t, m) \/ Inject(t, m) PROVE PageInv'
  <2>1. PICK k \in {"event", "api"}, s \in {"land", "buffer"} :
          thread' = [thread EXCEPT ![t] = Fresh(k, s, m)]
    BY <1>4 DEF Webhook, Inject
  <2>2. thread'[t].kind = k /\ Others(t) BY <1>s, <2>1, FreshRecord
  <2>3. ~Sync(t)' BY <2>1, <2>2 DEF Sync
  <2> QED BY <1>4, <2>2, <2>3, PageEnds DEF Webhook, Inject, rest, stores
<1>5. ASSUME NEW c \in Clients,
             RequestPause(c) \/ RequestResume(c) \/ RequestCancel(c) \/ Respond(c)
      PROVE  PageInv'
  BY <1>5, <1>u, <1>l DEF RequestPause, RequestResume, RequestCancel, Respond, Decides, stores
<1>6. CASE Post
  <2>1. posted <= posted' /\ posted' \in Nat BY <1>6, <1>p DEF Post
  <2> QED BY <1>6, <2>1, PageStill DEF Post, stores
<1>7. CASE Restart BY <1>7, <1>u DEF Restart, stores
<1>8. CASE Crash
  <2>1. \A t \in Threads : ~Sync(t)' BY <1>8 DEF Crash, Alive, Sync
  <2> QED BY <2>1, PageParts DEF PageThread
<1>9. CASE UNCHANGED vars BY <1>9, <1>u DEF vars
<1> QED BY <1>1, <1>2, <1>3, <1>4, <1>5, <1>6, <1>7, <1>8, <1>9 DEF Next

\* The first sync thread has paged over nothing.
LEMMA PageInit == Init => PageInv
<1> SUFFICES ASSUME Init PROVE PageInv OBVIOUS
<1>1. ASSUME NEW t \in Threads, Sync(t) PROVE PageThread(t)
  <2>1. thread[t] = Fresh("sync", "begin", 0) BY <1>1 DEF Init, Sync, Alive
  <2>2. thread[t].before = N + 1 /\ thread[t].todo = {} /\ thread[t].top = 0
    BY <2>1 DEF Fresh
  <2>3. 0 \in 0..N /\ 0 <= posted BY SizesAssumption DEF Init
  <2>4. (thread[t].before)..(thread[t].top) = {} BY <2>2, SizesAssumption
  <2> QED BY <2>2, <2>3, <2>4 DEF PageThread
<1> QED BY <1>1, PageParts DEF PageThread

\* Catch-up pages through the history newest page first and leaves no message
\* behind: from its cursor up, everything it found is ingested or in hand.
THEOREM PagedOverIngested == Spec => []PagedOverIsIngested
<1>1. Init => TypeOK /\ LoadInv /\ SyncInv /\ PageInv
  BY InitType, LoadInit, SyncInit, PageInit
<1>2. TypeOK /\ LoadInv /\ SyncInv /\ PageInv /\ [Next]_vars
        => TypeOK' /\ LoadInv' /\ SyncInv' /\ PageInv'
  BY NextType, LoadNext, SyncNext, PageNext
<1>3. PageInv => PagedOverIsIngested BY DEF PageInv
<1> QED BY <1>1, <1>2, <1>3, PTL DEF Spec
=============================================================================
