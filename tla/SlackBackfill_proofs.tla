------------------------ MODULE SlackBackfill_proofs ------------------------
(***************************************************************************)
(* Theorems about SlackBackfill, for every set of channels of any length,  *)
(* every number of runs and requests, every page size and every value of   *)
(* the bounds.                                                             *)
(***************************************************************************)
EXTENDS SlackBackfill, TLAPS

\* What a run that exists is: a record, never the idle marker.
RunRecords ==
  [pc : Stages, size : Sizes, seen : Statuses, target : Statuses,
   thread : [Channels -> Threads]]

\* The cursors of a run are positions of their channels.
InBounds(r) == \A ch \in Channels : r.thread[ch].cursor \in Positions(ch)

\* The parts of TypeOK that the steps of a run can disturb.
RunOK ==
  /\ run \in [Runs -> RunStates]
  /\ \A l \in Runs : Alive(l) => InBounds(run[l])

Jobs == [status : Statuses \cup {"none"}, control : Controls, owned : BOOLEAN,
         rows : [Channels -> Nat]]

StoresOK ==
  /\ ckpt \in [Channels -> [cursor : Nat, completed : BOOLEAN]]
  /\ file = [ch \in Channels |-> file[ch]]
  /\ table \in [Channels -> SUBSET Nat]
  /\ \A ch \in Channels :
       /\ ckpt[ch].cursor \in Positions(ch) /\ table[ch] \subseteq Positions(ch)
       /\ file[ch] \in [Positions(ch) -> Positions(ch)]

RestOK ==
  /\ request \in [Clients -> [step : RequestSteps, live : BOOLEAN]]
  /\ sweep \in SweepSteps
  /\ up \in BOOLEAN /\ contested \in BOOLEAN /\ mixed \in BOOLEAN /\ outage \in BOOLEAN
  /\ events \in {{}, {"pause"}, {"pause", "cancel"}}
  /\ spent \in [crashes : Nat, failures : Nat, requests : Nat]

\* TypeOK is these four parts.
LEMMA TypeParts == TypeOK <=> RunOK /\ job \in Jobs /\ StoresOK /\ RestOK
BY DEF TypeOK, RunOK, Jobs, StoresOK, RestOK, InBounds, Cursor

\* They are the parts of the next state's TypeOK, too.
LEMMA TypePartsNext ==
  RunOK' /\ job' \in Jobs /\ StoresOK' /\ RestOK' => TypeOK'
BY DEF TypeOK, RunOK, Jobs, StoresOK, RestOK, InBounds, Cursor

\* The lengths of channels and the page sizes are numbers.
LEMMA Numbers ==
  /\ DefaultSize \in Sizes
  /\ \A size \in Sizes : size \in Nat /\ size > 0
  /\ \A ch \in Channels : Length[ch] \in Nat /\ 0 \in Positions(ch) /\ Length[ch] \in Positions(ch)
  /\ \A ch \in Channels : \A p \in Positions(ch) : p \in Nat /\ p <= Length[ch]
BY LengthAssumption, SizesAssumption DEF Positions

\* A run that is alive is one of the records, its threads at their channels.
LEMMA RunIsRecord ==
  ASSUME RunOK, NEW l \in Runs, Alive(l)
  PROVE  run[l] \in RunRecords /\ InBounds(run[l])
BY DEF RunOK, Alive, RunStates, RunRecords

\* A record is a run that is alive.
LEMMA RecordIsAlive ==
  ASSUME NEW r \in RunRecords PROVE r # Idle /\ r \in RunStates
BY DEF RunRecords, RunStates, Idle, Stages

\* One run becomes another record, and the others stay as they are.
LEMMA RunBecomes ==
  ASSUME RunOK, NEW l \in Runs, NEW r \in RunRecords, InBounds(r),
         run' = [run EXCEPT ![l] = r]
  PROVE  /\ RunOK' /\ run'[l] = r /\ Alive(l)'
         /\ \A k \in Runs : k # l => run'[k] = run[k]
<1>1. r # Idle /\ r \in RunStates BY RecordIsAlive
<1>2. run'[l] = r BY DEF RunOK
<1>3. \A k \in Runs : k # l => run'[k] = run[k] BY DEF RunOK
<1>4. run' \in [Runs -> RunStates] BY <1>1 DEF RunOK
<1> QED BY <1>1, <1>2, <1>3, <1>4 DEF RunOK, Alive

\* A run moves to another stage with its threads as they are.
LEMMA Moves ==
  ASSUME RunOK, NEW l \in Runs, Alive(l), NEW s \in Stages, Goes(l, s)
  PROVE  /\ RunOK' /\ Alive(l)' /\ run'[l].pc = s
         /\ run'[l].size = run[l].size /\ run'[l].thread = run[l].thread
         /\ run'[l].seen = run[l].seen /\ run'[l].target = run[l].target
         /\ \A k \in Runs : k # l => run'[k] = run[k]
<1> DEFINE r == [run[l] EXCEPT !.pc = s]
<1>1. run[l] \in RunRecords /\ InBounds(run[l]) BY RunIsRecord
<1>2. r \in RunRecords BY <1>1 DEF RunRecords
<1>3. r.pc = s /\ r.size = run[l].size /\ r.thread = run[l].thread
      /\ r.seen = run[l].seen /\ r.target = run[l].target
  BY <1>1 DEF RunRecords
<1>4. InBounds(r) BY <1>1, <1>3 DEF InBounds
<1>5. run' = [run EXCEPT ![l] = r] BY DEF Goes
<1> QED BY <1>2, <1>3, <1>4, <1>5, RunBecomes

\* One thread of a run moves, and the rest of the run stays as it is.
LEMMA ThreadMoves ==
  ASSUME RunOK, NEW l \in Runs, Alive(l), NEW ch \in Channels, NEW t \in Threads,
         t.cursor \in Positions(ch), run' = [run EXCEPT ![l].thread[ch] = t]
  PROVE  /\ RunOK' /\ Alive(l)' /\ run'[l].thread[ch] = t
         /\ run'[l].pc = run[l].pc /\ run'[l].size = run[l].size
         /\ run'[l].seen = run[l].seen /\ run'[l].target = run[l].target
         /\ \A c \in Channels : c # ch => run'[l].thread[c] = run[l].thread[c]
         /\ \A k \in Runs : k # l => run'[k] = run[k]
<1> DEFINE th == [run[l].thread EXCEPT ![ch] = t]
           r  == [run[l] EXCEPT !.thread = th]
<1>1. run[l] \in RunRecords /\ InBounds(run[l]) BY RunIsRecord
<1>2. run[l].thread \in [Channels -> Threads] BY <1>1 DEF RunRecords
<1>3. th \in [Channels -> Threads] /\ th[ch] = t
      /\ \A c \in Channels : c # ch => th[c] = run[l].thread[c]
  BY <1>2
<1> HIDE DEF th
<1>4. r \in RunRecords BY <1>1, <1>3 DEF RunRecords
<1>5. r.pc = run[l].pc /\ r.size = run[l].size /\ r.thread = th
      /\ r.seen = run[l].seen /\ r.target = run[l].target
  BY <1>1 DEF RunRecords
<1>6. InBounds(r) BY <1>1, <1>3, <1>5 DEF InBounds
<1>7. run' = [run EXCEPT ![l] = r] BY DEF th
<1> HIDE DEF r
<1>8. /\ RunOK' /\ run'[l] = r /\ Alive(l)'
      /\ \A k \in Runs : k # l => run'[k] = run[k]
  BY <1>4, <1>6, <1>7, RunBecomes
<1> QED BY <1>3, <1>5, <1>8

\* A thread that goes on at its cursor, or is through with its channel.
LEMMA ThreadGoesOrEnds ==
  ASSUME RunOK, NEW l \in Runs, Alive(l), NEW ch \in Channels, NEW pc \in Busy \cup {"done", "failed"},
         ThreadGoes(l, ch, pc) \/ ThreadEnds(l, ch, pc)
  PROVE  \E t \in Threads : 
           /\ t.pc = pc /\ t.cursor \in Positions(ch)
           /\ t.cursor = IF ThreadGoes(l, ch, pc) THEN Cursor(l, ch) ELSE 0
           /\ run' = [run EXCEPT ![l].thread[ch] = t]
<1>1. run[l] \in RunRecords /\ InBounds(run[l]) BY RunIsRecord
<1>2. run[l].thread[ch] \in Threads /\ Cursor(l, ch) \in Positions(ch)
  BY <1>1 DEF RunRecords, InBounds, Cursor
<1>3. CASE ThreadGoes(l, ch, pc)
  <2> DEFINE t == [run[l].thread[ch] EXCEPT !.pc = pc]
  <2>1. t \in Threads /\ t.pc = pc /\ t.cursor = Cursor(l, ch)
    BY <1>2 DEF Threads, Cursor
  <2>2. run' = [run EXCEPT ![l].thread[ch] = t] BY <1>3 DEF ThreadGoes
  <2> QED BY <1>2, <1>3, <2>1, <2>2
<1>4. CASE ~ThreadGoes(l, ch, pc)
  <2> DEFINE t == [Off EXCEPT !.pc = pc]
  <2>1. t \in Threads /\ t.pc = pc /\ t.cursor = 0 BY DEF Threads, Off
  <2>2. run' = [run EXCEPT ![l].thread[ch] = t] BY <1>4 DEF ThreadEnds
  <2> HIDE DEF t
  <2> QED BY <1>4, <2>1, <2>2, Numbers
<1> QED BY <1>3, <1>4

\* Where the thread is then.
LEMMA ThreadIsAt ==
  ASSUME RunOK, NEW l \in Runs, Alive(l), NEW ch \in Channels, NEW pc \in Busy \cup {"done", "failed"},
         ThreadGoes(l, ch, pc) \/ ThreadEnds(l, ch, pc)
  PROVE  run'[l].thread[ch].pc = pc
<1>1. PICK t \in Threads : /\ t.pc = pc /\ t.cursor \in Positions(ch)
                           /\ run' = [run EXCEPT ![l].thread[ch] = t]
  BY ThreadGoesOrEnds
<1>2. run'[l].thread[ch] = t BY <1>1, ThreadMoves
<1> QED BY <1>1, <1>2

\* A run that ends is the idle marker, and no event of the job is left.
LEMMA RunEnds ==
  ASSUME RunOK, NEW l \in Runs, Ends(l)
  PROVE  /\ RunOK' /\ ~Alive(l)' /\ events' = {}
         /\ \A k \in Runs : k # l => run'[k] = run[k]
BY DEF RunOK, Ends, Alive, RunStates, InBounds

\* A launch is of a run of that size with no thread yet.
LEMMA RunLaunched ==
  ASSUME RunOK, mixed \in BOOLEAN, NEW l \in Runs, NEW size \in Sizes, Launch(l, size)
  PROVE  /\ RunOK' /\ Alive(l)' /\ run'[l].pc = "load" /\ run'[l].size = size
         /\ \A ch \in Channels : run'[l].thread[ch] = Off
         /\ \A k \in Runs : k # l => run'[k] = run[k]
         /\ mixed' \in BOOLEAN
<1> DEFINE th == [ch \in Channels |-> Off]
           r  == [pc |-> "load", size |-> size, seen |-> "PENDING", target |-> "PENDING", thread |-> th]
<1>1. th \in [Channels -> Threads] /\ \A ch \in Channels : th[ch].cursor \in Positions(ch)
  BY Numbers DEF Threads, Off
<1>2. r \in RunRecords /\ InBounds(r) BY <1>1 DEF RunRecords, Stages, Statuses, InBounds
<1>3. run' = [run EXCEPT ![l] = r] BY DEF Launch
<1>4. mixed' \in BOOLEAN BY DEF Launch
<1>5. r.pc = "load" /\ r.size = size /\ \A ch \in Channels : r.thread[ch] = Off
  OBVIOUS
<1> HIDE DEF r
<1>6. /\ RunOK' /\ run'[l] = r /\ Alive(l)'
      /\ \A k \in Runs : k # l => run'[k] = run[k]
  BY <1>2, <1>3, RunBecomes
<1> QED BY <1>4, <1>5, <1>6

\* Where a page of a run ends.
LEMMA PageEndType ==
  ASSUME RunOK, NEW l \in Runs, NEW ch \in Channels, Alive(l)
  PROVE  /\ Cursor(l, ch) \in Positions(ch) /\ PageEnd(l, ch) \in Positions(ch)
         /\ Cursor(l, ch) <= PageEnd(l, ch)
         /\ PageEnd(l, ch) <= Cursor(l, ch) + run[l].size
         /\ HasMore(l, ch) => PageEnd(l, ch) > Cursor(l, ch)
         /\ ~HasMore(l, ch) => PageEnd(l, ch) = Length[ch]
         /\ run[l].size \in Nat
<1>1. run[l].size \in Nat /\ run[l].size > 0 /\ Cursor(l, ch) \in Positions(ch)
  BY RunIsRecord, Numbers DEF RunRecords, InBounds, Cursor
<1> QED BY <1>1, LengthAssumption DEF PageEnd, FullPage, HasMore, Positions


-----------------------------------------------------------------------------
(***************************************************************************)
(* Type correctness.                                                       *)
(***************************************************************************)

LEMMA TypeInit == Init => TypeOK
<1> SUFFICES ASSUME Init PROVE TypeOK
  OBVIOUS
<1>1. RunOK BY DEF Init, RunOK, RunStates, Alive
<1>2. job \in Jobs BY DEF Init, NoRow, Jobs, Controls
<1>3. StoresOK BY Numbers DEF Init, StoresOK
<1>4. RestOK BY DEF Init, RestOK, NoRequest, RequestSteps, SweepSteps
<1> QED BY <1>1, <1>2, <1>3, <1>4, TypeParts

\* A status write keeps the row in its type.
LEMMA StatusType ==
  ASSUME job \in Jobs, NEW s \in Statuses, WriteStatus(s)
  PROVE  job' \in Jobs /\ job'.status = s /\ job'.control = job.control
         /\ job'.owned = job.owned /\ job'.rows = job.rows
BY DEF WriteStatus, Jobs

\* The plan gives every channel that is not complete a thread at its checkpoint.
LEMMA Planned ==
  ASSUME RunOK, StoresOK, NEW l \in Runs, Plan(l)
  PROVE  /\ RunOK' /\ Alive(l) /\ Alive(l)' /\ run'[l].pc = "work" /\ run'[l].size = run[l].size
         /\ run'[l].seen = run[l].seen /\ run'[l].target = run[l].target
         /\ \A ch \in Channels :
              /\ ckpt[ch].completed => run'[l].thread[ch].pc = "off"
              /\ ~ckpt[ch].completed => /\ run'[l].thread[ch].pc = "check"
                                        /\ run'[l].thread[ch].cursor = ckpt[ch].cursor
         /\ \A k \in Runs : k # l => run'[k] = run[k]
<1> DEFINE th == [ch \in Channels |->
                     IF ckpt[ch].completed THEN Off
                     ELSE [Off EXCEPT !.pc = "check", !.cursor = ckpt[ch].cursor]]
           r  == [run[l] EXCEPT !.pc = "work", !.thread = th]
<1>1. Alive(l) BY DEF Plan, At
<1>2. run[l] \in RunRecords /\ InBounds(run[l]) BY <1>1, RunIsRecord
<1>3. \A ch \in Channels :
        /\ th[ch] \in Threads /\ th[ch].cursor \in Positions(ch)
        /\ ckpt[ch].completed => th[ch].pc = "off"
        /\ ~ckpt[ch].completed => th[ch].pc = "check" /\ th[ch].cursor = ckpt[ch].cursor
  BY Numbers DEF Off, Threads, Busy, StoresOK
<1>4. th \in [Channels -> Threads] BY <1>3
<1>5. run' = [run EXCEPT ![l] = r] BY DEF Plan
<1> HIDE DEF th
<1>6. r \in RunRecords /\ r.pc = "work" /\ r.size = run[l].size /\ r.thread = th
      /\ r.seen = run[l].seen /\ r.target = run[l].target
  BY <1>2, <1>4 DEF RunRecords, Stages
<1>7. InBounds(r) BY <1>3, <1>6 DEF InBounds
<1> HIDE DEF r
<1>8. /\ RunOK' /\ run'[l] = r /\ Alive(l)'
      /\ \A k \in Runs : k # l => run'[k] = run[k]
  BY <1>5, <1>6, <1>7, RunBecomes
<1> QED BY <1>1, <1>3, <1>6, <1>8

\* A run turns into a record with the same threads and page size.
LEMMA Turns ==
  ASSUME RunOK, NEW l \in Runs, Alive(l), NEW r \in RunRecords,
         r.thread = run[l].thread, r.size = run[l].size, run' = [run EXCEPT ![l] = r]
  PROVE  /\ RunOK' /\ Alive(l)' /\ run'[l] = r
         /\ \A k \in Runs : k # l => run'[k] = run[k]
<1>1. InBounds(run[l]) BY RunIsRecord
<1>2. InBounds(r) BY <1>1 DEF InBounds
<1> QED BY <1>2, RunBecomes

\* A run that decides keeps the status it read.
LEMMA Decided ==
  ASSUME RunOK, NEW l \in Runs, Alive(l), NEW status \in Statuses, Decides(l, status)
  PROVE  /\ RunOK' /\ Alive(l)' /\ run'[l].pc = "settle" /\ run'[l].target = status
         /\ run'[l].seen = run[l].seen /\ run'[l].size = run[l].size
         /\ run'[l].thread = run[l].thread
         /\ \A k \in Runs : k # l => run'[k] = run[k]
<1> DEFINE r == [run[l] EXCEPT !.pc = "settle", !.target = status]
<1>1. run[l] \in RunRecords BY RunIsRecord
<1>2. run' = [run EXCEPT ![l] = r] BY DEF Decides
<1>3. /\ r \in RunRecords /\ r.pc = "settle" /\ r.target = status /\ r.seen = run[l].seen
      /\ r.size = run[l].size /\ r.thread = run[l].thread
  BY <1>1 DEF RunRecords, Stages
<1> HIDE DEF r
<1>4. /\ RunOK' /\ Alive(l)' /\ run'[l] = r /\ \A k \in Runs : k # l => run'[k] = run[k]
  BY <1>2, <1>3, Turns
<1> QED BY <1>3, <1>4

\* The row is read at the end of a run.
LEMMA StatusRead ==
  ASSUME RunOK, job \in Jobs, Exists, NEW l \in Runs, ReadStatus(l)
  PROVE  /\ RunOK' /\ Alive(l) /\ Alive(l)' /\ run'[l].pc = "cancel" /\ run'[l].seen = job.status
         /\ run'[l].size = run[l].size /\ run'[l].thread = run[l].thread
         /\ \A k \in Runs : k # l => run'[k] = run[k]
<1> DEFINE r == [run[l] EXCEPT !.pc = "cancel", !.seen = job.status]
<1>1. Alive(l) BY DEF ReadStatus, At
<1>2. run[l] \in RunRecords BY <1>1, RunIsRecord
<1>3. run' = [run EXCEPT ![l] = r] BY DEF ReadStatus
<1>4. /\ r \in RunRecords /\ r.pc = "cancel" /\ r.seen = job.status
      /\ r.size = run[l].size /\ r.thread = run[l].thread
  BY <1>2 DEF RunRecords, Stages, Exists
<1> HIDE DEF r
<1>5. /\ RunOK' /\ Alive(l)' /\ run'[l] = r /\ \A k \in Runs : k # l => run'[k] = run[k]
  BY <1>1, <1>3, <1>4, Turns
<1> QED BY <1>1, <1>4, <1>5

\* The error boundary reads it, and is to write FAILED.
LEMMA Failed ==
  ASSUME RunOK, job \in Jobs, Exists, NEW l \in Runs, Fail(l)
  PROVE  /\ RunOK' /\ Alive(l) /\ Alive(l)' /\ run'[l].pc = "except" /\ run'[l].seen = job.status
         /\ run'[l].target = "FAILED"
         /\ run'[l].size = run[l].size /\ run'[l].thread = run[l].thread
         /\ \A k \in Runs : k # l => run'[k] = run[k]
<1> DEFINE r == [run[l] EXCEPT !.pc = "except", !.seen = job.status, !.target = "FAILED"]
<1>1. Alive(l) BY DEF Fail, At
<1>2. run[l] \in RunRecords BY <1>1, RunIsRecord
<1>3. run' = [run EXCEPT ![l] = r] BY DEF Fail
<1>4. /\ r \in RunRecords /\ r.pc = "except" /\ r.seen = job.status /\ r.target = "FAILED"
      /\ r.size = run[l].size /\ r.thread = run[l].thread
  BY <1>2 DEF RunRecords, Stages, Exists, Statuses
<1> HIDE DEF r
<1>5. /\ RunOK' /\ Alive(l)' /\ run'[l] = r /\ \A k \in Runs : k # l => run'[k] = run[k]
  BY <1>1, <1>3, <1>4, Turns
<1> QED BY <1>1, <1>4, <1>5

Verdicts == {"CANCELLED", "PAUSED", "FAILED", "COMPLETED"}

\* Whether it was cancelled, and if not, whether it was paused.
LEMMA CancelRead ==
  ASSUME RunOK, NEW l \in Runs, ReadCancel(l)
  PROVE  /\ RunOK' /\ Alive(l) /\ Alive(l)'
         /\ \/ run'[l].pc = "settle" /\ run'[l].target = "CANCELLED"
            \/ run'[l].pc = "pause" /\ run'[l].target = run[l].target
         /\ run'[l].seen = run[l].seen
         /\ run'[l].size = run[l].size /\ run'[l].thread = run[l].thread
         /\ \A k \in Runs : k # l => run'[k] = run[k]
<1>1. Alive(l) BY DEF ReadCancel, At
<1>2. CASE Decides(l, "CANCELLED") BY <1>1, <1>2, Decided DEF Statuses
<1>3. CASE Goes(l, "pause") BY <1>1, <1>3, Moves DEF Stages
<1> QED BY <1>2, <1>3 DEF ReadCancel

LEMMA PauseRead ==
  ASSUME RunOK, NEW l \in Runs, ReadPause(l)
  PROVE  /\ RunOK' /\ Alive(l) /\ Alive(l)' /\ run'[l].pc = "settle"
         /\ run'[l].target = Verdict({ch \in Channels : ThreadAt(l, ch, "failed")})
         /\ run'[l].target \in Verdicts
         /\ run'[l].seen = run[l].seen
         /\ run'[l].size = run[l].size /\ run'[l].thread = run[l].thread
         /\ \A k \in Runs : k # l => run'[k] = run[k]
<1> DEFINE v == Verdict({ch \in Channels : ThreadAt(l, ch, "failed")})
<1>1. Alive(l) BY DEF ReadPause, At
<1>2. v \in Verdicts BY DEF Verdict, Verdicts
<1>3. v \in Statuses BY <1>2 DEF Verdicts, Statuses
<1>4. Decides(l, v) BY DEF ReadPause
<1> HIDE DEF v
<1>5. /\ RunOK' /\ Alive(l)' /\ run'[l].pc = "settle" /\ run'[l].target = v
      /\ run'[l].seen = run[l].seen /\ run'[l].size = run[l].size
      /\ run'[l].thread = run[l].thread
      /\ \A k \in Runs : k # l => run'[k] = run[k]
  BY <1>1, <1>3, <1>4, Decided
<1> QED BY <1>1, <1>2, <1>5 DEF v

\* A failure is counted.
LEMMA FailureType ==
  ASSUME RestOK, Failing
  PROVE  spent' \in [crashes : Nat, failures : Nat, requests : Nat]
BY DEF RestOK, Failing

\* The steps of a run keep the types.
LEMMA RunStepType ==
  ASSUME TypeOK, RunHasRow, NEW l \in Runs,
         \/ Load(l) \/ Begin(l) \/ Claim(l) \/ Plan(l)
         \/ ReadStatus(l) \/ ReadCancel(l) \/ ReadPause(l) \/ Settle(l)
         \/ Fail(l) \/ HandleException(l) \/ SwallowException(l)
  PROVE  TypeOK' /\ RunHasRow'
<1>0. RunOK /\ job \in Jobs /\ StoresOK /\ RestOK BY TypeParts
<1>1. Alive(l)
  BY DEF Load, Begin, Claim, Plan, ReadStatus, ReadCancel, ReadPause, Settle, Fail,
         HandleException, SwallowException, At
<1>2. Exists BY <1>1 DEF RunHasRow, Working
<1> SUFFICES RunOK' /\ job' \in Jobs /\ StoresOK' /\ RestOK' /\ Exists'
  BY TypePartsNext DEF RunHasRow
<1> USE DEF saved, history
<1>3. CASE Load(l)
  <2>1. RunOK' BY <1>0, <1>1, <1>3, Moves DEF Load, Stages
  <2> QED BY <1>0, <1>2, <1>3, <2>1 DEF Load, StoresOK, RestOK, Exists
<1>4. CASE Begin(l)
  <2>1. RunOK' BY <1>0, <1>1, <1>4, Moves DEF Begin, Stages
  <2>2. job' \in Jobs /\ Exists'
    BY <1>0, <1>4, StatusType DEF Begin, Statuses, Exists
  <2> QED BY <1>0, <1>4, <2>1, <2>2 DEF Begin, StoresOK, RestOK
<1>5. CASE Claim(l)
  <2>1. RunOK' BY <1>0, <1>1, <1>5, Moves DEF Claim, Stages
  <2>2. job' \in Jobs /\ Exists' BY <1>0, <1>2, <1>5 DEF Claim, Jobs, Exists
  <2> QED BY <1>0, <1>5, <2>1, <2>2 DEF Claim, StoresOK, RestOK
<1>6. CASE Plan(l)
  <2>1. RunOK' BY <1>0, <1>6, Planned
  <2> QED BY <1>0, <1>2, <1>6, <2>1 DEF Plan, StoresOK, RestOK, Exists
<1>7. CASE ReadStatus(l)
  <2>1. RunOK' BY <1>0, <1>2, <1>7, StatusRead
  <2> QED BY <1>0, <1>2, <1>7, <2>1 DEF ReadStatus, StoresOK, RestOK, Exists
<1>8. CASE ReadCancel(l)
  <2>1. RunOK' BY <1>0, <1>8, CancelRead
  <2> QED BY <1>0, <1>2, <1>8, <2>1 DEF ReadCancel, StoresOK, RestOK, Exists
<1>9. CASE ReadPause(l)
  <2>1. RunOK' BY <1>0, <1>9, PauseRead
  <2> QED BY <1>0, <1>2, <1>9, <2>1 DEF ReadPause, StoresOK, RestOK, Exists
<1>10. CASE Settle(l)
  <2>1. RunOK' /\ events' = {} BY <1>0, <1>10, RunEnds DEF Settle
  <2>2. run[l].target \in Statuses BY <1>0, <1>1, RunIsRecord DEF RunRecords
  <2>3. job' \in Jobs /\ Exists'
    BY <1>0, <1>2, <1>10, <2>2, StatusType DEF Settle, Exists
  <2> QED BY <1>0, <1>10, <2>1, <2>3 DEF Settle, StoresOK, RestOK
<1>11. CASE Fail(l)
  <2>1. RunOK' BY <1>0, <1>2, <1>11, Failed
  <2>2. spent' \in [crashes : Nat, failures : Nat, requests : Nat]
    BY <1>0, <1>11, FailureType DEF Fail, RestOK
  <2> QED BY <1>0, <1>2, <1>11, <2>1, <2>2 DEF Fail, StoresOK, RestOK, Exists
<1>12. CASE HandleException(l)
  <2>1. RunOK' /\ events' = {} BY <1>0, <1>12, RunEnds DEF HandleException
  <2>2. job' \in Jobs /\ Exists'
    BY <1>0, <1>2, <1>12, StatusType DEF HandleException, Statuses, Exists
  <2> QED BY <1>0, <1>12, <2>1, <2>2 DEF HandleException, StoresOK, RestOK
<1>13. CASE SwallowException(l)
  <2>1. RunOK' /\ events' = {} BY <1>0, <1>13, RunEnds DEF SwallowException
  <2>2. spent' \in [crashes : Nat, failures : Nat, requests : Nat]
    BY <1>0, <1>13, FailureType DEF SwallowException
  <2> QED BY <1>0, <1>2, <1>13, <2>1, <2>2 DEF SwallowException, StoresOK, RestOK, Exists
<1> QED
  BY <1>3, <1>4, <1>5, <1>6, <1>7, <1>8, <1>9, <1>10, <1>11, <1>12, <1>13

\* What the step of a thread does to the threads: it alone moves, and where to.
LEMMA ThreadStepMoves ==
  ASSUME RunOK, NEW l \in Runs, NEW ch \in Channels, ThreadStep(l, ch)
  PROVE  /\ RunOK' /\ Alive(l) /\ Alive(l)' /\ Active(l, ch)
         /\ run'[l].pc = run[l].pc /\ run'[l].size = run[l].size
         /\ run'[l].seen = run[l].seen /\ run'[l].target = run[l].target
         /\ \A c \in Channels : c # ch => run'[l].thread[c] = run[l].thread[c]
         /\ \A k \in Runs : k # l => run'[k] = run[k]
         /\ ~SavePage(l, ch) /\ Active(l, ch)' => Cursor(l, ch)' = Cursor(l, ch)
         /\ SavePage(l, ch) /\ Active(l, ch)' =>
              Cursor(l, ch)' = PageEnd(l, ch) /\ HasMore(l, ch)
<1> DEFINE Goal(t) ==
             /\ t \in Threads /\ t.cursor \in Positions(ch)
             /\ run' = [run EXCEPT ![l].thread[ch] = t]
             /\ ~SavePage(l, ch) /\ t.pc \in Busy => t.cursor = Cursor(l, ch)
             /\ SavePage(l, ch) /\ t.pc \in Busy => t.cursor = PageEnd(l, ch) /\ HasMore(l, ch)
<1>1. Alive(l) /\ Active(l, ch)
  BY DEF ThreadStep, CheckStop, LandPage, LoadPage, SavePage, ThreadFails, ThreadAt, Active, Busy
<1>2. \E t : Goal(t)
  <2>1. CASE SavePage(l, ch) /\ HasMore(l, ch)
    <3> DEFINE t == [Off EXCEPT !.pc = "check", !.cursor = PageEnd(l, ch)]
    <3>1. PageEnd(l, ch) \in Positions(ch) /\ PageEnd(l, ch) \in Nat
      BY <1>1, PageEndType, Numbers
    <3>2. t \in Threads /\ t.pc = "check" /\ t.cursor = PageEnd(l, ch)
      BY <3>1 DEF Off, Threads, Busy
    <3>3. run' = [run EXCEPT ![l].thread[ch] = t] BY <2>1 DEF SavePage
    <3> HIDE DEF t
    <3> QED BY <2>1, <3>1, <3>2, <3>3
  <2>2. CASE SavePage(l, ch) /\ ~HasMore(l, ch)
    <3>1. ThreadEnds(l, ch, "done") BY <2>2 DEF SavePage
    <3>2. PICK t \in Threads : /\ t.pc = "done" /\ t.cursor \in Positions(ch)
                               /\ run' = [run EXCEPT ![l].thread[ch] = t]
      BY <1>1, <3>1, ThreadGoesOrEnds
    <3> QED BY <2>2, <3>2 DEF Busy
  <2>3. CASE ~SavePage(l, ch)
    <3>1. \E pc \in Busy \cup {"done", "failed"} :
            ThreadGoes(l, ch, pc) \/ (pc \notin Busy /\ ThreadEnds(l, ch, pc))
      BY <2>3 DEF ThreadStep, CheckStop, LandPage, LoadPage, ThreadFails, Busy
    <3>2. PICK pc \in Busy \cup {"done", "failed"} :
            ThreadGoes(l, ch, pc) \/ (pc \notin Busy /\ ThreadEnds(l, ch, pc))
      BY <3>1
    <3>3. PICK t \in Threads :
            /\ t.pc = pc /\ t.cursor \in Positions(ch)
            /\ t.cursor = IF ThreadGoes(l, ch, pc) THEN Cursor(l, ch) ELSE 0
            /\ run' = [run EXCEPT ![l].thread[ch] = t]
      BY <1>1, <3>2, ThreadGoesOrEnds
    <3> QED BY <2>3, <3>2, <3>3
  <2> QED BY <2>1, <2>2, <2>3
<1>3. PICK t : Goal(t) BY <1>2
<1>4. /\ RunOK' /\ Alive(l)' /\ run'[l].thread[ch] = t
      /\ run'[l].pc = run[l].pc /\ run'[l].size = run[l].size
      /\ run'[l].seen = run[l].seen /\ run'[l].target = run[l].target
      /\ \A c \in Channels : c # ch => run'[l].thread[c] = run[l].thread[c]
      /\ \A k \in Runs : k # l => run'[k] = run[k]
  BY <1>1, <1>3, ThreadMoves
<1>5. Active(l, ch)' => t.pc \in Busy BY <1>4 DEF Active
<1>6. Cursor(l, ch)' = t.cursor BY <1>4 DEF Cursor
<1> QED BY <1>1, <1>3, <1>4, <1>5, <1>6

\* The steps of a thread keep the types.
LEMMA ThreadStepType ==
  ASSUME TypeOK, RunHasRow, NEW l \in Runs, NEW ch \in Channels, ThreadStep(l, ch)
  PROVE  TypeOK' /\ RunHasRow'
<1>0. RunOK /\ job \in Jobs /\ StoresOK /\ RestOK BY TypeParts
<1>1. RunOK' /\ Alive(l) BY <1>0, ThreadStepMoves
<1>2. Exists BY <1>1 DEF RunHasRow, Working
<1>a. /\ Cursor(l, ch) \in Positions(ch) /\ PageEnd(l, ch) \in Positions(ch)
      /\ Cursor(l, ch) \in Nat /\ PageEnd(l, ch) \in Nat /\ Cursor(l, ch) <= PageEnd(l, ch)
  BY <1>0, <1>1, PageEndType, Numbers
<1> SUFFICES job' \in Jobs /\ StoresOK' /\ RestOK' /\ Exists'
  BY <1>1, TypePartsNext DEF RunHasRow
<1> USE DEF saved, history
<1>3. CASE CheckStop(l, ch)
  BY <1>0, <1>2, <1>3 DEF CheckStop, StoresOK, RestOK, Exists
<1>4. CASE LandPage(l, ch)
  <2>1. file' = [c \in Channels |-> file'[c]] /\ file'[ch] \in [Positions(ch) -> Positions(ch)]
        /\ \A c \in Channels : c # ch => file'[c] = file[c]
    BY <1>0, <1>a, <1>4 DEF LandPage, StoresOK, PartOf
  <2>2. StoresOK' BY <1>0, <1>4, <2>1 DEF LandPage, StoresOK
  <2> QED BY <1>0, <1>2, <1>4, <2>2 DEF LandPage, RestOK, Exists
<1>5. CASE LoadPage(l, ch)
  <2>1. PartRows(l, ch) \subseteq Positions(ch)
    <3>1. file[ch][PartOf(l, ch)] \in Positions(ch) BY <1>0, <1>a DEF StoresOK, PartOf
    <3> QED BY <1>a, <3>1, Numbers DEF PartRows, Positions
  <2>2. table' \in [Channels -> SUBSET Nat] /\ table'[ch] \subseteq Positions(ch)
        /\ \A c \in Channels : c # ch => table'[c] = table[c]
    BY <1>0, <1>5, <2>1, Numbers DEF LoadPage, StoresOK
  <2>3. StoresOK' BY <1>0, <1>5, <2>2 DEF LoadPage, StoresOK
  <2> QED BY <1>0, <1>2, <1>5, <2>3 DEF LoadPage, RestOK, Exists
<1>6. CASE SavePage(l, ch)
  <2>1. job' \in Jobs /\ Exists'
    BY <1>0, <1>2, <1>a, <1>6 DEF SavePage, Jobs, Exists
  <2>2. ckpt' \in [Channels -> [cursor : Nat, completed : BOOLEAN]]
        /\ \A c \in Channels : ckpt'[c].cursor \in Positions(c)
    <3>1. ckpt' = [ckpt EXCEPT ![ch] = IF HasMore(l, ch)
                     THEN [cursor |-> PageEnd(l, ch), completed |-> FALSE]
                     ELSE [cursor |-> 0, completed |-> TRUE]]
      BY <1>6 DEF SavePage
    <3> QED BY <1>0, <1>a, <3>1, Numbers DEF StoresOK
  <2> QED BY <1>0, <1>6, <2>1, <2>2 DEF SavePage, StoresOK, RestOK
<1>7. CASE ThreadFails(l, ch)
  <2>1. spent' \in [crashes : Nat, failures : Nat, requests : Nat]
    BY <1>0, <1>7, FailureType DEF ThreadFails
  <2> QED BY <1>0, <1>2, <1>7, <2>1 DEF ThreadFails, StoresOK, RestOK, Exists
<1> QED BY <1>3, <1>4, <1>5, <1>6, <1>7 DEF ThreadStep

\* A launch keeps the types of what it changes.
LEMMA LaunchType ==
  ASSUME RunOK, RestOK, NEW l \in Runs, NEW size \in Sizes, Launch(l, size)
  PROVE  RunOK' /\ mixed' \in BOOLEAN
BY RunLaunched DEF RestOK

\* A request that is at some step is one.
LEMMA RequestIsOne ==
  ASSUME RestOK, NEW c \in Clients, request[c].step # "none"
  PROVE  request[c] # NoRequest
BY DEF NoRequest

\* Requests keep the types.
LEMMA ApiType ==
  ASSUME TypeOK, RunHasRow, NEW c \in Clients, Ask(c) \/ Answer(c)
  PROVE  TypeOK' /\ RunHasRow'
<1>0. RunOK /\ job \in Jobs /\ StoresOK /\ RestOK BY TypeParts
<1> USE DEF saved, history
<1> DEFINE Requests == [Clients -> [step : RequestSteps, live : BOOLEAN]]
           Bounds   == [crashes : Nat, failures : Nat, requests : Nat]
<1>a. ASSUME UNCHANGED run PROVE RunOK' BY <1>0, <1>a DEF RunOK, Alive, InBounds
<1>b. ASSUME UNCHANGED saved PROVE StoresOK' BY <1>0, <1>b DEF StoresOK
<1>c. ASSUME NEW other \in BOOLEAN, ContestedIf(other) PROVE contested' \in BOOLEAN
  BY <1>0, <1>c DEF ContestedIf, RestOK
<1>d. ASSUME Free(c) PROVE spent' \in Bounds BY <1>0, <1>d DEF Free, RestOK
<1>e. ASSUME NEW step \in RequestSteps, Asks(c, step) PROVE request' \in Requests
  BY <1>0, <1>e DEF Asks, RestOK
<1>f. ASSUME Answered(c) PROVE request' \in Requests
  BY <1>0, <1>f DEF Answered, NoRequest, RestOK, RequestSteps
<1>g. request[c].step # "none" => Exists BY <1>0, RequestIsOne DEF RunHasRow
<1>h. ASSUME Exists' PROVE RunHasRow' BY <1>h DEF RunHasRow
<1>i. Working \in BOOLEAN /\ Taken \in BOOLEAN BY DEF Working, Taken
<1>1. CASE Start(c)
  <2>1. job' \in Jobs /\ Exists' BY <1>0, <1>1, StatusType DEF Start, Statuses, Exists
  <2>2. request' \in Requests BY <1>1, <1>e DEF Start, RequestSteps
  <2> QED BY <1>0, <1>1, <1>a, <1>b, <1>h, <2>1, <2>2, TypePartsNext DEF Start, RestOK
<1>2. CASE RequestPause(c) \/ RequestResume(c)
  <2>1. request' \in Requests
    BY <1>2, <1>e DEF RequestPause, RequestResume, RequestSteps
  <2>2. Exists' /\ job' = job BY <1>2 DEF RequestPause, RequestResume, Exists, Statuses
  <2>3. spent' \in Bounds BY <1>2, <1>d DEF RequestPause, RequestResume
  <2> QED BY <1>0, <1>2, <1>a, <1>b, <1>h, <2>1, <2>2, <2>3, TypePartsNext
      DEF RequestPause, RequestResume, RestOK
<1>3. CASE RequestCancel(c)
  <2>1. request' \in Requests BY <1>0, <1>3 DEF RequestCancel, RestOK, RequestSteps
  <2>2. spent' \in Bounds BY <1>3, <1>d DEF RequestCancel
  <2>3. Exists' /\ job' = job BY <1>3 DEF RequestCancel, Exists
  <2> QED BY <1>0, <1>3, <1>a, <1>b, <1>h, <2>1, <2>2, <2>3, TypePartsNext
      DEF RequestCancel, RestOK
<1>4. CASE LaunchStarted(c)
  <2>1. RunOK' /\ mixed' \in BOOLEAN BY <1>0, <1>4, LaunchType DEF LaunchStarted
  <2>2. Exists' BY <1>4, <1>g DEF LaunchStarted, Exists
  <2>3. request' \in Requests BY <1>4, <1>f DEF LaunchStarted
  <2> QED BY <1>0, <1>4, <1>b, <1>h, <2>1, <2>2, <2>3, TypePartsNext DEF LaunchStarted, RestOK
<1>5. CASE SetPauseEvent(c) \/ SetCancelEvents(c)
  <2>1. request' \in Requests
    BY <1>5, <1>e DEF SetPauseEvent, SetCancelEvents, RequestSteps
  <2>2. Exists' BY <1>5, <1>g DEF SetPauseEvent, SetCancelEvents, Exists
  <2> QED BY <1>0, <1>5, <1>a, <1>b, <1>h, <2>1, <2>2, TypePartsNext
      DEF SetPauseEvent, SetCancelEvents, RestOK
<1>6. CASE StorePause(c) \/ StoreCancel(c)
  <2>1. job' \in Jobs /\ job'.status = job.status
    BY <1>0, <1>6 DEF StorePause, StoreCancel, Jobs, Controls
  <2>2. request' \in Requests
    BY <1>6, <1>e, <1>f DEF StorePause, StoreCancel, RequestSteps
  <2>3. Exists' BY <1>6, <1>g, <2>1 DEF StorePause, StoreCancel, Exists
  <2> QED BY <1>0, <1>6, <1>a, <1>b, <1>h, <2>1, <2>2, <2>3, TypePartsNext
      DEF StorePause, StoreCancel, RestOK
<1>7. CASE ClearEvents(c) \/ ClearControl(c)
  <2>1. job' \in Jobs /\ job'.status = job.status
    BY <1>0, <1>7 DEF ClearEvents, ClearControl, Jobs, Controls
  <2>2. request' \in Requests
    BY <1>7, <1>e DEF ClearEvents, ClearControl, RequestSteps
  <2>3. Exists' BY <1>7, <1>g, <2>1 DEF ClearEvents, ClearControl, Exists
  <2>4. contested' \in BOOLEAN BY <1>7, <1>c, <1>i DEF ClearEvents, ClearControl
  <2> QED BY <1>0, <1>7, <1>a, <1>b, <1>h, <2>1, <2>2, <2>3, <2>4, TypePartsNext
      DEF ClearEvents, ClearControl, RestOK
<1>8. CASE Resume(c)
  <2>1. job' \in Jobs /\ Exists' BY <1>0, <1>8, StatusType DEF Resume, Statuses, Exists
  <2>2. request' \in Requests BY <1>8, <1>e DEF Resume, RequestSteps
  <2>3. contested' \in BOOLEAN BY <1>8, <1>c, <1>i DEF Resume
  <2> QED BY <1>0, <1>8, <1>a, <1>b, <1>h, <2>1, <2>2, <2>3, TypePartsNext DEF Resume, RestOK
<1>9. CASE LaunchResumed(c)
  <2>1. RunOK' /\ mixed' \in BOOLEAN BY <1>0, <1>9, LaunchType, Numbers DEF LaunchResumed
  <2>2. Exists' BY <1>9, <1>g DEF LaunchResumed, Exists
  <2>3. request' \in Requests BY <1>9, <1>f DEF LaunchResumed
  <2> QED BY <1>0, <1>9, <1>b, <1>h, <2>1, <2>2, <2>3, TypePartsNext DEF LaunchResumed, RestOK
<1>10. CASE Cancel(c)
  <2>1. job' \in Jobs /\ Exists' BY <1>0, <1>10, StatusType DEF Cancel, Statuses, Exists
  <2>2. request' \in Requests BY <1>10, <1>f DEF Cancel
  <2> QED BY <1>0, <1>10, <1>a, <1>b, <1>h, <2>1, <2>2, TypePartsNext DEF Cancel, RestOK
<1>11. CASE RequestFails(c)
  <2>1. spent' \in Bounds BY <1>0, <1>11, FailureType DEF RequestFails
  <2>2. request' \in Requests BY <1>11, <1>f DEF RequestFails
  <2>3. Exists' BY <1>11 DEF RequestFails, RunHasRow, Exists
  <2>4. outage' \in BOOLEAN BY <1>0, <1>11 DEF RequestFails, RestOK
  <2> QED BY <1>0, <1>11, <1>a, <1>b, <1>h, <2>1, <2>2, <2>3, <2>4, TypePartsNext
      DEF RequestFails, RestOK
<1> QED
  BY <1>1, <1>2, <1>3, <1>4, <1>5, <1>6, <1>7, <1>8, <1>9, <1>10, <1>11 DEF Ask, Answer

\* The sweep and the process keep the types.
LEMMA SweepType ==
  ASSUME TypeOK, RunHasRow, Sweep \/ Crash \/ Restart
  PROVE  TypeOK' /\ RunHasRow'
<1>0. RunOK /\ job \in Jobs /\ StoresOK /\ RestOK BY TypeParts
<1> USE DEF saved, history
<1>a. ASSUME UNCHANGED run PROVE RunOK' BY <1>0, <1>a DEF RunOK, Alive, InBounds
<1>b. ASSUME UNCHANGED saved PROVE StoresOK' BY <1>0, <1>b DEF StoresOK
<1>g. sweep # "none" => Exists BY DEF RunHasRow
<1>h. ASSUME Exists' PROVE RunHasRow' BY <1>h DEF RunHasRow
<1>1. CASE TakeOver
  <2>1. job' \in Jobs /\ Exists' BY <1>0, <1>1 DEF TakeOver, Orphaned, Jobs, Exists, Statuses
  <2>2. contested' \in BOOLEAN BY <1>0, <1>1 DEF TakeOver, ContestedIf, RestOK, Taken
  <2> QED BY <1>0, <1>1, <1>a, <1>b, <1>h, <2>1, <2>2, TypePartsNext
      DEF TakeOver, RestOK, SweepSteps
<1>2. CASE ReadOrphan
  <2>1. sweep' \in SweepSteps /\ job' = job /\ Exists'
    <3>1. job' = job /\ Exists' BY <1>2, <1>g DEF ReadOrphan, Exists
    <3>2. sweep' \in {"cancel", "none", "pause", "launch"} BY <1>2 DEF ReadOrphan
    <3> QED BY <3>1, <3>2 DEF SweepSteps
  <2> QED BY <1>0, <1>2, <1>a, <1>b, <1>h, <2>1, TypePartsNext DEF ReadOrphan, RestOK
<1>3. CASE Honour
  <2>1. job' \in Jobs /\ Exists' BY <1>0, <1>3, StatusType DEF Honour, Statuses, Exists
  <2> QED BY <1>0, <1>3, <1>a, <1>b, <1>h, <2>1, TypePartsNext DEF Honour, RestOK, SweepSteps
<1>4. CASE ClearHonoured
  <2>1. job' \in Jobs /\ Exists' BY <1>0, <1>4, <1>g DEF ClearHonoured, Jobs, Controls, Exists
  <2> QED BY <1>0, <1>4, <1>a, <1>b, <1>h, <2>1, TypePartsNext
      DEF ClearHonoured, RestOK, SweepSteps
<1>5. CASE LaunchOrphan
  <2>1. RunOK' /\ mixed' \in BOOLEAN BY <1>0, <1>5, LaunchType, Numbers DEF LaunchOrphan
  <2>2. Exists' BY <1>5, <1>g DEF LaunchOrphan, Exists
  <2> QED BY <1>0, <1>5, <1>b, <1>h, <2>1, <2>2, TypePartsNext
      DEF LaunchOrphan, RestOK, SweepSteps
<1>6. CASE SweepFails
  <2>1. spent' \in [crashes : Nat, failures : Nat, requests : Nat]
    BY <1>0, <1>6, FailureType DEF SweepFails
  <2>2. Exists' /\ outage' \in BOOLEAN BY <1>0, <1>6, <1>g DEF SweepFails, Exists, RestOK
  <2> QED BY <1>0, <1>6, <1>a, <1>b, <1>h, <2>1, <2>2, TypePartsNext
      DEF SweepFails, RestOK, SweepSteps
<1>7. CASE Crash
  <2>1. RunOK' /\ ~Working' BY <1>7 DEF Crash, RunOK, RunStates, Alive, Working
  <2>2. job' \in Jobs BY <1>0, <1>7 DEF Crash, Jobs
  <2>3. RestOK'
    <3>1. request' \in [Clients -> [step : RequestSteps, live : BOOLEAN]]
      BY <1>7 DEF Crash, NoRequest, RequestSteps
    <3>2. spent' \in [crashes : Nat, failures : Nat, requests : Nat]
      BY <1>0, <1>7 DEF Crash, RestOK
    <3> QED BY <1>0, <1>7, <3>1, <3>2 DEF Crash, RestOK, SweepSteps
  <2>4. RunHasRow' BY <1>7, <2>1 DEF Crash, RunHasRow
  <2> QED BY <1>7, <1>b, <2>1, <2>2, <2>3, <2>4, TypePartsNext DEF Crash
<1>8. CASE Restart
  <2>1. RunHasRow' BY <1>8 DEF Restart, RunHasRow, Working, Alive, Exists
  <2> QED BY <1>0, <1>8, <1>a, <1>b, <2>1, TypePartsNext DEF Restart, RestOK
<1> QED BY <1>1, <1>2, <1>3, <1>4, <1>5, <1>6, <1>7, <1>8 DEF Sweep

LEMMA TypeNext ==
  ASSUME TypeOK, RunHasRow, [Next]_vars
  PROVE  TypeOK' /\ RunHasRow'
<1>1. CASE Next
  BY <1>1, RunStepType, ThreadStepType, ApiType, SweepType DEF Next, RunStep
<1>2. CASE UNCHANGED vars
  BY <1>2 DEF vars, TypeOK, RunHasRow, Working, Exists, Alive, Cursor
<1> QED BY <1>1, <1>2

\* Every reachable state is well typed: no cursor, part or loaded row lies
\* beyond its channel's last message, and a run, a request or the sweep always has
\* a row to write.
THEOREM TypeCorrect == Spec => [](TypeOK /\ RunHasRow)
<1>1. Init => TypeOK /\ RunHasRow BY TypeInit DEF Init, RunHasRow, Working, Alive
<1> QED BY <1>1, TypeNext, PTL DEF Spec

-----------------------------------------------------------------------------
(***************************************************************************)
(* A job shown as RUNNING is run.                                          *)
(***************************************************************************)

\* A run that will not leave its job RUNNING without a word: it writes the
\* status before it ends.
Carries(l) == Alive(l) /\ ~Resigned(l)

\* A request or the sweep that has the job and is to launch or to settle it.
Carried ==
  \/ \E c \in Clients : request[c].step = "launch"
  \/ sweep \in {"read", "cancel", "pause", "launch"}

Claimed == job.status = "RUNNING" /\ job.owned /\ ~outage

\* What a run is about to write.
Decision(l) ==
  /\ At(l, "settle") => run[l].target \in Verdicts
  /\ At(l, "except") => run[l].target = "FAILED"

\* RunInv is these two parts.
LEMMA RunInvParts ==
  RunInv <=> /\ \A l \in Runs : Decision(l)
             /\ Claimed => (\E l \in Runs : Carries(l)) \/ Carried
BY DEF RunInv, Decision, Claimed, Carries, Carried, Verdicts

LEMMA RunInvPartsNext ==
  ASSUME \A l \in Runs : Decision(l)', Claimed' => (\E l \in Runs : Carries(l)') \/ Carried'
  PROVE  RunInv'
BY DEF RunInv, Decision, Claimed, Carries, Carried, Verdicts

\* A run moves on, and either it carries its job or nobody had to.
LEMMA StepCarries ==
  ASSUME RunInv, NEW l \in Runs, Alive(l)',
         \A k \in Runs : k # l => run'[k] = run[k],
         Decision(l)',
         Claimed' => Carries(l)' \/ (Claimed /\ ~Carries(l) /\ (Carried => Carried'))
  PROVE  RunInv'
<1>1. \A k \in Runs : k # l => (Decision(k) => Decision(k)') /\ (Carries(k) => Carries(k)')
  BY DEF Decision, Carries, Resigned, MaySettle, At, Alive
<1> QED BY <1>1, RunInvParts, RunInvPartsNext

\* The end of a run takes the RUNNING it carried with it.
LEMMA EndCarries ==
  ASSUME TypeOK, RunInv, NEW l \in Runs, Ends(l), UNCHANGED <<request, sweep>>,
         Claimed' => Claimed /\ ~Carries(l)
  PROVE  RunInv'
<1>1. /\ ~Alive(l)' /\ \A k \in Runs : k # l => run'[k] = run[k]
  BY TypeParts, RunEnds
<1>2. \A k \in Runs : k # l => (Decision(k) => Decision(k)') /\ (Carries(k) => Carries(k)')
  BY <1>1 DEF Decision, Carries, Resigned, MaySettle, At, Alive
<1>3. Decision(l)' BY <1>1 DEF Decision, At
<1>4. Carried => Carried' BY DEF Carried
<1> QED BY <1>2, <1>3, <1>4, RunInvParts, RunInvPartsNext

\* A step that changes no run.
LEMMA StillCarried ==
  ASSUME RunInv, UNCHANGED run, Claimed' => Carried' \/ (Claimed /\ (Carried => Carried'))
  PROVE  RunInv'
<1>1. \A k \in Runs : (Decision(k) => Decision(k)') /\ (Carries(k) => Carries(k)')
  BY DEF Decision, Carries, Resigned, MaySettle, At, Alive
<1> QED BY <1>1, RunInvParts, RunInvPartsNext

\* A launch: the new run carries the job.
LEMMA LaunchCarries ==
  ASSUME TypeOK, RunInv, NEW l \in Runs, NEW size \in Sizes, Launch(l, size)
  PROVE  RunInv'
<1>1. /\ Alive(l)' /\ run'[l].pc = "load"
      /\ \A k \in Runs : k # l => run'[k] = run[k]
  BY TypeParts, RunLaunched DEF RestOK
<1>2. Carries(l)' /\ Decision(l)' BY <1>1 DEF Carries, Resigned, Decision, At
<1> QED BY <1>1, <1>2, StepCarries

LEMMA RunStepRuns ==
  ASSUME TypeOK, RunHasRow, RunInv, NEW l \in Runs, RunStep(l)
  PROVE  RunInv'
<1>0. RunOK /\ job \in Jobs /\ RestOK /\ StoresOK BY TypeParts
<1> USE DEF saved, history
<1>a. ASSUME Alive(l)', run'[l].pc \notin {"cancel", "pause", "settle", "except"},
             \A k \in Runs : k # l => run'[k] = run[k]
      PROVE  RunInv'
  <2>1. Carries(l)' /\ Decision(l)' BY <1>a DEF Carries, Resigned, Decision, At
  <2> QED BY <1>a, <2>1, StepCarries
<1>b. Alive(l) => Exists BY DEF RunHasRow, Working
<1>1. CASE Load(l) \/ Begin(l) \/ Claim(l)
  <2>1. /\ Alive(l) /\ \E s \in {"begin", "claim", "plan"} : Goes(l, s)
    BY <1>1 DEF Load, Begin, Claim, At
  <2>2. PICK s \in {"begin", "claim", "plan"} : Goes(l, s) BY <2>1
  <2>3. Alive(l)' /\ run'[l].pc = s /\ \A k \in Runs : k # l => run'[k] = run[k]
    BY <1>0, <2>1, <2>2, Moves DEF Stages
  <2> QED BY <1>a, <2>3
<1>2. CASE Plan(l)
  <2>1. Alive(l)' /\ run'[l].pc = "work" /\ \A k \in Runs : k # l => run'[k] = run[k]
    BY <1>0, <1>2, Planned
  <2> QED BY <1>a, <2>1
<1>3. ASSUME NEW ch \in Channels, ThreadStep(l, ch) PROVE RunInv'
  <2>1. /\ Alive(l) /\ Alive(l)' /\ run'[l].pc = run[l].pc
        /\ run'[l].seen = run[l].seen /\ run'[l].target = run[l].target
        /\ \A k \in Runs : k # l => run'[k] = run[k]
    BY <1>0, <1>3, ThreadStepMoves
  <2>2. job'.status = job.status /\ job'.owned = job.owned /\ outage' = outage
        /\ UNCHANGED <<request, sweep>>
    BY <1>0, <1>3 DEF ThreadStep, CheckStop, LandPage, LoadPage, SavePage, ThreadFails, Jobs
  <2>3. (Carries(l) => Carries(l)') /\ Decision(l)'
    BY <2>1, RunInvParts DEF At, Carries, Resigned, MaySettle, Decision
  <2> QED BY <2>1, <2>2, <2>3, StepCarries DEF Claimed, Carried
<1>4. CASE ReadStatus(l)
  <2>1. /\ Alive(l)' /\ run'[l].pc = "cancel" /\ run'[l].seen = job.status
        /\ \A k \in Runs : k # l => run'[k] = run[k]
    <3>1. Alive(l) BY <1>4 DEF ReadStatus, At
    <3> QED BY <1>0, <1>4, <1>b, <3>1, StatusRead
  <2>2. Decision(l)' /\ (Claimed' => Carries(l)')
    BY <1>4, <2>1 DEF ReadStatus, Decision, Claimed, Carries, Resigned, At
  <2> QED BY <2>1, <2>2, StepCarries
<1>5. CASE ReadCancel(l) \/ ReadPause(l)
  <2>1. /\ At(l, "cancel") \/ At(l, "pause")
        /\ UNCHANGED <<job, request, sweep, outage>>
    BY <1>5 DEF ReadCancel, ReadPause
  <2>2. /\ Alive(l)' /\ run'[l].seen = run[l].seen
        /\ \/ run'[l].pc = "settle" /\ run'[l].target \in Verdicts
           \/ run'[l].pc = "pause"
        /\ \A k \in Runs : k # l => run'[k] = run[k]
    BY <1>0, <1>5, CancelRead, PauseRead DEF Verdicts
  <2>3. Decision(l)' /\ (Carries(l) => Carries(l)')
    BY <2>1, <2>2 DEF Decision, Carries, Resigned, At
  <2> QED BY <2>1, <2>2, <2>3, StepCarries DEF Claimed, Carried
<1>6. CASE Settle(l)
  <2>1. Ends(l) /\ At(l, "settle") /\ UNCHANGED <<request, sweep, outage>>
    BY <1>6 DEF Settle
  <2>2. CASE WriteStatus(run[l].target)
    <3>1. run[l].target # "RUNNING" BY <2>1, RunInvParts DEF Decision, Verdicts
    <3>2. job'.status = run[l].target BY <1>0, <2>2 DEF WriteStatus, Jobs
    <3> QED BY <2>1, <3>1, <3>2, EndCarries DEF Claimed
  <2>3. CASE StaysPaused(l) /\ UNCHANGED job
    BY <2>1, <2>3, EndCarries DEF Claimed, StaysPaused, Carries, Resigned
  <2> QED BY <1>6, <2>2, <2>3 DEF Settle
<1>7. CASE Fail(l)
  <2>1. /\ Alive(l)' /\ run'[l].pc = "except" /\ run'[l].seen = job.status
        /\ run'[l].target = "FAILED"
        /\ \A k \in Runs : k # l => run'[k] = run[k]
    <3>1. Alive(l) BY <1>7 DEF Fail, At
    <3> QED BY <1>0, <1>7, <1>b, <3>1, Failed
  <2>2. job' = job BY <1>7 DEF Fail
  <2>3. job.status = "RUNNING" => MaySettle(l)'
    BY <2>1 DEF MaySettle, CanTransition, AllowedTransitions
  <2>4. Decision(l)' /\ (Claimed' => Carries(l)')
    BY <2>1, <2>2, <2>3 DEF Decision, Claimed, Carries, Resigned, At
  <2> QED BY <2>1, <2>4, StepCarries
<1>8. CASE HandleException(l)
  <2>1. Ends(l) /\ At(l, "except") /\ UNCHANGED <<request, sweep, outage>>
    BY <1>8 DEF HandleException
  <2>2. CASE MaySettle(l)
    <3>1. job'.status = "FAILED" BY <1>0, <1>8, <2>2 DEF HandleException, WriteStatus, Jobs
    <3> QED BY <2>1, <3>1, EndCarries DEF Claimed
  <2>3. CASE ~MaySettle(l)
    <3>1. job' = job BY <1>8, <2>3 DEF HandleException
    <3> QED BY <2>1, <2>3, <3>1, EndCarries DEF Claimed, Carries, Resigned
  <2> QED BY <2>2, <2>3
<1>9. CASE SwallowException(l)
  BY <1>9, EndCarries DEF SwallowException, Claimed
<1> QED BY <1>1, <1>2, <1>3, <1>4, <1>5, <1>6, <1>7, <1>8, <1>9 DEF RunStep

LEMMA RequestRuns ==
  ASSUME TypeOK, RunHasRow, RunInv, NEW c \in Clients, Ask(c) \/ Answer(c)
  PROVE  RunInv'
<1>0. RunOK /\ job \in Jobs /\ RestOK /\ StoresOK BY TypeParts
<1> USE DEF saved, history
<1>a. ASSUME NEW s, request' = [request EXCEPT ![c] = s],
             request[c].step # "launch", sweep' = sweep
      PROVE  Carried => Carried'
  BY <1>0, <1>a DEF Carried, RestOK
<1>b. ASSUME NEW s, Asks(c, s), request[c].step # "launch", sweep' = sweep
      PROVE  Carried => Carried'
  <2>1. \A d \in Clients : d # c => request'[d] = request[d] BY <1>0, <1>b DEF Asks, RestOK
  <2> QED BY <1>b, <2>1 DEF Carried
<1>1. CASE Start(c)
  <2>1. job'.status = "PENDING" BY <1>0, <1>1 DEF Start, WriteStatus, Jobs
  <2> QED BY <1>1, <2>1, StillCarried DEF Start, Claimed
<1>2. CASE RequestPause(c) \/ RequestResume(c)
  <2>1. UNCHANGED <<run, job, sweep, outage>> /\ request[c].step # "launch"
    BY <1>2 DEF RequestPause, RequestResume, Free, NoRequest
  <2>2. Carried => Carried' BY <1>2, <1>b, <2>1 DEF RequestPause, RequestResume
  <2> QED BY <2>1, <2>2, StillCarried DEF Claimed
<1>3. CASE RequestCancel(c)
  <2>1. UNCHANGED <<run, job, sweep, outage>> /\ request[c].step # "launch"
    BY <1>3 DEF RequestCancel, Free, NoRequest
  <2>2. Carried => Carried' BY <1>3, <1>a, <2>1 DEF RequestCancel
  <2> QED BY <2>1, <2>2, StillCarried DEF Claimed
<1>4. CASE LaunchStarted(c) \/ LaunchResumed(c)
  BY <1>4, LaunchCarries, Numbers DEF LaunchStarted, LaunchResumed
<1>5. CASE SetPauseEvent(c) \/ SetCancelEvents(c) \/ ClearEvents(c)
  <2>1. UNCHANGED <<run, job, sweep, outage>> /\ request[c].step # "launch"
    BY <1>5 DEF SetPauseEvent, SetCancelEvents, ClearEvents
  <2>2. Carried => Carried'
    BY <1>5, <1>b, <2>1 DEF SetPauseEvent, SetCancelEvents, ClearEvents
  <2> QED BY <2>1, <2>2, StillCarried DEF Claimed
<1>6. CASE StorePause(c) \/ StoreCancel(c) \/ ClearControl(c)
  <2>1. /\ UNCHANGED <<run, sweep, outage>> /\ request[c].step # "launch"
        /\ job'.status = job.status /\ job'.owned = job.owned
    BY <1>0, <1>6 DEF StorePause, StoreCancel, ClearControl, Jobs
  <2>2. Carried => Carried'
    BY <1>6, <1>a, <1>b, <2>1 DEF StorePause, StoreCancel, ClearControl, Answered
  <2> QED BY <2>1, <2>2, StillCarried DEF Claimed
<1>7. CASE Resume(c)
  <2>1. request'[c].step = "launch" BY <1>0, <1>7 DEF Resume, Asks, RestOK
  <2> QED BY <1>7, <2>1, StillCarried DEF Resume, Carried
<1>8. CASE Cancel(c)
  <2>1. job'.status = "CANCELLED" BY <1>0, <1>8 DEF Cancel, WriteStatus, Jobs
  <2> QED BY <1>8, <2>1, StillCarried DEF Cancel, Claimed
<1>9. CASE RequestFails(c)
  <2>1. UNCHANGED <<run, job, sweep>> /\ (outage' <=> outage \/ request[c].step = "launch")
    BY <1>9 DEF RequestFails
  <2>2. request[c].step # "launch" => (Carried => Carried')
    BY <1>9, <1>a, <2>1 DEF RequestFails, Answered
  <2> QED BY <2>1, <2>2, StillCarried DEF Claimed
<1> QED BY <1>1, <1>2, <1>3, <1>4, <1>5, <1>6, <1>7, <1>8, <1>9 DEF Ask, Answer

LEMMA SweepRuns ==
  ASSUME TypeOK, RunHasRow, RunInv, Sweep \/ Crash \/ Restart
  PROVE  RunInv'
<1>0. RunOK /\ job \in Jobs /\ RestOK /\ StoresOK BY TypeParts
<1> USE DEF saved, history
<1>1. CASE TakeOver BY <1>1, StillCarried DEF TakeOver, Carried
<1>2. CASE ReadOrphan
  <2>1. job.status = "RUNNING" => Carried'
    <3>1. CanTransition("RUNNING", "CANCELLED") BY DEF CanTransition, AllowedTransitions
    <3> QED BY <1>2, <3>1 DEF ReadOrphan, Carried
  <2> QED BY <1>2, <2>1, StillCarried DEF ReadOrphan, Claimed
<1>3. CASE Honour
  <2>1. job'.status # "RUNNING" BY <1>0, <1>3 DEF Honour, WriteStatus, Jobs
  <2> QED BY <1>3, <2>1, StillCarried DEF Honour, Claimed
<1>4. CASE ClearHonoured
  <2>1. job'.status = job.status /\ job'.owned = job.owned
    BY <1>0, <1>4 DEF ClearHonoured, Jobs
  <2> QED BY <1>4, <2>1, StillCarried DEF ClearHonoured, Claimed, Carried
<1>5. CASE LaunchOrphan BY <1>5, LaunchCarries, Numbers DEF LaunchOrphan
<1>6. CASE SweepFails BY <1>6, StillCarried DEF SweepFails, Claimed, Carried
<1>7. CASE Crash
  <2>1. job'.owned = FALSE BY <1>0, <1>7 DEF Crash, Jobs
  <2>2. \A k \in Runs : ~Alive(k)' BY <1>7 DEF Crash, Alive
  <2> QED BY <2>1, <2>2, RunInvPartsNext DEF Claimed, Decision, At
<1>8. CASE Restart BY <1>8, StillCarried DEF Restart, Claimed, Carried
<1> QED BY <1>1, <1>2, <1>3, <1>4, <1>5, <1>6, <1>7, <1>8 DEF Sweep

LEMMA RunInvNext ==
  ASSUME TypeOK, RunHasRow, RunInv, [Next]_vars
  PROVE  RunInv'
<1>1. CASE UNCHANGED vars BY <1>1, StillCarried DEF vars, Claimed, Carried
<1> QED BY <1>1, RunStepRuns, RequestRuns, SweepRuns DEF Next

\* A job shown as RUNNING by an owner is at work, through races of resume,
\* sweep, decision and crash: no job hangs as RUNNING with nobody at work and
\* nothing for the sweep to find, unless the database failed under its launch or
\* under the error boundary.
THEOREM RunningRuns == Spec => []RunningIsRun
<1>1. Init => RunInv BY DEF Init, RunInv, At, Alive, NoRow
<1>2. RunInv => RunningIsRun BY DEF RunInv, RunningIsRun, Taken, Working, Pending
<1> QED BY <1>1, <1>2, TypeCorrect, RunInvNext, PTL DEF Spec

-----------------------------------------------------------------------------
(***************************************************************************)
(* A checkpoint is backed by storage and ClickHouse.                       *)
(***************************************************************************)

\* The three parts of BackingInv: the page sizes, the threads, the points.
Uniform ==
  \A l, k \in Runs : Alive(l) /\ Alive(k) =>
    run[l].size = run[k].size /\ (run[l].size = DefaultSize \/ l = k)

Stands(l, ch) ==
  /\ Active(l, ch) => run[l].size = DefaultSize \/ Cursor(l, ch) = Saved(ch)
  /\ ThreadAt(l, ch, "load") \/ ThreadAt(l, ch, "save") =>
       PageEnd(l, ch) \in {Cursor(l, ch), file[ch][PartOf(l, ch)]}
  /\ ThreadAt(l, ch, "save") => Cursor(l, ch) + 1 .. PageEnd(l, ch) \subseteq table[ch]

Holds(ch, m) == 1 .. m \subseteq table[ch] \cap Landed(ch)

Fits(ch, p) == file[ch][p] <= p + DefaultSize

PointBacked(ch, m) ==
  /\ Holds(ch, m)
  /\ \A p \in Positions(ch) : p > m => Fits(ch, p)
  /\ \A n \in Points(ch) : m < n => Fits(ch, m)

LEMMA BackingParts ==
  ASSUME BackingInv, ~mixed
  PROVE  /\ Uniform /\ \A l \in Runs, ch \in Channels : Stands(l, ch)
         /\ \A ch \in Channels : \A m \in Points(ch) : PointBacked(ch, m)
BY DEF BackingInv, Uniform, Stands, PointBacked, Holds, Fits

LEMMA BackingPartsNext ==
  ASSUME ~mixed' => /\ Uniform' /\ \A l \in Runs, ch \in Channels : Stands(l, ch)'
                    /\ \A ch \in Channels : \A m \in Points(ch)' : PointBacked(ch, m)'
  PROVE  BackingInv'
BY DEF BackingInv, Uniform, Stands, PointBacked, Holds, Fits

\* A point is the checkpoint's or a thread's, and a position of its channel.
LEMMA PointCases ==
  ASSUME TypeOK, NEW ch \in Channels
  PROVE  /\ Saved(ch) \in Points(ch)
         /\ \A l \in Runs : Active(l, ch) => Cursor(l, ch) \in Points(ch)
         /\ \A m \in Points(ch) : m = Saved(ch) \/ \E l \in Runs : Active(l, ch) /\ m = Cursor(l, ch)
         /\ Points(ch) \subseteq Positions(ch)
<1>1. Saved(ch) \in Positions(ch) BY Numbers, TypeParts DEF Saved, StoresOK
<1>2. \A l \in Runs : Active(l, ch) => Cursor(l, ch) \in Positions(ch)
  BY DEF TypeOK, Active
<1> QED BY <1>1, <1>2 DEF Points

\* A run of a page size of its own stands at the only point there is.
LEMMA OddIsAlone ==
  ASSUME TypeOK, BackingInv, ~mixed, NEW l \in Runs, NEW ch \in Channels,
         Active(l, ch), run[l].size # DefaultSize
  PROVE  \A m \in Points(ch) : m = Cursor(l, ch)
<1>1. Uniform /\ Stands(l, ch) BY BackingParts
<1>2. Cursor(l, ch) = Saved(ch) BY <1>1 DEF Stands
<1>3. \A k \in Runs : Active(k, ch) => k = l BY <1>1 DEF Uniform, Active
<1> QED BY <1>2, <1>3, PointCases

\* No new point and nothing new in the stores.
LEMMA PointsShrink ==
  ASSUME BackingInv, UNCHANGED saved, ~mixed,
         \A ch \in Channels : Points(ch)' \subseteq Points(ch)
  PROVE  \A ch \in Channels : \A m \in Points(ch)' : PointBacked(ch, m)'
<1>1. \A ch \in Channels : \A m \in Points(ch) : PointBacked(ch, m) BY BackingParts
<1> SUFFICES ASSUME NEW ch \in Channels, NEW m \in Points(ch)' PROVE PointBacked(ch, m)'
  OBVIOUS
<1>2. m \in Points(ch) /\ PointBacked(ch, m) BY <1>1
<1>3. table' = table /\ file' = file BY DEF saved
<1>4. Landed(ch)' = Landed(ch) BY <1>3 DEF Landed
<1> QED BY <1>2, <1>3, <1>4 DEF PointBacked, Holds, Fits

\* A step that leaves the stores alone, in which threads at most stop, or go
\* on to nothing that the invariant asks more of.
LEMMA BackingQuiet ==
  ASSUME TypeOK, BackingInv, UNCHANGED saved, mixed' = mixed,
         \A k \in Runs : Alive(k)' => Alive(k) /\ run'[k].size = run[k].size,
         \A k \in Runs, ch \in Channels :
           /\ Active(k, ch)' => Active(k, ch) /\ Cursor(k, ch)' = Cursor(k, ch)
           /\ \A pc \in {"load", "save"} : ThreadAt(k, ch, pc)' =>
                ThreadAt(k, ch, pc) /\ run'[k].size = run[k].size
                  /\ Cursor(k, ch)' = Cursor(k, ch)
  PROVE  BackingInv'
<1> SUFFICES ASSUME ~mixed'
    PROVE /\ Uniform' /\ \A l \in Runs, ch \in Channels : Stands(l, ch)'
          /\ \A ch \in Channels : \A m \in Points(ch)' : PointBacked(ch, m)'
  BY BackingPartsNext
<1>0. ~mixed OBVIOUS
<1>1. /\ Uniform /\ \A l \in Runs, ch \in Channels : Stands(l, ch)
  BY <1>0, BackingParts
<1>2. Uniform' BY <1>1 DEF Uniform
<1>3. ckpt' = ckpt /\ table' = table /\ file' = file BY DEF saved
<1>4. \A ch \in Channels : Saved(ch)' = Saved(ch) BY <1>3 DEF Saved
<1>5. ASSUME NEW l \in Runs, NEW ch \in Channels PROVE Stands(l, ch)'
  <2>1. Stands(l, ch) BY <1>1
  <2>2. Active(l, ch)' => run'[l].size = DefaultSize \/ Cursor(l, ch)' = Saved(ch)'
    BY <2>1, <1>4 DEF Stands, Active
  <2>3. ASSUME NEW pc \in {"load", "save"}, ThreadAt(l, ch, pc)'
        PROVE  /\ ThreadAt(l, ch, pc) /\ PageEnd(l, ch)' = PageEnd(l, ch)
               /\ PartOf(l, ch)' = PartOf(l, ch) /\ Cursor(l, ch)' = Cursor(l, ch)
    BY <2>3 DEF PageEnd, FullPage, PartOf
  <2> QED BY <1>3, <2>1, <2>2, <2>3 DEF Stands
<1>6. \A ch \in Channels : Points(ch)' \subseteq Points(ch) BY <1>4 DEF Points
<1> QED BY <1>0, <1>2, <1>5, <1>6, PointsShrink

\* A launch: of the default page size, or beside runs that have it.
LEMMA BackingLaunch ==
  ASSUME TypeOK, BackingInv, UNCHANGED saved, NEW l \in Runs, NEW size \in Sizes,
         Launch(l, size),
         ~mixed => size = DefaultSize \/ \A k \in Runs : Alive(k) => run[k].size = DefaultSize
  PROVE  BackingInv'
<1>1. /\ Alive(l)' /\ run'[l].size = size
      /\ \A ch \in Channels : run'[l].thread[ch] = Off
      /\ \A k \in Runs : k # l => run'[k] = run[k]
  BY TypeParts, RunLaunched DEF RestOK
<1> SUFFICES ASSUME ~mixed'
    PROVE /\ Uniform' /\ \A k \in Runs, ch \in Channels : Stands(k, ch)'
          /\ \A ch \in Channels : \A m \in Points(ch)' : PointBacked(ch, m)'
  BY BackingPartsNext
<1>2. ~mixed /\ \A k \in Runs : Alive(k) => run[k].size = size BY DEF Launch
<1>3. /\ Uniform /\ \A k \in Runs, ch \in Channels : Stands(k, ch)
  BY <1>2, BackingParts
<1>4. \A k \in Runs : Alive(k)' => k = l \/ Alive(k)
  BY <1>1 DEF Alive
<1>5. Uniform' BY <1>1, <1>2, <1>3, <1>4 DEF Uniform
<1>6. ckpt' = ckpt /\ table' = table /\ file' = file BY DEF saved
<1>7. \A ch \in Channels : Saved(ch)' = Saved(ch) BY <1>6 DEF Saved
<1>8. \A ch \in Channels : /\ ~Active(l, ch)' /\ ~ThreadAt(l, ch, "load")' /\ ~ThreadAt(l, ch, "save")'
  BY <1>1 DEF Active, ThreadAt, Off, Busy
<1>9. \A k \in Runs, ch \in Channels : Stands(k, ch)'
  BY <1>1, <1>3, <1>6, <1>7, <1>8
  DEF Stands, Active, ThreadAt, Alive, PageEnd, FullPage, PartOf, Cursor
<1>10. \A ch \in Channels : Points(ch)' \subseteq Points(ch)
  BY <1>1, <1>7, <1>8 DEF Points, Active, Alive, Cursor
<1> QED BY <1>2, <1>5, <1>9, <1>10, PointsShrink

\* The plan: a new thread starts at the checkpoint.
LEMMA BackingPlan ==
  ASSUME TypeOK, BackingInv, NEW l \in Runs, Plan(l)
  PROVE  BackingInv'
<1>1. /\ Alive(l) /\ Alive(l)' /\ run'[l].size = run[l].size
      /\ \A ch \in Channels :
           /\ ckpt[ch].completed => run'[l].thread[ch].pc = "off"
           /\ ~ckpt[ch].completed => /\ run'[l].thread[ch].pc = "check"
                                     /\ run'[l].thread[ch].cursor = ckpt[ch].cursor
      /\ \A k \in Runs : k # l => run'[k] = run[k]
  BY TypeParts, Planned
<1>2. UNCHANGED saved /\ mixed' = mixed BY DEF Plan, history
<1> SUFFICES ASSUME ~mixed
    PROVE /\ Uniform' /\ \A k \in Runs, ch \in Channels : Stands(k, ch)'
          /\ \A ch \in Channels : \A m \in Points(ch)' : PointBacked(ch, m)'
  BY <1>2, BackingPartsNext
<1>3. /\ Uniform /\ \A k \in Runs, ch \in Channels : Stands(k, ch)
  BY BackingParts
<1>4. Uniform' BY <1>1, <1>3 DEF Uniform, Alive
<1>5. ckpt' = ckpt /\ table' = table /\ file' = file BY <1>2 DEF saved
<1>6. \A ch \in Channels : Saved(ch)' = Saved(ch) BY <1>5 DEF Saved
<1>7. \A ch \in Channels :
        /\ Active(l, ch)' => Cursor(l, ch)' = Saved(ch)
        /\ ~ThreadAt(l, ch, "load")' /\ ~ThreadAt(l, ch, "save")'
  BY <1>1 DEF Active, ThreadAt, Busy, Cursor, Saved, StoresOK
<1>8. ASSUME NEW k \in Runs, NEW ch \in Channels PROVE Stands(k, ch)'
  BY <1>1, <1>3, <1>5, <1>6, <1>7
  DEF Stands, Active, ThreadAt, Alive, PageEnd, FullPage, PartOf, Cursor
<1>9. \A ch \in Channels : Points(ch)' \subseteq Points(ch)
  BY <1>1, <1>6, <1>7 DEF Points, Active, Alive, Cursor
<1> QED BY <1>2, <1>4, <1>8, <1>9, PointsShrink

\* A page that is stored keeps what is beneath any point: its part is new, or
\* at least as long as the one it replaces.
LEMMA LandedKept ==
  ASSUME TypeOK, BackingInv, ~mixed, NEW l \in Runs, NEW ch \in Channels,
         LandPage(l, ch), NEW m \in Points(ch)
  PROVE  Holds(ch, m)'
<1> DEFINE p == Cursor(l, ch)
           e == PageEnd(l, ch)
<1>0. RunOK /\ StoresOK BY TypeParts
<1>1. Alive(l) /\ Active(l, ch) BY DEF LandPage, ThreadAt, Active, Busy
<1>2. /\ p \in Positions(ch) /\ e \in Positions(ch) /\ p <= e /\ p \in Nat /\ e \in Nat
      /\ run[l].size \in Nat
      /\ (e = Length[ch] \/ e = p + run[l].size)
  BY <1>0, <1>1, PageEndType, Numbers DEF PageEnd, FullPage
<1>3. CASE e = p
  <2>1. file' = file /\ table' = table BY <1>3 DEF LandPage
  <2>2. Landed(ch)' = Landed(ch) BY <2>1 DEF Landed
  <2> QED BY <2>1, <2>2, BackingParts DEF Holds, PointBacked
<1>4. CASE e # p
  <2>1. /\ table' = table /\ file'[ch][p] = e
        /\ \A q \in Positions(ch) : q # p => file'[ch][q] = file[ch][q]
    BY <1>0, <1>2, <1>4 DEF LandPage, PartOf, StoresOK
  <2>2. PointBacked(ch, m) BY BackingParts
  <2>3. m \in Positions(ch) /\ m \in Nat /\ p \in Points(ch) /\ Length[ch] \in Nat
    BY <1>1, PointCases, Numbers
  <2>4. ASSUME NEW x \in 1 .. m PROVE x \in Landed(ch)'
    <3>1. PICK q \in Positions(ch) : x \in q + 1 .. file[ch][q]
      BY <2>2 DEF PointBacked, Holds, Landed
    <3>2. CASE q # p BY <2>1, <3>1, <3>2 DEF Landed
    <3>3. CASE q = p
      <4>1. p < m BY <1>2, <2>3, <3>1, <3>3
      <4>2. run[l].size = DefaultSize BY <1>1, <2>3, <4>1, OddIsAlone
      <4>3. PointBacked(ch, p) BY <2>3, BackingParts
      <4>4. Fits(ch, p) BY <4>1, <4>3 DEF PointBacked
      <4>5. file[ch][p] <= e
        <5>1. file[ch][p] \in Nat /\ file[ch][p] <= Length[ch]
          BY <1>0, <1>2, Numbers DEF StoresOK
        <5> QED BY <1>2, <4>2, <4>4, <5>1 DEF Fits
      <4>6. x \in p + 1 .. e
        <5>1. file[ch][p] \in Nat BY <1>0, <1>2, Numbers DEF StoresOK
        <5> QED BY <1>2, <3>1, <3>3, <4>5, <5>1
      <4> QED BY <1>2, <2>1, <4>6 DEF Landed
    <3> QED BY <3>2, <3>3
  <2> QED BY <2>1, <2>2, <2>4 DEF Holds, PointBacked
<1> QED BY <1>3, <1>4

\* What a stored page does to the parts: its own is now as long as the page,
\* and no other changes.
LEMMA PartsAfterLanding ==
  ASSUME TypeOK, NEW l \in Runs, NEW ch \in Channels, LandPage(l, ch)
  PROVE  /\ PageEnd(l, ch) \in {Cursor(l, ch), file'[ch][Cursor(l, ch)]}
         /\ \A c \in Channels : \A q \in Positions(c) :
              \/ file'[c][q] = file[c][q]
              \/ c = ch /\ q = Cursor(l, ch) /\ file'[c][q] = PageEnd(l, ch)
         /\ \A c \in Channels : c # ch => file'[c] = file[c]
<1>0. RunOK /\ StoresOK BY TypeParts
<1>1. Alive(l) BY DEF LandPage, ThreadAt
<1>2. Cursor(l, ch) \in Positions(ch) BY <1>0, <1>1, PageEndType
<1>3. CASE PageEnd(l, ch) = Cursor(l, ch) BY <1>3 DEF LandPage
<1>4. CASE PageEnd(l, ch) # Cursor(l, ch)
  BY <1>0, <1>2, <1>4 DEF LandPage, StoresOK, PartOf
<1> QED BY <1>3, <1>4

\* Storing a page.
LEMMA BackingLand ==
  ASSUME TypeOK, BackingInv, NEW l \in Runs, NEW ch \in Channels, LandPage(l, ch)
  PROVE  BackingInv'
<1>0. RunOK /\ StoresOK BY TypeParts
<1>1. ThreadStep(l, ch) /\ ~SavePage(l, ch) /\ ThreadAt(l, ch, "land")
  BY DEF ThreadStep, LandPage, SavePage, ThreadAt
<1>2. /\ Alive(l) /\ Alive(l)' /\ Active(l, ch)
      /\ run'[l].size = run[l].size
      /\ \A c \in Channels : c # ch => run'[l].thread[c] = run[l].thread[c]
      /\ \A k \in Runs : k # l => run'[k] = run[k]
      /\ Active(l, ch)' => Cursor(l, ch)' = Cursor(l, ch)
  BY <1>0, <1>1, ThreadStepMoves
<1>3. mixed' = mixed /\ ckpt' = ckpt /\ table' = table BY DEF LandPage, history
<1> SUFFICES ASSUME ~mixed
    PROVE /\ Uniform' /\ \A k \in Runs, c \in Channels : Stands(k, c)'
          /\ \A c \in Channels : \A m \in Points(c)' : PointBacked(c, m)'
  BY <1>3, BackingPartsNext
<1>4. /\ Uniform /\ \A k \in Runs, c \in Channels : Stands(k, c)
  BY BackingParts
<1>5. Uniform' BY <1>2, <1>4 DEF Uniform, Alive
<1>6. \A c \in Channels : Saved(c)' = Saved(c) BY <1>3 DEF Saved
<1>7. \A k \in Runs, c \in Channels :
        /\ Active(k, c)' => Active(k, c) /\ Cursor(k, c)' = Cursor(k, c)
        /\ Active(k, c)' => PageEnd(k, c)' = PageEnd(k, c)
        /\ Alive(k) => run'[k].size = run[k].size
  <2> SUFFICES ASSUME NEW k \in Runs, NEW c \in Channels
      PROVE /\ Active(k, c)' => Active(k, c) /\ Cursor(k, c)' = Cursor(k, c)
            /\ Active(k, c)' => PageEnd(k, c)' = PageEnd(k, c)
            /\ Alive(k) => run'[k].size = run[k].size
    OBVIOUS
  <2>1. CASE k = l /\ c = ch BY <1>2, <2>1 DEF PageEnd, FullPage
  <2>2. CASE ~(k = l /\ c = ch)
    BY <1>2, <2>2 DEF Active, Alive, Cursor, PageEnd, FullPage
  <2> QED BY <2>1, <2>2
<1>8. \A c \in Channels : Points(c)' \subseteq Points(c) BY <1>6, <1>7 DEF Points
<1>9. ASSUME NEW k \in Runs, NEW c \in Channels PROVE Stands(k, c)'
  <2>1. Stands(k, c) BY <1>4
  <2>2. Active(k, c)' => run'[k].size = DefaultSize \/ Cursor(k, c)' = Saved(c)'
    BY <1>2, <1>6, <1>7, <2>1 DEF Stands, Active
  <2>3. ASSUME NEW pc \in {"load", "save"}, ThreadAt(k, c, pc)'
        PROVE  PageEnd(k, c)' \in {Cursor(k, c)', file'[c][Cursor(k, c)']}
    <3>1. Active(k, c)' /\ Active(k, c) /\ PageEnd(k, c)' = PageEnd(k, c) /\ Cursor(k, c)' = Cursor(k, c)
      BY <1>7, <2>3 DEF ThreadAt, Active, Busy
    <3>2. CASE k = l /\ c = ch BY <3>1, <3>2, PartsAfterLanding
    <3>3. CASE ~(k = l /\ c = ch)
      <4>1. ThreadAt(k, c, pc) BY <1>2, <2>3, <3>1, <3>3 DEF ThreadAt, Alive, Active
      <4>2. PageEnd(k, c) \in {Cursor(k, c), file[c][Cursor(k, c)]}
        BY <2>1, <4>1 DEF Stands, PartOf
      <4>3. Cursor(k, c) \in Positions(c) BY <1>0, <3>1, PageEndType DEF Active
      <4>4. CASE file'[c][Cursor(k, c)] = file[c][Cursor(k, c)] BY <3>1, <4>2, <4>4
      <4>5. CASE c = ch /\ Cursor(k, c) = Cursor(l, ch) /\ file'[c][Cursor(k, c)] = PageEnd(l, ch)
        <5>1. run[k].size = run[l].size BY <1>2, <1>4, <3>1 DEF Uniform, Active
        <5>2. PageEnd(k, c) = PageEnd(l, ch) BY <4>5, <5>1 DEF PageEnd, FullPage
        <5> QED BY <3>1, <4>5, <5>2
      <4> QED BY <4>3, <4>4, <4>5, PartsAfterLanding
    <3> QED BY <3>2, <3>3
  <2>4. ThreadAt(k, c, "save")' => Cursor(k, c)' + 1 .. PageEnd(k, c)' \subseteq table'[c]
    <3> SUFFICES ASSUME ThreadAt(k, c, "save")'
        PROVE Cursor(k, c)' + 1 .. PageEnd(k, c)' \subseteq table'[c]
      OBVIOUS
    <3>1. Active(k, c)' /\ PageEnd(k, c)' = PageEnd(k, c) /\ Cursor(k, c)' = Cursor(k, c)
      BY <1>7 DEF ThreadAt, Active, Busy
    <3>2. ~(k = l /\ c = ch)
      <4>1. ThreadGoes(l, ch, "load") BY DEF LandPage
      <4>2. run'[l].thread[ch].pc = "load" BY <1>0, <1>2, <4>1, ThreadIsAt DEF Busy
      <4> QED BY <4>2 DEF ThreadAt
    <3>3. ThreadAt(k, c, "save") BY <1>2, <3>2 DEF ThreadAt, Alive
    <3> QED BY <1>3, <2>1, <3>1, <3>3 DEF Stands
  <2> QED BY <2>2, <2>3, <2>4 DEF Stands, PartOf
<1>10. ASSUME NEW c \in Channels, NEW m \in Points(c)' PROVE PointBacked(c, m)'
  <2>1. m \in Points(c) /\ PointBacked(c, m) BY <1>8, BackingParts
  <2>2. Holds(c, m)'
    <3>1. CASE c = ch BY <2>1, <3>1, LandedKept
    <3>2. CASE c # ch
      <4>1. file'[c] = file[c] BY <3>2, PartsAfterLanding
      <4>2. Landed(c)' = Landed(c) BY <4>1 DEF Landed
      <4> QED BY <1>3, <2>1, <4>2 DEF Holds, PointBacked
    <3> QED BY <3>1, <3>2
  <2>3. ASSUME NEW q \in Positions(c), Fits(c, q), c # ch \/ q # Cursor(l, ch) \/ run[l].size = DefaultSize
        PROVE  Fits(c, q)'
    <3>1. CASE file'[c][q] = file[c][q] BY <2>3, <3>1 DEF Fits
    <3>2. CASE c = ch /\ q = Cursor(l, ch) /\ file'[c][q] = PageEnd(l, ch)
      <4>1. PageEnd(l, ch) <= Cursor(l, ch) + run[l].size BY <1>0, <1>2, PageEndType
      <4> QED BY <2>3, <3>2, <4>1 DEF Fits
    <3> QED BY <3>1, <3>2, PartsAfterLanding
  <2>4. \A n \in Points(c) : m < n => run[l].size = DefaultSize \/ c # ch
    BY <1>2, <2>1, OddIsAlone, PointCases, Numbers
  <2>5. ASSUME NEW q \in Positions(c), q > m PROVE Fits(c, q)'
    <3>1. Fits(c, q) BY <2>1, <2>5 DEF PointBacked
    <3>2. q # Cursor(l, ch) \/ c # ch \/ run[l].size = DefaultSize
      BY <1>2, <2>1, <2>5, OddIsAlone, PointCases, Numbers
    <3> QED BY <2>3, <3>1, <3>2
  <2>6. ASSUME NEW n \in Points(c)', m < n PROVE Fits(c, m)'
    <3>1. n \in Points(c) /\ m \in Positions(c) BY <1>8, <2>1, PointCases
    <3>2. Fits(c, m) BY <2>1, <2>6, <3>1 DEF PointBacked
    <3> QED BY <2>3, <2>4, <2>6, <3>1, <3>2
  <2> QED BY <2>2, <2>5, <2>6 DEF PointBacked
<1> QED BY <1>5, <1>9, <1>10

\* Loading a page: what its thread may save next is in the table.
LEMMA BackingLoad ==
  ASSUME TypeOK, BackingInv, NEW l \in Runs, NEW ch \in Channels, LoadPage(l, ch)
  PROVE  BackingInv'
<1>0. RunOK /\ StoresOK BY TypeParts
<1>1. ThreadStep(l, ch) /\ ~SavePage(l, ch) /\ ThreadAt(l, ch, "load")
  BY DEF ThreadStep, LoadPage, SavePage, ThreadAt
<1>2. /\ Alive(l) /\ Alive(l)' /\ Active(l, ch)
      /\ run'[l].size = run[l].size
      /\ \A c \in Channels : c # ch => run'[l].thread[c] = run[l].thread[c]
      /\ \A k \in Runs : k # l => run'[k] = run[k]
      /\ Active(l, ch)' => Cursor(l, ch)' = Cursor(l, ch)
  BY <1>0, <1>1, ThreadStepMoves
<1>3. mixed' = mixed /\ ckpt' = ckpt /\ file' = file BY DEF LoadPage, history
<1> SUFFICES ASSUME ~mixed
    PROVE /\ Uniform' /\ \A k \in Runs, c \in Channels : Stands(k, c)'
          /\ \A c \in Channels : \A m \in Points(c)' : PointBacked(c, m)'
  BY <1>3, BackingPartsNext
<1>4. /\ Uniform /\ \A k \in Runs, c \in Channels : Stands(k, c)
  BY BackingParts
<1>5. Uniform' BY <1>2, <1>4 DEF Uniform, Alive
<1>6. \A c \in Channels : Saved(c)' = Saved(c) BY <1>3 DEF Saved
<1>7. \A k \in Runs, c \in Channels : Active(k, c)' =>
        /\ Active(k, c) /\ Cursor(k, c)' = Cursor(k, c) /\ PageEnd(k, c)' = PageEnd(k, c)
        /\ run'[k].size = run[k].size
        /\ k # l \/ c # ch => run'[k].thread[c] = run[k].thread[c]
  <2> SUFFICES ASSUME NEW k \in Runs, NEW c \in Channels, Active(k, c)'
      PROVE /\ Active(k, c) /\ Cursor(k, c)' = Cursor(k, c) /\ PageEnd(k, c)' = PageEnd(k, c)
            /\ run'[k].size = run[k].size
            /\ k # l \/ c # ch => run'[k].thread[c] = run[k].thread[c]
    OBVIOUS
  <2>1. CASE k = l /\ c = ch BY <1>2, <2>1 DEF PageEnd, FullPage
  <2>2. CASE ~(k = l /\ c = ch)
    BY <1>2, <2>2 DEF Active, Alive, Cursor, PageEnd, FullPage
  <2> QED BY <2>1, <2>2
<1>8. \A c \in Channels : Points(c)' \subseteq Points(c) BY <1>6, <1>7 DEF Points
<1>9. \A c \in Channels : table[c] \subseteq table'[c] /\ PartRows(l, ch) \subseteq table'[ch]
  BY <1>0 DEF LoadPage, StoresOK
<1>10. ASSUME NEW k \in Runs, NEW c \in Channels PROVE Stands(k, c)'
  <2>1. Stands(k, c) BY <1>4
  <2>2. Active(k, c)' => run'[k].size = DefaultSize \/ Cursor(k, c)' = Saved(c)'
    BY <1>2, <1>6, <1>7, <2>1 DEF Stands, Active
  <2>3. CASE k = l /\ c = ch
    <3>1. PageEnd(l, ch) \in {Cursor(l, ch), file[ch][PartOf(l, ch)]}
      BY <1>1, <2>1, <2>3 DEF Stands
    <3>2. Cursor(l, ch) \in Nat BY <1>0, <1>2, PageEndType, Numbers
    <3>3. Cursor(l, ch) + 1 .. PageEnd(l, ch) \subseteq PartRows(l, ch)
      BY <3>1, <3>2 DEF PartRows
    <3>4. ThreadAt(l, ch, "load")' \/ ThreadAt(l, ch, "save")' => Active(l, ch)'
      BY DEF ThreadAt, Active, Busy
    <3> QED BY <1>3, <1>7, <1>9, <2>2, <2>3, <3>1, <3>3, <3>4 DEF Stands, PartOf
  <2>4. CASE ~(k = l /\ c = ch)
    <3>1. ASSUME NEW pc \in {"load", "save"}, ThreadAt(k, c, pc)'
          PROVE  ThreadAt(k, c, pc) /\ Active(k, c)'
      BY <1>2, <2>4, <3>1 DEF ThreadAt, Alive, Active, Busy
    <3> QED BY <1>3, <1>7, <1>9, <2>1, <2>2, <3>1 DEF Stands, PartOf
  <2> QED BY <2>3, <2>4
<1>11. ASSUME NEW c \in Channels, NEW m \in Points(c)' PROVE PointBacked(c, m)'
  <2>1. m \in Points(c) /\ PointBacked(c, m) BY <1>8, BackingParts
  <2>2. Landed(c)' = Landed(c) BY <1>3 DEF Landed
  <2> QED BY <1>3, <1>8, <1>9, <2>1, <2>2 DEF PointBacked, Holds, Fits
<1> QED BY <1>5, <1>10, <1>11

\* Saving a page: its end becomes a point, backed by the part and the load.
LEMMA BackingSave ==
  ASSUME TypeOK, BackingInv, NEW l \in Runs, NEW ch \in Channels, SavePage(l, ch)
  PROVE  BackingInv'
<1> DEFINE p == Cursor(l, ch)
           e == PageEnd(l, ch)
<1>0. RunOK /\ StoresOK BY TypeParts
<1>1. ThreadStep(l, ch) /\ ThreadAt(l, ch, "save") BY DEF ThreadStep, SavePage
<1>2. /\ Alive(l) /\ Alive(l)' /\ Active(l, ch)
      /\ run'[l].size = run[l].size
      /\ \A c \in Channels : c # ch => run'[l].thread[c] = run[l].thread[c]
      /\ \A k \in Runs : k # l => run'[k] = run[k]
      /\ Active(l, ch)' => Cursor(l, ch)' = e
  BY <1>0, <1>1, ThreadStepMoves
<1>a. ~ThreadAt(l, ch, "load")' /\ ~ThreadAt(l, ch, "save")'
  <2>1. CASE HasMore(l, ch)
    <3> DEFINE t == [Off EXCEPT !.pc = "check", !.cursor = e]
    <3>1. e \in Positions(ch) /\ e \in Nat BY <1>0, <1>2, PageEndType, Numbers
    <3> HIDE DEF e
    <3>2. t \in Threads /\ t.cursor = e /\ t.pc = "check" BY <3>1 DEF Off, Threads, Busy
    <3>3. run' = [run EXCEPT ![l].thread[ch] = t] BY <2>1 DEF SavePage, e
    <3> HIDE DEF t
    <3>4. run'[l].thread[ch] = t BY <1>0, <1>2, <3>1, <3>2, <3>3, ThreadMoves
    <3> QED BY <3>2, <3>4 DEF ThreadAt
  <2>2. CASE ~HasMore(l, ch)
    <3>1. ThreadEnds(l, ch, "done") BY <2>2 DEF SavePage
    <3>2. run'[l].thread[ch].pc = "done" BY <1>0, <1>2, <3>1, ThreadIsAt
    <3> QED BY <3>2 DEF ThreadAt
  <2> QED BY <2>1, <2>2
<1>3. mixed' = mixed /\ table' = table /\ file' = file BY DEF SavePage, history
<1> SUFFICES ASSUME ~mixed
    PROVE /\ Uniform' /\ \A k \in Runs, c \in Channels : Stands(k, c)'
          /\ \A c \in Channels : \A m \in Points(c)' : PointBacked(c, m)'
  BY <1>3, BackingPartsNext
<1>4. /\ Uniform /\ \A k \in Runs, c \in Channels : Stands(k, c)
  BY BackingParts
<1>5. Uniform' BY <1>2, <1>4 DEF Uniform, Alive
<1>6. /\ Saved(ch)' = e
      /\ \A c \in Channels : c # ch => Saved(c)' = Saved(c)
  <2>1. /\ \A c \in Channels : c # ch => ckpt'[c] = ckpt[c]
        /\ HasMore(l, ch) => ckpt'[ch] = [cursor |-> e, completed |-> FALSE]
        /\ ~HasMore(l, ch) => ckpt'[ch] = [cursor |-> 0, completed |-> TRUE]
    BY <1>0 DEF SavePage, StoresOK
  <2>2. ~HasMore(l, ch) => e = Length[ch] BY <1>0, <1>2, PageEndType
  <2> QED BY <2>1, <2>2 DEF Saved
<1>7. \A k \in Runs, c \in Channels : ~(k = l /\ c = ch) =>
        /\ Alive(k) => run'[k].thread[c] = run[k].thread[c] /\ run'[k].size = run[k].size
        /\ Alive(k)' <=> Alive(k)
  BY <1>2 DEF Alive
<1>8. ASSUME NEW k \in Runs, NEW c \in Channels PROVE Stands(k, c)'
  <2>1. Stands(k, c) BY <1>4
  <2>2. CASE k = l /\ c = ch BY <1>2, <1>6, <1>a, <2>2 DEF Stands
  <2>3. CASE ~(k = l /\ c = ch)
    <3>1. Active(k, c)' => run'[k].size = DefaultSize \/ Cursor(k, c)' = Saved(c)'
      <4>1. CASE c # ch BY <1>6, <1>7, <2>1, <2>3, <4>1 DEF Stands, Active, Cursor
      <4>2. CASE c = ch
        <5>1. k # l BY <2>3, <4>2
        <5>2. Alive(k) => run[k].size = DefaultSize BY <1>2, <1>4, <5>1 DEF Uniform
        <5> QED BY <1>7, <2>3, <5>2 DEF Active
      <4> QED BY <4>1, <4>2
    <3>2. ASSUME NEW pc \in {"load", "save"}, ThreadAt(k, c, pc)'
          PROVE  /\ ThreadAt(k, c, pc) /\ Cursor(k, c)' = Cursor(k, c)
                 /\ PageEnd(k, c)' = PageEnd(k, c)
      BY <1>7, <2>3, <3>2 DEF ThreadAt, Cursor, PageEnd, FullPage
    <3> QED BY <1>3, <2>1, <3>1, <3>2 DEF Stands, PartOf
  <2> QED BY <2>2, <2>3
<1>9. \A c \in Channels : \A m \in Points(c)' : m \in Points(c) \/ (c = ch /\ m = e)
  <2> SUFFICES ASSUME NEW c \in Channels, NEW m \in Points(c)' PROVE m \in Points(c) \/ (c = ch /\ m = e)
    OBVIOUS
  <2>1. CASE m = Saved(c)' BY <1>6, <2>1, PointCases
  <2>2. CASE \E k \in Runs : Active(k, c)' /\ m = Cursor(k, c)'
    <3>1. PICK k \in Runs : Active(k, c)' /\ m = Cursor(k, c)' BY <2>2
    <3>2. CASE k = l /\ c = ch BY <1>2, <3>1, <3>2
    <3>3. CASE ~(k = l /\ c = ch)
      <4>1. Active(k, c) /\ m = Cursor(k, c) BY <1>7, <3>1, <3>3 DEF Active, Cursor
      <4> QED BY <4>1, PointCases
    <3> QED BY <3>2, <3>3
  <2> QED BY <2>1, <2>2 DEF Points
<1>10. /\ p \in Points(ch) /\ PointBacked(ch, p) /\ p \in Positions(ch) /\ e \in Positions(ch)
       /\ p \in Nat /\ e \in Nat /\ p <= e
       /\ HasMore(l, ch) => p < e
  BY <1>0, <1>2, PageEndType, PointCases, BackingParts, Numbers
<1>11. /\ e \in {p, file[ch][p]} /\ p + 1 .. e \subseteq table[ch]
  BY <1>1, <1>4 DEF Stands, PartOf
<1>12. \A c \in Channels : Landed(c)' = Landed(c) BY <1>3 DEF Landed
<1>13. Holds(ch, e)
  <2>1. p + 1 .. e \subseteq Landed(ch) BY <1>10, <1>11 DEF Landed
  <2>2. \A x \in 1 .. e : x \in 1 .. p \/ x \in p + 1 .. e BY <1>10
  <2> QED BY <1>10, <1>11, <2>1, <2>2 DEF Holds, PointBacked
<1>b. run[l].size # DefaultSize => \A m \in Points(ch)' : m = e
  <2> SUFFICES ASSUME run[l].size # DefaultSize, NEW m \in Points(ch)' PROVE m = e
    OBVIOUS
  <2>1. \A k \in Runs : Alive(k) => k = l BY <1>2, <1>4 DEF Uniform
  <2>2. \A k \in Runs : Active(k, ch)' => k = l BY <1>2, <2>1 DEF Active, Alive
  <2> QED BY <1>2, <1>6, <2>2 DEF Points
<1>14. ASSUME NEW m \in Points(ch), m < e, run[l].size = DefaultSize PROVE Fits(ch, m)
  <2>1. m \in Positions(ch) /\ m \in Nat /\ PointBacked(ch, m) BY PointCases, BackingParts, Numbers
  <2>2. CASE m < p BY <1>10, <2>1, <2>2 DEF PointBacked
  <2>3. CASE m > p BY <1>10, <2>1, <2>3 DEF PointBacked
  <2>4. CASE m = p
    <3>1. file[ch][p] = e BY <1>10, <1>11, <1>14, <2>4
    <3>2. e <= p + run[l].size BY <1>0, <1>2, PageEndType
    <3> QED BY <1>14, <2>4, <3>1, <3>2 DEF Fits
  <2> QED BY <1>10, <2>1, <2>2, <2>3, <2>4
<1>15. ASSUME NEW c \in Channels, NEW m \in Points(c)' PROVE PointBacked(c, m)'
  <2>1. m \in Points(c) => PointBacked(c, m) BY BackingParts
  <2>2. CASE c # ch
    BY <1>3, <1>9, <1>12, <2>1, <2>2 DEF PointBacked, Holds, Fits
  <2>3. CASE c = ch
    <3>1. Holds(ch, m)'
      BY <1>3, <1>9, <1>12, <1>13, <2>1, <2>3 DEF PointBacked, Holds
    <3>2. ASSUME NEW q \in Positions(ch), q > m PROVE Fits(ch, q)'
      <4>1. q \in Nat /\ (m = e => q > p) BY <1>10, <3>2, Numbers
      <4> QED BY <1>3, <1>9, <1>10, <2>1, <2>3, <3>2, <4>1 DEF PointBacked, Fits
    <3>3. ASSUME NEW n \in Points(ch)', m < n PROVE Fits(ch, m)'
      <4>1. m \in Points(ch) \/ m = e BY <1>9, <2>3
      <4>2. n \in Points(ch) \/ n = e BY <1>9
      <4>3. CASE m = e
        <5>1. n \in Points(ch) BY <1>10, <3>3, <4>2, <4>3
        <5>2. n \in Nat BY <5>1, PointCases, Numbers
        <5>3. Fits(ch, e)
          <6>1. CASE e = p BY <1>10, <3>3, <4>3, <5>1, <6>1 DEF PointBacked
          <6>2. CASE e > p BY <1>10, <6>2 DEF PointBacked
          <6> QED BY <1>10, <6>1, <6>2
        <5> QED BY <1>3, <4>3, <5>3 DEF Fits
      <4>4. CASE m \in Points(ch) /\ n = e
        <5>1. run[l].size = DefaultSize BY <1>10, <1>b, <2>3, <3>3, <4>4
        <5> QED BY <1>3, <1>14, <3>3, <4>4, <5>1 DEF Fits
      <4>5. CASE m \in Points(ch) /\ n \in Points(ch)
        BY <1>3, <2>1, <2>3, <3>3, <4>5 DEF PointBacked, Fits
      <4> QED BY <4>1, <4>2, <4>3, <4>4, <4>5
    <3> QED BY <2>3, <3>1, <3>2, <3>3 DEF PointBacked
  <2> QED BY <2>2, <2>3
<1> QED BY <1>5, <1>8, <1>15

\* The end of a run, whatever it wrote.
LEMMA BackingEnds ==
  ASSUME TypeOK, BackingInv, UNCHANGED saved, mixed' = mixed, NEW l \in Runs, Ends(l)
  PROVE  BackingInv'
<1>1. ~Alive(l)' /\ \A k \in Runs : k # l => run'[k] = run[k] BY TypeParts, RunEnds
<1> QED BY <1>1, BackingQuiet DEF Alive, Active, ThreadAt, Cursor

\* A step of a run keeps the page sizes of the runs and launches none, and while
\* the run goes on its job is not shown as stopped.
LEMMA RunStepFrame ==
  ASSUME TypeOK, RunHasRow, NEW l \in Runs, RunStep(l)
  PROVE  /\ \A k \in Runs : Alive(k)' => Alive(k) /\ run'[k].size = run[k].size
         /\ Alive(l) /\ UNCHANGED <<mixed, request, sweep, contested>>
         /\ job'.status \in {job.status, "RUNNING"} \/ ~Alive(l)'
<1>0. RunOK /\ job \in Jobs /\ StoresOK /\ RestOK BY TypeParts
<1>b. Alive(l) => Exists BY DEF RunHasRow, Working
<1> USE DEF history
<1>a. ASSUME Alive(l), run'[l].size = run[l].size, \A k \in Runs : k # l => run'[k] = run[k]
      PROVE  \A k \in Runs : Alive(k)' => Alive(k) /\ run'[k].size = run[k].size
  BY <1>a DEF Alive
<1>1. CASE Load(l) \/ Begin(l) \/ Claim(l)
  <2>1. /\ Alive(l) /\ \E s \in Stages : Goes(l, s)
    BY <1>1 DEF Load, Begin, Claim, At, Stages
  <2>2. /\ run'[l].size = run[l].size /\ \A k \in Runs : k # l => run'[k] = run[k]
    BY <1>0, <2>1, Moves
  <2>3. job'.status \in {job.status, "RUNNING"}
    BY <1>0, <1>1 DEF Load, Begin, Claim, WriteStatus, Jobs
  <2> QED BY <1>1, <1>a, <2>1, <2>2, <2>3 DEF Load, Begin, Claim
<1>2. CASE Plan(l) BY <1>0, <1>2, <1>a, Planned DEF Plan
<1>3. ASSUME NEW ch \in Channels, ThreadStep(l, ch)
      PROVE  /\ \A k \in Runs : Alive(k)' => Alive(k) /\ run'[k].size = run[k].size
             /\ Alive(l) /\ UNCHANGED <<mixed, request, sweep, contested>>
             /\ job'.status = job.status
  <2>1. Alive(l) /\ run'[l].size = run[l].size /\ \A k \in Runs : k # l => run'[k] = run[k]
    BY <1>0, <1>3, ThreadStepMoves
  <2>2. UNCHANGED <<mixed, request, sweep, contested>> /\ job'.status = job.status
    BY <1>0, <1>3 DEF ThreadStep, CheckStop, LandPage, LoadPage, SavePage, ThreadFails, Jobs
  <2> QED BY <1>a, <2>1, <2>2
<1>4. CASE ReadStatus(l)
  <2>1. Alive(l) BY <1>4 DEF ReadStatus, At
  <2> QED BY <1>0, <1>4, <1>a, <1>b, <2>1, StatusRead DEF ReadStatus
<1>5. CASE ReadCancel(l) BY <1>0, <1>5, <1>a, CancelRead DEF ReadCancel
<1>6. CASE ReadPause(l) BY <1>0, <1>6, <1>a, PauseRead DEF ReadPause
<1>7. CASE Fail(l)
  <2>1. Alive(l) BY <1>7 DEF Fail, At
  <2> QED BY <1>0, <1>7, <1>a, <1>b, <2>1, Failed DEF Fail
<1>8. CASE Settle(l) \/ HandleException(l) \/ SwallowException(l)
  <2>1. Ends(l) /\ Alive(l) BY <1>8 DEF Settle, HandleException, SwallowException, At
  <2>2. ~Alive(l)' /\ \A k \in Runs : k # l => run'[k] = run[k] BY <1>0, <2>1, RunEnds
  <2> QED BY <1>8, <2>1, <2>2 DEF Settle, HandleException, SwallowException, Alive
<1> QED BY <1>1, <1>2, <1>3, <1>4, <1>5, <1>6, <1>7, <1>8 DEF RunStep

\* Nothing starts, and no run is launched.
LEMMA StartKept ==
  ASSUME StartInv, mixed' = mixed,
         \A k \in Runs : Alive(k)' => Alive(k) /\ run'[k].size = run[k].size,
         \A c \in Clients : request'[c].step = "started" => request[c].step = "started"
  PROVE  StartInv'
BY DEF StartInv

\* A request goes on to a step that is not the start's.
LEMMA StartLeft ==
  ASSUME RestOK, StartInv, NEW c \in Clients, UNCHANGED <<run, mixed>>,
         Answered(c) \/ \E step \in RequestSteps \ {"started"} : Asks(c, step)
  PROVE  StartInv'
<1>1. \A d \in Clients : request'[d].step = "started" => request[d].step = "started"
  BY DEF Answered, Asks, NoRequest, RestOK
<1> QED BY <1>1, StartKept DEF Alive

\* A launch of the default size, or of the start itself.
LEMMA StartLaunch ==
  ASSUME TypeOK, StartInv, NEW l \in Runs, NEW size \in Sizes, Launch(l, size),
         \/ /\ size = DefaultSize
            /\ \A c \in Clients : request'[c].step = "started" => request[c].step = "started"
         \/ \A c \in Clients : request'[c].step # "started"
  PROVE  StartInv'
<1>1. /\ run'[l].size = size /\ \A k \in Runs : k # l => run'[k] = run[k]
  BY TypeParts, RunLaunched DEF RestOK
<1>2. mixed => mixed' BY DEF Launch
<1> QED BY <1>1, <1>2 DEF StartInv, Alive

LEMMA StartNext ==
  ASSUME TypeOK, RunHasRow, StartInv, [Next]_vars
  PROVE  StartInv'
<1>0. RunOK /\ job \in Jobs /\ StoresOK /\ RestOK BY TypeParts
<1> USE DEF history
<1>a. ASSUME UNCHANGED <<run, mixed, request>> PROVE StartInv'
  BY <1>a, StartKept DEF Alive
<1>1. ASSUME NEW l \in Runs, RunStep(l) PROVE StartInv'
  BY <1>1, RunStepFrame, StartKept
<1>2. ASSUME NEW c \in Clients, Start(c) PROVE StartInv'
  <2>1. /\ ~Working /\ \A d \in Clients : request[d] = NoRequest
    BY <1>2 DEF Start, RunHasRow
  <2>2. \A d \in Clients : request'[d].step = "started" => d = c
    BY <1>0, <1>2, <2>1 DEF Start, Asks, RestOK, NoRequest
  <2>3. \A k \in Runs : ~Alive(k)' BY <1>2, <2>1 DEF Start, Working, Alive
  <2> QED BY <2>2, <2>3 DEF StartInv
<1>3. ASSUME NEW c \in Clients, RequestPause(c) \/ RequestResume(c) PROVE StartInv'
  BY <1>0, <1>3, StartLeft DEF RequestPause, RequestResume, RequestSteps
<1>4. ASSUME NEW c \in Clients, RequestCancel(c) PROVE StartInv'
  <2>1. \A d \in Clients : request'[d].step = "started" => request[d].step = "started"
    BY <1>0, <1>4 DEF RequestCancel, RestOK
  <2> QED BY <1>4, <2>1, StartKept DEF RequestCancel, Alive
<1>5. ASSUME NEW c \in Clients, LaunchStarted(c) PROVE StartInv'
  <2>1. \A d \in Clients : request'[d].step # "started"
    BY <1>0, <1>5 DEF LaunchStarted, Answered, NoRequest, RestOK, StartInv
  <2> QED BY <1>5, <2>1, StartLaunch DEF LaunchStarted
<1>6. ASSUME NEW c \in Clients, LaunchResumed(c) PROVE StartInv'
  <2>1. \A d \in Clients : request'[d].step = "started" => request[d].step = "started"
    BY <1>0, <1>6 DEF LaunchResumed, Answered, NoRequest, RestOK
  <2> QED BY <1>6, <2>1, StartLaunch, Numbers DEF LaunchResumed
<1>7. ASSUME NEW c \in Clients,
             \/ SetPauseEvent(c) \/ StorePause(c) \/ ClearEvents(c) \/ ClearControl(c)
             \/ Resume(c) \/ SetCancelEvents(c) \/ StoreCancel(c) \/ Cancel(c) \/ RequestFails(c)
      PROVE  StartInv'
  <2>1. /\ UNCHANGED <<run, mixed>>
        /\ Answered(c) \/ \E step \in RequestSteps \ {"started"} : Asks(c, step)
    BY <1>7 DEF SetPauseEvent, StorePause, ClearEvents, ClearControl, Resume, SetCancelEvents,
                StoreCancel, Cancel, RequestFails, RequestSteps
  <2> QED BY <1>0, <2>1, StartLeft
<1>8. CASE LaunchOrphan
  BY <1>8, StartLaunch, Numbers DEF LaunchOrphan
<1>9. CASE TakeOver \/ ReadOrphan \/ Honour \/ ClearHonoured \/ SweepFails \/ Restart
  BY <1>9, <1>a DEF TakeOver, ReadOrphan, Honour, ClearHonoured, SweepFails, Restart
<1>10. CASE Crash
  BY <1>10, StartKept DEF Crash, Alive, NoRequest
<1>11. CASE UNCHANGED vars BY <1>11, <1>a DEF vars
<1> QED
  BY <1>1, <1>2, <1>3, <1>4, <1>5, <1>6, <1>7, <1>8, <1>9, <1>10, <1>11
  DEF Next, Ask, Answer, Sweep

LEMMA BackingRun ==
  ASSUME TypeOK, RunHasRow, BackingInv, NEW l \in Runs, RunStep(l)
  PROVE  BackingInv'
<1>0. RunOK /\ job \in Jobs /\ StoresOK /\ RestOK BY TypeParts
<1>b. Alive(l) => Exists BY DEF RunHasRow, Working
<1> USE DEF history
<1>a. ASSUME Alive(l), UNCHANGED saved, mixed' = mixed,
             run'[l].size = run[l].size, run'[l].thread = run[l].thread,
             \A k \in Runs : k # l => run'[k] = run[k]
      PROVE  BackingInv'
  BY <1>a, BackingQuiet DEF Alive, Active, ThreadAt, Cursor
<1>1. CASE Load(l) \/ Begin(l) \/ Claim(l)
  <2>1. Alive(l) /\ UNCHANGED saved /\ mixed' = mixed
    BY <1>1 DEF Load, Begin, Claim, At
  <2>2. \E s \in Stages : Goes(l, s) BY <1>1 DEF Load, Begin, Claim, Stages
  <2>3. /\ run'[l].size = run[l].size /\ run'[l].thread = run[l].thread
        /\ \A k \in Runs : k # l => run'[k] = run[k]
    BY <1>0, <2>1, <2>2, Moves
  <2> QED BY <1>a, <2>1, <2>3
<1>2. CASE Plan(l) BY <1>2, BackingPlan
<1>3. ASSUME NEW ch \in Channels, CheckStop(l, ch) \/ ThreadFails(l, ch)
      PROVE  BackingInv'
  <2>1. /\ ThreadStep(l, ch) /\ UNCHANGED saved /\ mixed' = mixed
    BY <1>3 DEF ThreadStep, CheckStop, ThreadFails
  <2>2. /\ Alive(l) /\ Alive(l)' /\ Active(l, ch) /\ run'[l].size = run[l].size
        /\ \A c \in Channels : c # ch => run'[l].thread[c] = run[l].thread[c]
        /\ \A k \in Runs : k # l => run'[k] = run[k]
        /\ ~SavePage(l, ch) /\ Active(l, ch)' => Cursor(l, ch)' = Cursor(l, ch)
    BY <1>0, <2>1, ThreadStepMoves
  <2>3. /\ ~ThreadAt(l, ch, "load")' /\ ~ThreadAt(l, ch, "save")'
        /\ Active(l, ch)' => CheckStop(l, ch)
    <3>1. PICK pc \in {"land", "done", "failed"} :
            /\ ThreadGoes(l, ch, pc) \/ ThreadEnds(l, ch, pc)
            /\ pc = "land" => CheckStop(l, ch)
      BY <1>3 DEF CheckStop, ThreadFails
    <3>2. run'[l].thread[ch].pc = pc BY <1>0, <2>2, <3>1, ThreadIsAt DEF Busy
    <3> QED BY <3>1, <3>2 DEF ThreadAt, Active, Busy
  <2>a. Active(l, ch)' => Cursor(l, ch)' = Cursor(l, ch)
    BY <2>2, <2>3 DEF CheckStop, SavePage, ThreadAt
  <2>4. \A k \in Runs : Alive(k)' => Alive(k) /\ run'[k].size = run[k].size
    BY <2>2 DEF Alive
  <2>5. ASSUME NEW k \in Runs, NEW c \in Channels
        PROVE  /\ Active(k, c)' => Active(k, c) /\ Cursor(k, c)' = Cursor(k, c)
               /\ \A pc \in {"load", "save"} : ThreadAt(k, c, pc)' =>
                    ThreadAt(k, c, pc) /\ run'[k].size = run[k].size
                      /\ Cursor(k, c)' = Cursor(k, c)
    <3>1. CASE k = l /\ c = ch BY <2>2, <2>3, <2>a, <3>1
    <3>2. CASE ~(k = l /\ c = ch)
      BY <2>2, <3>2 DEF Alive, Active, ThreadAt, Cursor
    <3> QED BY <3>1, <3>2
  <2> QED BY <2>1, <2>4, <2>5, BackingQuiet
<1>4. ASSUME NEW ch \in Channels, LandPage(l, ch) \/ LoadPage(l, ch) \/ SavePage(l, ch)
      PROVE  BackingInv'
  BY <1>4, BackingLand, BackingLoad, BackingSave
<1>5. CASE ReadStatus(l)
  <2>1. Alive(l) BY <1>5 DEF ReadStatus, At
  <2> QED BY <1>0, <1>5, <1>a, <1>b, <2>1, StatusRead DEF ReadStatus
<1>6. CASE ReadCancel(l) BY <1>0, <1>6, <1>a, CancelRead DEF ReadCancel
<1>7. CASE ReadPause(l) BY <1>0, <1>7, <1>a, PauseRead DEF ReadPause
<1>8. CASE Fail(l)
  <2>1. Alive(l) BY <1>8 DEF Fail, At
  <2> QED BY <1>0, <1>8, <1>a, <1>b, <2>1, Failed DEF Fail
<1>9. CASE Settle(l) \/ HandleException(l) \/ SwallowException(l)
  BY <1>9, BackingEnds DEF Settle, HandleException, SwallowException
<1> QED BY <1>1, <1>2, <1>3, <1>4, <1>5, <1>6, <1>7, <1>8, <1>9 DEF RunStep, ThreadStep

LEMMA BackingNext ==
  ASSUME TypeOK, RunHasRow, StartInv, BackingInv, [Next]_vars
  PROVE  BackingInv'
<1> USE DEF history
<1>a. ASSUME UNCHANGED <<run, saved, mixed>> PROVE BackingInv'
  BY <1>a, BackingQuiet DEF Alive, Active, ThreadAt, Cursor
<1>1. ASSUME NEW l \in Runs, RunStep(l) PROVE BackingInv' BY <1>1, BackingRun
<1>2. ASSUME NEW c \in Clients, Ask(c) PROVE BackingInv'
  BY <1>2, <1>a DEF Ask, Start, RequestPause, RequestResume, RequestCancel
<1>3. ASSUME NEW c \in Clients, LaunchStarted(c) PROVE BackingInv'
  <2>1. ~mixed => \A k \in Runs : Alive(k) => run[k].size = DefaultSize
    BY <1>3 DEF LaunchStarted, StartInv
  <2> QED BY <1>3, <2>1, BackingLaunch DEF LaunchStarted
<1>4. ASSUME NEW c \in Clients, LaunchResumed(c) PROVE BackingInv'
  BY <1>4, BackingLaunch, Numbers DEF LaunchResumed
<1>5. ASSUME NEW c \in Clients, Answer(c), ~LaunchStarted(c), ~LaunchResumed(c) PROVE BackingInv'
  BY <1>5, <1>a DEF Answer, SetPauseEvent, StorePause, ClearEvents, ClearControl, Resume,
                    SetCancelEvents, StoreCancel, Cancel, RequestFails
<1>6. CASE LaunchOrphan BY <1>6, BackingLaunch, Numbers DEF LaunchOrphan
<1>7. CASE TakeOver \/ ReadOrphan \/ Honour \/ ClearHonoured \/ SweepFails \/ Restart
  BY <1>7, <1>a DEF TakeOver, ReadOrphan, Honour, ClearHonoured, SweepFails, Restart
<1>8. CASE Crash
  <2>1. \A k \in Runs : ~Alive(k)' BY <1>8 DEF Crash, Alive
  <2> QED BY <1>8, <2>1, BackingQuiet DEF Crash, Active, ThreadAt
<1>9. CASE UNCHANGED vars BY <1>9, <1>a DEF vars, saved
<1> QED BY <1>1, <1>2, <1>3, <1>4, <1>5, <1>6, <1>7, <1>8, <1>9 DEF Next, Sweep

\* Nothing is stored yet and nothing said to be.
LEMMA BackingFirst == Init => BackingInv /\ StartInv
<1> SUFFICES ASSUME Init PROVE BackingInv /\ StartInv
  OBVIOUS
<1>1. \A l \in Runs : ~Alive(l) BY DEF Init, Alive
<1>2. \A ch \in Channels : Points(ch) = {0}
  BY <1>1 DEF Init, Points, Saved, Active
<1>3. \A ch \in Channels : \A p \in Positions(ch) : file[ch][p] <= p + DefaultSize
  BY Numbers DEF Init
<1>4. \A c \in Clients : request[c].step = "none" BY DEF Init, NoRequest
<1> QED BY <1>1, <1>2, <1>3, <1>4 DEF BackingInv, StartInv, Active, ThreadAt

\* What a checkpoint says is backfilled is in storage and in ClickHouse, through
\* crashes, failed threads, overlapping runs of one page size and the replays of
\* pages between them, for channels of any length.
THEOREM CheckpointBacked == Spec => []CheckpointIsBacked
<1>1. BackingInv => CheckpointIsBacked
  BY DEF BackingInv, CheckpointIsBacked, Points
<1> QED BY <1>1, BackingFirst, TypeCorrect, StartNext, BackingNext, PTL DEF Spec

-----------------------------------------------------------------------------
(***************************************************************************)
(* While nobody has taken the job up over somebody else.                   *)
(***************************************************************************)

Stopped == job.status \in {"PAUSED", "FAILED", "COMPLETED"}

\* The parts of OwnerInv.
Solo == \A l, k \in Runs : Alive(l) /\ Alive(k) => l = k

Owner ==
  /\ Solo
  /\ \A c, d \in Clients : Pending(c) /\ Pending(d) => c = d
  /\ \A c \in Clients : Pending(c) => ~Working /\ sweep = "none"
  /\ sweep # "none" => ~Working
  /\ Stopped => ~Working /\ (\A c \in Clients : ~Pending(c)) /\ sweep \in {"none", "clear"}

LEMMA OwnerParts == OwnerInv <=> (~contested => Owner)
BY DEF OwnerInv, Owner, Solo, Stopped

LEMMA OwnerPartsNext ==
  ASSUME ~contested' => Owner' PROVE OwnerInv'
BY DEF OwnerInv, Owner, Solo, Stopped

\* The step of a run: it is the only one, and nobody else is about to have it.
LEMMA OwnerRun ==
  ASSUME TypeOK, RunHasRow, OwnerInv, NEW l \in Runs, RunStep(l)
  PROVE  OwnerInv'
<1>1. /\ \A k \in Runs : Alive(k)' => Alive(k)
      /\ Alive(l) /\ UNCHANGED <<request, sweep, contested>>
      /\ job'.status \in {job.status, "RUNNING"} \/ ~Alive(l)'
  BY RunStepFrame
<1> SUFFICES ASSUME ~contested' PROVE Owner'
  BY OwnerPartsNext
<1>2. ~contested /\ Owner BY <1>1, OwnerParts
<1>3. sweep = "none" /\ ~Stopped /\ \A c \in Clients : ~Pending(c)
  BY <1>1, <1>2 DEF Owner, Working
<1>4. sweep' = "none" /\ \A c \in Clients : ~Pending(c)' BY <1>1, <1>3 DEF Pending
<1>5. Solo' BY <1>1, <1>2 DEF Owner, Solo
<1>6. Stopped' => ~Working'
  <2>1. ~Alive(l)' => ~Working' BY <1>1, <1>2 DEF Owner, Solo, Working
  <2> QED BY <1>1, <1>3, <2>1 DEF Stopped
<1> QED BY <1>4, <1>5, <1>6 DEF Owner

\* No run is launched, nobody new is about to, and the job is not stopped.
LEMMA OwnerKept ==
  ASSUME OwnerInv, ~contested' => ~contested, UNCHANGED run,
         \A c \in Clients : Pending(c)' => Pending(c),
         sweep' = sweep, Stopped' => Stopped
  PROVE  OwnerInv'
<1>1. Working' <=> Working BY DEF Working, Alive
<1>2. Solo' <=> Solo BY DEF Solo, Alive
<1> QED BY <1>1, <1>2, OwnerParts, OwnerPartsNext DEF Owner

\* A launch by the only one who has the job.
LEMMA OwnerLaunch ==
  ASSUME TypeOK, NEW l \in Runs, NEW size \in Sizes, Launch(l, size),
         ~contested' => /\ ~Working /\ ~Stopped' /\ sweep' = "none"
                        /\ \A c \in Clients : ~Pending(c)'
  PROVE  OwnerInv'
<1>1. \A k \in Runs : k # l => run'[k] = run[k] BY TypeParts, RunLaunched DEF RestOK
<1>2. ~Working => Solo' BY <1>1 DEF Working, Solo, Alive
<1> QED BY <1>2, OwnerPartsNext DEF Owner

LEMMA OwnerRequest ==
  ASSUME TypeOK, RunHasRow, OwnerInv, NEW c \in Clients, Ask(c) \/ Answer(c)
  PROVE  OwnerInv'
<1>0. RunOK /\ job \in Jobs /\ RestOK /\ StoresOK BY TypeParts
<1> USE DEF saved, history
<1>a. ASSUME NEW step \in RequestSteps \ {"started", "launch"}, Asks(c, step)
      PROVE  \A d \in Clients : Pending(d)' => Pending(d)
  BY <1>0, <1>a DEF Asks, Pending, RestOK
<1>b. ASSUME Answered(c)
      PROVE  \A d \in Clients : Pending(d)' => Pending(d) /\ d # c
  BY <1>0, <1>b DEF Answered, Pending, NoRequest, RestOK
<1>1. CASE Start(c)
  <2>1. sweep = "none" /\ ~Working /\ \A d \in Clients : request[d] = NoRequest
    BY <1>1 DEF Start, RunHasRow
  <2>2. \A d \in Clients : Pending(d)' => d = c
    BY <1>0, <1>1, <2>1 DEF Start, Asks, Pending, NoRequest, RestOK
  <2>3. ~Stopped' BY <1>0, <1>1 DEF Start, WriteStatus, Stopped, Jobs
  <2>4. ~Working' /\ Solo' BY <1>1, <2>1 DEF Start, Working, Solo, Alive
  <2> QED BY <1>1, <2>1, <2>2, <2>3, <2>4, OwnerPartsNext DEF Start, Owner
<1>2. CASE RequestPause(c) \/ RequestResume(c)
  <2>1. \A d \in Clients : Pending(d)' => Pending(d)
    BY <1>2, <1>a DEF RequestPause, RequestResume, RequestSteps
  <2> QED BY <1>2, <2>1, OwnerKept DEF RequestPause, RequestResume, Stopped
<1>3. CASE RequestCancel(c)
  <2>1. \A d \in Clients : Pending(d)' => Pending(d)
    BY <1>0, <1>3 DEF RequestCancel, Pending, RestOK
  <2> QED BY <1>3, <2>1, OwnerKept DEF RequestCancel, Stopped
<1>4. CASE LaunchStarted(c) \/ LaunchResumed(c)
  <2>1. Pending(c) /\ Answered(c) /\ UNCHANGED <<job, sweep, contested>>
    BY <1>4 DEF LaunchStarted, LaunchResumed, Pending
  <2>2. PICK l \in Runs, size \in Sizes : Launch(l, size)
    BY <1>4, Numbers DEF LaunchStarted, LaunchResumed
  <2>3. ASSUME ~contested
        PROVE  /\ ~Working /\ ~Stopped' /\ sweep' = "none"
               /\ \A d \in Clients : ~Pending(d)'
    <3>1. Owner BY <2>3, OwnerParts
    <3> QED BY <1>b, <2>1, <3>1 DEF Owner, Stopped
  <2> QED BY <2>1, <2>2, <2>3, OwnerLaunch
<1>5. CASE SetPauseEvent(c) \/ SetCancelEvents(c) \/ ClearEvents(c)
  <2>1. \A d \in Clients : Pending(d)' => Pending(d)
    BY <1>5, <1>a DEF SetPauseEvent, SetCancelEvents, ClearEvents, RequestSteps
  <2>2. ~contested' => ~contested
    BY <1>5 DEF SetPauseEvent, SetCancelEvents, ClearEvents, ContestedIf
  <2> QED BY <1>5, <2>1, <2>2, OwnerKept DEF SetPauseEvent, SetCancelEvents, ClearEvents, Stopped
<1>6. CASE StorePause(c) \/ StoreCancel(c) \/ ClearControl(c)
  <2>1. \A d \in Clients : Pending(d)' => Pending(d)
    BY <1>6, <1>a, <1>b DEF StorePause, StoreCancel, ClearControl, RequestSteps
  <2>2. job'.status = job.status BY <1>0, <1>6 DEF StorePause, StoreCancel, ClearControl, Jobs
  <2>3. ~contested' => ~contested
    BY <1>6 DEF StorePause, StoreCancel, ClearControl, ContestedIf
  <2> QED BY <1>6, <2>1, <2>2, <2>3, OwnerKept DEF StorePause, StoreCancel, ClearControl, Stopped
<1>7. CASE Resume(c)
  <2>1. ~contested' => ~contested /\ ~Taken BY <1>7 DEF Resume, ContestedIf
  <2>2. ASSUME ~Taken
        PROVE  /\ ~Working' /\ Solo' /\ sweep' = "none"
               /\ \A d \in Clients : Pending(d)' => d = c
    <3>1. ~Working /\ sweep = "none" /\ \A d \in Clients : ~Pending(d) BY <2>2 DEF Taken
    <3>2. \A d \in Clients : Pending(d)' => d = c
      BY <1>0, <1>7, <3>1 DEF Resume, Asks, Pending, RestOK
    <3> QED BY <1>7, <3>1, <3>2 DEF Resume, Working, Solo, Alive
  <2>3. ~Stopped' BY <1>0, <1>7 DEF Resume, WriteStatus, Stopped, Jobs
  <2> QED BY <2>1, <2>2, <2>3, OwnerPartsNext DEF Owner
<1>8. CASE Cancel(c)
  <2>1. ~Stopped' BY <1>0, <1>8 DEF Cancel, WriteStatus, Stopped, Jobs
  <2> QED BY <1>8, <1>b, <2>1, OwnerKept DEF Cancel
<1>9. CASE RequestFails(c)
  BY <1>9, <1>b, OwnerKept DEF RequestFails, Stopped
<1> QED BY <1>1, <1>2, <1>3, <1>4, <1>5, <1>6, <1>7, <1>8, <1>9 DEF Ask, Answer

LEMMA OwnerSweep ==
  ASSUME TypeOK, RunHasRow, OwnerInv, Sweep \/ Crash \/ Restart
  PROVE  OwnerInv'
<1>0. RunOK /\ job \in Jobs /\ RestOK /\ StoresOK BY TypeParts
<1> USE DEF saved, history
<1>a. ASSUME UNCHANGED <<run, request>>
      PROVE  (Working' <=> Working) /\ (Solo' <=> Solo)
             /\ \A c \in Clients : Pending(c)' <=> Pending(c)
  BY <1>a DEF Working, Solo, Alive, Pending
<1>1. CASE TakeOver
  <2>1. ~contested' => ~contested /\ ~Taken BY <1>1 DEF TakeOver, ContestedIf
  <2>2. ~Stopped' BY <1>0, <1>1 DEF TakeOver, Orphaned, Stopped, Jobs
  <2>3. ~Taken => ~Working /\ \A c \in Clients : ~Pending(c) BY DEF Taken
  <2> QED BY <1>1, <1>a, <2>1, <2>2, <2>3, OwnerParts, OwnerPartsNext DEF TakeOver, Owner
<1>2. CASE ReadOrphan
  <2>1. ASSUME ~contested PROVE Owner'
    <3>1. Owner BY <2>1, OwnerParts
    <3>2. ~Working /\ (\A c \in Clients : ~Pending(c)) /\ ~Stopped
      BY <1>2, <3>1 DEF ReadOrphan, Owner
    <3> QED BY <1>2, <1>a, <3>1, <3>2 DEF ReadOrphan, Owner, Stopped
  <2> QED BY <1>2, <2>1, OwnerPartsNext DEF ReadOrphan
<1>3. CASE Honour
  <2>1. ASSUME ~contested PROVE Owner'
    <3>1. Owner BY <2>1, OwnerParts
    <3>2. ~Working /\ (\A c \in Clients : ~Pending(c))
      BY <1>3, <3>1 DEF Honour, Owner
    <3> QED BY <1>3, <1>a, <3>1, <3>2 DEF Honour, Owner, Stopped
  <2> QED BY <1>3, <2>1, OwnerPartsNext DEF Honour
<1>4. CASE ClearHonoured
  <2>1. ASSUME ~contested PROVE Owner'
    <3>1. Owner BY <2>1, OwnerParts
    <3>2. ~Working /\ (\A c \in Clients : ~Pending(c))
      BY <1>4, <3>1 DEF ClearHonoured, Owner
    <3> QED BY <1>4, <1>a, <3>1, <3>2 DEF ClearHonoured, Owner
  <2> QED BY <1>4, <2>1, OwnerPartsNext DEF ClearHonoured
<1>5. CASE LaunchOrphan
  <2>1. PICK l \in Runs : Launch(l, DefaultSize) BY <1>5 DEF LaunchOrphan
  <2>2. ASSUME ~contested
        PROVE  ~Working /\ ~Stopped' /\ sweep' = "none" /\ \A c \in Clients : ~Pending(c)'
    <3>1. Owner BY <2>2, OwnerParts
    <3> QED BY <1>5, <3>1 DEF LaunchOrphan, Owner, Stopped, Pending
  <2> QED BY <1>5, <2>1, <2>2, OwnerLaunch, Numbers DEF LaunchOrphan
<1>6. CASE SweepFails
  <2>1. ASSUME ~contested PROVE Owner'
    <3>1. Owner BY <2>1, OwnerParts
    <3>2. ~Working /\ (\A c \in Clients : ~Pending(c))
      BY <1>6, <3>1 DEF SweepFails, Owner
    <3> QED BY <1>6, <1>a, <3>1, <3>2 DEF SweepFails, Owner
  <2> QED BY <1>6, <2>1, OwnerPartsNext DEF SweepFails
<1>7. CASE Crash
  <2>1. ~Working' /\ Solo' /\ sweep' = "none" /\ \A c \in Clients : ~Pending(c)'
    BY <1>7 DEF Crash, Working, Solo, Alive, Pending, NoRequest
  <2> QED BY <2>1, OwnerPartsNext DEF Owner
<1>8. CASE Restart BY <1>8, OwnerKept DEF Restart, Stopped, Pending
<1> QED BY <1>1, <1>2, <1>3, <1>4, <1>5, <1>6, <1>7, <1>8 DEF Sweep

LEMMA OwnerNext ==
  ASSUME TypeOK, RunHasRow, OwnerInv, [Next]_vars
  PROVE  OwnerInv'
<1>1. CASE UNCHANGED vars BY <1>1, OwnerKept DEF vars, Stopped, Pending
<1> QED BY <1>1, OwnerRun, OwnerRequest, OwnerSweep DEF Next

LEMMA OwnerFirst == Init => OwnerInv
BY DEF Init, OwnerInv, Working, Alive, Pending, NoRequest, NoRow

\* Whoever has the job has it alone: a job shown as stopped has nobody at work,
\* as long as nobody takes it up over somebody else.
THEOREM OwnerCorrect == Spec => []OwnerInv
BY OwnerFirst, TypeCorrect, OwnerNext, PTL DEF Spec

-----------------------------------------------------------------------------
(***************************************************************************)
(* Then threads stand at their checkpoints, and the stores follow them.    *)
(***************************************************************************)

AllComplete == \A ch \in Channels : ckpt[ch].completed

\* The parts of CalmInv.
StatusFits == job.status = "COMPLETED" => AllComplete

DecisionFits ==
  \A l \in Runs : At(l, "settle") /\ run[l].target = "COMPLETED" => AllComplete

\* The stages at which a run answers for every channel that is not complete.
Answers(l) == At(l, "work") \/ At(l, "cancel") \/ At(l, "pause")

ThreadFits(l, ch) ==
  /\ Active(l, ch) => At(l, "work") /\ ~ckpt[ch].completed /\ ckpt[ch].cursor = Cursor(l, ch)
  /\ Answers(l) /\ ~ckpt[ch].completed =>
       Active(l, ch) \/ ThreadAt(l, ch, "failed") \/ Signalled

StoreFits(ch) ==
  /\ job.rows[ch] = Saved(ch)
  /\ \A p \in table[ch] : \E size \in Sizes : p <= Saved(ch) + size
  /\ \A p \in Positions(ch) : p > Saved(ch) => file[ch][p] = 0

PartFits(ch, p) == \E size \in Sizes : file[ch][p] <= p + size

Calm ==
  /\ StatusFits /\ DecisionFits
  /\ \A l \in Runs, ch \in Channels : ThreadFits(l, ch)
  /\ \A ch \in Channels : StoreFits(ch)

LEMMA CalmParts ==
  CalmInv <=> /\ \A ch \in Channels : \A p \in Positions(ch) : PartFits(ch, p)
              /\ ~contested => Calm
BY DEF CalmInv, Calm, AllComplete, StatusFits, DecisionFits, ThreadFits, Answers, StoreFits,
       PartFits, RowCountExact, OnePageInFlight

LEMMA CalmPartsNext ==
  ASSUME \A ch \in Channels : \A p \in Positions(ch) : PartFits(ch, p)',
         ~contested' => Calm'
  PROVE  CalmInv'
BY DEF CalmInv, Calm, AllComplete, StatusFits, DecisionFits, ThreadFits, Answers, StoreFits,
       PartFits, RowCountExact, OnePageInFlight

\* A step that leaves the stores and the row counts alone.
LEMMA StoresKept ==
  ASSUME CalmInv, UNCHANGED saved, job'.rows = job.rows, ~contested' => ~contested /\ Calm' 
  PROVE  CalmInv'
BY CalmParts, CalmPartsNext DEF saved, PartFits

LEMMA StoresStillFit ==
  ASSUME Calm, UNCHANGED saved, job'.rows = job.rows
  PROVE  \A ch \in Channels : StoreFits(ch)'
BY DEF Calm, StoreFits, Saved, saved

\* No run is left: nothing is asked but of a job shown as COMPLETED.
LEMMA CalmIdle ==
  ASSUME CalmInv, UNCHANGED saved, job'.rows = job.rows, ~contested' => ~contested,
         \A l \in Runs : ~Alive(l)',
         ~contested /\ job'.status = "COMPLETED" => AllComplete
  PROVE  CalmInv'
<1> SUFFICES ASSUME ~contested' PROVE Calm'
  BY StoresKept
<1>1. Calm BY CalmParts
<1>2. StatusFits' BY <1>1 DEF Calm, StatusFits, AllComplete, saved
<1>3. DecisionFits' /\ \A l \in Runs, ch \in Channels : ThreadFits(l, ch)'
  BY DEF DecisionFits, ThreadFits, Answers, At, Active
<1> QED BY <1>1, <1>2, <1>3, StoresStillFit DEF Calm

\* A step of the API that changes no run.
LEMMA CalmApi ==
  ASSUME CalmInv, UNCHANGED <<run, saved>>, job'.rows = job.rows, ~contested' => ~contested,
         \/ ~contested' => \A l \in Runs : ~Alive(l)
         \/ Signalled => Signalled',
         job'.status = "COMPLETED" => job.status = "COMPLETED"
  PROVE  CalmInv'
<1> SUFFICES ASSUME ~contested' PROVE Calm'
  BY StoresKept
<1>1. ~contested /\ Calm BY CalmParts
<1>2. \A l \in Runs : Alive(l)' <=> Alive(l) BY DEF Alive
<1>3. StatusFits' BY <1>1 DEF Calm, StatusFits, AllComplete, saved
<1>4. DecisionFits' BY <1>1, <1>2 DEF Calm, DecisionFits, AllComplete, At, saved
<1>5. ASSUME NEW l \in Runs, NEW ch \in Channels PROVE ThreadFits(l, ch)'
  <2>1. ThreadFits(l, ch) BY <1>1 DEF Calm
  <2>2. ~Alive(l) \/ (Signalled => Signalled') OBVIOUS
  <2>3. (Active(l, ch)' <=> Active(l, ch)) /\ Cursor(l, ch)' = Cursor(l, ch)
    BY <1>2 DEF Active, Cursor
  <2>4. /\ (Answers(l)' <=> Answers(l)) /\ (At(l, "work")' <=> At(l, "work"))
        /\ ThreadAt(l, ch, "failed")' <=> ThreadAt(l, ch, "failed")
        /\ ckpt' = ckpt
    BY <1>2 DEF Answers, At, ThreadAt, saved
  <2>5. CASE Alive(l)
    BY <2>1, <2>2, <2>3, <2>4, <2>5 DEF ThreadFits
  <2>6. CASE ~Alive(l) BY <1>2, <2>6 DEF ThreadFits, Answers, Active, At
  <2> QED BY <2>5, <2>6
<1> QED BY <1>1, <1>3, <1>4, <1>5, StoresStillFit DEF Calm

\* A run moves with its threads as they are: it may make its job RUNNING, goes
\* on answering for its channels, and decides on COMPLETED when all are.
LEMMA CalmMoves ==
  ASSUME OwnerInv, CalmInv, UNCHANGED saved, job'.rows = job.rows, contested' = contested,
         NEW l \in Runs, Alive(l), Alive(l)', run'[l].thread = run[l].thread,
         \A k \in Runs : k # l => run'[k] = run[k],
         Signalled => Signalled', job'.status \in {job.status, "RUNNING"},
         At(l, "work") => \A ch \in Channels : ~Active(l, ch),
         ~At(l, "work")', Answers(l)' => Answers(l),
         ~contested /\ run'[l].pc = "settle" /\ run'[l].target = "COMPLETED" => AllComplete
  PROVE  CalmInv'
<1> SUFFICES ASSUME ~contested' PROVE Calm'
  BY StoresKept
<1>1. ~contested /\ Calm /\ Solo BY CalmParts, OwnerParts DEF Owner
<1>2. ckpt' = ckpt BY DEF saved
<1>3. StatusFits' BY <1>1, <1>2 DEF Calm, StatusFits, AllComplete
<1>4. \A k \in Runs : k # l => ~Alive(k)' BY <1>1 DEF Solo, Alive
<1>5. DecisionFits' BY <1>1, <1>2, <1>4 DEF DecisionFits, At, AllComplete
<1>6. ASSUME NEW k \in Runs, NEW ch \in Channels PROVE ThreadFits(k, ch)'
  <2>1. CASE k # l BY <1>4, <2>1 DEF ThreadFits, Answers, Active, At
  <2>2. CASE k = l
    <3>1. ThreadFits(l, ch) BY <1>1 DEF Calm
    <3>2. ~Active(l, ch) BY <3>1 DEF ThreadFits
    <3>3. ~Active(l, ch)' /\ (ThreadAt(l, ch, "failed")' <=> ThreadAt(l, ch, "failed"))
      BY <3>2 DEF Active, ThreadAt
    <3> QED BY <1>2, <2>2, <3>1, <3>2, <3>3 DEF ThreadFits
  <2> QED BY <2>1, <2>2
<1> QED BY <1>1, <1>3, <1>5, <1>6, StoresStillFit DEF Calm

\* The plan puts every channel that is not complete to work at its checkpoint.
LEMMA CalmPlan ==
  ASSUME TypeOK, OwnerInv, CalmInv, NEW l \in Runs, Plan(l)
  PROVE  CalmInv'
<1>0. /\ Alive(l) /\ Alive(l)' /\ run'[l].pc = "work"
      /\ \A ch \in Channels :
           /\ ckpt[ch].completed => run'[l].thread[ch].pc = "off"
           /\ ~ckpt[ch].completed => /\ run'[l].thread[ch].pc = "check"
                                     /\ run'[l].thread[ch].cursor = ckpt[ch].cursor
      /\ \A k \in Runs : k # l => run'[k] = run[k]
  BY TypeParts, Planned
<1>a. UNCHANGED saved /\ contested' = contested /\ job' = job BY DEF Plan, history
<1> SUFFICES ASSUME ~contested' PROVE Calm'
  BY <1>a, StoresKept
<1>1. ~contested /\ Calm /\ Solo BY <1>a, CalmParts, OwnerParts DEF Owner
<1>2. \A k \in Runs : Alive(k)' <=> Alive(k) BY <1>0 DEF Alive
<1>3. ckpt' = ckpt BY <1>a DEF saved
<1>5. StatusFits' BY <1>1, <1>3, <1>a DEF Calm, StatusFits, AllComplete
<1>6. \A k \in Runs : k # l => ~Alive(k)' BY <1>0, <1>1, <1>2 DEF Solo
<1>7. DecisionFits' BY <1>0, <1>6 DEF DecisionFits, At
<1>8. ASSUME NEW k \in Runs, NEW ch \in Channels PROVE ThreadFits(k, ch)'
  <2>1. CASE k # l BY <1>6, <2>1 DEF ThreadFits, Answers, Active, At
  <2>2. CASE k = l
    BY <1>0, <1>3, <2>2 DEF ThreadFits, Active, At, Cursor, Busy
  <2> QED BY <2>1, <2>2
<1> QED BY <1>1, <1>5, <1>7, <1>8, <1>a, StoresStillFit DEF Calm

\* A launch by who has the job.
LEMMA CalmLaunch ==
  ASSUME TypeOK, CalmInv, UNCHANGED saved, job' = job, contested' = contested,
         NEW l \in Runs, NEW size \in Sizes, Launch(l, size), ~contested => ~Working
  PROVE  CalmInv'
<1>1. /\ Alive(l)' /\ run'[l].pc = "load"
      /\ \A ch \in Channels : run'[l].thread[ch] = Off
      /\ \A k \in Runs : k # l => run'[k] = run[k]
  BY TypeParts, RunLaunched DEF RestOK
<1> SUFFICES ASSUME ~contested' PROVE Calm'
  BY StoresKept
<1>2. Calm BY CalmParts
<1>3. \A k \in Runs : k # l => ~Alive(k)' BY <1>1 DEF Working, Alive
<1>4. StatusFits' BY <1>2 DEF Calm, StatusFits, AllComplete, saved
<1>5. DecisionFits' BY <1>1, <1>3 DEF DecisionFits, At
<1>6. \A k \in Runs, ch \in Channels : ThreadFits(k, ch)'
  BY <1>1, <1>3 DEF ThreadFits, Answers, Active, At, Off, Busy
<1> QED BY <1>2, <1>4, <1>5, <1>6, StoresStillFit DEF Calm

\* A step of a thread: what is to be shown is about its own channel.
LEMMA CalmThread ==
  ASSUME TypeOK, OwnerInv, CalmInv, NEW l \in Runs, NEW ch \in Channels, ThreadStep(l, ch),
         \A p \in Positions(ch) : PartFits(ch, p)',
         ~contested /\ Calm => ThreadFits(l, ch)' /\ StoreFits(ch)'
  PROVE  CalmInv'
<1>0. RunOK /\ StoresOK /\ job \in Jobs BY TypeParts
<1>1. /\ Alive(l) /\ Alive(l)' /\ Active(l, ch)
      /\ run'[l].pc = run[l].pc /\ run'[l].target = run[l].target
      /\ \A c \in Channels : c # ch => run'[l].thread[c] = run[l].thread[c]
      /\ \A k \in Runs : k # l => run'[k] = run[k]
  BY <1>0, ThreadStepMoves
<1>2. /\ contested' = contested /\ events' = events
      /\ job'.status = job.status /\ job'.control = job.control
      /\ \A c \in Channels : c # ch => job'.rows[c] = job.rows[c]
  BY <1>0 DEF ThreadStep, CheckStop, LandPage, LoadPage, SavePage, ThreadFails, history, Jobs
<1>3. \A c \in Channels : c # ch =>
        ckpt'[c] = ckpt[c] /\ file'[c] = file[c] /\ table'[c] = table[c]
  <2>1. CASE SavePage(l, ch) BY <1>0, <2>1 DEF SavePage, StoresOK
  <2>2. CASE LandPage(l, ch) BY <1>0, <2>2 DEF LandPage, StoresOK
  <2>3. CASE LoadPage(l, ch) BY <1>0, <2>3 DEF LoadPage, StoresOK
  <2>4. CASE CheckStop(l, ch) \/ ThreadFails(l, ch)
    BY <2>4 DEF CheckStop, ThreadFails, saved
  <2> QED BY <2>1, <2>2, <2>3, <2>4 DEF ThreadStep
<1>4. \A c \in Channels : \A p \in Positions(c) : PartFits(c, p)'
  BY <1>3, CalmParts DEF PartFits
<1> SUFFICES ASSUME ~contested' PROVE Calm'
  BY <1>4, CalmPartsNext
<1>5. ~contested /\ Calm /\ Owner BY <1>2, CalmParts, OwnerParts
<1>6. \A k \in Runs : Alive(k)' <=> Alive(k) BY <1>1 DEF Alive
<1>7. \A k \in Runs : k # l => ~Alive(k)' BY <1>1, <1>5, <1>6 DEF Owner, Solo
<1>9. job'.status # "COMPLETED"
  BY <1>1, <1>2, <1>5 DEF Owner, Stopped, Working
<1>10. StatusFits' BY <1>9 DEF StatusFits
<1>11. ~ckpt[ch].completed BY <1>1, <1>5 DEF Calm, ThreadFits
<1>12. DecisionFits' BY <1>1, <1>5, <1>7, <1>11 DEF Calm, DecisionFits, At, AllComplete
<1>13. Signalled' <=> Signalled
  BY <1>2 DEF Signalled, CancelRequested, PauseRequested
<1>14. ASSUME NEW k \in Runs, NEW c \in Channels PROVE ThreadFits(k, c)'
  <2>1. CASE k # l BY <1>7, <2>1 DEF ThreadFits, Answers, Active, At
  <2>2. CASE k = l /\ c = ch BY <1>5, <2>2
  <2>3. CASE k = l /\ c # ch
    <3>1. ThreadFits(l, c) BY <1>5 DEF Calm
    <3> QED BY <1>1, <1>3, <1>13, <2>3, <3>1 DEF ThreadFits, Answers, Active, At, Cursor, ThreadAt
  <2> QED BY <2>1, <2>2, <2>3
<1>15. ASSUME NEW c \in Channels PROVE StoreFits(c)'
  <2>1. CASE c = ch BY <1>5, <2>1
  <2>2. CASE c # ch
    BY <1>2, <1>3, <1>5, <2>2 DEF Calm, StoreFits, Saved
  <2> QED BY <2>1, <2>2
<1> QED BY <1>10, <1>12, <1>14, <1>15 DEF Calm

\* A thread that looks for a stop, or fails.
LEMMA CalmStops ==
  ASSUME TypeOK, OwnerInv, CalmInv, NEW l \in Runs, NEW ch \in Channels,
         CheckStop(l, ch) \/ ThreadFails(l, ch)
  PROVE  CalmInv'
<1>0. RunOK /\ StoresOK BY TypeParts
<1>1. ThreadStep(l, ch) BY DEF ThreadStep
<1>2. /\ Alive(l) /\ Alive(l)' /\ Active(l, ch) /\ run'[l].pc = run[l].pc
      /\ ~SavePage(l, ch) /\ Active(l, ch)' => Cursor(l, ch)' = Cursor(l, ch)
  BY <1>0, <1>1, ThreadStepMoves
<1>3. job' = job /\ events' = events /\ ckpt' = ckpt /\ file' = file /\ table' = table
  BY DEF CheckStop, ThreadFails, saved
<1>4. PICK pc \in {"land", "done", "failed"} :
        /\ ThreadGoes(l, ch, pc) \/ ThreadEnds(l, ch, pc)
        /\ pc = "land" => CheckStop(l, ch)
        /\ pc = "done" => Signalled
  BY DEF CheckStop, ThreadFails, Signalled
<1>5. run'[l].thread[ch].pc = pc BY <1>0, <1>2, <1>4, ThreadIsAt DEF Busy
<1>6. Active(l, ch)' => Cursor(l, ch)' = Cursor(l, ch)
  BY <1>2, <1>4, <1>5 DEF Active, Busy, CheckStop, SavePage, ThreadAt
<1>7. Signalled' <=> Signalled
  BY <1>3 DEF Signalled, CancelRequested, PauseRequested
<1>8. ASSUME Calm PROVE ThreadFits(l, ch)' /\ StoreFits(ch)'
  <2>1. ThreadFits(l, ch) BY <1>8 DEF Calm
  <2>2. ThreadFits(l, ch)'
    BY <1>2, <1>3, <1>4, <1>5, <1>6, <1>7, <2>1 DEF ThreadFits, Answers, Active, ThreadAt, At, Busy
  <2> QED BY <1>3, <1>8, <2>2 DEF Calm, StoreFits, Saved
<1>9. \A p \in Positions(ch) : PartFits(ch, p)' BY <1>3, CalmParts DEF PartFits
<1> QED BY <1>1, <1>8, <1>9, CalmThread

\* A thread that stores its page: under its checkpoint's name.
LEMMA CalmLand ==
  ASSUME TypeOK, OwnerInv, CalmInv, NEW l \in Runs, NEW ch \in Channels, LandPage(l, ch)
  PROVE  CalmInv'
<1>0. RunOK /\ StoresOK BY TypeParts
<1>1. ThreadStep(l, ch) /\ ~SavePage(l, ch) BY DEF ThreadStep, LandPage, SavePage, ThreadAt
<1>2. /\ Alive(l) /\ Alive(l)' /\ Active(l, ch) /\ run'[l].pc = run[l].pc
      /\ Active(l, ch)' => Cursor(l, ch)' = Cursor(l, ch)
  BY <1>0, <1>1, ThreadStepMoves
<1>3. job' = job /\ ckpt' = ckpt /\ table' = table BY DEF LandPage
<1>4. run'[l].thread[ch].pc = "load" BY <1>0, <1>2, ThreadIsAt DEF LandPage, Busy
<1>5. /\ PageEnd(l, ch) <= Cursor(l, ch) + run[l].size /\ run[l].size \in Sizes
  BY <1>0, <1>2, PageEndType, RunIsRecord DEF RunRecords
<1>6. ASSUME NEW p \in Positions(ch) PROVE PartFits(ch, p)'
  BY <1>5, CalmParts, PartsAfterLanding DEF PartFits
<1>7. ASSUME Calm PROVE ThreadFits(l, ch)' /\ StoreFits(ch)'
  <2>1. ThreadFits(l, ch) /\ StoreFits(ch) BY <1>7 DEF Calm
  <2>2. ThreadFits(l, ch)'
    BY <1>2, <1>3, <1>4, <2>1 DEF ThreadFits, Active, At, Busy
  <2>3. Saved(ch) = Cursor(l, ch) /\ Saved(ch)' = Saved(ch) BY <1>2, <1>3, <2>1 DEF ThreadFits, Saved
  <2>4. ASSUME NEW p \in Positions(ch), p > Saved(ch) PROVE file'[ch][p] = 0
    <3>1. p # Cursor(l, ch) BY <2>3, <2>4, Numbers
    <3> QED BY <2>1, <2>4, <3>1, PartsAfterLanding DEF StoreFits
  <2> QED BY <1>3, <2>1, <2>2, <2>3, <2>4 DEF StoreFits
<1> QED BY <1>1, <1>6, <1>7, CalmThread

\* A thread whose part is loaded: at most a page beyond the checkpoint.
LEMMA CalmLoad ==
  ASSUME TypeOK, OwnerInv, CalmInv, NEW l \in Runs, NEW ch \in Channels, LoadPage(l, ch)
  PROVE  CalmInv'
<1>0. RunOK /\ StoresOK BY TypeParts
<1>1. ThreadStep(l, ch) /\ ~SavePage(l, ch) BY DEF ThreadStep, LoadPage, SavePage, ThreadAt
<1>2. /\ Alive(l) /\ Alive(l)' /\ Active(l, ch) /\ run'[l].pc = run[l].pc
      /\ Active(l, ch)' => Cursor(l, ch)' = Cursor(l, ch)
  BY <1>0, <1>1, ThreadStepMoves
<1>3. job' = job /\ ckpt' = ckpt /\ file' = file BY DEF LoadPage
<1>4. run'[l].thread[ch].pc = "save" BY <1>0, <1>2, ThreadIsAt DEF LoadPage, Busy
<1>5. \A p \in Positions(ch) : PartFits(ch, p)' BY <1>3, CalmParts DEF PartFits
<1>6. ASSUME Calm PROVE ThreadFits(l, ch)' /\ StoreFits(ch)'
  <2>1. ThreadFits(l, ch) /\ StoreFits(ch) BY <1>6 DEF Calm
  <2>2. ThreadFits(l, ch)'
    BY <1>2, <1>3, <1>4, <2>1 DEF ThreadFits, Active, At, Busy
  <2>3. Saved(ch) = Cursor(l, ch) /\ Saved(ch)' = Saved(ch) BY <1>2, <1>3, <2>1 DEF ThreadFits, Saved
  <2>4. Cursor(l, ch) \in Positions(ch) /\ Cursor(l, ch) \in Nat
    BY <1>0, <1>2, PageEndType, Numbers
  <2>5. PICK size \in Sizes : file[ch][Cursor(l, ch)] <= Cursor(l, ch) + size
    BY <2>4, CalmParts DEF PartFits
  <2>6. file[ch][Cursor(l, ch)] \in Nat /\ size \in Nat BY <1>0, <2>4, Numbers DEF StoresOK
  <2>7. \A p \in PartRows(l, ch) : p <= Saved(ch) + size
    BY <2>3, <2>4, <2>5, <2>6 DEF PartRows, PartOf
  <2>8. table'[ch] = table[ch] \cup PartRows(l, ch) BY <1>0 DEF LoadPage, StoresOK
  <2> QED BY <1>3, <2>1, <2>2, <2>3, <2>7, <2>8 DEF StoreFits
<1> QED BY <1>1, <1>5, <1>6, CalmThread

\* A thread that saves: checkpoint and row count move by the same page.
LEMMA CalmSave ==
  ASSUME TypeOK, OwnerInv, CalmInv, NEW l \in Runs, NEW ch \in Channels, SavePage(l, ch)
  PROVE  CalmInv'
<1> DEFINE p == Cursor(l, ch)
           e == PageEnd(l, ch)
<1>0. RunOK /\ StoresOK /\ job \in Jobs BY TypeParts
<1>1. ThreadStep(l, ch) BY DEF ThreadStep
<1>2. /\ Alive(l) /\ Alive(l)' /\ Active(l, ch) /\ run'[l].pc = run[l].pc
      /\ Active(l, ch)' => Cursor(l, ch)' = e /\ HasMore(l, ch)
  BY <1>0, <1>1, ThreadStepMoves
<1>3. /\ p \in Nat /\ e \in Nat /\ p <= e /\ e \in Positions(ch) /\ (~HasMore(l, ch) => e = Length[ch])
  BY <1>0, <1>2, PageEndType, Numbers
<1>4. table' = table /\ file' = file BY DEF SavePage
<1>5. /\ HasMore(l, ch) => ckpt'[ch] = [cursor |-> e, completed |-> FALSE]
      /\ ~HasMore(l, ch) => ckpt'[ch] = [cursor |-> 0, completed |-> TRUE]
      /\ job'.rows[ch] = job.rows[ch] + (e - p)
  BY <1>0 DEF SavePage, StoresOK, Jobs
<1>6. Saved(ch)' = e BY <1>3, <1>5 DEF Saved
<1>7. HasMore(l, ch) => Active(l, ch)'
  <2> SUFFICES ASSUME HasMore(l, ch) PROVE Active(l, ch)'
    OBVIOUS
  <2> DEFINE t == [Off EXCEPT !.pc = "check", !.cursor = e]
  <2>1. run' = [run EXCEPT ![l].thread[ch] = t] BY DEF SavePage
  <2> HIDE DEF e
  <2>2. t \in Threads /\ t.cursor = e /\ t.pc = "check" BY <1>3 DEF Off, Threads, Busy
  <2> HIDE DEF t
  <2>3. run'[l].thread[ch] = t BY <1>0, <1>2, <1>3, <2>1, <2>2, ThreadMoves
  <2> QED BY <1>2, <2>2, <2>3 DEF Active, Busy
<1>8. \A q \in Positions(ch) : PartFits(ch, q)' BY <1>4, CalmParts DEF PartFits
<1>9. ASSUME Calm PROVE ThreadFits(l, ch)' /\ StoreFits(ch)'
  <2>1. ThreadFits(l, ch) /\ StoreFits(ch) BY <1>9 DEF Calm
  <2>2. ThreadFits(l, ch)' BY <1>2, <1>5, <1>7, <2>1 DEF ThreadFits, At
  <2>3. Saved(ch) = p BY <1>2, <2>1 DEF ThreadFits, Saved
  <2>4. job'.rows[ch] = e BY <1>3, <1>5, <2>1, <2>3 DEF StoreFits
  <2>5. ASSUME NEW q \in table[ch] PROVE \E size \in Sizes : q <= e + size
    <3>1. PICK size \in Sizes : q <= p + size BY <2>1, <2>3, <2>5 DEF StoreFits
    <3>2. q \in Nat /\ size \in Nat BY <1>0, Numbers DEF StoresOK
    <3> QED BY <1>3, <3>1, <3>2
  <2>6. ASSUME NEW q \in Positions(ch), q > e PROVE file[ch][q] = 0
    <3>1. q > p BY <1>3, <2>6, Numbers
    <3> QED BY <2>1, <2>3, <3>1 DEF StoreFits
  <2> QED BY <1>4, <1>6, <2>2, <2>4, <2>5, <2>6 DEF StoreFits
<1> QED BY <1>1, <1>8, <1>9, CalmThread

\* A run that ends, and what it may have written.
LEMMA CalmEnds ==
  ASSUME TypeOK, OwnerInv, CalmInv, UNCHANGED saved, job'.rows = job.rows, contested' = contested,
         NEW l \in Runs, Alive(l), Ends(l),
         ~contested /\ job'.status = "COMPLETED" => job.status = "COMPLETED" \/ AllComplete
  PROVE  CalmInv'
<1>1. ~Alive(l)' /\ \A k \in Runs : k # l => run'[k] = run[k] BY TypeParts, RunEnds
<1>2. ASSUME ~contested PROVE \A k \in Runs : ~Alive(k)'
  BY <1>1, <1>2, OwnerParts DEF Owner, Solo, Alive
<1>3. ~contested /\ job'.status = "COMPLETED" => AllComplete
  BY CalmParts DEF Calm, StatusFits
<1>4. CASE ~contested BY <1>2, <1>3, <1>4, CalmIdle
<1>5. CASE contested BY <1>5, StoresKept
<1> QED BY <1>4, <1>5

LEMMA CalmRun ==
  ASSUME TypeOK, RunHasRow, OwnerInv, CalmInv, NEW l \in Runs, RunStep(l)
  PROVE  CalmInv'
<1>0. RunOK /\ job \in Jobs /\ StoresOK /\ RestOK BY TypeParts
<1>b. Alive(l) => Exists BY DEF RunHasRow, Working
<1> USE DEF history
<1>s. events' = events /\ job'.control = job.control => (Signalled' <=> Signalled)
  BY DEF Signalled, CancelRequested, PauseRequested
<1>1. CASE Load(l) \/ Begin(l) \/ Claim(l)
  <2>1. /\ Alive(l) /\ UNCHANGED saved /\ contested' = contested /\ events' = events
        /\ job'.rows = job.rows /\ job'.control = job.control
        /\ job'.status \in {job.status, "RUNNING"} /\ ~At(l, "work")
    BY <1>0, <1>1 DEF Load, Begin, Claim, At, WriteStatus, Jobs
  <2>2. PICK s \in {"begin", "claim", "plan"} : Goes(l, s)
    BY <1>1 DEF Load, Begin, Claim
  <2>3. /\ Alive(l)' /\ run'[l].pc = s /\ run'[l].thread = run[l].thread
        /\ \A k \in Runs : k # l => run'[k] = run[k]
    BY <1>0, <2>1, <2>2, Moves DEF Stages
  <2>4. ~At(l, "work")' /\ ~Answers(l)' BY <2>3 DEF At, Answers
  <2> QED BY <1>s, <2>1, <2>3, <2>4, CalmMoves
<1>2. CASE Plan(l) BY <1>2, CalmPlan
<1>3. ASSUME NEW ch \in Channels, ThreadStep(l, ch) PROVE CalmInv'
  BY <1>3, CalmStops, CalmLand, CalmLoad, CalmSave DEF ThreadStep
<1>4. CASE ReadStatus(l)
  <2>1. /\ At(l, "work") /\ Alive(l) /\ UNCHANGED saved /\ contested' = contested
        /\ job' = job /\ events' = events
        /\ \A ch \in Channels : ~Active(l, ch)
    BY <1>4 DEF ReadStatus, At
  <2>2. /\ Alive(l)' /\ run'[l].pc = "cancel" /\ run'[l].thread = run[l].thread
        /\ \A k \in Runs : k # l => run'[k] = run[k]
    BY <1>0, <1>4, <1>b, <2>1, StatusRead
  <2>3. ~At(l, "work")' /\ Answers(l) BY <2>1, <2>2 DEF At, Answers
  <2> QED BY <1>s, <2>1, <2>2, <2>3, CalmMoves
<1>5. CASE ReadCancel(l)
  <2>1. /\ At(l, "cancel") /\ ~At(l, "work") /\ UNCHANGED saved /\ contested' = contested
        /\ job' = job /\ events' = events
    BY <1>5 DEF ReadCancel, At
  <2>2. /\ Alive(l) /\ Alive(l)' /\ run'[l].thread = run[l].thread
        /\ \/ run'[l].pc = "settle" /\ run'[l].target = "CANCELLED"
           \/ run'[l].pc = "pause"
        /\ \A k \in Runs : k # l => run'[k] = run[k]
    BY <1>0, <1>5, CancelRead
  <2>3. ~At(l, "work")' /\ Answers(l) BY <2>1, <2>2 DEF At, Answers
  <2> QED BY <1>s, <2>1, <2>2, <2>3, CalmMoves
<1>6. CASE ReadPause(l)
  <2>1. /\ At(l, "pause") /\ ~At(l, "work") /\ UNCHANGED saved /\ contested' = contested
        /\ job' = job /\ events' = events
    BY <1>6 DEF ReadPause, At
  <2>2. /\ Alive(l) /\ Alive(l)' /\ run'[l].pc = "settle" /\ run'[l].thread = run[l].thread
        /\ run'[l].target = Verdict({ch \in Channels : ThreadAt(l, ch, "failed")})
        /\ \A k \in Runs : k # l => run'[k] = run[k]
    BY <1>0, <1>6, PauseRead
  <2>3. ~At(l, "work")' /\ ~Answers(l)' BY <2>2 DEF At, Answers
  <2>4. ASSUME ~contested, run'[l].target = "COMPLETED" PROVE AllComplete
    <3>1. ~PauseRequested /\ \A ch \in Channels : ~ThreadAt(l, ch, "failed")
      BY <2>2, <2>4 DEF Verdict
    <3>2. ~Signalled
      BY <1>0, <3>1 DEF Signalled, PauseRequested, CancelRequested, RestOK
    <3>3. \A ch \in Channels : ThreadFits(l, ch) BY <2>4, CalmParts DEF Calm
    <3> QED BY <2>1, <3>1, <3>2, <3>3 DEF ThreadFits, Answers, AllComplete
  <2> QED BY <1>s, <2>1, <2>2, <2>3, <2>4, CalmMoves
<1>7. CASE Fail(l)
  <2>1. /\ Alive(l) /\ ~At(l, "work") /\ UNCHANGED saved /\ contested' = contested
        /\ job' = job /\ events' = events
    BY <1>7 DEF Fail, At
  <2>2. /\ Alive(l)' /\ run'[l].pc = "except" /\ run'[l].thread = run[l].thread
        /\ \A k \in Runs : k # l => run'[k] = run[k]
    BY <1>0, <1>7, <1>b, <2>1, Failed
  <2>3. ~At(l, "work")' /\ ~Answers(l)' BY <2>2 DEF At, Answers
  <2> QED BY <1>s, <2>1, <2>2, <2>3, CalmMoves
<1>8. CASE Settle(l)
  <2>1. /\ At(l, "settle") /\ Alive(l) /\ Ends(l) /\ UNCHANGED saved /\ contested' = contested
    BY <1>8 DEF Settle, At
  <2>2. job'.rows = job.rows /\ job'.status \in {job.status, run[l].target}
    BY <1>0, <1>8 DEF Settle, WriteStatus, Jobs
  <2>3. ~contested /\ run[l].target = "COMPLETED" => AllComplete
    BY <2>1, CalmParts DEF Calm, DecisionFits
  <2> QED BY <2>1, <2>2, <2>3, CalmEnds
<1>9. CASE HandleException(l) \/ SwallowException(l)
  <2>1. /\ Alive(l) /\ Ends(l) /\ UNCHANGED saved /\ contested' = contested
    BY <1>9 DEF HandleException, SwallowException, At
  <2>2. job'.rows = job.rows /\ job'.status \in {job.status, "FAILED"}
    BY <1>0, <1>9 DEF HandleException, SwallowException, WriteStatus, Jobs
  <2> QED BY <2>1, <2>2, CalmEnds
<1> QED BY <1>1, <1>2, <1>3, <1>4, <1>5, <1>6, <1>7, <1>8, <1>9 DEF RunStep

LEMMA CalmRequest ==
  ASSUME TypeOK, RunHasRow, OwnerInv, CalmInv, NEW c \in Clients, Ask(c) \/ Answer(c)
  PROVE  CalmInv'
<1>0. RunOK /\ job \in Jobs /\ StoresOK /\ RestOK BY TypeParts
<1> USE DEF history
<1>s. events' = events /\ job'.control = job.control => (Signalled' <=> Signalled)
  BY DEF Signalled, CancelRequested, PauseRequested
<1>1. CASE Start(c) \/ Cancel(c) \/ Resume(c)
  <2>1. /\ UNCHANGED <<run, saved>> /\ events' = events
        /\ job'.rows = job.rows /\ job'.status # "COMPLETED" /\ job'.control = job.control
    BY <1>0, <1>1 DEF Start, Cancel, Resume, WriteStatus, Jobs
  <2>2. ~contested' => ~contested BY <1>1 DEF Start, Cancel, Resume, ContestedIf
  <2> QED BY <1>s, <2>1, <2>2, CalmApi
<1>2. CASE RequestPause(c) \/ RequestResume(c) \/ RequestCancel(c) \/ RequestFails(c)
  <2>1. UNCHANGED <<run, saved>> /\ events' = events /\ job' = job /\ contested' = contested
    BY <1>2 DEF RequestPause, RequestResume, RequestCancel, RequestFails
  <2> QED BY <1>s, <2>1, CalmApi
<1>3. CASE LaunchStarted(c) \/ LaunchResumed(c)
  <2>1. Pending(c) /\ job' = job /\ contested' = contested /\ UNCHANGED saved
    BY <1>3 DEF LaunchStarted, LaunchResumed, Pending
  <2>2. PICK l \in Runs, size \in Sizes : Launch(l, size)
    BY <1>3, Numbers DEF LaunchStarted, LaunchResumed
  <2>3. ~contested => ~Working BY <2>1, OwnerParts DEF Owner
  <2> QED BY <2>1, <2>2, <2>3, CalmLaunch
<1>4. CASE SetPauseEvent(c) \/ SetCancelEvents(c)
  <2>1. UNCHANGED <<run, saved>> /\ job' = job /\ contested' = contested
    BY <1>4 DEF SetPauseEvent, SetCancelEvents
  <2>2. Signalled' BY <1>4 DEF SetPauseEvent, SetCancelEvents, Signalled, PauseRequested
  <2> QED BY <2>1, <2>2, CalmApi
<1>5. CASE StorePause(c) \/ StoreCancel(c)
  <2>1. /\ UNCHANGED <<run, saved>> /\ contested' = contested
        /\ job'.rows = job.rows /\ job'.status = job.status
    BY <1>0, <1>5 DEF StorePause, StoreCancel, Jobs
  <2>2. Signalled' BY <1>0, <1>5 DEF StorePause, StoreCancel, Signalled, PauseRequested, Jobs
  <2> QED BY <2>1, <2>2, CalmApi
<1>6. CASE ClearEvents(c) \/ ClearControl(c)
  <2>1. /\ UNCHANGED <<run, saved>>
        /\ job'.rows = job.rows /\ job'.status = job.status
    BY <1>0, <1>6 DEF ClearEvents, ClearControl, Jobs
  <2>2. ~contested' => ~contested /\ \A l \in Runs : ~Alive(l)
    BY <1>6 DEF ClearEvents, ClearControl, ContestedIf, Working
  <2> QED BY <2>1, <2>2, CalmApi
<1> QED BY <1>1, <1>2, <1>3, <1>4, <1>5, <1>6 DEF Ask, Answer

LEMMA CalmSweep ==
  ASSUME TypeOK, RunHasRow, OwnerInv, CalmInv, Sweep \/ Crash \/ Restart
  PROVE  CalmInv'
<1>0. RunOK /\ job \in Jobs /\ StoresOK /\ RestOK BY TypeParts
<1> USE DEF history
<1>s. events' = events /\ job'.control = job.control => (Signalled' <=> Signalled)
  BY DEF Signalled, CancelRequested, PauseRequested
<1>1. CASE TakeOver
  <2>1. /\ UNCHANGED <<run, saved>> /\ events' = events
        /\ job'.rows = job.rows /\ job'.status = job.status /\ job'.control = job.control
    BY <1>0, <1>1 DEF TakeOver, Jobs
  <2>2. ~contested' => ~contested BY <1>1 DEF TakeOver, ContestedIf
  <2> QED BY <1>s, <2>1, <2>2, CalmApi
<1>2. CASE ReadOrphan \/ SweepFails \/ Restart
  <2>1. UNCHANGED <<run, saved>> /\ events' = events /\ job' = job /\ contested' = contested
    BY <1>2 DEF ReadOrphan, SweepFails, Restart
  <2> QED BY <1>s, <2>1, CalmApi
<1>3. CASE Honour
  <2>1. /\ UNCHANGED <<run, saved>> /\ events' = events /\ contested' = contested
        /\ job'.rows = job.rows /\ job'.status # "COMPLETED" /\ job'.control = job.control
    BY <1>0, <1>3 DEF Honour, WriteStatus, Jobs
  <2> QED BY <1>s, <2>1, CalmApi
<1>4. CASE ClearHonoured
  <2>1. /\ UNCHANGED <<run, saved>> /\ contested' = contested
        /\ job'.rows = job.rows /\ job'.status = job.status
    BY <1>0, <1>4 DEF ClearHonoured, Jobs
  <2>2. ~contested' => \A l \in Runs : ~Alive(l)
    BY <1>4, <2>1, OwnerParts DEF ClearHonoured, Owner, Working
  <2> QED BY <2>1, <2>2, CalmApi
<1>5. CASE LaunchOrphan
  <2>1. PICK l \in Runs : Launch(l, DefaultSize) BY <1>5 DEF LaunchOrphan
  <2>2. ~contested => ~Working BY <1>5, OwnerParts DEF LaunchOrphan, Owner
  <2> QED BY <1>5, <2>1, <2>2, CalmLaunch, Numbers DEF LaunchOrphan
<1>6. CASE Crash
  <2>1. /\ \A k \in Runs : ~Alive(k)'
        /\ job'.rows = job.rows /\ job'.status = job.status
        /\ UNCHANGED saved /\ contested' = contested
    BY <1>0, <1>6 DEF Crash, Alive, Jobs
  <2>2. ~contested /\ job'.status = "COMPLETED" => AllComplete
    BY <2>1, CalmParts DEF Calm, StatusFits
  <2> QED BY <2>1, <2>2, CalmIdle
<1> QED BY <1>1, <1>2, <1>3, <1>4, <1>5, <1>6 DEF Sweep

LEMMA CalmNext ==
  ASSUME TypeOK, RunHasRow, OwnerInv, CalmInv, [Next]_vars
  PROVE  CalmInv'
<1>1. CASE UNCHANGED vars
  <2>1. UNCHANGED <<run, saved>> /\ job' = job /\ contested' = contested /\ events' = events
    BY <1>1 DEF vars, saved
  <2>2. Signalled' <=> Signalled
    BY <2>1 DEF Signalled, CancelRequested, PauseRequested
  <2> QED BY <2>1, <2>2, CalmApi
<1> QED BY <1>1, CalmRun, CalmRequest, CalmSweep DEF Next

LEMMA CalmFirst == Init => CalmInv
<1> SUFFICES ASSUME Init PROVE CalmInv
  OBVIOUS
<1>1. \A l \in Runs : ~Alive(l) BY DEF Init, Alive
<1>2. \A ch \in Channels : StoreFits(ch) /\ \A p \in Positions(ch) : PartFits(ch, p)
  BY Numbers DEF Init, NoRow, StoreFits, Saved, PartFits
<1>3. StatusFits BY DEF Init, NoRow, StatusFits
<1> QED BY <1>1, <1>2, <1>3, CalmParts DEF Calm, DecisionFits, ThreadFits, Answers, At, Active

\* CalmInv is an invariant: what three of the four theorems below are instances
\* of.
THEOREM CalmCorrect == Spec => []CalmInv
BY CalmFirst, TypeCorrect, OwnerCorrect, CalmNext, PTL DEF Spec

\* While nobody takes the job up over somebody else, the row count has of every
\* channel exactly what its checkpoint says, whatever the interleaving of the
\* channel threads that add to it.
THEOREM RowsExact == Spec => []RowCountExact
<1>1. CalmInv => RowCountExact BY DEF CalmInv, RowCountExact
<1> QED BY <1>1, CalmCorrect, PTL

\* While nobody takes the job up over somebody else, COMPLETED is written when
\* every channel is complete: a channel that failed, or stopped for a signal, is
\* never hidden behind it.
THEOREM CompletedComplete == Spec => []CompletedIsComplete
<1>1. CalmInv => CompletedIsComplete BY DEF CalmInv, CompletedIsComplete
<1> QED BY <1>1, CalmCorrect, PTL

\* While nobody takes the job up over somebody else, a replay is of at most one
\* page of each channel.
THEOREM OnePage == Spec => []OnePageInFlight
<1>1. CalmInv => OnePageInFlight BY DEF CalmInv, OnePageInFlight
<1> QED BY <1>1, CalmCorrect, PTL

\* While nobody takes the job up over somebody else, no channel thread is at work
\* behind a job shown as stopped.
THEOREM SettledQuiet == Spec => []SettledIsQuiet
<1>1. OwnerInv => SettledIsQuiet BY DEF OwnerInv, SettledIsQuiet, Working, Active
<1> QED BY <1>1, OwnerCorrect, PTL
=============================================================================
